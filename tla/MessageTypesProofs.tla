------------------------- MODULE MessageTypesProofs -------------------------
(***************************************************************************)
(* For any names, any number of registrations, messages and reads, and a   *)
(* connection that may be lost at any time: what MessageTypes says of the  *)
(* ids of types, of the agreement of the ends, and of reading by type.     *)
(*                                                                         *)
(* The argument goes in layers, each resting on those before: the shape of *)
(* the state; where each registration is (Places); the ids (Ids); that the *)
(* ends agree (Agree); the data under their ids (Stored); and the readers  *)
(* that wait for them (Reading).  The last three are for applications that *)
(* are careful.  Inv puts them together.                                   *)
(***************************************************************************)
EXTENDS MessageTypes, FiniteSetTheorems, SequenceTheorems, WellFoundedInduction, TLAPS

----------------------------------------------------------------------------
(* The shape of the state.  The actions keep functions and sequences of   *)
(* records; IsPartial is a Map of the code.                                *)

Partial(S, T) == UNION {[D -> T] : D \in SUBSET S}
IsPartial(f, S, T) == DOMAIN f \subseteq S /\ f \in [DOMAIN f -> T]
EntryT == [ids : Seq(Nat), pending : BOOLEAN]
RequestT == [type : {"request"}, names : SUBSET Names]
ResponseT == [type : {"response"}, accept : Partial(Names, Nat), reject : SUBSET Names]
DataT == [type : {"data"}, id : Nat, name : Names, serial : Nat]
MessageT == RequestT \cup ResponseT \cup DataT
HandlerT == [names : SUBSET Names, accept : Partial(Names, Nat), reject : SUBSET Names]
ChunkT == [active : Nat, chain : Nat, name : Names, serial : Nat]
ReadT == [state : {"none", "waiting", "woken"}, under : SUBSET Nat, got : Nat]

Shapes ==
    /\ careful \in BOOLEAN /\ reader \in Ends /\ closed \in [Ends -> BOOLEAN]
    /\ types = [e \in Ends |-> types[e]] /\ names = [e \in Ends |-> names[e]]
    /\ \A e \in Ends : IsPartial(types[e], Names, EntryT) /\ IsPartial(names[e], Nat, Names)
    /\ nextId \in [Ends -> Nat]
    /\ handlers \in [Ends -> SUBSET HandlerT]
    /\ wire \in [Ends -> Seq(MessageT)]
    /\ chunks \in Seq(ChunkT) /\ chained \subseteq Nat
    /\ IsPartial(remapping, Nat, Nat)
    /\ reads \in [Filters -> ReadT]
    /\ requested \in Nat /\ written \in Nat /\ called \in Nat
    /\ faults \subseteq {"ids", "chain"}

----------------------------------------------------------------------------
(* What the operators of the model return. *)

(* A function on a part of S is a function on some subset of S. *)
LEMMA PartialFact == ASSUME NEW S, NEW T, NEW f PROVE f \in Partial(S, T) <=> IsPartial(f, S, T)
BY DEF Partial, IsPartial

(* The empty function, an empty Map of the code, is one. *)
LEMMA EmptyFact == ASSUME NEW S, NEW T PROVE IsPartial(<<>>, S, T) /\ DOMAIN <<>> = {}
BY DEF IsPartial

(* Map.set keeps the types of the keys and the values. *)
LEMMA PutFact ==
    ASSUME NEW S, NEW T, NEW f, IsPartial(f, S, T), NEW x \in S, NEW v \in T
    PROVE  IsPartial(Put(f, x, v), S, T)
BY DEF Put, IsPartial

(* Each end is the peer of the other, and there is no third. *)
LEMMA PeerFact ==
    ASSUME NEW e \in Ends
    PROVE  /\ Peer(e) \in Ends /\ Peer(e) # e /\ Peer(Peer(e)) = e
           /\ \A x \in Ends : x = e \/ x = Peer(e)
BY DEF Peer, Ends

(* What RemoveAt leaves of a sequence, and where. *)
LEMMA RemoveAtFact ==
    ASSUME NEW S, NEW s \in Seq(S), NEW i \in DOMAIN s
    PROVE  /\ RemoveAt(s, i) \in Seq(S)
           /\ Len(RemoveAt(s, i)) = Len(s) - 1
           /\ \A j \in 1 .. (Len(s) - 1) : RemoveAt(s, i)[j] = IF j < i THEN s[j] ELSE s[j + 1]
<1> DEFINE f == SubSeq(s, 1, i - 1)
           g == SubSeq(s, i + 1, Len(s))
<1>1. i \in 1 .. Len(s) /\ Len(s) \in Nat
  BY LenProperties
<1>2. f \in Seq(S) /\ Len(f) = i - 1 /\ \A j \in 1 .. (i - 1) : f[j] = s[j]
  BY <1>1, SubSeqProperties
<1>3. g \in Seq(S) /\ Len(g) = Len(s) - i /\ \A j \in 1 .. (Len(s) - i) : g[j] = s[i + j]
  BY <1>1, SubSeqProperties
<1> HIDE DEF f, g
<1>4. /\ f \o g \in Seq(S) /\ Len(f \o g) = Len(f) + Len(g)
      /\ \A j \in 1 .. (Len(f) + Len(g)) : (f \o g)[j] = IF j <= Len(f) THEN f[j] ELSE g[j - Len(f)]
  BY <1>2, <1>3, ConcatProperties
<1>5. RemoveAt(s, i) = f \o g
  BY DEF RemoveAt, f, g
<1>6. ASSUME NEW j \in 1 .. (Len(s) - 1) PROVE (f \o g)[j] = IF j < i THEN s[j] ELSE s[j + 1]
  <2>1. CASE j < i
    <3>1. j \in 1 .. (i - 1) /\ j <= Len(f) /\ j \in 1 .. (Len(f) + Len(g))
      BY <1>1, <1>2, <1>3, <2>1
    <3> QED
      BY <1>2, <1>4, <2>1, <3>1
  <2>2. CASE ~(j < i)
    <3> DEFINE k == j - Len(f)
    <3>1. k \in 1 .. (Len(s) - i) /\ ~(j <= Len(f)) /\ j \in 1 .. (Len(f) + Len(g)) /\ i + k = j + 1
      BY <1>1, <1>2, <1>3, <2>2
    <3>2. (f \o g)[j] = g[k] /\ g[k] = s[i + k]
      BY <1>3, <1>4, <3>1
    <3> QED
      BY <2>2, <3>1, <3>2
  <2> QED
    BY <2>1, <2>2
<1>7. Len(f) + Len(g) = Len(s) - 1
  BY <1>1, <1>2, <1>3
<1> QED
  BY <1>4, <1>5, <1>6, <1>7

(* Sequences of one and of two elements. *)
LEMMA ShortFact ==
    ASSUME NEW S, NEW a \in S, NEW b \in S
    PROVE  /\ <<a>> \in Seq(S) /\ Len(<<a>>) = 1 /\ <<a>>[1] = a
           /\ <<a, b>> \in Seq(S) /\ Len(<<a, b>>) = 2 /\ <<a, b>>[1] = a /\ <<a, b>>[2] = b
OBVIOUS

(* A sequence of length two is made of its two elements. *)
LEMMA TwoFact == ASSUME NEW S, NEW s \in Seq(S), Len(s) = 2 PROVE s = <<s[1], s[2]>>
<1>1. s[1] \in S /\ s[2] \in S
  BY ElementOfSeq
<1> DEFINE t == <<s[1], s[2]>>
<1>2. t \in Seq(S) /\ Len(t) = 2 /\ t[1] = s[1] /\ t[2] = s[2]
  BY <1>1, ShortFact
<1> HIDE DEF t
<1>3. \A i \in 1 .. Len(s) : s[i] = t[i]
  BY <1>2
<1>4. s = t
  BY <1>2, <1>3, SeqEqual
<1> QED
  BY <1>4 DEF t

(* How a sequence of two comes about. *)
LEMMA PairFact ==
    ASSUME NEW S, NEW a \in S, NEW b \in S
    PROVE  <<a>> \o <<b>> = <<a, b>> /\ Append(<<a>>, b) = <<a, b>>
<1> DEFINE s == <<a>> \o <<b>>
           t == Append(<<a>>, b)
<1>1. /\ s \in Seq(S) /\ Len(s) = 1 + 1
      /\ \A j \in 1 .. (1 + 1) : s[j] = IF j <= 1 THEN <<a>>[j] ELSE <<b>>[j - 1]
  BY ConcatProperties, ShortFact
<1>2. s[1] = a /\ s[2] = b
  BY <1>1, ShortFact
<1>3. t \in Seq(S) /\ Len(t) = 2 /\ t[1] = a /\ t[2] = b
  BY AppendProperties, ShortFact
<1> HIDE DEF s, t
<1>4. s = <<s[1], s[2]>> /\ t = <<t[1], t[2]>>
  BY <1>1, <1>3, TwoFact
<1> QED
  BY <1>2, <1>3, <1>4 DEF s, t

(* A type has the ids of both ends at most, the smaller first. *)
Sorted(ids) == ids = <<>> \/ ids = <<ids[1]>> \/ (ids = <<ids[1], ids[2]>> /\ ids[1] < ids[2])

(* What ids a type with none, one or two has. *)
LEMMA HasIdFact ==
    /\ \A k : ~HasId(<<>>, k)
    /\ \A i, k : HasId(<<i>>, k) <=> k = i
    /\ \A i, j, k : HasId(<<i, j>>, k) <=> k = i \/ k = j
<1>1. ASSUME NEW i, NEW j, NEW k PROVE HasId(<<i, j>>, k) <=> k = i \/ k = j
  <2>1. DOMAIN <<i, j>> = {1, 2} /\ <<i, j>>[1] = i /\ <<i, j>>[2] = j
    OBVIOUS
  <2> QED
    BY <2>1 DEF HasId
<1>2. ASSUME NEW i, NEW k PROVE HasId(<<i>>, k) <=> k = i
  BY DEF HasId
<1>3. ASSUME NEW k PROVE ~HasId(<<>>, k)
  BY DEF HasId
<1> QED
  BY <1>1, <1>2, <1>3

(* addRoleId, when it does not throw, keeps the ids in order and adds the  *)
(* one it is given, if it is new, and nothing else.                        *)
LEMMA AddRoleIdFact ==
    ASSUME NEW ids \in Seq(Nat), NEW id \in Nat, MayAddRoleId(ids, id), Sorted(ids)
    PROVE  /\ AddRoleId(ids, id) \in Seq(Nat)
           /\ Sorted(AddRoleId(ids, id)) /\ AddRoleId(ids, id) # <<>>
           /\ \A k : HasId(AddRoleId(ids, id), k) <=> HasId(ids, k) \/ k = id
<1>1. CASE HasId(ids, id)
  <2>1. ids # <<>>
    BY <1>1, HasIdFact
  <2>2. AddRoleId(ids, id) = ids
    BY <1>1 DEF AddRoleId
  <2> QED
    BY <1>1, <2>1, <2>2
<1>2. CASE ids = <<>>
  <2>1. ~HasId(ids, id)
    BY <1>2, HasIdFact
  <2>2. AddRoleId(ids, id) = Append(<<>>, id)
    BY <1>2, <2>1 DEF AddRoleId
  <2>3. Append(<<>>, id) = <<id>>
    OBVIOUS
  <2>4. Sorted(<<id>>) /\ <<id>> # <<>> /\ <<id>> \in Seq(Nat)
    BY ShortFact DEF Sorted
  <2>5. \A k : HasId(<<id>>, k) <=> HasId(<<>>, k) \/ k = id
    BY HasIdFact
  <2> QED
    BY <1>2, <2>2, <2>3, <2>4, <2>5
<1>3. CASE ~HasId(ids, id) /\ ids # <<>>
  <2>1. Len(ids) = 1 /\ ids = <<ids[1]>> /\ ids[1] \in Nat
    BY <1>3 DEF MayAddRoleId, Sorted
  <2>2. PICK i \in Nat : ids[1] = i /\ ids = <<i>>
    BY <2>1
  <2>3. i # id
    BY <1>3, <2>2, HasIdFact
  <2>4. \A j, l \in Nat : <<j, l>> \in Seq(Nat) /\ <<j, l>> # <<>> /\ (j < l => Sorted(<<j, l>>))
    BY ShortFact DEF Sorted
  <2>5. CASE id < i
    <3>1. AddRoleId(ids, id) = <<id, i>>
      BY <1>3, <2>2, <2>5, PairFact DEF AddRoleId
    <3>2. \A k : HasId(<<id, i>>, k) <=> HasId(<<i>>, k) \/ k = id
      BY HasIdFact
    <3> QED
      BY <2>2, <2>4, <2>5, <3>1, <3>2
  <2>6. CASE i < id
    <3>1. AddRoleId(ids, id) = <<i, id>>
      BY <1>3, <2>2, <2>6, PairFact DEF AddRoleId
    <3>2. \A k : HasId(<<i, id>>, k) <=> HasId(<<i>>, k) \/ k = id
      BY HasIdFact
    <3> QED
      BY <2>2, <2>4, <2>6, <3>1, <3>2
  <2> QED
    BY <2>3, <2>5, <2>6
<1> QED
  BY <1>1, <1>2, <1>3

(* A set of numbers has a least one. *)
LEMMA LeastFact == ASSUME NEW S \in SUBSET Nat, S # {} PROVE \E x \in S : FirstOf(S) = {x}
<1> DEFINE Upto(x) == {y \in S : y <= x}
           U == {Upto(x) : x \in S}
<1>1. U \subseteq FiniteSubsetsOf(S) /\ U # {}
  <2>1. ASSUME NEW x \in S PROVE Upto(x) \subseteq S /\ IsFiniteSet(Upto(x))
    <3>1. Upto(x) \in SUBSET Nat /\ \A s \in Upto(x) : s <= x
      OBVIOUS
    <3> HIDE DEF Upto
    <3>2. IsFiniteSet(Upto(x))
      BY <3>1, FS_BoundedSetOfNaturals
    <3> QED
      BY <3>2 DEF Upto
  <2> QED
    BY <2>1 DEF FiniteSubsetsOf
<1>2. PICK u \in U : \A v \in U : ~(<<v, u>> \in StrictSubsetOrdering(S))
  <2> HIDE DEF U
  <2> QED
    BY <1>1, WFMin, FS_StrictSubsetOrderingWellFounded
<1>3. PICK x \in S : u = Upto(x)
  OBVIOUS
<1>4. ASSUME NEW y \in S PROVE x <= y
  <2>1. SUFFICES ASSUME y < x PROVE FALSE
    OBVIOUS
  <2>2. Upto(y) \subseteq Upto(x) /\ x \in Upto(x) /\ x \notin Upto(y) /\ Upto(y) \in U
    <3>1. \A z \in Nat : z <= y => z <= x
      BY <2>1
    <3>2. ~(x <= y) /\ x <= x
      BY <2>1
    <3>3. Upto(y) \in U
      OBVIOUS
    <3> QED
      BY <3>1, <3>2, <3>3, Zenon
  <2> QED
    BY <1>2, <1>3, <2>2 DEF StrictSubsetOrdering
<1>5. \A z \in S : z \in FirstOf(S) <=> z = x
  BY <1>4 DEF FirstOf
<1> QED
  BY <1>5 DEF FirstOf

----------------------------------------------------------------------------
(* What a message or a handler is about, and what is in a queue.           *)

Asks(m, n) == m.type = "request" /\ n \in m.names
Accepts(m, id, n) == m.type = "response" /\ n \in DOMAIN m.accept /\ m.accept[n] = id
Refuses(m, n) == m.type = "response" /\ n \in m.reject
Answers(m, n) == m.type = "response" /\ n \in DOMAIN m.accept \cup m.reject
About(h, n) == n \in h.names \cup DOMAIN h.accept \cup h.reject

RequestIn(q, n) == \E i \in DOMAIN q : Asks(q[i], n)
AcceptIn(q, id, n) == \E i \in DOMAIN q : Accepts(q[i], id, n)
RefusalIn(q, n) == \E i \in DOMAIN q : Refuses(q[i], n)
AnswerIn(q, n) == \E i \in DOMAIN q : Answers(q[i], n)
OneRequest(q) == \A n \in Names : \A i, j \in DOMAIN q : Asks(q[i], n) /\ Asks(q[j], n) => i = j
OneAnswer(q) == \A n \in Names : \A i, j \in DOMAIN q : Answers(q[i], n) /\ Answers(q[j], n) => i = j

(* Where the elements of a queue are when one is added, or the first taken.*)
LEMMA AppendFact ==
    ASSUME NEW S, NEW q \in Seq(S), NEW m \in S
    PROVE  /\ Append(q, m) \in Seq(S) /\ Append(q, m) # <<>>
           /\ Len(q) \in Nat /\ DOMAIN q = 1 .. Len(q)
           /\ Len(Append(q, m)) = Len(q) + 1 /\ DOMAIN Append(q, m) = 1 .. (Len(q) + 1)
           /\ DOMAIN Append(q, m) = DOMAIN q \cup {Len(q) + 1}
           /\ Append(q, m)[Len(q) + 1] = m
           /\ \A i \in DOMAIN q : Append(q, m)[i] = q[i] /\ i \in Nat /\ i <= Len(q) /\ i # Len(q) + 1
<1>1. DOMAIN q = 1 .. Len(q) /\ Len(q) \in Nat
  BY LenProperties
<1>2. /\ Append(q, m) \in Seq(S) /\ Append(q, m) # <<>> /\ Len(Append(q, m)) = Len(q) + 1
      /\ \A i \in 1 .. Len(q) : Append(q, m)[i] = q[i]
      /\ Append(q, m)[Len(q) + 1] = m
  BY AppendProperties
<1>3. DOMAIN Append(q, m) = 1 .. (Len(q) + 1)
  BY <1>2, LenProperties
<1>4. 1 .. (Len(q) + 1) = 1 .. Len(q) \cup {Len(q) + 1}
  BY <1>1
<1> QED
  BY <1>1, <1>2, <1>3, <1>4

(* Where the elements of a queue are when its first is taken. *)
LEMMA TailFact ==
    ASSUME NEW S, NEW q \in Seq(S), q # <<>>
    PROVE  /\ Tail(q) \in Seq(S) /\ Head(q) \in S /\ Head(q) = q[1] /\ 1 \in DOMAIN q
           /\ DOMAIN q = 1 .. Len(q) /\ Len(q) \in Nat
           /\ \A i \in DOMAIN Tail(q) : i \in Nat /\ i >= 1 /\ i + 1 \in DOMAIN q /\ Tail(q)[i] = q[i + 1]
           /\ \A i \in DOMAIN q : i \in Nat /\ i >= 1 /\ (i # 1 => i - 1 \in DOMAIN Tail(q) /\ Tail(q)[i - 1] = q[i])
<1>1. DOMAIN q = 1 .. Len(q) /\ Len(q) \in Nat
  BY LenProperties
<1>2. Len(q) # 0
  BY EmptySeq
<1>3. /\ Head(q) \in S /\ Head(q) = q[1] /\ Tail(q) \in Seq(S) /\ Len(Tail(q)) = Len(q) - 1
      /\ \A i \in 1 .. Len(Tail(q)) : Tail(q)[i] = q[i + 1]
  BY HeadTailProperties
<1>4. DOMAIN Tail(q) = 1 .. (Len(q) - 1)
  BY <1>3, LenProperties
<1>5. ASSUME NEW i \in DOMAIN q, i # 1 PROVE i - 1 \in DOMAIN Tail(q) /\ Tail(q)[i - 1] = q[i]
  <2>1. i - 1 \in 1 .. (Len(q) - 1) /\ (i - 1) + 1 = i
    BY <1>1, <1>5
  <2> QED
    BY <1>3, <1>4, <2>1
<1> QED
  BY <1>1, <1>2, <1>3, <1>4, <1>5

(* What is said in a queue to which a message is added: what was said, and *)
(* what the message says.                                                  *)
LEMMA AppendQueue ==
    ASSUME NEW S, NEW q \in Seq(S), NEW m \in S
    PROVE  /\ \A n : RequestIn(Append(q, m), n) <=> RequestIn(q, n) \/ Asks(m, n)
           /\ \A n : AnswerIn(Append(q, m), n) <=> AnswerIn(q, n) \/ Answers(m, n)
           /\ \A n : RefusalIn(Append(q, m), n) <=> RefusalIn(q, n) \/ Refuses(m, n)
           /\ \A id, n : AcceptIn(Append(q, m), id, n) <=> AcceptIn(q, id, n) \/ Accepts(m, id, n)
           /\ OneRequest(q) /\ (\A n \in Names : ~(RequestIn(q, n) /\ Asks(m, n))) => OneRequest(Append(q, m))
           /\ OneAnswer(q) /\ (\A n \in Names : ~(AnswerIn(q, n) /\ Answers(m, n))) => OneAnswer(Append(q, m))
<1> DEFINE r == Append(q, m)
           l == Len(q) + 1
<1>1. DOMAIN r = DOMAIN q \cup {l} /\ r[l] = m /\ \A i \in DOMAIN q : r[i] = q[i] /\ i # l
  BY AppendFact
<1> HIDE DEF r, l
<1>2. \A n : RequestIn(r, n) <=> RequestIn(q, n) \/ Asks(m, n)
  BY <1>1 DEF RequestIn
<1>3. \A n : AnswerIn(r, n) <=> AnswerIn(q, n) \/ Answers(m, n)
  BY <1>1 DEF AnswerIn
<1>4. \A n : RefusalIn(r, n) <=> RefusalIn(q, n) \/ Refuses(m, n)
  BY <1>1 DEF RefusalIn
<1>5. \A id, n : AcceptIn(r, id, n) <=> AcceptIn(q, id, n) \/ Accepts(m, id, n)
  BY <1>1 DEF AcceptIn
<1>6. OneRequest(q) /\ (\A n \in Names : ~(RequestIn(q, n) /\ Asks(m, n))) => OneRequest(r)
  BY <1>1 DEF OneRequest, RequestIn
<1>7. OneAnswer(q) /\ (\A n \in Names : ~(AnswerIn(q, n) /\ Answers(m, n))) => OneAnswer(r)
  BY <1>1 DEF OneAnswer, AnswerIn
<1> QED
  BY <1>2, <1>3, <1>4, <1>5, <1>6, <1>7 DEF r

(* What was said in a queue from which the first is taken: what still is,  *)
(* and what the first said.                                                *)
LEMMA TailQueue ==
    ASSUME NEW S, NEW q \in Seq(S), q # <<>>
    PROVE  /\ \A n : RequestIn(q, n) <=> RequestIn(Tail(q), n) \/ Asks(Head(q), n)
           /\ \A n : AnswerIn(q, n) <=> AnswerIn(Tail(q), n) \/ Answers(Head(q), n)
           /\ \A n : RefusalIn(q, n) <=> RefusalIn(Tail(q), n) \/ Refuses(Head(q), n)
           /\ \A id, n : AcceptIn(q, id, n) <=> AcceptIn(Tail(q), id, n) \/ Accepts(Head(q), id, n)
           /\ OneRequest(q) => /\ OneRequest(Tail(q))
                               /\ \A n \in Names : ~(RequestIn(Tail(q), n) /\ Asks(Head(q), n))
           /\ OneAnswer(q) => /\ OneAnswer(Tail(q))
                              /\ \A n \in Names : ~(AnswerIn(Tail(q), n) /\ Answers(Head(q), n))
<1> DEFINE r == Tail(q)
           m == Head(q)
<1>1. /\ m = q[1] /\ 1 \in DOMAIN q
      /\ \A i \in DOMAIN r : i \in Nat /\ i + 1 \in DOMAIN q /\ r[i] = q[i + 1] /\ i + 1 # 1
      /\ \A i \in DOMAIN q : i # 1 => i - 1 \in DOMAIN r /\ r[i - 1] = q[i]
  BY TailFact
<1>2. \A i, j \in DOMAIN r : i + 1 = j + 1 => i = j
  BY <1>1
<1> HIDE DEF r, m
<1>3. \A n : RequestIn(q, n) <=> RequestIn(r, n) \/ Asks(m, n)
  BY <1>1 DEF RequestIn
<1>4. \A n : AnswerIn(q, n) <=> AnswerIn(r, n) \/ Answers(m, n)
  BY <1>1 DEF AnswerIn
<1>5. \A n : RefusalIn(q, n) <=> RefusalIn(r, n) \/ Refuses(m, n)
  BY <1>1 DEF RefusalIn
<1>6. \A id, n : AcceptIn(q, id, n) <=> AcceptIn(r, id, n) \/ Accepts(m, id, n)
  BY <1>1 DEF AcceptIn
<1>7. OneRequest(q) => OneRequest(r) /\ \A n \in Names : ~(RequestIn(r, n) /\ Asks(m, n))
  BY <1>1, <1>2 DEF OneRequest, RequestIn
<1>8. OneAnswer(q) => OneAnswer(r) /\ \A n \in Names : ~(AnswerIn(r, n) /\ Answers(m, n))
  BY <1>1, <1>2 DEF OneAnswer, AnswerIn
<1> QED
  BY <1>3, <1>4, <1>5, <1>6, <1>7, <1>8 DEF r, m

----------------------------------------------------------------------------
(* Every step keeps the shape of the state. *)

(* The parts of a message, by its type. *)
LEMMA MessageFact ==
    ASSUME NEW m \in MessageT
    PROVE  /\ m.type \in {"request", "response", "data"}
           /\ m.type = "request" => m \in RequestT /\ m.names \subseteq Names
           /\ m.type = "response" => IsPartial(m.accept, Names, Nat) /\ m.reject \subseteq Names
           /\ m.type = "data" => m.id \in Nat /\ m.name \in Names /\ m.serial \in Nat
BY PartialFact DEF MessageT, RequestT, ResponseT, DataT

(* The parts of a handler's record. *)
LEMMA HandlerFact ==
    ASSUME NEW h \in HandlerT
    PROVE  h.names \subseteq Names /\ IsPartial(h.accept, Names, Nat) /\ h.reject \subseteq Names
BY PartialFact DEF HandlerT

(* The messages and records that the actions make have their types. *)
LEMMA MakeFact ==
    /\ \A ns \in SUBSET Names : Request(ns) \in MessageT
    /\ \A accept, reject : IsPartial(accept, Names, Nat) /\ reject \subseteq Names =>
          Response(accept, reject) \in MessageT
    /\ \A ns \in SUBSET Names : \A accept, reject : IsPartial(accept, Names, Nat) /\ reject \subseteq Names =>
              [names |-> ns, accept |-> accept, reject |-> reject] \in HandlerT
BY PartialFact DEF MessageT, RequestT, ResponseT, HandlerT, Request, Response

(* addRoleId returns a sequence of ids. *)
LEMMA AddRoleIdType ==
    ASSUME NEW ids \in Seq(Nat), NEW id \in Nat PROVE AddRoleId(ids, id) \in Seq(Nat)
BY ShortFact, ConcatProperties, AppendProperties DEF AddRoleId

(* What an end keeps of a name has its type. *)
LEMMA IdsFact ==
    ASSUME Shapes, NEW e \in Ends, NEW n
    PROVE  /\ IdsOf(e, n) \in Seq(Nat)
           /\ Known(e, n) => n \in Names /\ types[e][n] \in EntryT /\ IdsOf(e, n) = types[e][n].ids
           /\ Pending(e, n) \in BOOLEAN
           /\ IdsOf(e, n) # <<>> => IdsOf(e, n)[1] \in Nat /\ Known(e, n)
<1>1. Known(e, n) => n \in Names /\ types[e][n] \in EntryT /\ types[e][n].ids \in Seq(Nat) /\ types[e][n].pending \in BOOLEAN
  BY DEF Shapes, IsPartial, EntryT, Known
<1>2. IdsOf(e, n) \in Seq(Nat) /\ (IdsOf(e, n) # <<>> => Known(e, n))
  BY <1>1 DEF IdsOf
<1>3. IdsOf(e, n) # <<>> => IdsOf(e, n)[1] \in Nat
  BY <1>2, TailFact
<1> QED
  BY <1>1, <1>2, <1>3 DEF IdsOf, Pending

(* A message that is sent, and one that is received. *)
LEMMA SendFact ==
    ASSUME Shapes, NEW e \in Ends, NEW m \in MessageT, Send(e, m)
    PROVE  /\ wire' \in [Ends -> Seq(MessageT)]
           /\ wire'[e] = wire[e]
           /\ closed[Peer(e)] => wire' = wire
           /\ ~closed[Peer(e)] => wire'[Peer(e)] = Append(wire[Peer(e)], m)
           /\ wire[Peer(e)] \in Seq(MessageT) /\ wire[e] \in Seq(MessageT)
<1>1. Peer(e) \in Ends /\ Peer(e) # e /\ wire[Peer(e)] \in Seq(MessageT) /\ closed[Peer(e)] \in BOOLEAN
  BY PeerFact DEF Shapes
<1>2. Append(wire[Peer(e)], m) \in Seq(MessageT)
  BY <1>1, AppendProperties
<1> QED
  BY <1>1, <1>2 DEF Shapes, Send

(* A message that is received was the first of the queue. *)
LEMMA ReceivedFact ==
    ASSUME Shapes, NEW e \in Ends, Received(e), wire[e] # <<>>
    PROVE  /\ wire' \in [Ends -> Seq(MessageT)]
           /\ wire'[e] = Tail(wire[e]) /\ wire'[Peer(e)] = wire[Peer(e)]
           /\ wire[e] \in Seq(MessageT) /\ Head(wire[e]) \in MessageT /\ Head(wire[e]) = wire[e][1]
<1>1. Peer(e) \in Ends /\ Peer(e) # e /\ wire[e] \in Seq(MessageT)
  BY PeerFact DEF Shapes
<1>2. Tail(wire[e]) \in Seq(MessageT) /\ Head(wire[e]) \in MessageT /\ Head(wire[e]) = wire[e][1]
  BY <1>1, TailFact
<1> QED
  BY <1>1, <1>2 DEF Shapes, Received

(* The initial states have their types. *)
LEMMA InitShapes == Init => Shapes
<1> SUFFICES ASSUME Init PROVE Shapes
  OBVIOUS
<1>1. <<>> \in Seq(MessageT) /\ <<>> \in Seq(ChunkT)
  OBVIOUS
<1>2. NoRead \in ReadT
  BY DEF NoRead, ReadT
<1>3. nextId \in [Ends -> Nat] /\ closed \in [Ends -> BOOLEAN] /\ handlers \in [Ends -> SUBSET HandlerT]
  BY DEF Init, Ends
<1>4. types = [e \in Ends |-> types[e]] /\ names = [e \in Ends |-> names[e]] /\
      \A e \in Ends : types[e] = <<>> /\ names[e] = <<>>
  BY DEF Init
<1>5. \A S, T : IsPartial(<<>>, S, T)
  BY EmptyFact
<1> QED
  BY <1>1, <1>2, <1>3, <1>4, <1>5 DEF Init, Shapes

(* addMessageTypes keeps the types. *)
LEMMA AddShapes == ASSUME Shapes, NEW e \in Ends, NEW ns \in Registrations, AddMessageTypes(e, ns) PROVE Shapes'
<1> DEFINE new == {n \in ns : ~Known(e, n)}
           entries == [n \in DOMAIN types[e] \cup new |-> IF n \in new THEN NewEntry(n) ELSE types[e][n]]
<1>1. new \subseteq Names /\ Request(new) \in MessageT
  BY RegistrationsAssumption, MakeFact
<1>2. wire' \in [Ends -> Seq(MessageT)]
  BY <1>1, SendFact DEF AddMessageTypes
<1>3. \A n : NewEntry(n) \in EntryT
  BY DEF NewEntry, Entry, EntryT
<1>4. IsPartial(types[e], Names, EntryT)
  BY DEF Shapes
<1>5. IsPartial(entries, Names, EntryT)
  BY <1>1, <1>3, <1>4 DEF IsPartial
<1>6. types' = [types EXCEPT ![e] = entries]
  BY DEF AddMessageTypes
<1> HIDE DEF entries
<1>7. types' = [x \in Ends |-> types'[x]] /\ \A x \in Ends : IsPartial(types'[x], Names, EntryT)
  BY <1>5, <1>6 DEF Shapes
<1>8. requested' \in Nat
  BY DEF AddMessageTypes, Shapes
<1> QED
  BY <1>2, <1>7, <1>8 DEF AddMessageTypes, Shapes, readVars

(* A request that arrives keeps the types. *)
LEMMA OnRequestShapes == ASSUME Shapes, NEW e \in Ends, OnRequest(e) PROVE Shapes'
<1> DEFINE h == [names |-> Head(wire[e]).names, accept |-> <<>>, reject |-> {}]
<1>1. wire[e] # <<>> /\ Head(wire[e]).type = "request" /\ Received(e)
  BY DEF OnRequest, NextIs
<1>2. wire' \in [Ends -> Seq(MessageT)] /\ Head(wire[e]) \in MessageT
  BY <1>1, ReceivedFact
<1>3. h \in HandlerT
  BY <1>1, <1>2, MessageFact, MakeFact, EmptyFact
<1>4. handlers' = [handlers EXCEPT ![e] = @ \cup {h}]
  BY DEF OnRequest
<1> HIDE DEF h
<1>5. handlers' \in [Ends -> SUBSET HandlerT]
  BY <1>3, <1>4 DEF Shapes
<1> QED
  BY <1>2, <1>5 DEF OnRequest, Shapes, typeVars, readVars, countVars

(* A name that gets our next id, or keeps what it has.                     *)
Said(e, id, n) == id \in DOMAIN names[e] /\ names[e][id] = n

(* AcceptName changes the entry of that name at that end and nothing else: *)
(* the new id is the next of the end.                                      *)
LEMMA AssignFact ==
    ASSUME Shapes, NEW e \in Ends, NEW n \in Names, AcceptName(e, n), IdsOf(e, n) = <<>>
    PROVE  /\ types' = [x \in Ends |-> types'[x]] /\ names' = [x \in Ends |-> names'[x]]
           /\ \A x \in Ends : IsPartial(types'[x], Names, EntryT) /\ IsPartial(names'[x], Nat, Names)
           /\ nextId' = [nextId EXCEPT ![e] = @ + 2]
           /\ \A x \in Ends, k \in Names :
                 /\ Known(x, k)' <=> Known(x, k) \/ (x = e /\ k = n)
                 /\ IdsOf(x, k)' = IF x = e /\ k = n THEN <<nextId[e]>> ELSE IdsOf(x, k)
                 /\ Pending(x, k)' <=> Pending(x, k)
                 /\ Known(x, k)' => IdsOf(x, k)' = types'[x][k].ids
           /\ \A x \in Ends : \A id, k :
                 Said(x, id, k)' <=> IF x = e /\ id = nextId[e] THEN k = n ELSE Said(x, id, k)
<1> DEFINE entry == Entry(<<nextId[e]>>, Pending(e, n))
           ts == Put(types[e], n, entry)
           ns == Put(names[e], nextId[e], n)
<1>1. nextId[e] \in Nat /\ Pending(e, n) \in BOOLEAN
  BY IdsFact DEF Shapes
<1>2. entry \in EntryT /\ entry.ids = <<nextId[e]>> /\ entry.pending = Pending(e, n)
  BY <1>1, ShortFact DEF Entry, EntryT
<1>3. types' = [types EXCEPT ![e] = ts] /\ names' = [names EXCEPT ![e] = ns] /\ nextId' = [nextId EXCEPT ![e] = @ + 2]
  BY DEF AcceptName, NeedsId, NextTypeId
<1> HIDE DEF entry
<1>4. /\ IsPartial(ts, Names, EntryT) /\ DOMAIN ts = DOMAIN types[e] \cup {n} /\ ts[n] = entry
      /\ \A k \in DOMAIN types[e] : k # n => ts[k] = types[e][k]
  <2>1. IsPartial(types[e], Names, EntryT)
    BY DEF Shapes
  <2>2. IsPartial(ts, Names, EntryT)
    BY <1>2, <2>1, PutFact DEF ts
  <2>3. DOMAIN ts = DOMAIN types[e] \cup {n} /\ ts[n] = entry
    BY DEF ts, Put
  <2>4. \A k \in DOMAIN types[e] : k # n => ts[k] = types[e][k]
    BY DEF ts, Put
  <2> QED
    BY <2>2, <2>3, <2>4
<1>5. /\ IsPartial(ns, Nat, Names) /\ DOMAIN ns = DOMAIN names[e] \cup {nextId[e]} /\ ns[nextId[e]] = n
      /\ \A id \in DOMAIN names[e] : id # nextId[e] => ns[id] = names[e][id]
  <2>1. IsPartial(names[e], Nat, Names)
    BY DEF Shapes
  <2>2. IsPartial(ns, Nat, Names)
    BY <1>1, <2>1, PutFact DEF ns
  <2>3. DOMAIN ns = DOMAIN names[e] \cup {nextId[e]} /\ ns[nextId[e]] = n
    BY DEF ns, Put
  <2>4. \A id \in DOMAIN names[e] : id # nextId[e] => ns[id] = names[e][id]
    BY DEF ns, Put
  <2> QED
    BY <2>2, <2>3, <2>4
<1> HIDE DEF ts, ns
<1>6. /\ types' = [x \in Ends |-> types'[x]] /\ names' = [x \in Ends |-> names'[x]]
      /\ types'[e] = ts /\ names'[e] = ns
      /\ \A x \in Ends : x # e => types'[x] = types[x] /\ names'[x] = names[x]
  BY <1>3 DEF Shapes
<1>7. \A x \in Ends : IsPartial(types'[x], Names, EntryT) /\ IsPartial(names'[x], Nat, Names)
  BY <1>4, <1>5, <1>6 DEF Shapes
<1>8. ASSUME NEW x \in Ends, NEW k \in Names
      PROVE  /\ Known(x, k)' <=> Known(x, k) \/ (x = e /\ k = n)
             /\ IdsOf(x, k)' = IF x = e /\ k = n THEN <<nextId[e]>> ELSE IdsOf(x, k)
             /\ Pending(x, k)' <=> Pending(x, k)
             /\ Known(x, k)' => IdsOf(x, k)' = types'[x][k].ids
  <2>1. CASE x # e
    BY <1>6, <2>1 DEF Known, IdsOf, Pending
  <2>2. CASE x = e /\ k # n
    BY <1>4, <1>6, <2>2 DEF Known, IdsOf, Pending
  <2>3. CASE x = e /\ k = n
    <3>1. Known(e, n)' /\ IdsOf(e, n)' = <<nextId[e]>> /\ (Pending(e, n)' <=> entry.pending)
      BY <1>2, <1>4, <1>6 DEF Known, IdsOf, Pending
    <3> QED
      BY <1>2, <1>4, <1>6, <2>3, <3>1
  <2> QED
    BY <2>1, <2>2, <2>3
<1>9. ASSUME NEW x \in Ends, NEW id, NEW k
      PROVE  Said(x, id, k)' <=> IF x = e /\ id = nextId[e] THEN k = n ELSE Said(x, id, k)
  BY <1>5, <1>6 DEF Said
<1> QED
  BY <1>3, <1>6, <1>7, <1>8, <1>9

(* What handling a name does to the types of the end, and what it keeps of *)
(* the request.                                                            *)
LEMMA HandleTypes ==
    ASSUME Shapes, NEW e \in Ends, NEW h \in handlers[e], NEW n \in h.names, NEW accepted \in BOOLEAN,
           HandleName(e, h, n, accepted)
    PROVE  /\ types' = [x \in Ends |-> types'[x]] /\ names' = [x \in Ends |-> names'[x]]
           /\ \A x \in Ends : IsPartial(types'[x], Names, EntryT) /\ IsPartial(names'[x], Nat, Names)
           /\ nextId' \in [Ends -> Nat]
           /\ h \in HandlerT /\ n \in Names
           /\ accepted => types'[e][n].ids = IdsOf(e, n)' /\ IdsOf(e, n)' # <<>> /\ IdsOf(e, n)'[1] \in Nat
           /\ ~accepted \/ IdsOf(e, n) # <<>> => UNCHANGED typeVars
           /\ accepted /\ IdsOf(e, n) = <<>> => AcceptName(e, n)
<1>1. h \in HandlerT /\ n \in Names
  BY HandlerFact DEF Shapes
<1>2. CASE accepted /\ IdsOf(e, n) = <<>>
  <2>1. AcceptName(e, n)
    BY <1>2 DEF HandleName
  <2>2. Known(e, n)' /\ IdsOf(e, n)' = <<nextId[e]>> /\ IdsOf(e, n)' = types'[e][n].ids
    BY <1>1, <1>2, <2>1, AssignFact
  <2>3. <<nextId[e]>> # <<>> /\ <<nextId[e]>>[1] \in Nat
    BY ShortFact DEF Shapes
  <2>4. nextId' \in [Ends -> Nat]
    BY <1>1, <1>2, <2>1, AssignFact DEF Shapes
  <2> QED
    BY <1>1, <1>2, <2>1, <2>2, <2>3, <2>4, AssignFact
<1>3. CASE ~(accepted /\ IdsOf(e, n) = <<>>)
  <2>1. UNCHANGED typeVars
    BY <1>3 DEF HandleName, AcceptName, NeedsId
  <2>2. types' = types /\ names' = names /\ nextId' = nextId
    BY <2>1 DEF typeVars
  <2>3. accepted => types'[e][n].ids = IdsOf(e, n)' /\ IdsOf(e, n)' # <<>> /\ IdsOf(e, n)'[1] \in Nat
    <3>1. IdsOf(e, n)' = IdsOf(e, n)
      BY <2>2 DEF IdsOf, Known
    <3> QED
      BY <1>3, <2>2, <3>1, IdsFact
  <2> QED
    BY <1>1, <1>3, <2>1, <2>2, <2>3 DEF Shapes
<1> QED
  BY <1>2, <1>3

HandledAccept(e, h, n, accepted) == IF accepted THEN Put(h.accept, n, IdsOf(e, n)'[1]) ELSE h.accept
HandledReject(h, n, accepted) == IF accepted THEN h.reject ELSE h.reject \cup {n}

(* Where the handler's record goes: on with what is left, or off with the  *)
(* response.                                                               *)
LEMMA HandleFact ==
    ASSUME Shapes, NEW e \in Ends, NEW h \in handlers[e], NEW n \in h.names, NEW accepted \in BOOLEAN,
           HandleName(e, h, n, accepted)
    PROVE  LET accept == HandledAccept(e, h, n, accepted)
               reject == HandledReject(h, n, accepted)
               left == [names |-> h.names \ {n}, accept |-> accept, reject |-> reject]
           IN  /\ IsPartial(accept, Names, Nat) /\ reject \subseteq Names
               /\ left \in HandlerT /\ Response(accept, reject) \in MessageT
               /\ h.names # {n} =>
                     /\ handlers' = [handlers EXCEPT ![e] = (handlers[e] \ {h}) \cup {left}]
                     /\ wire' = wire
               /\ h.names = {n} =>
                     handlers' = [handlers EXCEPT ![e] = @ \ {h}] /\ Send(e, Response(accept, reject))
<1>1. h.names \subseteq Names /\ IsPartial(h.accept, Names, Nat) /\ h.reject \subseteq Names /\ n \in Names
  BY HandleTypes, HandlerFact
<1>2. accepted => types'[e][n].ids = IdsOf(e, n)' /\ IdsOf(e, n)'[1] \in Nat
  BY HandleTypes
<1> DEFINE accept == HandledAccept(e, h, n, accepted)
           reject == HandledReject(h, n, accepted)
           left == [names |-> h.names \ {n}, accept |-> accept, reject |-> reject]
<1>3. IsPartial(accept, Names, Nat)
  BY <1>1, <1>2, PutFact DEF HandledAccept
<1>4. reject \subseteq Names
  BY <1>1 DEF HandledReject
<1>5. left \in HandlerT /\ Response(accept, reject) \in MessageT
  BY <1>1, <1>3, <1>4, MakeFact
<1>6. accept = IF accepted THEN Put(h.accept, n, types'[e][n].ids[1]) ELSE h.accept
  BY <1>2 DEF HandledAccept
<1>7. reject = IF accepted THEN h.reject ELSE h.reject \cup {n}
  BY DEF HandledReject
<1>8. (h.names \ {n} = {}) <=> h.names = {n}
  OBVIOUS
<1> HIDE DEF accept, reject
<1>9. /\ handlers' = [handlers EXCEPT ![e] = (@ \ {h}) \cup (IF h.names \ {n} = {} THEN {} ELSE {left})]
      /\ IF h.names \ {n} = {} THEN Send(e, Response(accept, reject)) ELSE wire' = wire
  BY <1>6, <1>7 DEF HandleName, SendsResponse
<1>10. h.names = {n} => (handlers[e] \ {h}) \cup {} = handlers[e] \ {h}
  OBVIOUS
<1>11. h.names # {n} => handlers' = [handlers EXCEPT ![e] = (handlers[e] \ {h}) \cup {left}] /\ wire' = wire
  BY <1>8, <1>9
<1>12. h.names = {n} => handlers' = [handlers EXCEPT ![e] = @ \ {h}] /\ Send(e, Response(accept, reject))
  BY <1>8, <1>9, <1>10
<1> QED
  BY <1>3, <1>4, <1>5, <1>11, <1>12 DEF accept, reject

(* Handling a name keeps the types. *)
LEMMA HandleShapes ==
    ASSUME Shapes, NEW e \in Ends, NEW h \in handlers[e], NEW n \in h.names, NEW accepted \in BOOLEAN,
           HandleName(e, h, n, accepted)
    PROVE  Shapes'
<1> DEFINE accept == HandledAccept(e, h, n, accepted)
           reject == HandledReject(h, n, accepted)
           left == [names |-> h.names \ {n}, accept |-> accept, reject |-> reject]
           m == Response(accept, reject)
<1>1. /\ left \in HandlerT /\ m \in MessageT
      /\ h.names # {n} => handlers' = [handlers EXCEPT ![e] = (handlers[e] \ {h}) \cup {left}] /\ wire' = wire
      /\ h.names = {n} => handlers' = [handlers EXCEPT ![e] = @ \ {h}] /\ Send(e, m)
  BY HandleFact
<1> HIDE DEF left, m
<1>2. wire' \in [Ends -> Seq(MessageT)]
  BY <1>1, SendFact DEF Shapes
<1>3. handlers' \in [Ends -> SUBSET HandlerT]
  BY <1>1 DEF Shapes
<1>4. /\ types' = [x \in Ends |-> types'[x]] /\ names' = [x \in Ends |-> names'[x]]
      /\ \A x \in Ends : IsPartial(types'[x], Names, EntryT) /\ IsPartial(names'[x], Nat, Names)
      /\ nextId' \in [Ends -> Nat]
  BY HandleTypes
<1> QED
  BY <1>2, <1>3, <1>4 DEF HandleName, Shapes, readVars, countVars

(* A response: the ids of the types it accepts, the entries of those it    *)
(* rejects, and the types that have two ids by now.                        *)
MayAccept(e, m) == \A n \in DOMAIN m.accept : MayAddRoleId(IdsOf(e, n), m.accept[n])

(* What a response does to the entries and to the table of ids. *)
LEMMA ResponseTypes ==
    ASSUME Shapes, NEW e \in Ends, OnResponse(e), NEW m, m = Head(wire[e]), MayAccept(e, m)
    PROVE  /\ m.type = "response" /\ IsPartial(m.accept, Names, Nat) /\ m.reject \subseteq Names
           /\ types' = [x \in Ends |-> types'[x]] /\ names' = [x \in Ends |-> names'[x]]
           /\ \A x \in Ends : IsPartial(types'[x], Names, EntryT) /\ IsPartial(names'[x], Nat, Names)
           /\ \A x \in Ends : x # e => types'[x] = types[x] /\ names'[x] = names[x]
           /\ \A k \in DOMAIN m.accept : k \in DOMAIN types'[e] <=> k \notin Rejected(e, m)
           /\ \A k \in DOMAIN m.accept : k \notin Rejected(e, m) =>
                 types'[e][k] = Entry(AddRoleId(IdsOf(e, k), m.accept[k]), FALSE)
           /\ \A k \in Names \ DOMAIN m.accept : k \in DOMAIN types'[e] <=>
                 k \in DOMAIN types[e] /\ k \notin Rejected(e, m)
           /\ \A k \in DOMAIN types'[e] : k \notin DOMAIN m.accept => types'[e][k] = types[e][k]
           /\ \A k, id : Said(e, id, k)' =>
                 Said(e, id, k) \/ (k \in DOMAIN m.accept /\ m.accept[k] = id)
           /\ \A id : id \in DOMAIN names'[e] <=>
                 id \in DOMAIN names[e] \/ \E k \in DOMAIN m.accept : m.accept[k] = id
<1>1. wire[e] # <<>> /\ m.type = "response" /\ Received(e)
  BY DEF OnResponse, NextIs
<1>2. m \in MessageT
  BY <1>1, ReceivedFact
<1>3. IsPartial(m.accept, Names, Nat) /\ m.reject \subseteq Names
  BY <1>1, <1>2, MessageFact
<1> DEFINE ids == [n \in DOMAIN m.accept |-> AddRoleId(IdsOf(e, n), m.accept[n])]
           ts == [n \in (DOMAIN types[e] \cup DOMAIN m.accept) \ Rejected(e, m) |->
                    IF n \in DOMAIN m.accept THEN Entry(ids[n], FALSE) ELSE types[e][n]]
           ns == NamesAccepted(e, m.accept)
<1>4. types' = [types EXCEPT ![e] = ts] /\ names' = [names EXCEPT ![e] = ns]
  BY DEF OnResponse, MayAccept
<1>5. \A n \in DOMAIN m.accept : Entry(ids[n], FALSE) \in EntryT
  <2>1. \A n \in DOMAIN m.accept : m.accept[n] \in Nat /\ IdsOf(e, n) \in Seq(Nat)
    BY <1>3, IdsFact DEF IsPartial
  <2>2. \A n \in DOMAIN m.accept : AddRoleId(IdsOf(e, n), m.accept[n]) \in Seq(Nat)
    BY <2>1, AddRoleIdType
  <2> QED
    BY <2>2 DEF Entry, EntryT
<1>6. IsPartial(types[e], Names, EntryT) /\ IsPartial(names[e], Nat, Names)
  BY DEF Shapes
<1>7. IsPartial(ts, Names, EntryT)
  <2> HIDE DEF ids
  <2> QED
    BY <1>3, <1>5, <1>6 DEF IsPartial
<1>8. /\ DOMAIN ns = DOMAIN names[e] \cup Range(m.accept)
      /\ \A id \in Range(m.accept) : ns[id] \in DOMAIN m.accept /\ m.accept[ns[id]] = id
      /\ \A id \in DOMAIN names[e] \ Range(m.accept) : ns[id] = names[e][id]
  BY DEF NamesAccepted, Range
<1>9. IsPartial(ns, Nat, Names)
  <2>1. Range(m.accept) \subseteq Nat
    BY <1>3 DEF IsPartial, Range
  <2>2. ns = [id \in DOMAIN ns |-> ns[id]]
    BY DEF NamesAccepted
  <2> HIDE DEF ns
  <2>3. \A id \in DOMAIN ns : ns[id] \in Names
    BY <1>3, <1>6, <1>8 DEF IsPartial
  <2>4. ns \in [DOMAIN ns -> Names]
    BY <2>2, <2>3
  <2> QED
    BY <1>6, <1>8, <2>1, <2>4 DEF IsPartial
<1>10. /\ DOMAIN ts = (DOMAIN types[e] \cup DOMAIN m.accept) \ Rejected(e, m)
       /\ \A k \in DOMAIN ts : k \in DOMAIN m.accept => ts[k] = Entry(AddRoleId(IdsOf(e, k), m.accept[k]), FALSE)
       /\ \A k \in DOMAIN ts : k \notin DOMAIN m.accept => ts[k] = types[e][k]
  OBVIOUS
<1> HIDE DEF ts, ns
<1>11. /\ types' = [x \in Ends |-> types'[x]] /\ names' = [x \in Ends |-> names'[x]]
       /\ types'[e] = ts /\ names'[e] = ns
       /\ \A x \in Ends : x # e => types'[x] = types[x] /\ names'[x] = names[x]
  BY <1>4 DEF Shapes
<1>12. \A x \in Ends : IsPartial(types'[x], Names, EntryT) /\ IsPartial(names'[x], Nat, Names)
  BY <1>7, <1>9, <1>11 DEF Shapes
<1>13. \A k, id : Said(e, id, k)' => Said(e, id, k) \/ (k \in DOMAIN m.accept /\ m.accept[k] = id)
  BY <1>8, <1>11 DEF Said
<1>14. \A id : id \in DOMAIN names'[e] <=>
          id \in DOMAIN names[e] \/ \E k \in DOMAIN m.accept : m.accept[k] = id
  BY <1>8, <1>11 DEF Range
<1>15. \A k \in DOMAIN m.accept : k \in DOMAIN types'[e] <=> k \notin Rejected(e, m)
  BY <1>10, <1>11
<1>16. \A k \in DOMAIN m.accept : k \notin Rejected(e, m) =>
          types'[e][k] = Entry(AddRoleId(IdsOf(e, k), m.accept[k]), FALSE)
  BY <1>10, <1>11
<1>17. \A k \in Names \ DOMAIN m.accept : k \in DOMAIN types'[e] <=>
          k \in DOMAIN types[e] /\ k \notin Rejected(e, m)
  BY <1>10, <1>11
<1>18. \A k \in DOMAIN types'[e] : k \notin DOMAIN m.accept => types'[e][k] = types[e][k]
  BY <1>10, <1>11
<1> QED
  BY <1>1, <1>3, <1>11, <1>12, <1>13, <1>14, <1>15, <1>16, <1>17, <1>18

(* The pairs of a larger id and a smaller that a response settles.         *)
IdsAfter(e, m) == [n \in DOMAIN m.accept |-> AddRoleId(IdsOf(e, n), m.accept[n])]
Both(e, m) == {n \in DOMAIN m.accept : Len(IdsAfter(e, m)[n]) = 2 /\ IdsAfter(e, m)[n][2] \notin DOMAIN remapping}
OneOf(e, m, id) == CHOOSE n \in Both(e, m) : IdsAfter(e, m)[n][2] = id
Settled(e, m) == [id \in {IdsAfter(e, m)[n][2] : n \in Both(e, m)} |-> IdsAfter(e, m)[OneOf(e, m, id)][1]]

(* A pair that is settled is the two ids of a type the response accepts. *)
LEMMA SettledFact ==
    ASSUME Shapes, NEW e \in Ends, NEW m, IsPartial(m.accept, Names, Nat)
    PROVE  /\ IsPartial(Settled(e, m), Nat, Nat)
           /\ \A id \in DOMAIN Settled(e, m) : \E n \in DOMAIN m.accept :
                 LET ids == AddRoleId(IdsOf(e, n), m.accept[n])
                 IN  Len(ids) = 2 /\ ids[2] = id /\ ids[1] = Settled(e, m)[id]
<1> DEFINE ids == IdsAfter(e, m)
           D == {ids[n][2] : n \in Both(e, m)}
<1>1. \A n \in DOMAIN m.accept : m.accept[n] \in Nat /\ IdsOf(e, n) \in Seq(Nat)
  BY IdsFact DEF IsPartial
<1>2. \A n \in DOMAIN m.accept : ids[n] = AddRoleId(IdsOf(e, n), m.accept[n]) /\ ids[n] \in Seq(Nat)
  BY <1>1, AddRoleIdType DEF IdsAfter
<1>3. \A n \in Both(e, m) : n \in DOMAIN m.accept /\ Len(ids[n]) = 2 /\ ids[n] \in Seq(Nat)
  BY <1>2 DEF Both
<1> HIDE DEF ids
<1>4. \A n \in Both(e, m) : ids[n][1] \in Nat /\ ids[n][2] \in Nat
  BY <1>3, ElementOfSeq
<1>5. ASSUME NEW id \in D
      PROVE  OneOf(e, m, id) \in Both(e, m) /\ ids[OneOf(e, m, id)][2] = id
  BY DEF OneOf, ids
<1>6. Settled(e, m) = [id \in D |-> ids[OneOf(e, m, id)][1]]
  BY DEF Settled, ids
<1>7. IsPartial(Settled(e, m), Nat, Nat)
  BY <1>4, <1>5, <1>6 DEF IsPartial
<1>8. ASSUME NEW id \in DOMAIN Settled(e, m)
      PROVE  \E n \in DOMAIN m.accept :
                LET new == AddRoleId(IdsOf(e, n), m.accept[n])
                IN  Len(new) = 2 /\ new[2] = id /\ new[1] = Settled(e, m)[id]
  <2>1. id \in D /\ Settled(e, m)[id] = ids[OneOf(e, m, id)][1]
    BY <1>6, <1>8
  <2>2. OneOf(e, m, id) \in Both(e, m) /\ ids[OneOf(e, m, id)][2] = id
    BY <1>5, <2>1
  <2> QED
    BY <1>2, <1>3, <2>1, <2>2
<1> QED
  BY <1>7, <1>8

(* The abbreviations above are what OnResponse says. *)
LEMMA ResponseSettles ==
    ASSUME Shapes, NEW e \in Ends, OnResponse(e), MayAccept(e, Head(wire[e])), e = reader
    PROVE  SettleMessageTypes(Settled(e, Head(wire[e])))
<1> DEFINE m == Head(wire[e])
           ids == [n \in DOMAIN m.accept |-> AddRoleId(IdsOf(e, n), m.accept[n])]
           both == {n \in DOMAIN m.accept : Len(ids[n]) = 2 /\ ids[n][2] \notin DOMAIN remapping}
           settled == [id \in {ids[n][2] : n \in both} |-> (CHOOSE n \in both : ids[n][2] = id)]
           s == [id \in DOMAIN settled |-> ids[settled[id]][1]]
<1>2. SettleMessageTypes(s)
  BY DEF OnResponse, MayAccept
<1>3. ids = IdsAfter(e, m)
  BY DEF IdsAfter
<1> HIDE DEF ids
<1>4. both = Both(e, m)
  BY <1>3 DEF Both
<1> HIDE DEF both
<1>5. s = Settled(e, m)
  BY <1>3, <1>4 DEF Settled, OneOf
<1> QED
  BY <1>2, <1>5

(* Settling keeps the types, and neither adds nor drops a chunk. *)
LEMMA SettleShapes ==
    ASSUME Shapes, NEW s, IsPartial(s, Nat, Nat), SettleMessageTypes(s)
    PROVE  /\ IsPartial(remapping', Nat, Nat) /\ chunks' \in Seq(ChunkT) /\ reads' \in [Filters -> ReadT]
           /\ chained' = chained
           /\ Len(chunks') = Len(chunks) /\ DOMAIN chunks' = DOMAIN chunks
           /\ \A i \in DOMAIN chunks : chunks'[i] =
                 [chunks[i] EXCEPT !.active = IF chunks[i].active \in DOMAIN s THEN s[chunks[i].active] ELSE @]
           /\ \A f \in Filters : /\ reads'[f].state = reads[f].state /\ reads'[f].got = reads[f].got
                                 /\ reads'[f].under = reads[f].under \cup {s[id] : id \in DOMAIN s \cap reads[f].under}
<1>1. chunks \in Seq(ChunkT) /\ DOMAIN chunks = 1 .. Len(chunks) /\ Len(chunks) \in Nat
  BY LenProperties DEF Shapes
<1>2. \A i \in DOMAIN chunks : chunks[i] \in ChunkT
  BY <1>1, ElementOfSeq
<1> DEFINE c(i) == [chunks[i] EXCEPT !.active = IF chunks[i].active \in DOMAIN s THEN s[chunks[i].active] ELSE @]
<1>3. \A i \in DOMAIN chunks : c(i) \in ChunkT
  BY <1>2 DEF ChunkT, IsPartial
<1>4. chunks' = [i \in DOMAIN chunks |-> c(i)]
  BY DEF SettleMessageTypes
<1> HIDE DEF c
<1>5. chunks' \in [1 .. Len(chunks) -> ChunkT]
  BY <1>1, <1>3, <1>4
<1>6. chunks' \in Seq(ChunkT) /\ Len(chunks') = Len(chunks) /\ DOMAIN chunks' = DOMAIN chunks
  BY <1>1, <1>5, IsASeq
<1>7. \A i \in DOMAIN chunks : chunks'[i] = c(i)
  BY <1>4
<1>8. IsPartial(remapping', Nat, Nat)
  BY DEF SettleMessageTypes, Shapes, IsPartial
<1>9. ASSUME NEW f \in Filters
      PROVE  /\ reads'[f] \in ReadT
             /\ reads'[f].state = reads[f].state /\ reads'[f].got = reads[f].got
             /\ reads'[f].under = reads[f].under \cup {s[id] : id \in DOMAIN s \cap reads[f].under}
  <2>1. reads[f] \in ReadT
    BY DEF Shapes
  <2>2. {s[id] : id \in DOMAIN s \cap reads[f].under} \subseteq Nat
    BY DEF IsPartial
  <2>3. reads'[f] = [reads[f] EXCEPT !.under = @ \cup {s[id] : id \in DOMAIN s \cap reads[f].under}]
    BY DEF SettleMessageTypes, SettleReads
  <2> QED
    BY <2>1, <2>2, <2>3 DEF ReadT
<1>10. reads' = [f \in Filters |-> reads'[f]]
  BY DEF SettleMessageTypes, SettleReads
<1>11. reads' \in [Filters -> ReadT]
  BY <1>9, <1>10
<1> QED
  BY <1>6, <1>7, <1>8, <1>9, <1>11 DEF c, SettleMessageTypes

(* A response keeps the types. *)
LEMMA OnResponseShapes == ASSUME Shapes, NEW e \in Ends, OnResponse(e) PROVE Shapes'
<1> DEFINE m == Head(wire[e])
<1>1. wire' \in [Ends -> Seq(MessageT)] /\ m \in MessageT /\ m.type = "response"
  BY ReceivedFact DEF OnResponse, NextIs
<1>2. CASE MayAccept(e, m)
  <2>1. /\ types' = [x \in Ends |-> types'[x]] /\ names' = [x \in Ends |-> names'[x]]
        /\ \A x \in Ends : IsPartial(types'[x], Names, EntryT) /\ IsPartial(names'[x], Nat, Names)
        /\ IsPartial(m.accept, Names, Nat)
    BY <1>2, ResponseTypes
  <2>2. /\ IsPartial(remapping', Nat, Nat) /\ chunks' \in Seq(ChunkT) /\ reads' \in [Filters -> ReadT]
        /\ chained' \subseteq Nat
    <3>1. CASE e = reader
      BY <1>2, <2>1, <3>1, ResponseSettles, SettledFact, SettleShapes DEF Shapes
    <3>2. CASE e # reader
      BY <1>2, <3>2 DEF OnResponse, MayAccept, readVars, Shapes
    <3> QED
      BY <3>1, <3>2
  <2>3. faults' = faults
    BY <1>2 DEF OnResponse, MayAccept
  <2> QED
    BY <1>1, <2>1, <2>2, <2>3 DEF OnResponse, Shapes, countVars
<1>3. CASE ~MayAccept(e, m)
  <2>1. UNCHANGED <<types, names, readVars>> /\ faults' = faults \cup {"ids"}
    BY <1>3 DEF OnResponse, MayAccept
  <2> QED
    BY <1>1, <2>1 DEF OnResponse, Shapes, countVars, readVars
<1> QED
  BY <1>2, <1>3

(* Writing keeps the types. *)
LEMMA WriteShapes == ASSUME Shapes, NEW e \in Ends, NEW n \in Names, Write(e, n) PROVE Shapes'
<1>1. IdsOf(e, n)[1] \in Nat
  BY IdsFact DEF Write
<1>2. Data(IdToWrite(IdsOf(e, n)), n) \in MessageT
  BY <1>1 DEF Data, IdToWrite, MessageT, DataT, Shapes
<1>3. wire' \in [Ends -> Seq(MessageT)]
  BY <1>2, SendFact DEF Write
<1>4. written' \in Nat
  BY DEF Write, Shapes
<1> QED
  BY <1>3, <1>4 DEF Write, Shapes, typeVars, readVars

(* A reader that waits is woken, another one stays as it is. *)
LEMMA WokenFact ==
    ASSUME NEW r \in ReadT, NEW id \in Nat
    PROVE  /\ Woken(r, id) \in ReadT /\ Woken(r, id).under = r.under
           /\ r.state = "waiting" => Woken(r, id).state = "woken" /\ Woken(r, id).got = id
           /\ r.state # "waiting" => Woken(r, id) = r
BY DEF Woken, ReadT

(* The chunk that a data message becomes, and the readers after it. *)
LEMMA ReceiveDataFact ==
    ASSUME Shapes, NEW e \in Ends, ReceiveData(e), NEW m, m = Head(wire[e]),
           NEW active, active = IF m.id \in DOMAIN remapping THEN remapping[m.id] ELSE m.id
    PROVE  LET c == [active |-> active, chain |-> active, name |-> m.name, serial |-> m.serial]
           IN  /\ m.type = "data" /\ m.id \in Nat /\ m.name \in Names /\ m.serial \in Nat /\ active \in Nat
               /\ c \in ChunkT /\ chunks' = Append(chunks, c) /\ chained' = chained \cup {active}
               /\ reads' \in [Filters -> ReadT]
               /\ \A f \in Filters : reads'[f] = IF f \in Wakes(m.id) THEN Woken(reads[f], m.id) ELSE reads[f]
<1>1. wire[e] # <<>> /\ m.type = "data" /\ Received(e)
  BY DEF ReceiveData, NextIs
<1>2. m \in MessageT
  BY <1>1, ReceivedFact
<1>3. m.id \in Nat /\ m.name \in Names /\ m.serial \in Nat
  BY <1>1, <1>2, MessageFact
<1>4. active \in Nat
  BY <1>3 DEF Shapes, IsPartial
<1>5. [active |-> active, chain |-> active, name |-> m.name, serial |-> m.serial] \in ChunkT
  BY <1>3, <1>4 DEF ChunkT
<1>6. reads' = [f \in Filters |-> IF f \in Wakes(m.id) THEN Woken(reads[f], m.id) ELSE reads[f]]
  BY DEF ReceiveData
<1>7. reads' \in [Filters -> ReadT]
  BY <1>3, <1>6, WokenFact DEF Shapes
<1> QED
  BY <1>1, <1>3, <1>4, <1>5, <1>6, <1>7 DEF ReceiveData, Chained

(* Data that arrive keep the types. *)
LEMMA ReceiveDataShapes == ASSUME Shapes, NEW e \in Ends, ReceiveData(e) PROVE Shapes'
<1> DEFINE m == Head(wire[e])
           active == IF m.id \in DOMAIN remapping THEN remapping[m.id] ELSE m.id
           c == [active |-> active, chain |-> active, name |-> m.name, serial |-> m.serial]
<1>1. active \in Nat /\ c \in ChunkT /\ chunks' = Append(chunks, c) /\ chained' = chained \cup {active}
  BY ReceiveDataFact
<1>2. reads' \in [Filters -> ReadT]
  BY ReceiveDataFact
<1> HIDE DEF c, active
<1>3. chunks' \in Seq(ChunkT) /\ chained' \subseteq Nat
  BY <1>1, AppendProperties DEF Shapes
<1>4. wire' \in [Ends -> Seq(MessageT)]
  BY ReceivedFact DEF ReceiveData, NextIs
<1> QED
  BY <1>2, <1>3, <1>4 DEF ReceiveData, Shapes, typeVars, countVars

(* Reading takes a chunk, or nothing. *)
LEMMA ReadSyncFact ==
    ASSUME Shapes, NEW candidate, candidate \subseteq DOMAIN chunks, ReadSync(candidate)
    PROVE  /\ Selected(candidate) \subseteq DOMAIN chunks
           /\ Selected(candidate) = {} => chunks' = chunks
           /\ Selected(candidate) # {} => \E i \in Selected(candidate) : chunks' = RemoveAt(chunks, i)
           /\ chunks' \in Seq(ChunkT)
           /\ faults' = IF Throws(candidate) THEN faults \cup {"chain"} ELSE faults
<1>1. Selected(candidate) \subseteq DOMAIN chunks
  BY DEF Selected, FirstOf, Chain
<1>2. chunks \in Seq(ChunkT)
  BY DEF Shapes
<1>3. \A i \in DOMAIN chunks : RemoveAt(chunks, i) \in Seq(ChunkT)
  BY <1>2, RemoveAtFact
<1> QED
  BY <1>1, <1>2, <1>3 DEF ReadSync

(* The candidates of a read are indices of chunks. *)
LEMMA CandidateFact ==
    /\ First \subseteq DOMAIN chunks
    /\ \A ids : FirstAmong(ids) \subseteq DOMAIN chunks
BY DEF First, FirstAmong, FirstOf, Chain

(* A call of read keeps the types. *)
LEMMA ReadShapes == ASSUME Shapes, NEW f \in Filters, Read(f) PROVE Shapes'
<1> DEFINE ids == IF f = All THEN <<>> ELSE IdsToRead(f)
           candidate == IF f = All THEN First ELSE FirstAmong(ids)
<1>1. candidate \subseteq DOMAIN chunks
  BY CandidateFact
<1>2. ids \in Seq(Nat)
  BY IdsFact DEF IdsToRead, Shapes
<1>3. Range(ids) \subseteq Nat
  BY <1>2, ElementOfSeq, LenProperties DEF Range
<1> HIDE DEF ids
<1>4. /\ \/ ReadSync(candidate) /\ UNCHANGED reads
         \/ /\ reads' = [reads EXCEPT ![f] = [state |-> "waiting", under |-> Range(ids), got |-> 0]]
            /\ UNCHANGED <<chunks, faults>>
      /\ called' = called + 1
      /\ UNCHANGED <<careful, reader, typeVars, handlers, wire, closed, remapping, chained, requested, written>>
  BY DEF Read, ids
<1> HIDE DEF candidate
<1>5. chunks' \in Seq(ChunkT) /\ faults' \subseteq {"ids", "chain"}
  BY <1>1, <1>4, ReadSyncFact DEF Shapes
<1>6. [state |-> "waiting", under |-> Range(ids), got |-> 0] \in ReadT
  BY <1>3 DEF ReadT
<1>7. reads' \in [Filters -> ReadT]
  BY <1>4, <1>6 DEF Shapes
<1> QED
  BY <1>4, <1>5, <1>7 DEF Shapes, typeVars

(* A read that continues keeps the types. *)
LEMMA ContinueShapes == ASSUME Shapes, NEW f \in Filters, Continue(f) PROVE Shapes'
<1>1. chunks' \in Seq(ChunkT) /\ faults' \subseteq {"ids", "chain"}
  BY CandidateFact, ReadSyncFact DEF Continue, Shapes
<1>2. NoRead \in ReadT
  BY DEF NoRead, ReadT
<1>3. reads' \in [Filters -> ReadT]
  BY <1>2 DEF Continue, Shapes
<1> QED
  BY <1>1, <1>3 DEF Continue, Shapes, typeVars, countVars

(* A disconnect keeps the types. *)
LEMMA DisconnectShapes == ASSUME Shapes, NEW e \in Ends, Disconnect(e) PROVE Shapes'
<1>1. <<>> \in Seq(MessageT)
  OBVIOUS
<1>2. \A S, T : IsPartial(<<>>, S, T)
  BY EmptyFact
<1>3. reads' \in [Filters -> ReadT]
  BY WokenFact DEF Disconnect, Shapes
<1>4. wire' \in [Ends -> Seq(MessageT)]
  BY <1>1 DEF Disconnect, Shapes
<1>5. /\ types' = [x \in Ends |-> types'[x]] /\ names' = [x \in Ends |-> names'[x]]
      /\ \A x \in Ends : types'[x] = (IF x = e THEN <<>> ELSE types[x]) /\ names'[x] = (IF x = e THEN <<>> ELSE names[x])
  BY DEF Disconnect, Shapes
<1>6. \A x \in Ends : IsPartial(types'[x], Names, EntryT) /\ IsPartial(names'[x], Nat, Names)
  BY <1>2, <1>5 DEF Shapes
<1>7. closed' \in [Ends -> BOOLEAN] /\ handlers' \in [Ends -> SUBSET HandlerT]
  BY DEF Disconnect, Shapes
<1> QED
  BY <1>3, <1>4, <1>5, <1>6, <1>7 DEF Disconnect, Shapes, countVars

----------------------------------------------------------------------------
(* Where a registration is.  Of e as the one that is asked: the request is *)
(* on its way to e, in a handler of e, or answered on the way back.        *)

Handled(e, n) == \E h \in handlers[e] : About(h, n)
Asked(e, n) == RequestIn(wire[e], n) \/ \E h \in handlers[e] : n \in h.names
Refused(e, n) == (\E h \in handlers[e] : n \in h.reject) \/ RefusalIn(wire[Peer(e)], n)
UnderWay(e, n) == RequestIn(wire[e], n) \/ Handled(e, n) \/ AnswerIn(wire[Peer(e)], n)

OneVerdict(q) == \A n \in Names, id \in Nat : ~(AcceptIn(q, id, n) /\ RefusalIn(q, n))
OneQueue(q) == OneRequest(q) /\ OneAnswer(q) /\ OneVerdict(q)
Apart(h) == h.names \cap DOMAIN h.accept = {} /\ h.names \cap h.reject = {} /\ DOMAIN h.accept \cap h.reject = {}

(* It is in one place. *)
OnePlace ==
    \A e \in Ends :
        /\ OneQueue(wire[e])
        /\ \A h \in handlers[e] : Apart(h)
        /\ \A n \in Names : \A g, h \in handlers[e] : About(g, n) /\ About(h, n) => g = h
        /\ \A n \in Names : /\ ~(RequestIn(wire[e], n) /\ Handled(e, n))
                            /\ ~(RequestIn(wire[e], n) /\ AnswerIn(wire[Peer(e)], n))
                            /\ ~(Handled(e, n) /\ AnswerIn(wire[Peer(e)], n))

(* And while it is anywhere, and the one that asked is open, its type      *)
(* awaits the response; while both are open, only then.                    *)
AwaitsResponse == \A e \in Ends, n \in Names : ~closed[Peer(e)] /\ UnderWay(e, n) => Pending(Peer(e), n)
ResponseComes ==
    \A e \in Ends, n \in Names :
        ~closed[e] /\ ~closed[Peer(e)] /\ Pending(Peer(e), n) => UnderWay(e, n)
ClosedIsEmpty ==
    \A e \in Ends : closed[e] => wire[e] = <<>> /\ handlers[e] = {} /\ types[e] = <<>> /\ names[e] = <<>>
Places == Shapes /\ OnePlace /\ AwaitsResponse /\ ResponseComes /\ ClosedIsEmpty

(* A message says only what its type lets it say. *)
LEMMA KindFact ==
    ASSUME NEW m
    PROVE  /\ m.type # "request" => \A n : ~Asks(m, n)
           /\ m.type # "response" => \A n : ~Answers(m, n) /\ ~Refuses(m, n) /\ \A id : ~Accepts(m, id, n)
           /\ \A n : Answers(m, n) <=> (\E id : Accepts(m, id, n)) \/ Refuses(m, n)
BY DEF Asks, Answers, Refuses, Accepts

(* An answer in a queue is an acceptance or a refusal. *)
LEMMA AnswerFact ==
    ASSUME NEW q
    PROVE  /\ \A n : AnswerIn(q, n) <=> (\E id : AcceptIn(q, id, n)) \/ RefusalIn(q, n)
           /\ \A n, id : AcceptIn(q, id, n) => AnswerIn(q, n)
BY DEF AnswerIn, AcceptIn, RefusalIn, Answers, Accepts, Refuses

(* What is accepted in a queue is an id for a name. *)
LEMMA AcceptedFact ==
    ASSUME NEW q \in Seq(MessageT), NEW id, NEW n, AcceptIn(q, id, n)
    PROVE  id \in Nat /\ n \in Names
<1>1. PICK i \in DOMAIN q : Accepts(q[i], id, n)
  BY DEF AcceptIn
<1>2. q[i] \in MessageT
  BY ElementOfSeq, LenProperties
<1> QED
  BY <1>1, <1>2, MessageFact DEF Accepts, IsPartial

(* What does not concern requests and responses keeps all of it. *)
SameQueue(q, r) ==
    /\ \A n : RequestIn(r, n) <=> RequestIn(q, n)
    /\ \A n : AnswerIn(r, n) <=> AnswerIn(q, n)
    /\ \A n : RefusalIn(r, n) <=> RefusalIn(q, n)
    /\ \A id, n : AcceptIn(r, id, n) <=> AcceptIn(q, id, n)
    /\ OneRequest(q) => OneRequest(r)
    /\ OneAnswer(q) => OneAnswer(r)
SameRegistration ==
    /\ UNCHANGED <<types, names, nextId, handlers, closed>>
    /\ \A e \in Ends : SameQueue(wire[e], wire'[e]) /\ (closed[e] /\ wire[e] = <<>> => wire'[e] = <<>>)

(* Data that are added or taken say nothing of registrations. *)
LEMMA SameQueueFact ==
    ASSUME NEW q \in Seq(MessageT), NEW m \in MessageT, m.type = "data"
    PROVE  /\ SameQueue(q, Append(q, m))
           /\ q # <<>> /\ Head(q) = m => SameQueue(q, Tail(q))
<1>1. \A n : ~Asks(m, n) /\ ~Answers(m, n) /\ ~Refuses(m, n) /\ \A id : ~Accepts(m, id, n)
  BY KindFact
<1>2. /\ \A n : RequestIn(Append(q, m), n) <=> RequestIn(q, n) \/ Asks(m, n)
      /\ \A n : AnswerIn(Append(q, m), n) <=> AnswerIn(q, n) \/ Answers(m, n)
      /\ \A n : RefusalIn(Append(q, m), n) <=> RefusalIn(q, n) \/ Refuses(m, n)
      /\ \A id, n : AcceptIn(Append(q, m), id, n) <=> AcceptIn(q, id, n) \/ Accepts(m, id, n)
      /\ OneRequest(q) /\ (\A n \in Names : ~(RequestIn(q, n) /\ Asks(m, n))) => OneRequest(Append(q, m))
      /\ OneAnswer(q) /\ (\A n \in Names : ~(AnswerIn(q, n) /\ Answers(m, n))) => OneAnswer(Append(q, m))
  BY AppendQueue
<1>3. SameQueue(q, Append(q, m))
  BY <1>1, <1>2 DEF SameQueue
<1>4. ASSUME q # <<>>, Head(q) = m PROVE SameQueue(q, Tail(q))
  <2>1. /\ \A n : RequestIn(q, n) <=> RequestIn(Tail(q), n) \/ Asks(m, n)
        /\ \A n : AnswerIn(q, n) <=> AnswerIn(Tail(q), n) \/ Answers(m, n)
        /\ \A n : RefusalIn(q, n) <=> RefusalIn(Tail(q), n) \/ Refuses(m, n)
        /\ \A id, n : AcceptIn(q, id, n) <=> AcceptIn(Tail(q), id, n) \/ Accepts(m, id, n)
        /\ OneRequest(q) => OneRequest(Tail(q))
        /\ OneAnswer(q) => OneAnswer(Tail(q))
    BY <1>4, TailQueue
  <2> QED
    BY <1>1, <2>1 DEF SameQueue
<1> QED
  BY <1>3, <1>4

(* Writing does not concern the registrations. *)
LEMMA WriteSame ==
    ASSUME Shapes, NEW e \in Ends, NEW n \in Names, Write(e, n) PROVE SameRegistration
<1> DEFINE m == Data(IdToWrite(IdsOf(e, n)), n)
<1>1. IdsOf(e, n)[1] \in Nat
  BY IdsFact DEF Write
<1>2. m \in MessageT /\ m.type = "data"
  BY <1>1 DEF Data, IdToWrite, MessageT, DataT, Shapes
<1> HIDE DEF m
<1>3. Send(e, m)
  BY DEF Write, m
<1>4. /\ wire'[e] = wire[e] /\ (closed[Peer(e)] => wire' = wire)
      /\ ~closed[Peer(e)] => wire'[Peer(e)] = Append(wire[Peer(e)], m)
      /\ wire[Peer(e)] \in Seq(MessageT)
  BY <1>2, <1>3, SendFact
<1>5. SameQueue(wire[Peer(e)], Append(wire[Peer(e)], m))
  BY <1>2, <1>4, SameQueueFact
<1>6. \A q : SameQueue(q, q)
  BY DEF SameQueue
<1>7. \A x \in Ends : SameQueue(wire[x], wire'[x]) /\ (closed[x] => wire'[x] = wire[x])
  <2>1. closed[Peer(e)] \in BOOLEAN /\ ~closed[e]
    BY PeerFact DEF Shapes, Write
  <2> QED
    BY <1>4, <1>5, <1>6, <2>1, PeerFact
<1> QED
  BY <1>7 DEF SameRegistration, Write, typeVars

(* Data that arrive do not concern them. *)
LEMMA ReceiveDataSame == ASSUME Shapes, NEW e \in Ends, ReceiveData(e) PROVE SameRegistration
<1> DEFINE m == Head(wire[e])
<1>1. wire[e] # <<>> /\ m.type = "data" /\ Received(e) /\ ~closed[e]
  BY DEF ReceiveData, NextIs
<1>2. wire'[e] = Tail(wire[e]) /\ wire'[Peer(e)] = wire[Peer(e)] /\ wire[e] \in Seq(MessageT)
  BY <1>1, ReceivedFact
<1>3. SameQueue(wire[e], Tail(wire[e]))
  BY <1>1, <1>2, ReceivedFact, SameQueueFact
<1>4. \A q : SameQueue(q, q)
  BY DEF SameQueue
<1> QED
  BY <1>1, <1>2, <1>3, <1>4, PeerFact DEF SameRegistration, ReceiveData, typeVars

(* Reading does not concern them. *)
LEMMA ReadSame ==
    ASSUME Shapes, NEW f \in Filters, Read(f) \/ Continue(f) PROVE SameRegistration
<1>1. wire' = wire /\ UNCHANGED <<types, names, nextId, handlers, closed>>
  BY DEF Read, Continue, typeVars
<1> QED
  BY <1>1 DEF SameRegistration, SameQueue

(* After such a step every request is where it was. *)
LEMMA SameFact ==
    ASSUME Shapes, SameRegistration, NEW e \in Ends, NEW n
    PROVE  /\ Handled(e, n)' <=> Handled(e, n)
           /\ Asked(e, n)' <=> Asked(e, n)
           /\ Refused(e, n)' <=> Refused(e, n)
           /\ UnderWay(e, n)' <=> UnderWay(e, n)
           /\ IdsOf(e, n)' = IdsOf(e, n) /\ (Known(e, n)' <=> Known(e, n)) /\ (Pending(e, n)' <=> Pending(e, n))
           /\ \A id : Said(e, id, n)' <=> Said(e, id, n)
<1>1. handlers' = handlers /\ types' = types /\ names' = names /\ Peer(e) \in Ends
  BY PeerFact DEF SameRegistration
<1>2. Handled(e, n)' <=> Handled(e, n)
  BY <1>1 DEF Handled
<1> QED
  BY <1>1, <1>2 DEF SameRegistration, SameQueue, Asked, Refused, UnderWay, IdsOf, Known, Pending, Said

(* Such a step keeps the places. *)
LEMMA SamePlaces == ASSUME Places, Shapes', SameRegistration PROVE Places'
<1>1. handlers' = handlers /\ types' = types /\ names' = names /\ closed' = closed
  BY DEF SameRegistration
<1>2. \A e \in Ends : SameQueue(wire[e], wire'[e]) /\ SameQueue(wire[Peer(e)], wire'[Peer(e)])
  BY PeerFact DEF SameRegistration
<1>3. \A e \in Ends : OneQueue(wire[e])'
  BY <1>2 DEF Places, OnePlace, OneQueue, OneVerdict, SameQueue
<1>4. \A e \in Ends, n \in Names : Handled(e, n)' <=> Handled(e, n)
  BY <1>1 DEF Handled
<1>5. OnePlace'
  BY <1>1, <1>2, <1>3, <1>4 DEF Places, OnePlace, SameQueue
<1>6. AwaitsResponse' /\ ResponseComes'
  BY <1>1, SameFact, PeerFact DEF Places, AwaitsResponse, ResponseComes
<1>7. ClosedIsEmpty'
  BY <1>1 DEF SameRegistration, Places, ClosedIsEmpty
<1> QED
  BY <1>5, <1>6, <1>7 DEF Places

----------------------------------------------------------------------------
(* What the steps of a registration do.                                    *)

(* What addMessageTypes does to the entries of the end. *)
LEMMA AddTypes ==
    ASSUME Shapes, NEW e \in Ends, NEW ns \in Registrations, AddMessageTypes(e, ns)
    PROVE  LET new == {n \in ns : ~Known(e, n)}
           IN  /\ new \subseteq Names /\ Request(new) \in MessageT /\ Send(e, Request(new)) /\ ~closed[e]
               /\ UNCHANGED <<names, nextId, handlers, closed, careful, reader>>
               /\ \A x \in Ends, k \in Names :
                     /\ Known(x, k)' <=> Known(x, k) \/ (x = e /\ k \in new)
                     /\ Pending(x, k)' <=> Pending(x, k) \/ (x = e /\ k \in new)
                     /\ IdsOf(x, k)' = IdsOf(x, k)
               /\ \A x \in Ends : closed[x] => types'[x] = types[x]
<1> DEFINE new == {n \in ns : ~Known(e, n)}
           ts == [n \in DOMAIN types[e] \cup new |-> IF n \in new THEN NewEntry(n) ELSE types[e][n]]
<1>1. new \subseteq Names /\ Request(new) \in MessageT
  BY RegistrationsAssumption, MakeFact
<1>2. types' = [types EXCEPT ![e] = ts] /\ Send(e, Request(new)) /\ ~closed[e]
  BY DEF AddMessageTypes
<1>3. \A n : NewEntry(n).ids = <<>> /\ NewEntry(n).pending = TRUE
  BY DEF NewEntry, Entry
<1>4. DOMAIN ts = DOMAIN types[e] \cup new /\ \A k \in DOMAIN ts : ts[k] = IF k \in new THEN NewEntry(k) ELSE types[e][k]
  OBVIOUS
<1>5. \A k \in new : k \notin DOMAIN types[e]
  BY DEF Known
<1> HIDE DEF ts, new
<1>6. types'[e] = ts /\ \A x \in Ends : x # e => types'[x] = types[x]
  BY <1>2 DEF Shapes
<1>7. ASSUME NEW x \in Ends, NEW k \in Names
      PROVE  /\ Known(x, k)' <=> Known(x, k) \/ (x = e /\ k \in new)
             /\ Pending(x, k)' <=> Pending(x, k) \/ (x = e /\ k \in new)
             /\ IdsOf(x, k)' = IdsOf(x, k)
  <2>1. CASE x # e
    BY <1>6, <2>1 DEF Known, Pending, IdsOf
  <2>2. CASE x = e /\ k \notin new
    BY <1>4, <1>6, <2>2 DEF Known, Pending, IdsOf
  <2>3. CASE x = e /\ k \in new
    <3>1. ~Known(e, k) /\ Known(e, k)' /\ types'[e][k] = NewEntry(k)
      BY <1>4, <1>5, <1>6, <2>3 DEF Known
    <3> QED
      BY <1>3, <2>3, <3>1 DEF Pending, IdsOf
  <2> QED
    BY <2>1, <2>2, <2>3
<1>8. \A x \in Ends : closed[x] => types'[x] = types[x]
  BY <1>2, <1>6
<1> QED
  BY <1>1, <1>2, <1>7, <1>8 DEF new, AddMessageTypes

(* A new request is in one place: no other one of its end is under way for *)
(* any of its names, since none was known.                                 *)
LEMMA AddPlaces ==
    ASSUME Places, Shapes', NEW e \in Ends, NEW ns \in Registrations, AddMessageTypes(e, ns)
    PROVE  /\ Places'
           /\ \A x \in Ends, k \in Names :
                 /\ Asked(x, k)' => Asked(x, k) \/ (x = Peer(e) /\ ~Known(e, k) /\ ~closed[e])
                 /\ Refused(x, k)' <=> Refused(x, k)
           /\ \A x \in Ends : \A id, k : AcceptIn(wire[x], id, k)' <=> AcceptIn(wire[x], id, k)
<1> DEFINE new == {n \in ns : ~Known(e, n)}
           m == Request(new)
           p == Peer(e)
<1>0. Shapes /\ p \in Ends /\ p # e /\ Peer(p) = e /\ \A x \in Ends : x = e \/ x = p
  BY PeerFact DEF Places
<1>1. /\ m \in MessageT /\ Send(e, m) /\ ~closed[e]
      /\ UNCHANGED <<names, nextId, handlers, closed>>
      /\ \A x \in Ends, k \in Names :
            /\ Known(x, k)' <=> Known(x, k) \/ (x = e /\ k \in new)
            /\ Pending(x, k)' <=> Pending(x, k) \/ (x = e /\ k \in new)
      /\ \A x \in Ends : closed[x] => types'[x] = types[x]
  BY <1>0, AddTypes
<1>2. (\A n : Asks(m, n) <=> n \in new) /\ \A n : ~Answers(m, n) /\ ~Refuses(m, n) /\ \A id : ~Accepts(m, id, n)
  BY DEF Request, Asks, Answers, Refuses, Accepts
<1>3. \A n \in new : ~Known(e, n)
  OBVIOUS
<1> HIDE DEF m, new
<1>4. /\ wire'[e] = wire[e] /\ (closed[p] => wire'[p] = wire[p])
      /\ ~closed[p] => wire'[p] = Append(wire[p], m)
      /\ wire[p] \in Seq(MessageT)
  BY <1>0, <1>1, SendFact
<1>5. ASSUME ~closed[p]
      PROVE  /\ \A n : RequestIn(wire'[p], n) <=> RequestIn(wire[p], n) \/ n \in new
             /\ \A n : AnswerIn(wire'[p], n) <=> AnswerIn(wire[p], n)
             /\ \A n : RefusalIn(wire'[p], n) <=> RefusalIn(wire[p], n)
             /\ \A id, n : AcceptIn(wire'[p], id, n) <=> AcceptIn(wire[p], id, n)
             /\ OneRequest(wire[p]) /\ (\A n \in Names : ~(RequestIn(wire[p], n) /\ n \in new)) => OneRequest(wire'[p])
             /\ OneAnswer(wire[p]) => OneAnswer(wire'[p])
  <2> DEFINE q == wire[p]
  <2>1. wire'[p] = Append(q, m) /\ q \in Seq(MessageT)
    BY <1>4, <1>5
  <2> HIDE DEF q
  <2>2. /\ \A n : RequestIn(Append(q, m), n) <=> RequestIn(q, n) \/ Asks(m, n)
        /\ \A n : AnswerIn(Append(q, m), n) <=> AnswerIn(q, n) \/ Answers(m, n)
        /\ \A n : RefusalIn(Append(q, m), n) <=> RefusalIn(q, n) \/ Refuses(m, n)
        /\ \A id, n : AcceptIn(Append(q, m), id, n) <=> AcceptIn(q, id, n) \/ Accepts(m, id, n)
        /\ OneRequest(q) /\ (\A n \in Names : ~(RequestIn(q, n) /\ Asks(m, n))) => OneRequest(Append(q, m))
        /\ OneAnswer(q) /\ (\A n \in Names : ~(AnswerIn(q, n) /\ Answers(m, n))) => OneAnswer(Append(q, m))
    BY <1>1, <2>1, AppendQueue
  <2> QED
    BY <1>2, <2>1, <2>2 DEF q
<1>6. \A n \in Names : n \in new => ~UnderWay(p, n)
  <2>1. \A n \in Names : UnderWay(p, n) => Pending(e, n)
    BY <1>0, <1>1 DEF Places, AwaitsResponse
  <2> QED
    BY <1>3, <2>1 DEF Pending
<1>7. \A x \in Ends, n \in Names : Handled(x, n)' <=> Handled(x, n)
  BY <1>1 DEF Handled
<1>8. \A x \in Ends, n \in Names : RequestIn(wire[x], n)' <=> RequestIn(wire[x], n) \/ (x = p /\ n \in new /\ ~closed[p])
  BY <1>0, <1>4, <1>5
<1>9. \A x \in Ends, n \in Names : /\ AnswerIn(wire[x], n)' <=> AnswerIn(wire[x], n)
                                   /\ RefusalIn(wire[x], n)' <=> RefusalIn(wire[x], n)
  BY <1>0, <1>4, <1>5
<1>10. \A x \in Ends : \A id, n : AcceptIn(wire[x], id, n)' <=> AcceptIn(wire[x], id, n)
  BY <1>0, <1>4, <1>5
<1>11. \A x \in Ends : OneQueue(wire[x])'
  <2>1. \A x \in Ends : OneQueue(wire[x])
    BY DEF Places, OnePlace
  <2>2. \A n \in Names : ~(RequestIn(wire[p], n) /\ n \in new)
    BY <1>6 DEF UnderWay
  <2>3. \A x \in Ends : OneRequest(wire[x])' /\ OneAnswer(wire[x])'
    BY <1>0, <1>4, <1>5, <2>1, <2>2 DEF OneQueue
  <2> QED
    BY <1>9, <1>10, <2>1, <2>3 DEF OneQueue, OneVerdict
<1>12. \A x \in Ends, n \in Names : UnderWay(x, n)' <=> UnderWay(x, n) \/ (x = p /\ n \in new /\ ~closed[p])
  BY <1>7, <1>8, <1>9, PeerFact DEF UnderWay
<1>13. OnePlace'
  <2>1. ASSUME NEW x \in Ends, NEW n \in Names
        PROVE  /\ ~(RequestIn(wire[x], n) /\ Handled(x, n))'
               /\ ~(RequestIn(wire[x], n) /\ AnswerIn(wire[Peer(x)], n))'
               /\ ~(Handled(x, n) /\ AnswerIn(wire[Peer(x)], n))'
    <3>1. Peer(x) \in Ends
      BY PeerFact
    <3>2. CASE x = p /\ n \in new
      <4>1. ~RequestIn(wire[p], n) /\ ~Handled(p, n) /\ ~AnswerIn(wire[Peer(p)], n)
        BY <1>6, <3>2 DEF UnderWay
      <4> QED
        BY <1>7, <1>9, <3>1, <3>2, <4>1
    <3>3. CASE ~(x = p /\ n \in new)
      BY <1>7, <1>8, <1>9, <3>1, <3>3 DEF Places, OnePlace
    <3> QED
      BY <3>2, <3>3
  <2> QED
    BY <1>1, <1>11, <2>1 DEF Places, OnePlace
<1>14. AwaitsResponse'
  BY <1>0, <1>1, <1>12, PeerFact DEF Places, AwaitsResponse
<1>15. ResponseComes'
  BY <1>0, <1>1, <1>12, PeerFact DEF Places, ResponseComes
<1>16. ClosedIsEmpty'
  BY <1>0, <1>1, <1>4 DEF Places, ClosedIsEmpty
<1>17. \A x \in Ends, k \in Names : /\ Asked(x, k)' => Asked(x, k) \/ (x = p /\ k \in new)
                                    /\ Refused(x, k)' <=> Refused(x, k)
  BY <1>1, <1>8, <1>9, PeerFact DEF Asked, Refused
<1> QED
  BY <1>1, <1>3, <1>10, <1>13, <1>14, <1>15, <1>16, <1>17 DEF Places

(* A request that arrives moves from the queue to a handler. *)
LEMMA OnRequestPlaces ==
    ASSUME Places, Shapes', NEW e \in Ends, OnRequest(e)
    PROVE  /\ Places'
           /\ \A x \in Ends, k \in Names : /\ Asked(x, k)' <=> Asked(x, k)
                                           /\ Refused(x, k)' <=> Refused(x, k)
           /\ \A x \in Ends : \A id, k : AcceptIn(wire[x], id, k)' <=> AcceptIn(wire[x], id, k)
           /\ ~closed[e] /\ UNCHANGED <<types, names, nextId, closed, careful, reader>>
           /\ \E h \in HandlerT :
                 /\ handlers' = [handlers EXCEPT ![e] = @ \cup {h}]
                 /\ h = [names |-> Head(wire[e]).names, accept |-> <<>>, reject |-> {}]
<1> DEFINE m == Head(wire[e])
           h == [names |-> m.names, accept |-> <<>>, reject |-> {}]
           p == Peer(e)
<1>0. Shapes /\ p \in Ends /\ p # e /\ Peer(p) = e /\ \A x \in Ends : x = e \/ x = p
  BY PeerFact DEF Places
<1>1. wire[e] # <<>> /\ m.type = "request" /\ Received(e) /\ ~closed[e]
  BY DEF OnRequest, NextIs
<1>2. wire'[e] = Tail(wire[e]) /\ wire'[p] = wire[p] /\ wire[e] \in Seq(MessageT) /\ m \in MessageT
  BY <1>0, <1>1, ReceivedFact
<1>3. handlers' = [handlers EXCEPT ![e] = @ \cup {h}] /\ UNCHANGED <<types, names, nextId, closed, careful, reader>>
  BY DEF OnRequest, typeVars
<1>4. h \in HandlerT
  BY <1>1, <1>2, MessageFact, MakeFact, EmptyFact
<1>5. Apart(h) /\ h.reject = {} /\ \A n : (About(h, n) <=> Asks(m, n)) /\ (n \in h.names <=> Asks(m, n))
  BY <1>1, EmptyFact DEF Apart, About, Asks
<1>6. \A n : ~Answers(m, n) /\ ~Refuses(m, n) /\ \A id : ~Accepts(m, id, n)
  BY <1>1, KindFact
<1> HIDE DEF m, h
<1>7. /\ \A n : RequestIn(wire[e], n) <=> RequestIn(wire'[e], n) \/ Asks(m, n)
      /\ \A n : AnswerIn(wire[e], n) <=> AnswerIn(wire'[e], n)
      /\ \A n : RefusalIn(wire[e], n) <=> RefusalIn(wire'[e], n)
      /\ \A id, n : AcceptIn(wire[e], id, n) <=> AcceptIn(wire'[e], id, n)
      /\ OneRequest(wire[e]) => OneRequest(wire'[e]) /\ \A n \in Names : ~(RequestIn(wire'[e], n) /\ Asks(m, n))
      /\ OneAnswer(wire[e]) => OneAnswer(wire'[e])
  <2> DEFINE q == wire[e]
  <2>1. q \in Seq(MessageT) /\ q # <<>> /\ m = Head(q)
    BY <1>1, <1>2 DEF m
  <2>2. wire'[e] = Tail(q)
    BY <1>2
  <2> HIDE DEF q
  <2>3. /\ \A n : RequestIn(q, n) <=> RequestIn(Tail(q), n) \/ Asks(m, n)
        /\ \A n : AnswerIn(q, n) <=> AnswerIn(Tail(q), n) \/ Answers(m, n)
        /\ \A n : RefusalIn(q, n) <=> RefusalIn(Tail(q), n) \/ Refuses(m, n)
        /\ \A id, n : AcceptIn(q, id, n) <=> AcceptIn(Tail(q), id, n) \/ Accepts(m, id, n)
        /\ OneRequest(q) => OneRequest(Tail(q)) /\ \A n \in Names : ~(RequestIn(Tail(q), n) /\ Asks(m, n))
        /\ OneAnswer(q) => OneAnswer(Tail(q))
    BY <2>1, TailQueue
  <2> QED
    BY <1>6, <2>2, <2>3 DEF q
<1>8. OneQueue(wire[e]) /\ OneQueue(wire[p])
  BY <1>0 DEF Places, OnePlace
<1>9. OneQueue(wire[e])' /\ OneQueue(wire[p])'
  BY <1>2, <1>7, <1>8 DEF OneQueue, OneVerdict
<1>10. handlers'[e] = handlers[e] \cup {h} /\ handlers'[p] = handlers[p]
  BY <1>0, <1>3 DEF Shapes
<1>11. \A n \in Names : /\ Handled(e, n)' <=> Handled(e, n) \/ Asks(m, n)
                        /\ Handled(p, n)' <=> Handled(p, n)
  BY <1>5, <1>10 DEF Handled
<1>12. \A n \in Names : ~(Asks(m, n) /\ RequestIn(wire'[e], n)) /\ (Asks(m, n) => RequestIn(wire[e], n))
  BY <1>7, <1>8 DEF OneQueue
<1>13. OnePlace'
  <2>1. ASSUME NEW n \in Names, NEW f \in handlers'[e], NEW g \in handlers'[e], About(f, n), About(g, n)
        PROVE  f = g
    <3>1. Asks(m, n) => ~Handled(e, n)
      BY <1>12 DEF Places, OnePlace
    <3> QED
      BY <1>5, <1>10, <2>1, <3>1 DEF Handled, Places, OnePlace
  <2>2. \A f \in handlers'[e] : Apart(f)
    BY <1>5, <1>10 DEF Places, OnePlace
  <2>3. ASSUME NEW n \in Names
        PROVE  /\ ~(RequestIn(wire[e], n) /\ Handled(e, n))'
               /\ ~(RequestIn(wire[e], n)' /\ AnswerIn(wire[p], n)')
               /\ ~(Handled(e, n)' /\ AnswerIn(wire[p], n)')
    <3>1. /\ ~(RequestIn(wire[e], n) /\ Handled(e, n))
          /\ ~(RequestIn(wire[e], n) /\ AnswerIn(wire[p], n))
          /\ ~(Handled(e, n) /\ AnswerIn(wire[p], n))
      BY DEF Places, OnePlace
    <3> QED
      BY <1>2, <1>7, <1>11, <1>12, <3>1
  <2>4. ASSUME NEW n \in Names
        PROVE  /\ ~(RequestIn(wire[p], n) /\ Handled(p, n))'
               /\ ~(RequestIn(wire[p], n)' /\ AnswerIn(wire[e], n)')
               /\ ~(Handled(p, n)' /\ AnswerIn(wire[e], n)')
    <3>1. /\ ~(RequestIn(wire[p], n) /\ Handled(p, n))
          /\ ~(RequestIn(wire[p], n) /\ AnswerIn(wire[e], n))
          /\ ~(Handled(p, n) /\ AnswerIn(wire[e], n))
      BY <1>0 DEF Places, OnePlace
    <3> QED
      BY <1>2, <1>7, <1>11, <3>1
  <2>5. ASSUME NEW x \in Ends PROVE
          /\ \A f \in handlers'[x] : Apart(f)
          /\ \A n \in Names : \A g, f \in handlers'[x] : About(g, n) /\ About(f, n) => g = f
    BY <1>0, <1>10, <2>1, <2>2 DEF Places, OnePlace
  <2> QED
    BY <1>0, <1>9, <2>3, <2>4, <2>5 DEF OnePlace
<1>14. \A x \in Ends, n \in Names : UnderWay(x, n)' <=> UnderWay(x, n)
  BY <1>0, <1>2, <1>7, <1>11 DEF UnderWay
<1>15. AwaitsResponse' /\ ResponseComes'
  BY <1>3, <1>14 DEF Places, AwaitsResponse, ResponseComes, Pending, Known
<1>16. ClosedIsEmpty'
  BY <1>0, <1>1, <1>2, <1>3, <1>10 DEF Places, ClosedIsEmpty
<1>17. \A k \in Names : (\E g \in handlers'[e] : k \in g.names) <=> (\E g \in handlers[e] : k \in g.names) \/ Asks(m, k)
  BY <1>5, <1>10
<1>18. \A k \in Names : (\E g \in handlers'[e] : k \in g.reject) <=> (\E g \in handlers[e] : k \in g.reject)
  BY <1>5, <1>10
<1>19. \A x \in Ends, k \in Names : (Asked(x, k)' <=> Asked(x, k)) /\ (Refused(x, k)' <=> Refused(x, k))
  BY <1>0, <1>2, <1>7, <1>10, <1>17, <1>18 DEF Asked, Refused
<1>20. \A x \in Ends : \A id, k : AcceptIn(wire[x], id, k)' <=> AcceptIn(wire[x], id, k)
  BY <1>0, <1>2, <1>7
<1> QED
  BY <1>1, <1>3, <1>4, <1>13, <1>15, <1>16, <1>19, <1>20 DEF Places, h, m

(* What is left of a request when one of its names has been handled.       *)
LEMMA HandledFact ==
    ASSUME Shapes, NEW e \in Ends, NEW h \in handlers[e], NEW n \in h.names, NEW accepted \in BOOLEAN,
           HandleName(e, h, n, accepted), Apart(h),
           NEW accept, accept = HandledAccept(e, h, n, accepted),
           NEW reject, reject = HandledReject(h, n, accepted)
    PROVE  /\ \A k : k \in h.names \ {n} \/ k \in DOMAIN accept \/ k \in reject <=> About(h, k)
           /\ (h.names \ {n}) \cap DOMAIN accept = {} /\ (h.names \ {n}) \cap reject = {}
           /\ DOMAIN accept \cap reject = {}
           /\ \A k \in DOMAIN accept :
                 \/ k \in DOMAIN h.accept /\ accept[k] = h.accept[k]
                 \/ accepted /\ k = n /\ accept[k] = IdsOf(e, n)'[1]
           /\ \A k : k \in reject => k \in h.reject \/ (~accepted /\ k = n)
<1>1. CASE accepted
  <2>1. /\ DOMAIN accept = DOMAIN h.accept \cup {n} /\ accept[n] = IdsOf(e, n)'[1]
        /\ \A k \in DOMAIN h.accept : k # n => accept[k] = h.accept[k]
    BY <1>1 DEF HandledAccept, Put
  <2>2. reject = h.reject
    BY <1>1 DEF HandledReject
  <2> QED
    BY <1>1, <2>1, <2>2 DEF Apart, About
<1>2. CASE ~accepted
  <2>1. accept = h.accept /\ reject = h.reject \cup {n}
    BY <1>2 DEF HandledAccept, HandledReject
  <2> QED
    BY <1>2, <2>1 DEF Apart, About
<1> QED
  BY <1>1, <1>2

HandledId(e, h, n, accepted, id, k) ==
    \/ k \in DOMAIN h.accept /\ id = h.accept[k]
    \/ accepted /\ k = n /\ id = IdsOf(e, n)'[1]

(* The other handlers, and the queues, know nothing of it.                 *)
LEMMA HandleStays ==
    ASSUME Places, NEW e \in Ends, NEW h \in handlers[e], NEW n \in h.names, NEW accepted \in BOOLEAN,
           HandleName(e, h, n, accepted), h.names # {n}
    PROVE  /\ OnePlace'
           /\ wire' = wire
           /\ \A x \in Ends, k \in Names :
                 /\ Handled(x, k)' <=> Handled(x, k)
                 /\ Asked(x, k)' => Asked(x, k) /\ ~(x = e /\ k = n)
                 /\ Refused(x, k)' => Refused(x, k) \/ (x = e /\ k = n /\ ~accepted)
           /\ \A x \in Ends : \A g \in handlers'[x] : \A k \in DOMAIN g.accept :
                 \/ \E f \in handlers[x] : k \in DOMAIN f.accept /\ f.accept[k] = g.accept[k]
                 \/ x = e /\ HandledId(e, h, n, accepted, g.accept[k], k)
           /\ \A x \in Ends : x # e => handlers'[x] = handlers[x]
<1> DEFINE accept == HandledAccept(e, h, n, accepted)
           reject == HandledReject(h, n, accepted)
           left == [names |-> h.names \ {n}, accept |-> accept, reject |-> reject]
           p == Peer(e)
<1>0. Shapes /\ p \in Ends /\ p # e /\ Peer(p) = e /\ \A x \in Ends : x = e \/ x = p
  BY PeerFact DEF Places
<1>1. handlers' = [handlers EXCEPT ![e] = (handlers[e] \ {h}) \cup {left}] /\ wire' = wire
  <2> DEFINE m == Response(accept, reject)
  <2>1. Shapes
    BY <1>0
  <2>2. /\ left \in HandlerT /\ m \in MessageT
        /\ h.names # {n} => handlers' = [handlers EXCEPT ![e] = (handlers[e] \ {h}) \cup {left}] /\ wire' = wire
        /\ h.names = {n} => handlers' = [handlers EXCEPT ![e] = @ \ {h}] /\ Send(e, m)
    BY <2>1, HandleFact
  <2> QED
    BY <2>2
<1>2. Apart(h) /\ \A k \in Names : \A g \in handlers[e] : About(g, k) /\ About(h, k) => g = h
  BY DEF Places, OnePlace
<1>3. /\ \A k : About(left, k) <=> About(h, k)
      /\ Apart(left)
      /\ \A k \in DOMAIN left.accept : HandledId(e, h, n, accepted, left.accept[k], k)
      /\ \A k : k \in left.reject => k \in h.reject \/ (~accepted /\ k = n)
      /\ \A k : k \in left.names <=> k \in h.names /\ k # n
  BY <1>0, <1>2, HandledFact DEF About, Apart, HandledId
<1> HIDE DEF left
<1>4. handlers'[e] = (handlers[e] \ {h}) \cup {left} /\ \A x \in Ends : x # e => handlers'[x] = handlers[x]
  BY <1>1 DEF Places, Shapes
<1>5. n \in Names /\ About(h, n)
  BY <1>0, HandleTypes DEF About
<1>6. \A x \in Ends, k \in Names : Handled(x, k)' <=> Handled(x, k)
  <2>1. \A k \in Names : Handled(e, k)' <=> Handled(e, k)
    BY <1>3, <1>4 DEF Handled
  <2> QED
    BY <1>0, <1>4, <2>1 DEF Handled
<1>7. \A k \in Names : (\E g \in handlers'[e] : k \in g.names) => (\E g \in handlers[e] : k \in g.names) /\ k # n
  BY <1>2, <1>3, <1>4, <1>5 DEF About
<1>8. ~RequestIn(wire[e], n)
  BY <1>5 DEF Places, OnePlace, Handled
<1>9. \A x \in Ends, k \in Names : Asked(x, k)' => Asked(x, k) /\ ~(x = e /\ k = n)
  BY <1>0, <1>1, <1>4, <1>7, <1>8 DEF Asked
<1>10. \A k \in Names : (\E g \in handlers'[e] : k \in g.reject) => (\E g \in handlers[e] : k \in g.reject) \/ (~accepted /\ k = n)
  BY <1>3, <1>4
<1>11. \A x \in Ends, k \in Names : Refused(x, k)' => Refused(x, k) \/ (x = e /\ k = n /\ ~accepted)
  BY <1>0, <1>1, <1>4, <1>10 DEF Refused
<1>12. \A x \in Ends : \A g \in handlers'[x] : \A k \in DOMAIN g.accept :
          \/ \E f \in handlers[x] : k \in DOMAIN f.accept /\ f.accept[k] = g.accept[k]
          \/ x = e /\ HandledId(e, h, n, accepted, g.accept[k], k)
  BY <1>0, <1>3, <1>4
<1>13. OnePlace'
  <2>1. ASSUME NEW k \in Names, NEW f \in handlers'[e], NEW g \in handlers'[e], About(f, k), About(g, k)
        PROVE  f = g
    BY <1>2, <1>3, <1>4, <2>1 DEF Places, OnePlace
  <2>2. \A f \in handlers'[e] : Apart(f)
    BY <1>3, <1>4 DEF Places, OnePlace
  <2>3. ASSUME NEW x \in Ends PROVE
          /\ \A f \in handlers'[x] : Apart(f)
          /\ \A k \in Names : \A g, f \in handlers'[x] : About(g, k) /\ About(f, k) => g = f
    BY <1>0, <1>4, <2>1, <2>2 DEF Places, OnePlace
  <2> QED
    BY <1>1, <1>6, <2>3 DEF Places, OnePlace
<1> QED
  BY <1>1, <1>4, <1>6, <1>9, <1>11, <1>12, <1>13

(* With the last name, the response leaves as the handler does.            *)
LEMMA HandleLeaves ==
    ASSUME Places, NEW e \in Ends, NEW h \in handlers[e], NEW n \in h.names, NEW accepted \in BOOLEAN,
           HandleName(e, h, n, accepted), h.names = {n}
    PROVE  /\ OnePlace'
           /\ \A x \in Ends, k \in Names :
                 /\ UnderWay(x, k)' => UnderWay(x, k)
                 /\ UnderWay(x, k) /\ ~closed[Peer(x)] => UnderWay(x, k)'
                 /\ Asked(x, k)' => Asked(x, k) /\ ~(x = e /\ k = n)
                 /\ Refused(x, k)' => Refused(x, k) \/ (x = e /\ k = n /\ ~accepted)
           /\ \A x \in Ends : \A g \in handlers'[x] : g \in handlers[x]
           /\ \A x \in Ends : \A id, k : AcceptIn(wire[x], id, k)' =>
                     AcceptIn(wire[x], id, k) \/ (x = Peer(e) /\ HandledId(e, h, n, accepted, id, k))
           /\ \A x \in Ends : \A id, k : AcceptIn(wire[x], id, k) => AcceptIn(wire[x], id, k)'
           /\ ~closed[Peer(e)] =>
                 /\ wire'[Peer(e)] = Append(wire[Peer(e)], Response(HandledAccept(e, h, n, accepted), HandledReject(h, n, accepted)))
                 /\ \A k \in DOMAIN HandledAccept(e, h, n, accepted) :
                       AcceptIn(wire'[Peer(e)], HandledAccept(e, h, n, accepted)[k], k)
           /\ closed[Peer(e)] => wire' = wire
           /\ wire'[e] = wire[e]
           /\ handlers' = [handlers EXCEPT ![e] = @ \ {h}]
<1> DEFINE accept == HandledAccept(e, h, n, accepted)
           reject == HandledReject(h, n, accepted)
           m == Response(accept, reject)
           p == Peer(e)
<1>0. Shapes /\ p \in Ends /\ p # e /\ Peer(p) = e /\ \A x \in Ends : x = e \/ x = p
  BY PeerFact DEF Places
<1>1. handlers' = [handlers EXCEPT ![e] = @ \ {h}] /\ Send(e, m) /\ m \in MessageT
  <2>1. m \in MessageT
    BY <1>0, HandleFact
  <2>2. h.names = {n} => handlers' = [handlers EXCEPT ![e] = @ \ {h}] /\ Send(e, m)
    BY <1>0, HandleFact
  <2> QED
    BY <2>1, <2>2
<1>2. Apart(h) /\ \A k \in Names : \A g \in handlers[e] : About(g, k) /\ About(h, k) => g = h
  BY DEF Places, OnePlace
<1>3. /\ \A k : Answers(m, k) <=> About(h, k)
      /\ \A k, id : Accepts(m, id, k) => ~Refuses(m, k) /\ HandledId(e, h, n, accepted, id, k)
      /\ \A k : Refuses(m, k) => k \in h.reject \/ (~accepted /\ k = n)
      /\ \A k : ~Asks(m, k)
      /\ \A k \in DOMAIN accept : Accepts(m, accept[k], k)
  <2>1. /\ \A k : k \in h.names \ {n} \/ k \in DOMAIN accept \/ k \in reject <=> About(h, k)
        /\ DOMAIN accept \cap reject = {}
        /\ \A k \in DOMAIN accept : HandledId(e, h, n, accepted, accept[k], k)
        /\ \A k : k \in reject => k \in h.reject \/ (~accepted /\ k = n)
    BY <1>0, <1>2, HandledFact DEF HandledId
  <2>2. \A k : k \notin h.names \ {n}
    OBVIOUS
  <2> HIDE DEF accept, reject
  <2> QED
    BY <2>1, <2>2 DEF Response, Answers, Accepts, Refuses, Asks
<1>4. \A k, id : ~(Accepts(m, id, k) /\ Refuses(m, k))
  BY <1>3
<1> HIDE DEF m, accept, reject
<1>5. /\ wire'[e] = wire[e] /\ (closed[p] => wire' = wire)
      /\ ~closed[p] => wire'[p] = Append(wire[p], m)
      /\ wire[p] \in Seq(MessageT)
  BY <1>0, <1>1, SendFact
<1>6. handlers'[e] = handlers[e] \ {h} /\ \A x \in Ends : x # e => handlers'[x] = handlers[x]
  BY <1>1 DEF Places, Shapes
<1>7. ASSUME ~closed[p]
      PROVE  /\ \A k : RequestIn(wire'[p], k) <=> RequestIn(wire[p], k)
             /\ \A k : AnswerIn(wire'[p], k) <=> AnswerIn(wire[p], k) \/ About(h, k)
             /\ \A k : RefusalIn(wire'[p], k) <=> RefusalIn(wire[p], k) \/ Refuses(m, k)
             /\ \A id, k : AcceptIn(wire'[p], id, k) <=> AcceptIn(wire[p], id, k) \/ Accepts(m, id, k)
             /\ OneRequest(wire[p]) => OneRequest(wire'[p])
             /\ OneAnswer(wire[p]) /\ (\A k \in Names : ~(AnswerIn(wire[p], k) /\ About(h, k))) => OneAnswer(wire'[p])
  <2> DEFINE q == wire[p]
  <2>1. wire'[p] = Append(q, m) /\ q \in Seq(MessageT)
    BY <1>5, <1>7
  <2> HIDE DEF q
  <2>2. /\ \A k : RequestIn(Append(q, m), k) <=> RequestIn(q, k) \/ Asks(m, k)
        /\ \A k : AnswerIn(Append(q, m), k) <=> AnswerIn(q, k) \/ Answers(m, k)
        /\ \A k : RefusalIn(Append(q, m), k) <=> RefusalIn(q, k) \/ Refuses(m, k)
        /\ \A id, k : AcceptIn(Append(q, m), id, k) <=> AcceptIn(q, id, k) \/ Accepts(m, id, k)
        /\ OneRequest(q) /\ (\A k \in Names : ~(RequestIn(q, k) /\ Asks(m, k))) => OneRequest(Append(q, m))
        /\ OneAnswer(q) /\ (\A k \in Names : ~(AnswerIn(q, k) /\ Answers(m, k))) => OneAnswer(Append(q, m))
    BY <1>1, <2>1, AppendQueue
  <2> QED
    BY <1>3, <2>1, <2>2 DEF q
<1>8. \A k \in Names : About(h, k) => Handled(e, k) /\ ~AnswerIn(wire[p], k) /\ ~RequestIn(wire[e], k)
  BY DEF Handled, Places, OnePlace
<1>9. \A k \in Names : /\ Handled(e, k)' <=> Handled(e, k) /\ ~About(h, k)
                       /\ Handled(p, k)' <=> Handled(p, k)
  <2>1. \A k \in Names : Handled(e, k)' <=> Handled(e, k) /\ ~About(h, k)
    BY <1>2, <1>6 DEF Handled
  <2> QED
    BY <1>0, <1>6, <2>1 DEF Handled
<1>10. \A k : /\ RequestIn(wire'[e], k) <=> RequestIn(wire[e], k)
              /\ RequestIn(wire'[p], k) <=> RequestIn(wire[p], k)
  BY <1>5, <1>7
<1>11. \A k : AnswerIn(wire'[p], k) <=> AnswerIn(wire[p], k) \/ (~closed[p] /\ About(h, k))
  BY <1>5, <1>7
<1>12. OneQueue(wire'[e]) /\ OneQueue(wire'[p])
  <2>1. OneQueue(wire[e]) /\ OneQueue(wire[p])
    BY <1>0 DEF Places, OnePlace
  <2>2. CASE closed[p]
    BY <1>5, <2>1, <2>2
  <2>3. CASE ~closed[p]
    <3>1. OneRequest(wire'[p]) /\ OneAnswer(wire'[p])
      BY <1>7, <1>8, <2>1, <2>3 DEF OneQueue
    <3>2. ASSUME NEW k \in Names, NEW id \in Nat PROVE ~(AcceptIn(wire'[p], id, k) /\ RefusalIn(wire'[p], k))
      <4>1. ~(AcceptIn(wire[p], id, k) /\ RefusalIn(wire[p], k)) /\ ~(Accepts(m, id, k) /\ Refuses(m, k))
        BY <1>4, <2>1 DEF OneQueue, OneVerdict
      <4>2. (AcceptIn(wire[p], id, k) \/ RefusalIn(wire[p], k)) => ~Answers(m, k)
        BY <1>3, <1>8, AnswerFact
      <4>3. (Accepts(m, id, k) \/ Refuses(m, k)) => Answers(m, k)
        BY KindFact
      <4> QED
        BY <1>7, <2>3, <4>1, <4>2, <4>3
    <3> QED
      BY <1>5, <2>1, <3>1, <3>2 DEF OneQueue, OneVerdict
  <2> QED
    BY <2>2, <2>3
<1>13. OnePlace'
  <2>1. ASSUME NEW x \in Ends PROVE
          /\ \A f \in handlers'[x] : Apart(f)
          /\ \A k \in Names : \A g, f \in handlers'[x] : About(g, k) /\ About(f, k) => g = f
    BY <1>0, <1>6 DEF Places, OnePlace
  <2>2. ASSUME NEW k \in Names
        PROVE  /\ ~(RequestIn(wire'[e], k) /\ Handled(e, k)')
               /\ ~(RequestIn(wire'[e], k) /\ AnswerIn(wire'[p], k))
               /\ ~(Handled(e, k)' /\ AnswerIn(wire'[p], k))
    <3>1. /\ ~(RequestIn(wire[e], k) /\ Handled(e, k))
          /\ ~(RequestIn(wire[e], k) /\ AnswerIn(wire[p], k))
          /\ ~(Handled(e, k) /\ AnswerIn(wire[p], k))
      BY DEF Places, OnePlace
    <3> QED
      BY <1>8, <1>9, <1>10, <1>11, <3>1
  <2>3. ASSUME NEW k \in Names
        PROVE  /\ ~(RequestIn(wire'[p], k) /\ Handled(p, k)')
               /\ ~(RequestIn(wire'[p], k) /\ AnswerIn(wire'[e], k))
               /\ ~(Handled(p, k)' /\ AnswerIn(wire'[e], k))
    <3>1. /\ ~(RequestIn(wire[p], k) /\ Handled(p, k))
          /\ ~(RequestIn(wire[p], k) /\ AnswerIn(wire[e], k))
          /\ ~(Handled(p, k) /\ AnswerIn(wire[e], k))
      BY <1>0 DEF Places, OnePlace
    <3> QED
      BY <1>5, <1>9, <1>10, <3>1
  <2> QED
    BY <1>0, <1>12, <2>1, <2>2, <2>3 DEF OnePlace
<1>14. ASSUME NEW x \in Ends, NEW k \in Names
       PROVE  /\ UnderWay(x, k)' => UnderWay(x, k)
              /\ UnderWay(x, k) /\ ~closed[Peer(x)] => UnderWay(x, k)'
  <2>1. CASE x = e
    BY <1>0, <1>8, <1>9, <1>10, <1>11, <2>1 DEF UnderWay
  <2>2. CASE x = p
    BY <1>0, <1>5, <1>9, <1>10, <2>2 DEF UnderWay
  <2> QED
    BY <1>0, <2>1, <2>2
<1>15. n \in Names /\ About(h, n)
  BY <1>0, HandleTypes DEF About
<1>16. ASSUME NEW x \in Ends, NEW k \in Names
       PROVE  /\ Asked(x, k)' => Asked(x, k) /\ ~(x = e /\ k = n)
              /\ Refused(x, k)' => Refused(x, k) \/ (x = e /\ k = n /\ ~accepted)
  <2>1. CASE x = e
    <3>1. (\E g \in handlers'[e] : k \in g.names) => (\E g \in handlers[e] : k \in g.names) /\ k # n
      BY <1>2, <1>6, <1>15 DEF About
    <3>2. ~RequestIn(wire[e], n)
      BY <1>8, <1>15
    <3>3. RefusalIn(wire'[p], k) => RefusalIn(wire[p], k) \/ k \in h.reject \/ (k = n /\ ~accepted)
      BY <1>3, <1>5, <1>7
    <3> QED
      BY <1>0, <1>6, <1>10, <2>1, <3>1, <3>2, <3>3 DEF Asked, Refused
  <2>2. CASE x = p
    BY <1>0, <1>5, <1>6, <1>10, <2>2 DEF Asked, Refused
  <2> QED
    BY <1>0, <2>1, <2>2
<1>17. \A x \in Ends : \A id, k :
          /\ AcceptIn(wire'[x], id, k) => AcceptIn(wire[x], id, k) \/ (x = p /\ HandledId(e, h, n, accepted, id, k))
          /\ AcceptIn(wire[x], id, k) => AcceptIn(wire'[x], id, k)
  BY <1>0, <1>3, <1>5, <1>7
<1>18. ~closed[p] => \A k \in DOMAIN accept : AcceptIn(wire'[p], accept[k], k)
  BY <1>3, <1>7
<1>19. \A x \in Ends : \A g \in handlers'[x] : g \in handlers[x]
  BY <1>0, <1>6
<1> QED
  BY <1>1, <1>5, <1>13, <1>14, <1>16, <1>17, <1>18, <1>19 DEF accept, reject, m

(* The response says what the handler kept, and nothing else.              *)
LEMMA HandleAnswers ==
    ASSUME Places, NEW e \in Ends, NEW h \in handlers[e], NEW n \in h.names, NEW accepted \in BOOLEAN,
           HandleName(e, h, n, accepted), h.names = {n}
    PROVE  \A x \in Ends : \A id, k : AcceptIn(wire[x], id, k)' =>
                  AcceptIn(wire[x], id, k) \/ (x = Peer(e) /\ HandledId(e, h, n, accepted, id, k))
BY HandleLeaves

(* A handled name keeps its request in one place, and what is said of it   *)
(* is what the handler decided.                                            *)
LEMMA HandlePlaces ==
    ASSUME Places, Shapes', NEW e \in Ends, NEW h \in handlers[e], NEW n \in h.names, NEW accepted \in BOOLEAN,
           HandleName(e, h, n, accepted)
    PROVE  /\ Places'
           /\ \A x \in Ends, k \in Names :
                 /\ Asked(x, k)' => Asked(x, k) /\ ~(x = e /\ k = n)
                 /\ Refused(x, k)' => Refused(x, k) \/ (x = e /\ k = n /\ ~accepted)
           /\ \A x \in Ends : \A g \in handlers'[x] : \A k \in DOMAIN g.accept :
                 \/ \E f \in handlers[x] : k \in DOMAIN f.accept /\ f.accept[k] = g.accept[k]
                 \/ x = e /\ HandledId(e, h, n, accepted, g.accept[k], k)
           /\ \A x \in Ends : \A id, k : AcceptIn(wire[x], id, k)' =>
                     AcceptIn(wire[x], id, k) \/ (x = Peer(e) /\ HandledId(e, h, n, accepted, id, k))
           /\ \A x \in Ends : \A id, k : AcceptIn(wire[x], id, k) => AcceptIn(wire[x], id, k)'
           /\ n \in Names /\ ~closed[e] /\ closed' = closed
<1>0. Shapes /\ n \in Names /\ closed' = closed
  <2>1. Shapes
    BY DEF Places
  <2> QED
    BY <2>1, HandleTypes DEF HandleName
<1>1. ~closed[e]
  BY DEF Places, ClosedIsEmpty
<1>2. /\ OnePlace'
      /\ \A x \in Ends, k \in Names :
            /\ UnderWay(x, k)' => UnderWay(x, k)
            /\ UnderWay(x, k) /\ ~closed[Peer(x)] => UnderWay(x, k)'
            /\ Asked(x, k)' => Asked(x, k) /\ ~(x = e /\ k = n)
            /\ Refused(x, k)' => Refused(x, k) \/ (x = e /\ k = n /\ ~accepted)
      /\ \A x \in Ends : \A g \in handlers'[x] : \A k \in DOMAIN g.accept :
            \/ \E f \in handlers[x] : k \in DOMAIN f.accept /\ f.accept[k] = g.accept[k]
            \/ x = e /\ HandledId(e, h, n, accepted, g.accept[k], k)
      /\ \A x \in Ends : \A id, k : AcceptIn(wire[x], id, k)' =>
                AcceptIn(wire[x], id, k) \/ (x = Peer(e) /\ HandledId(e, h, n, accepted, id, k))
      /\ \A x \in Ends : \A id, k : AcceptIn(wire[x], id, k) => AcceptIn(wire[x], id, k)'
      /\ \A x \in Ends : closed[x] => wire'[x] = wire[x] /\ (x # e => handlers'[x] = {})
  <2>1. CASE h.names # {n}
    <3>1. /\ OnePlace' /\ wire' = wire
          /\ \A x \in Ends, k \in Names :
                /\ Handled(x, k)' <=> Handled(x, k)
                /\ Asked(x, k)' => Asked(x, k) /\ ~(x = e /\ k = n)
                /\ Refused(x, k)' => Refused(x, k) \/ (x = e /\ k = n /\ ~accepted)
          /\ \A x \in Ends : \A g \in handlers'[x] : \A k \in DOMAIN g.accept :
                \/ \E f \in handlers[x] : k \in DOMAIN f.accept /\ f.accept[k] = g.accept[k]
                \/ x = e /\ HandledId(e, h, n, accepted, g.accept[k], k)
          /\ \A x \in Ends : x # e => handlers'[x] = handlers[x]
      BY <2>1, HandleStays
    <3>2. \A x \in Ends, k \in Names : UnderWay(x, k)' <=> UnderWay(x, k)
      BY <3>1 DEF UnderWay
    <3>3. \A x \in Ends : closed[x] => handlers[x] = {}
      BY DEF Places, ClosedIsEmpty
    <3> QED
      BY <3>1, <3>2, <3>3
  <2>2. CASE h.names = {n}
    <3>1. /\ OnePlace'
          /\ \A x \in Ends, k \in Names :
                /\ UnderWay(x, k)' => UnderWay(x, k)
                /\ UnderWay(x, k) /\ ~closed[Peer(x)] => UnderWay(x, k)'
                /\ Asked(x, k)' => Asked(x, k) /\ ~(x = e /\ k = n)
                /\ Refused(x, k)' => Refused(x, k) \/ (x = e /\ k = n /\ ~accepted)
          /\ \A x \in Ends : \A g \in handlers'[x] : g \in handlers[x]
          /\ \A x \in Ends : \A id, k : AcceptIn(wire[x], id, k)' =>
                    AcceptIn(wire[x], id, k) \/ (x = Peer(e) /\ HandledId(e, h, n, accepted, id, k))
          /\ \A x \in Ends : \A id, k : AcceptIn(wire[x], id, k) => AcceptIn(wire[x], id, k)'
          /\ closed[Peer(e)] => wire' = wire
          /\ wire'[e] = wire[e]
      <4>1. OnePlace' /\ \A x \in Ends : \A g \in handlers'[x] : g \in handlers[x]
        BY <2>2, HandleLeaves
      <4>2. \A x \in Ends, k \in Names :
                /\ UnderWay(x, k)' => UnderWay(x, k)
                /\ UnderWay(x, k) /\ ~closed[Peer(x)] => UnderWay(x, k)'
                /\ Asked(x, k)' => Asked(x, k) /\ ~(x = e /\ k = n)
                /\ Refused(x, k)' => Refused(x, k) \/ (x = e /\ k = n /\ ~accepted)
        BY <2>2, HandleLeaves
      <4>3. \A x \in Ends : \A id, k : AcceptIn(wire[x], id, k)' =>
                    AcceptIn(wire[x], id, k) \/ (x = Peer(e) /\ HandledId(e, h, n, accepted, id, k))
        BY <2>2, HandleAnswers
      <4>4. \A x \in Ends : \A id, k : AcceptIn(wire[x], id, k) => AcceptIn(wire[x], id, k)'
        BY <2>2, HandleLeaves
      <4>5. (closed[Peer(e)] => wire' = wire) /\ wire'[e] = wire[e]
        BY <2>2, HandleLeaves
      <4> QED
        BY <4>1, <4>2, <4>3, <4>4, <4>5
    <3>2. \A x \in Ends : closed[x] => handlers[x] = {}
      BY DEF Places, ClosedIsEmpty
    <3>3. \A x \in Ends : closed[x] => wire'[x] = wire[x] /\ handlers'[x] = {}
      BY <1>1, <3>1, <3>2, PeerFact
    <3>4. \A x \in Ends : \A g \in handlers'[x] : \A k \in DOMAIN g.accept :
             \E f \in handlers[x] : k \in DOMAIN f.accept /\ f.accept[k] = g.accept[k]
      BY <3>1
    <3> QED
      BY <3>1, <3>3, <3>4
  <2> QED
    BY <2>1, <2>2
<1>3. \A x \in Ends, k \in Names : Pending(x, k)' <=> Pending(x, k)
  <2>1. CASE accepted /\ IdsOf(e, n) = <<>>
    BY <1>0, <2>1, HandleTypes, AssignFact
  <2>2. CASE ~(accepted /\ IdsOf(e, n) = <<>>)
    <3>1. types' = types
      BY <1>0, <2>2, HandleTypes DEF typeVars
    <3> QED
      BY <3>1 DEF Pending, Known
  <2> QED
    BY <2>1, <2>2
<1>4. AwaitsResponse' /\ ResponseComes'
  BY <1>0, <1>2, <1>3, PeerFact DEF Places, AwaitsResponse, ResponseComes
<1>5. \A x \in Ends : closed[x] => types'[x] = types[x] /\ names'[x] = names[x]
  <2>1. \A x \in Ends : x # e => types'[x] = types[x] /\ names'[x] = names[x]
    BY <1>0 DEF HandleName, AcceptName, typeVars, Shapes
  <2> QED
    BY <1>1, <2>1
<1>6. ClosedIsEmpty'
  BY <1>0, <1>1, <1>2, <1>5 DEF Places, ClosedIsEmpty
<1> QED
  BY <1>0, <1>1, <1>2, <1>4, <1>6 DEF Places

(* A response is the last of its request.                                  *)
LEMMA ResponsePlaces ==
    ASSUME Places, Shapes', NEW e \in Ends, OnResponse(e), NEW m, m = Head(wire[e]), MayAccept(e, m)
    PROVE  /\ Places'
           /\ \A x \in Ends, k \in Names :
                 /\ Asked(x, k)' <=> Asked(x, k)
                 /\ Refused(x, k)' => Refused(x, k)
                 /\ x # e => IdsOf(x, k)' = IdsOf(x, k) /\ (Known(x, k)' <=> Known(x, k)) /\ (Pending(x, k)' <=> Pending(x, k))
           /\ \A x \in Ends : \A id, k :
                 AcceptIn(wire[x], id, k) <=> AcceptIn(wire[x], id, k)' \/ (x = e /\ Accepts(m, id, k))
           /\ \A k \in DOMAIN m.accept : /\ Accepts(m, m.accept[k], k) /\ Known(e, k)' /\ ~Pending(e, k)'
                                         /\ m.accept[k] \in Nat /\ k \in Names
                                         /\ IdsOf(e, k)' = AddRoleId(IdsOf(e, k), m.accept[k])
           /\ \A k \in Names : k \in m.reject => ~Known(e, k)' /\ ~Pending(e, k)' /\ Refused(Peer(e), k)
           /\ \A k \in Names : k \notin DOMAIN m.accept /\ k \notin m.reject =>
                 IdsOf(e, k)' = IdsOf(e, k) /\ (Known(e, k)' <=> Known(e, k)) /\ (Pending(e, k)' <=> Pending(e, k))
           /\ \A k \in Names : Answers(m, k) => Pending(e, k) /\ UnderWay(Peer(e), k)
           /\ m.type = "response" /\ ~closed[e] /\ UNCHANGED <<handlers, nextId, closed, careful, reader>>
           /\ m \in MessageT /\ wire[e] # <<>> /\ wire'[e] = Tail(wire[e])
           /\ wire'[Peer(e)] = wire[Peer(e)] /\ wire[e] \in Seq(MessageT)
           /\ faults' = faults
<1> DEFINE p == Peer(e)
<1>0. Shapes /\ p \in Ends /\ p # e /\ Peer(p) = e /\ \A x \in Ends : x = e \/ x = p
  BY PeerFact DEF Places
<1>1. wire[e] # <<>> /\ m.type = "response" /\ Received(e) /\ ~closed[e]
  BY DEF OnResponse, NextIs
<1>2. wire'[e] = Tail(wire[e]) /\ wire'[p] = wire[p] /\ wire[e] \in Seq(MessageT) /\ m \in MessageT
  BY <1>0, <1>1, ReceivedFact
<1>3. UNCHANGED <<handlers, nextId, closed, careful, reader>> /\ faults' = faults
  BY DEF OnResponse, MayAccept
<1>4. IsPartial(m.accept, Names, Nat) /\ m.reject \subseteq Names
  BY <1>1, <1>2, MessageFact
<1>5. /\ \A n : ~Asks(m, n)
      /\ \A n : Answers(m, n) <=> n \in DOMAIN m.accept \/ n \in m.reject
      /\ \A n : Refuses(m, n) <=> n \in m.reject
      /\ \A n \in DOMAIN m.accept : Accepts(m, m.accept[n], n)
  BY <1>1, KindFact DEF Answers, Refuses, Accepts
<1>6. /\ \A n : RequestIn(wire[e], n) <=> RequestIn(wire'[e], n)
      /\ \A n : AnswerIn(wire[e], n) <=> AnswerIn(wire'[e], n) \/ Answers(m, n)
      /\ \A n : RefusalIn(wire[e], n) <=> RefusalIn(wire'[e], n) \/ Refuses(m, n)
      /\ \A id, n : AcceptIn(wire[e], id, n) <=> AcceptIn(wire'[e], id, n) \/ Accepts(m, id, n)
      /\ OneRequest(wire[e]) => OneRequest(wire'[e])
      /\ OneAnswer(wire[e]) => OneAnswer(wire'[e]) /\ \A n \in Names : ~(AnswerIn(wire'[e], n) /\ Answers(m, n))
  <2> DEFINE q == wire[e]
  <2>1. q \in Seq(MessageT) /\ q # <<>> /\ m = Head(q)
    BY <1>1, <1>2
  <2>2. wire'[e] = Tail(q)
    BY <1>2
  <2> HIDE DEF q
  <2>3. /\ \A n : RequestIn(q, n) <=> RequestIn(Tail(q), n) \/ Asks(Head(q), n)
        /\ \A n : AnswerIn(q, n) <=> AnswerIn(Tail(q), n) \/ Answers(Head(q), n)
        /\ \A n : RefusalIn(q, n) <=> RefusalIn(Tail(q), n) \/ Refuses(Head(q), n)
        /\ \A id, n : AcceptIn(q, id, n) <=> AcceptIn(Tail(q), id, n) \/ Accepts(Head(q), id, n)
        /\ OneRequest(q) => OneRequest(Tail(q))
        /\ OneAnswer(q) => OneAnswer(Tail(q)) /\ \A n \in Names : ~(AnswerIn(Tail(q), n) /\ Answers(Head(q), n))
    BY <2>1, TailQueue
  <2>4. m = Head(q)
    BY <2>1
  <2> HIDE <2>1
  <2> QED
    BY <1>5, <2>2, <2>3, <2>4 DEF q
<1>7. OneQueue(wire[e]) /\ OneQueue(wire[p])
  BY <1>0 DEF Places, OnePlace
<1>8. OneQueue(wire'[e]) /\ OneQueue(wire'[p])
  BY <1>2, <1>6, <1>7 DEF OneQueue, OneVerdict
<1>9. \A k \in DOMAIN m.accept : k \in Names /\ m.accept[k] \in Nat /\ k \notin m.reject
  <2>1. \A k \in DOMAIN m.accept : k \in Names /\ m.accept[k] \in Nat
    BY <1>4 DEF IsPartial
  <2> QED
    BY <1>5, <1>6, <1>7, <2>1 DEF OneQueue, OneVerdict
<1>10. \A k \in Names : Answers(m, k) => Pending(e, k) /\ UnderWay(p, k)
  <2>1. \A k \in Names : Answers(m, k) => UnderWay(p, k)
    BY <1>0, <1>6 DEF UnderWay
  <2> QED
    BY <1>0, <1>1, <2>1 DEF Places, AwaitsResponse
<1>11. \A k \in Names : k \in Rejected(e, m) <=> k \in m.reject
  BY <1>5, <1>10 DEF Rejected
<1>12. /\ \A x \in Ends : x # e => types'[x] = types[x] /\ names'[x] = names[x]
       /\ \A k \in DOMAIN m.accept : k \in DOMAIN types'[e] <=> k \notin Rejected(e, m)
       /\ \A k \in DOMAIN m.accept : k \notin Rejected(e, m) =>
             types'[e][k] = Entry(AddRoleId(IdsOf(e, k), m.accept[k]), FALSE)
       /\ \A k \in Names \ DOMAIN m.accept : k \in DOMAIN types'[e] <=>
             k \in DOMAIN types[e] /\ k \notin Rejected(e, m)
       /\ \A k \in DOMAIN types'[e] : k \notin DOMAIN m.accept => types'[e][k] = types[e][k]
  <2>1. Shapes
    BY <1>0
  <2>2. \A x \in Ends : x # e => types'[x] = types[x] /\ names'[x] = names[x]
    BY <2>1, ResponseTypes
  <2>3. \A k \in DOMAIN m.accept : k \in DOMAIN types'[e] <=> k \notin Rejected(e, m)
    BY <2>1, ResponseTypes
  <2>4. \A k \in DOMAIN m.accept : k \notin Rejected(e, m) =>
           types'[e][k] = Entry(AddRoleId(IdsOf(e, k), m.accept[k]), FALSE)
    BY <2>1, ResponseTypes DEF Entry
  <2>5. \A k \in Names \ DOMAIN m.accept : k \in DOMAIN types'[e] <=>
           k \in DOMAIN types[e] /\ k \notin Rejected(e, m)
    BY <2>1, ResponseTypes
  <2>6. \A k \in DOMAIN types'[e] : k \notin DOMAIN m.accept => types'[e][k] = types[e][k]
    BY <2>1, ResponseTypes
  <2> QED
    BY <2>2, <2>3, <2>4, <2>5, <2>6
<1>13. ASSUME NEW k \in DOMAIN m.accept
       PROVE  Known(e, k)' /\ ~Pending(e, k)' /\ IdsOf(e, k)' = AddRoleId(IdsOf(e, k), m.accept[k])
  <2>1. k \in Names /\ k \notin Rejected(e, m)
    BY <1>9, <1>11
  <2>2. k \in DOMAIN types'[e] /\ types'[e][k] = Entry(AddRoleId(IdsOf(e, k), m.accept[k]), FALSE)
    BY <1>12, <2>1
  <2>3. \A ids : Entry(ids, FALSE).ids = ids /\ ~Entry(ids, FALSE).pending
    BY DEF Entry
  <2> QED
    BY <2>2, <2>3 DEF Known, Pending, IdsOf
<1>14. ASSUME NEW k \in Names, k \in m.reject PROVE ~Known(e, k)' /\ ~Pending(e, k)'
  BY <1>9, <1>11, <1>12, <1>14 DEF Known, Pending
<1>15. ASSUME NEW k \in Names, k \notin DOMAIN m.accept, k \notin m.reject
       PROVE  IdsOf(e, k)' = IdsOf(e, k) /\ (Known(e, k)' <=> Known(e, k)) /\ (Pending(e, k)' <=> Pending(e, k))
  BY <1>11, <1>12, <1>15 DEF Known, Pending, IdsOf
<1>16. ASSUME NEW x \in Ends, NEW k \in Names, x # e
       PROVE  IdsOf(x, k)' = IdsOf(x, k) /\ (Known(x, k)' <=> Known(x, k)) /\ (Pending(x, k)' <=> Pending(x, k))
  BY <1>12, <1>16 DEF Known, Pending, IdsOf
<1>17. \A x \in Ends, k \in Names : Handled(x, k)' <=> Handled(x, k)
  BY <1>3 DEF Handled
<1>18. \A k \in Names : /\ UnderWay(e, k)' <=> UnderWay(e, k)
                        /\ UnderWay(p, k)' <=> UnderWay(p, k) /\ ~Answers(m, k)
  <2>1. ASSUME NEW k \in Names PROVE UnderWay(e, k)' <=> UnderWay(e, k)
    BY <1>2, <1>6, <1>17 DEF UnderWay
  <2>2. ASSUME NEW k \in Names PROVE UnderWay(p, k)' <=> UnderWay(p, k) /\ ~Answers(m, k)
    <3>1. /\ ~(RequestIn(wire[p], k) /\ AnswerIn(wire[e], k))
          /\ ~(Handled(p, k) /\ AnswerIn(wire[e], k))
      BY <1>0 DEF Places, OnePlace
    <3>2. ~(AnswerIn(wire'[e], k) /\ Answers(m, k))
      BY <1>6, <1>7 DEF OneQueue
    <3> QED
      BY <1>0, <1>2, <1>6, <1>17, <3>1, <3>2 DEF UnderWay
  <2> QED
    BY <2>1, <2>2
<1>19. OnePlace'
  <2>1. ASSUME NEW k \in Names
        PROVE  /\ ~(RequestIn(wire'[e], k) /\ Handled(e, k)')
               /\ ~(RequestIn(wire'[e], k) /\ AnswerIn(wire'[p], k))
               /\ ~(Handled(e, k)' /\ AnswerIn(wire'[p], k))
    <3>1. /\ ~(RequestIn(wire[e], k) /\ Handled(e, k))
          /\ ~(RequestIn(wire[e], k) /\ AnswerIn(wire[p], k))
          /\ ~(Handled(e, k) /\ AnswerIn(wire[p], k))
      BY DEF Places, OnePlace
    <3> QED
      BY <1>2, <1>6, <1>17, <3>1
  <2>2. ASSUME NEW k \in Names
        PROVE  /\ ~(RequestIn(wire'[p], k) /\ Handled(p, k)')
               /\ ~(RequestIn(wire'[p], k) /\ AnswerIn(wire'[e], k))
               /\ ~(Handled(p, k)' /\ AnswerIn(wire'[e], k))
    <3>1. /\ ~(RequestIn(wire[p], k) /\ Handled(p, k))
          /\ ~(RequestIn(wire[p], k) /\ AnswerIn(wire[e], k))
          /\ ~(Handled(p, k) /\ AnswerIn(wire[e], k))
      BY <1>0 DEF Places, OnePlace
    <3> QED
      BY <1>0, <1>2, <1>6, <1>17, <3>1
  <2>3. \A x \in Ends : /\ \A f \in handlers'[x] : Apart(f)
                        /\ \A k \in Names : \A g, f \in handlers'[x] : About(g, k) /\ About(f, k) => g = f
    BY <1>3 DEF Places, OnePlace
  <2> QED
    BY <1>0, <1>8, <2>1, <2>2, <2>3 DEF OnePlace
<1>20. \A k \in Names : Pending(e, k)' <=> Pending(e, k) /\ ~Answers(m, k)
  BY <1>5, <1>13, <1>14, <1>15
<1>21. AwaitsResponse' /\ ResponseComes'
  BY <1>0, <1>3, <1>16, <1>18, <1>20 DEF Places, AwaitsResponse, ResponseComes
<1>22. ClosedIsEmpty'
  BY <1>0, <1>1, <1>2, <1>3, <1>12 DEF Places, ClosedIsEmpty
<1>23. \A x \in Ends, k \in Names : (Asked(x, k)' <=> Asked(x, k)) /\ (Refused(x, k)' => Refused(x, k))
  BY <1>0, <1>2, <1>3, <1>6 DEF Asked, Refused
<1>24. \A k \in Names : k \in m.reject => Refused(p, k)
  BY <1>0, <1>5, <1>6 DEF Refused
<1>25. \A x \in Ends : \A id, k :
          AcceptIn(wire[x], id, k) <=> AcceptIn(wire[x], id, k)' \/ (x = e /\ Accepts(m, id, k))
  BY <1>0, <1>2, <1>6
<1> QED
  BY <1>1, <1>2, <1>3, <1>5, <1>9, <1>10, <1>13, <1>14, <1>15, <1>16, <1>19, <1>21, <1>22, <1>23, <1>24, <1>25 DEF Places

(* A connection that is lost, and the beginning.                           *)
LEMMA DisconnectTypes ==
    ASSUME Shapes, NEW e \in Ends, Disconnect(e)
    PROVE  /\ ~closed[e] /\ closed' = [closed EXCEPT ![e] = TRUE]
           /\ wire'[e] = <<>> /\ handlers'[e] = {} /\ types'[e] = <<>> /\ names'[e] = <<>>
           /\ \A x \in Ends : x # e => /\ wire'[x] = wire[x] /\ handlers'[x] = handlers[x]
                                       /\ types'[x] = types[x] /\ names'[x] = names[x]
                                       /\ closed'[x] = closed[x]
           /\ UNCHANGED <<careful, reader, nextId, remapping, chunks, chained, countVars, faults>>
BY DEF Disconnect, Shapes

(* An empty queue says nothing. *)
LEMMA EmptyQueue ==
    /\ \A n : ~RequestIn(<<>>, n) /\ ~AnswerIn(<<>>, n) /\ ~RefusalIn(<<>>, n)
    /\ \A id, n : ~AcceptIn(<<>>, id, n)
    /\ OneQueue(<<>>)
<1>1. DOMAIN <<>> = {}
  OBVIOUS
<1>2. /\ \A n : ~RequestIn(<<>>, n) /\ ~AnswerIn(<<>>, n) /\ ~RefusalIn(<<>>, n)
      /\ \A id, n : ~AcceptIn(<<>>, id, n)
  BY <1>1 DEF RequestIn, AnswerIn, RefusalIn, AcceptIn
<1>3. OneRequest(<<>>) /\ OneAnswer(<<>>)
  BY <1>1 DEF OneRequest, OneAnswer
<1> QED
  BY <1>2, <1>3 DEF OneQueue, OneVerdict

(* An end that is disconnected drops its requests, and its peer's. *)
LEMMA DisconnectPlaces ==
    ASSUME Places, Shapes', NEW e \in Ends, Disconnect(e)
    PROVE  /\ Places'
           /\ \A x \in Ends, k \in Names : (Asked(x, k)' => Asked(x, k)) /\ (Refused(x, k)' => Refused(x, k))
           /\ \A x \in Ends : \A id, k : AcceptIn(wire[x], id, k)' => AcceptIn(wire[x], id, k)
<1> DEFINE p == Peer(e)
<1>0. Shapes /\ p \in Ends /\ p # e /\ Peer(p) = e /\ \A x \in Ends : x = e \/ x = p
  BY PeerFact DEF Places
<1>1. /\ closed'[e] /\ closed'[p] = closed[p]
      /\ wire'[e] = <<>> /\ handlers'[e] = {} /\ types'[e] = <<>> /\ names'[e] = <<>>
      /\ wire'[p] = wire[p] /\ handlers'[p] = handlers[p] /\ types'[p] = types[p] /\ names'[p] = names[p]
  <2>1. Shapes /\ closed \in [Ends -> BOOLEAN]
    BY <1>0 DEF Shapes
  <2>2. /\ closed' = [closed EXCEPT ![e] = TRUE]
        /\ wire'[e] = <<>> /\ handlers'[e] = {} /\ types'[e] = <<>> /\ names'[e] = <<>>
        /\ \A x \in Ends : x # e => /\ wire'[x] = wire[x] /\ handlers'[x] = handlers[x]
                                    /\ types'[x] = types[x] /\ names'[x] = names[x]
                                    /\ closed'[x] = closed[x]
    BY <2>1, DisconnectTypes
  <2> QED
    BY <1>0, <2>1, <2>2
<1>2. /\ \A n : ~RequestIn(wire'[e], n) /\ ~AnswerIn(wire'[e], n) /\ ~RefusalIn(wire'[e], n)
      /\ \A id, n : ~AcceptIn(wire'[e], id, n)
      /\ OneQueue(wire'[e])
  BY <1>1, EmptyQueue
<1>3. \A k : /\ Handled(p, k)' <=> Handled(p, k)
             /\ ~Handled(e, k)'
  BY <1>1 DEF Handled
<1>4. OneQueue(wire'[p])
  BY <1>0, <1>1 DEF Places, OnePlace
<1>5. ASSUME NEW x \in Ends
      PROVE  /\ \A f \in handlers'[x] : Apart(f)
             /\ \A k \in Names : \A g, f \in handlers'[x] : About(g, k) /\ About(f, k) => g = f
  BY <1>0, <1>1 DEF Places, OnePlace
<1>6. ASSUME NEW k \in Names PROVE ~(RequestIn(wire'[p], k) /\ Handled(p, k)')
  BY <1>0, <1>1, <1>3 DEF Places, OnePlace
<1>7. OnePlace'
  BY <1>0, <1>2, <1>3, <1>4, <1>5, <1>6 DEF OnePlace
<1>8. \A x \in Ends, k \in Names : UnderWay(x, k)' => UnderWay(x, k)
  BY <1>0, <1>1, <1>2, <1>3 DEF UnderWay
<1>9. \A k \in Names : Pending(p, k)' <=> Pending(p, k)
  BY <1>1 DEF Pending, Known
<1>10. AwaitsResponse' /\ ResponseComes'
  BY <1>0, <1>1, <1>8, <1>9 DEF Places, AwaitsResponse, ResponseComes
<1>11. ClosedIsEmpty'
  BY <1>0, <1>1 DEF Places, ClosedIsEmpty
<1>12. \A x \in Ends, k \in Names : (Asked(x, k)' => Asked(x, k)) /\ (Refused(x, k)' => Refused(x, k))
  BY <1>0, <1>1, <1>2 DEF Asked, Refused
<1>13. \A x \in Ends : \A id, k : AcceptIn(wire[x], id, k)' => AcceptIn(wire[x], id, k)
  BY <1>0, <1>1, <1>2
<1> QED
  BY <1>7, <1>10, <1>11, <1>12, <1>13 DEF Places

(* At first nothing is registered, nor on its way. *)
LEMMA InitPlaces ==
    ASSUME Init
    PROVE  Places /\ \A x \in Ends : \A n : ~Asked(x, n) /\ ~Refused(x, n) /\ ~Known(x, n) /\
                                            \A id : ~Said(x, id, n) /\ ~AcceptIn(wire[x], id, n)
<1>1. Shapes
  BY InitShapes
<1>2. \A x \in Ends : types[x] = <<>> /\ names[x] = <<>> /\ wire[x] = <<>> /\ handlers[x] = {} /\ ~closed[x]
  BY DEF Init
<1>3. \A x \in Ends : /\ \A n : ~RequestIn(wire[x], n) /\ ~AnswerIn(wire[x], n) /\ ~RefusalIn(wire[x], n)
                      /\ \A id, n : ~AcceptIn(wire[x], id, n)
                      /\ OneQueue(wire[x])
  BY <1>2, EmptyQueue
<1>4. \A x \in Ends : \A n : ~Known(x, n) /\ ~Pending(x, n) /\ ~Handled(x, n) /\ \A id : ~Said(x, id, n)
  <2>1. DOMAIN <<>> = {}
    OBVIOUS
  <2> QED
    BY <1>2, <2>1 DEF Known, Pending, Handled, Said
<1>5. \A x \in Ends : \A n : ~UnderWay(x, n) /\ ~Asked(x, n) /\ ~Refused(x, n)
  BY <1>2, <1>3, <1>4, PeerFact DEF UnderWay, Asked, Refused
<1>6. OnePlace
  BY <1>2, <1>3, <1>4 DEF OnePlace
<1>7. AwaitsResponse /\ ResponseComes /\ ClosedIsEmpty
  BY <1>2, <1>4, <1>5, PeerFact DEF AwaitsResponse, ResponseComes, ClosedIsEmpty
<1> QED
  BY <1>1, <1>3, <1>4, <1>5, <1>6, <1>7 DEF Places

----------------------------------------------------------------------------
(* Ids.  That an id stands for a name is a fact while an end has it in its *)
(* table of ids, or a response that says so is on its way.                 *)

Fact(id, n) == \E e \in Ends : Said(e, id, n) \/ AcceptIn(wire[e], id, n)
ByRole(e, id) == id % 2 = IF e = "a" THEN 0 ELSE 1

(* An id stands for one name, and of the ids of a name each end assigned   *)
(* one at most, before its next id. *)
OneName == \A id, n, m : Fact(id, n) /\ Fact(id, m) => n = m
OneIdEach == \A e \in Ends : \A id, j, n : Fact(id, n) /\ Fact(j, n) /\ ByRole(e, id) /\ ByRole(e, j) => id = j
Assigned ==
    /\ \A e \in Ends : nextId[e] \in Nat /\ nextId[e] > 0 /\ ByRole(e, nextId[e])
    /\ \A id, n : Fact(id, n) => id \in Nat /\ n \in Names /\ id > 0
    /\ \A e \in Ends : \A id, n : Fact(id, n) /\ ByRole(e, id) => id < nextId[e]

(* What an end keeps of a name it also has in its table of ids. *)
Entries ==
    \A e \in Ends, n \in Names :
        /\ Sorted(IdsOf(e, n))
        /\ Known(e, n) /\ IdsOf(e, n) = <<>> => Pending(e, n)
        /\ \A id : HasId(IdsOf(e, n), id) => Said(e, id, n)
Answered == \A e \in Ends : \A h \in handlers[e] : \A n \in DOMAIN h.accept : Said(e, h.accept[n], n)

(* An open end has its own ids.  It has none for what it is still asked    *)
(* for, or has refused; and the other end, that asked, knows the name.     *)
OwnIds == \A e \in Ends : \A id, n : ~closed[e] /\ Fact(id, n) /\ ByRole(e, id) => Said(e, id, n)
NoIdYet == \A e \in Ends : \A id, n : (Asked(e, n) \/ Refused(e, n)) /\ Fact(id, n) => ~ByRole(e, id)
AskerKnows == \A e \in Ends : \A id, n : Fact(id, n) /\ ByRole(e, id) /\ ~closed[Peer(e)] => Known(Peer(e), n)

Ids == /\ OneName /\ OneIdEach /\ Assigned /\ Entries /\ Answered /\ OwnIds /\ NoIdYet /\ AskerKnows
       /\ "ids" \notin faults

(* An id is of one end: even ids of the one, odd ids of the other. *)
LEMMA RoleFact ==
    ASSUME NEW e \in Ends, NEW id \in Nat
    PROVE  /\ ByRole(e, id) <=> ~ByRole(Peer(e), id)
           /\ ByRole(e, id) => ByRole(e, id + 2)
BY PeerFact DEF ByRole, Ends

(* Two ids have the same parity when they are of the same end. *)
LEMMA RolesFact ==
    ASSUME NEW e \in Ends, NEW id \in Nat, NEW j \in Nat
    PROVE  id % 2 = j % 2 <=> (ByRole(e, id) <=> ByRole(e, j))
BY DEF ByRole, Ends

(* At first there are no ids. *)
LEMMA InitIds == ASSUME Init PROVE Places /\ Ids
<1>1. /\ Places
      /\ \A x \in Ends : \A n : /\ ~Asked(x, n) /\ ~Refused(x, n) /\ ~Known(x, n)
                                /\ \A id : ~Said(x, id, n) /\ ~AcceptIn(wire[x], id, n)
  BY InitPlaces
<1>2. \A id, n : ~Fact(id, n)
  BY <1>1 DEF Fact
<1>3. \A e \in Ends : nextId[e] \in Nat /\ nextId[e] > 0 /\ ByRole(e, nextId[e])
  BY DEF Init, Ends, ByRole
<1>4. \A e \in Ends, n \in Names : IdsOf(e, n) = <<>> /\ \A id : ~HasId(IdsOf(e, n), id)
  BY <1>1, HasIdFact DEF IdsOf
<1>5. Entries
  BY <1>1, <1>4 DEF Entries, Sorted
<1>6. \A e \in Ends : handlers[e] = {}
  BY DEF Init
<1> QED
  BY <1>1, <1>2, <1>3, <1>5, <1>6 DEF Init, Ids, OneName, OneIdEach, Assigned, Answered, OwnIds, NoIdYet, AskerKnows

(* A step that makes no fact keeps what there is to say of the facts.      *)
LEMMA FewerFacts ==
    ASSUME Ids, nextId' = nextId, \A id, n : Fact(id, n)' => Fact(id, n)
    PROVE  OneName' /\ OneIdEach' /\ Assigned'
<1>1. OneName'
  BY DEF Ids, OneName
<1>2. OneIdEach'
  BY DEF Ids, OneIdEach
<1>3. Assigned'
  BY DEF Ids, Assigned
<1> QED
  BY <1>1, <1>2, <1>3

(* A step that does not concern the registrations keeps the ids. *)
LEMMA SameIds ==
    ASSUME Places, Ids, SameRegistration, "ids" \notin faults'
    PROVE  Ids'
<1>0. Shapes
  BY DEF Places
<1>1. \A e \in Ends : \A n : /\ Asked(e, n)' <=> Asked(e, n)
                             /\ Refused(e, n)' <=> Refused(e, n)
                             /\ IdsOf(e, n)' = IdsOf(e, n) /\ (Known(e, n)' <=> Known(e, n))
                             /\ (Pending(e, n)' <=> Pending(e, n))
                             /\ \A id : Said(e, id, n)' <=> Said(e, id, n)
  BY <1>0, SameFact
<1>2. nextId' = nextId /\ handlers' = handlers /\ closed' = closed
  BY DEF SameRegistration
<1>3. \A e \in Ends : \A id, n : AcceptIn(wire[e], id, n)' <=> AcceptIn(wire[e], id, n)
  BY DEF SameRegistration, SameQueue
<1>4. \A id, n : Fact(id, n)' <=> Fact(id, n)
  BY <1>1, <1>3 DEF Fact
<1>5. OneName' /\ OneIdEach' /\ Assigned'
  BY <1>2, <1>4, FewerFacts
<1>6. Entries'
  BY <1>1 DEF Ids, Entries
<1>7. Answered'
  BY <1>1, <1>2 DEF Ids, Answered
<1>8. OwnIds'
  BY <1>1, <1>2, <1>4 DEF Ids, OwnIds
<1>9. NoIdYet' /\ AskerKnows'
  BY <1>1, <1>2, <1>4, PeerFact DEF Ids, NoIdYet, AskerKnows
<1> QED
  BY <1>5, <1>6, <1>7, <1>8, <1>9 DEF Ids

(* A request that is sent keeps the ids: no type gets one by it. *)
LEMMA AddIds ==
    ASSUME Places, Shapes', Ids, NEW e \in Ends, NEW ns \in Registrations, AddMessageTypes(e, ns)
    PROVE  Places' /\ Ids'
<1> DEFINE new == {n \in ns : ~Known(e, n)}
<1>0. Shapes /\ Shapes'
  BY DEF Places
<1>1. /\ UNCHANGED <<names, nextId, handlers, closed>>
      /\ \A x \in Ends, k \in Names :
            /\ Known(x, k)' <=> Known(x, k) \/ (x = e /\ k \in new)
            /\ Pending(x, k)' <=> Pending(x, k) \/ (x = e /\ k \in new)
            /\ IdsOf(x, k)' = IdsOf(x, k)
  BY <1>0, AddTypes
<1>2. /\ Places'
      /\ \A x \in Ends, k \in Names :
            /\ Asked(x, k)' => Asked(x, k) \/ (x = Peer(e) /\ ~Known(e, k) /\ ~closed[e])
            /\ Refused(x, k)' <=> Refused(x, k)
      /\ \A x \in Ends : \A id, k : AcceptIn(wire[x], id, k)' <=> AcceptIn(wire[x], id, k)
  BY AddPlaces
<1> HIDE DEF new
<1>3. \A x \in Ends : \A id, k : Said(x, id, k)' <=> Said(x, id, k)
  BY <1>1 DEF Said
<1>4. \A id, n : Fact(id, n)' <=> Fact(id, n)
  BY <1>2, <1>3 DEF Fact
<1>5. OneName' /\ OneIdEach' /\ Assigned'
  BY <1>1, <1>4, FewerFacts
<1>6. Entries'
  BY <1>1, <1>3 DEF Ids, Entries
<1>7. Answered' /\ OwnIds'
  BY <1>1, <1>3, <1>4 DEF Ids, Answered, OwnIds
<1>8. \A id, n : Fact(id, n) => n \in Names
  BY DEF Ids, Assigned
<1>9. NoIdYet'
  <2>1. ASSUME NEW n, NEW id, Fact(id, n), ~Known(e, n), ~closed[e] PROVE ~ByRole(Peer(e), id)
    BY <2>1, PeerFact DEF Ids, AskerKnows
  <2> QED
    BY <1>2, <1>4, <1>8, <2>1 DEF Ids, NoIdYet
<1>10. AskerKnows'
  BY <1>1, <1>4, <1>8, PeerFact DEF Ids, AskerKnows
<1>11. faults' = faults
  BY DEF AddMessageTypes
<1> QED
  BY <1>2, <1>5, <1>6, <1>7, <1>9, <1>10, <1>11 DEF Ids

(* A request that arrives keeps the ids. *)
LEMMA OnRequestIds ==
    ASSUME Places, Shapes', Ids, NEW e \in Ends, OnRequest(e)
    PROVE  Places' /\ Ids'
<1>0. Shapes
  BY DEF Places
<1>1. /\ Places'
      /\ \A x \in Ends, k \in Names : (Asked(x, k)' <=> Asked(x, k)) /\ (Refused(x, k)' <=> Refused(x, k))
      /\ \A x \in Ends : \A id, k : AcceptIn(wire[x], id, k)' <=> AcceptIn(wire[x], id, k)
      /\ UNCHANGED <<types, names, nextId, closed, careful, reader>>
  BY OnRequestPlaces
<1>2. PICK h \in HandlerT : /\ handlers' = [handlers EXCEPT ![e] = @ \cup {h}]
                            /\ h = [names |-> Head(wire[e]).names, accept |-> <<>>, reject |-> {}]
  BY OnRequestPlaces
<1>3. h.accept = <<>> /\ DOMAIN <<>> = {}
  BY <1>2
<1>4. \A x \in Ends : \A n : /\ IdsOf(x, n)' = IdsOf(x, n) /\ (Known(x, n)' <=> Known(x, n))
                             /\ (Pending(x, n)' <=> Pending(x, n))
                             /\ \A id : Said(x, id, n)' <=> Said(x, id, n)
  BY <1>1 DEF IdsOf, Known, Pending, Said
<1>5. \A id, n : Fact(id, n)' <=> Fact(id, n)
  BY <1>1, <1>4 DEF Fact
<1>6. OneName' /\ OneIdEach' /\ Assigned'
  BY <1>1, <1>5, FewerFacts
<1>7. Entries' /\ OwnIds'
  BY <1>1, <1>4, <1>5 DEF Ids, Entries, OwnIds
<1>8. \A x \in Ends : \A g \in handlers'[x] : g \in handlers[x] \/ g = h
  BY <1>0, <1>2 DEF Shapes
<1>9. Answered'
  BY <1>3, <1>4, <1>8 DEF Ids, Answered
<1>10. \A id, n : Fact(id, n) => n \in Names
  BY DEF Ids, Assigned
<1>11. NoIdYet' /\ AskerKnows'
  BY <1>1, <1>4, <1>5, <1>10, PeerFact DEF Ids, NoIdYet, AskerKnows
<1>12. faults' = faults
  BY DEF OnRequest
<1> QED
  BY <1>1, <1>6, <1>7, <1>9, <1>11, <1>12 DEF Ids

(* A disconnect keeps the ids: fewer are known. *)
LEMMA DisconnectIds ==
    ASSUME Places, Shapes', Ids, NEW e \in Ends, Disconnect(e)
    PROVE  Places' /\ Ids'
<1>0. Shapes
  BY DEF Places
<1>1. /\ Places'
      /\ \A x \in Ends, k \in Names : (Asked(x, k)' => Asked(x, k)) /\ (Refused(x, k)' => Refused(x, k))
      /\ \A x \in Ends : \A id, k : AcceptIn(wire[x], id, k)' => AcceptIn(wire[x], id, k)
  BY DisconnectPlaces
<1>2. /\ closed' = [closed EXCEPT ![e] = TRUE]
      /\ handlers'[e] = {} /\ types'[e] = <<>> /\ names'[e] = <<>>
      /\ \A x \in Ends : x # e => /\ handlers'[x] = handlers[x]
                                  /\ types'[x] = types[x] /\ names'[x] = names[x]
                                  /\ closed'[x] = closed[x]
      /\ nextId' = nextId /\ faults' = faults
  BY <1>0, DisconnectTypes
<1>3. closed'[e] = TRUE
  BY <1>2 DEF Places, Shapes
<1>4. \A n : ~Known(e, n)' /\ IdsOf(e, n)' = <<>> /\ \A id : ~Said(e, id, n)'
  <2>1. DOMAIN <<>> = {}
    OBVIOUS
  <2> QED
    BY <1>2, <2>1 DEF Known, IdsOf, Said
<1>5. ASSUME NEW x \in Ends, x # e, NEW n
      PROVE  /\ IdsOf(x, n)' = IdsOf(x, n) /\ (Known(x, n)' <=> Known(x, n))
             /\ (Pending(x, n)' <=> Pending(x, n)) /\ \A id : Said(x, id, n)' <=> Said(x, id, n)
  BY <1>2, <1>5 DEF IdsOf, Known, Pending, Said
<1>6. \A id, n : Fact(id, n)' => Fact(id, n)
  BY <1>1, <1>4, <1>5 DEF Fact
<1>7. OneName' /\ OneIdEach' /\ Assigned'
  BY <1>2, <1>6, FewerFacts
<1>8. Entries'
  BY <1>4, <1>5, HasIdFact DEF Ids, Entries, Sorted
<1>9. Answered'
  BY <1>2, <1>5 DEF Ids, Answered
<1>10. OwnIds'
  BY <1>2, <1>3, <1>5, <1>6 DEF Ids, OwnIds
<1>11. \A id, n : Fact(id, n) => n \in Names
  BY DEF Ids, Assigned
<1>12. NoIdYet'
  BY <1>1, <1>6, <1>11 DEF Ids, NoIdYet
<1>13. AskerKnows'
  BY <1>2, <1>3, <1>5, <1>6, PeerFact DEF Ids, AskerKnows
<1> QED
  BY <1>1, <1>2, <1>7, <1>8, <1>9, <1>10, <1>12, <1>13 DEF Ids

(* Handling a name: the handler was asked, so that a new id is the first   *)
(* of its end for the name; and what is answered is in the table of ids.   *)
LEMMA AskedNotRefused ==
    ASSUME Places, NEW e \in Ends, NEW h \in handlers[e], NEW n \in h.names, n \in Names
    PROVE  Asked(e, n) /\ ~Refused(e, n) /\ UnderWay(e, n)
<1>1. About(h, n) /\ Handled(e, n) /\ Asked(e, n)
  BY DEF About, Handled, Asked
<1>2. Apart(h) /\ ~AnswerIn(wire[Peer(e)], n) /\ \A g \in handlers[e] : About(g, n) => g = h
  BY <1>1 DEF Places, OnePlace
<1>3. ~RefusalIn(wire[Peer(e)], n)
  BY <1>2, AnswerFact
<1>4. \A g \in handlers[e] : n \notin g.reject
  BY <1>2 DEF About, Apart
<1> QED
  BY <1>1, <1>3, <1>4 DEF Refused, UnderWay

(* A handled name keeps the ids; the one that may be new is the next of    *)
(* the end.                                                                *)
LEMMA HandleIds ==
    ASSUME Places, Shapes', Ids, NEW e \in Ends, NEW h \in handlers[e], NEW n \in h.names, NEW accepted \in BOOLEAN,
           HandleName(e, h, n, accepted)
    PROVE  /\ Places' /\ Ids'
           /\ \A id, k : Fact(id, k) => Fact(id, k)'
           /\ \A id, k : Fact(id, k)' => Fact(id, k) \/
                 (accepted /\ IdsOf(e, n) = <<>> /\ id = nextId[e] /\ k = n /\ ~closed[e])
<1> DEFINE p == Peer(e)
<1>n. PICK new : new = nextId[e]
  OBVIOUS
<1>0. Shapes /\ p \in Ends /\ p # e /\ Peer(p) = e /\ \A x \in Ends : x = e \/ x = p
  BY PeerFact DEF Places
<1>1. /\ Places'
      /\ \A x \in Ends, k \in Names :
            /\ Asked(x, k)' => Asked(x, k) /\ ~(x = e /\ k = n)
            /\ Refused(x, k)' => Refused(x, k) \/ (x = e /\ k = n /\ ~accepted)
      /\ \A x \in Ends : \A id, k : AcceptIn(wire[x], id, k) => AcceptIn(wire[x], id, k)'
      /\ n \in Names /\ ~closed[e] /\ closed' = closed
  BY HandlePlaces
<1>2. /\ \A x \in Ends : \A g \in handlers'[x] : \A k \in DOMAIN g.accept :
            \/ \E f \in handlers[x] : k \in DOMAIN f.accept /\ f.accept[k] = g.accept[k]
            \/ x = e /\ HandledId(e, h, n, accepted, g.accept[k], k)
      /\ \A x \in Ends : \A id, k : AcceptIn(wire[x], id, k)' =>
                AcceptIn(wire[x], id, k) \/ (x = p /\ HandledId(e, h, n, accepted, id, k))
  BY HandlePlaces
<1>3. Asked(e, n) /\ ~Refused(e, n) /\ UnderWay(e, n)
  BY <1>1, AskedNotRefused
<1>4. \A id : Fact(id, n) => ~ByRole(e, id)
  BY <1>3 DEF Ids, NoIdYet
<1>5. /\ new \in Nat /\ new > 0 /\ ByRole(e, new) /\ ~ByRole(p, new) /\ new + 2 \in Nat /\ ByRole(e, new + 2)
      /\ \A k : ~Fact(new, k)
  <2>1. new \in Nat /\ new > 0 /\ ByRole(e, new)
    BY <1>n DEF Ids, Assigned
  <2>2. ASSUME NEW k, Fact(new, k) PROVE FALSE
    <3>1. new < new
      BY <1>n, <2>1, <2>2 DEF Ids, Assigned
    <3> QED
      BY <2>1, <3>1
  <2>3. ~ByRole(p, new) /\ ByRole(e, new + 2)
    BY <2>1, RoleFact
  <2> QED
    BY <2>1, <2>2, <2>3
<1>6. faults' = faults
  BY DEF HandleName
<1>7. \A id, k : Fact(id, k) => id \in Nat /\ id > 0 /\ k \in Names
  BY DEF Ids, Assigned
<1> HIDE DEF p
<1>8. CASE accepted /\ IdsOf(e, n) = <<>>
  <2>1. AcceptName(e, n)
    BY <1>0, <1>8, HandleTypes
  <2>2. /\ nextId' = [nextId EXCEPT ![e] = @ + 2]
        /\ \A x \in Ends, k \in Names :
              /\ Known(x, k)' <=> Known(x, k) \/ (x = e /\ k = n)
              /\ IdsOf(x, k)' = IF x = e /\ k = n THEN <<nextId[e]>> ELSE IdsOf(x, k)
              /\ Pending(x, k)' <=> Pending(x, k)
        /\ \A x \in Ends : \A id, k :
              Said(x, id, k)' <=> IF x = e /\ id = nextId[e] THEN k = n ELSE Said(x, id, k)
    BY <1>0, <1>1, <1>8, <2>1, AssignFact
  <2>3. nextId'[e] = new + 2 /\ nextId'[p] = nextId[p]
    BY <1>n, <1>0, <2>2 DEF Shapes
  <2>4. IdsOf(e, n)' = <<new>> /\ IdsOf(e, n)'[1] = new
    BY <1>n, <1>1, <2>2
  <2>5. \A x \in Ends : \A id, k : Said(x, id, k) => Said(x, id, k)'
    BY <1>n, <1>5, <2>2 DEF Fact
  <2>6. Said(e, new, n)' /\ Fact(new, n)'
    BY <1>n, <2>2 DEF Fact
  <2>7. ASSUME NEW id, NEW k, HandledId(e, h, n, accepted, id, k) PROVE Said(e, id, k)'
    <3>1. CASE k \in DOMAIN h.accept /\ id = h.accept[k]
      BY <2>5, <3>1 DEF Ids, Answered
    <3>2. CASE k = n /\ id = IdsOf(e, n)'[1]
      BY <2>4, <2>6, <3>2
    <3> QED
      BY <2>7, <3>1, <3>2 DEF HandledId
  <2>8. ASSUME NEW id, NEW k, Fact(id, k)' PROVE Fact(id, k) \/ (id = new /\ k = n)
    <3>1. \A x \in Ends : Said(x, id, k)' => Fact(id, k) \/ (id = new /\ k = n)
      BY <1>n, <2>2 DEF Fact
    <3>2. \A x \in Ends : AcceptIn(wire[x], id, k)' => AcceptIn(wire[x], id, k) \/ Said(e, id, k)'
      BY <1>2, <2>7
    <3> QED
      BY <2>8, <3>1, <3>2 DEF Fact
  <2>9. \A id, k : Fact(id, k) => Fact(id, k)'
    BY <1>1, <2>5 DEF Fact
  <2>10. OneName'
    BY <1>5, <2>8 DEF Ids, OneName
  <2>11. OneIdEach'
    <3>1. ASSUME NEW x \in Ends, NEW id, NEW j, NEW k, Fact(id, k)', Fact(j, k)', ByRole(x, id), ByRole(x, j)
          PROVE  id = j
      <4>1. CASE Fact(id, k) /\ Fact(j, k)
        BY <3>1, <4>1 DEF Ids, OneIdEach
      <4>2. CASE id = new /\ k = n /\ Fact(j, k)
        BY <1>0, <1>4, <1>5, <3>1, <4>2
      <4>3. CASE j = new /\ k = n /\ Fact(id, k)
        BY <1>0, <1>4, <1>5, <3>1, <4>3
      <4> QED
        BY <2>8, <3>1, <4>1, <4>2, <4>3
    <3> QED
      BY <3>1 DEF OneIdEach
  <2>12. Assigned'
    <3>1. ASSUME NEW x \in Ends PROVE nextId'[x] \in Nat /\ nextId'[x] > 0 /\ ByRole(x, nextId'[x])
      <4>1. CASE x = e
        BY <1>5, <2>3, <4>1
      <4>2. CASE x = p
        BY <1>0, <2>3, <4>2 DEF Ids, Assigned
      <4> QED
        BY <1>0, <4>1, <4>2
    <3>2. ASSUME NEW id, NEW k, Fact(id, k)' PROVE id \in Nat /\ k \in Names /\ id > 0
      BY <1>1, <1>5, <1>7, <2>8, <3>2
    <3>3. ASSUME NEW x \in Ends, NEW id, NEW k, Fact(id, k)', ByRole(x, id) PROVE id < nextId'[x]
      <4>1. CASE x = e
        <5>1. id = new \/ (id \in Nat /\ id < new)
          BY <1>n, <1>7, <2>8, <3>3, <4>1 DEF Ids, Assigned
        <5> QED
          BY <1>5, <2>3, <4>1, <5>1
      <4>2. CASE x = p
        <5>1. id # new
          BY <1>5, <3>3, <4>2
        <5> QED
          BY <2>3, <2>8, <3>3, <4>2, <5>1 DEF Ids, Assigned
      <4> QED
        BY <1>0, <4>1, <4>2
    <3> QED
      BY <3>1, <3>2, <3>3 DEF Assigned
  <2>13. Entries'
    <3>1. ASSUME NEW x \in Ends, NEW k \in Names, ~(x = e /\ k = n)
          PROVE  /\ Sorted(IdsOf(x, k)')
                 /\ Known(x, k)' /\ IdsOf(x, k)' = <<>> => Pending(x, k)'
                 /\ \A id : HasId(IdsOf(x, k)', id) => Said(x, id, k)'
      BY <2>2, <2>5, <3>1 DEF Ids, Entries
    <3>2. /\ Sorted(<<new>>) /\ <<new>> # <<>>
          /\ \A id : HasId(<<new>>, id) => Said(e, id, n)'
      BY <1>5, <2>6, ShortFact, HasIdFact DEF Sorted
    <3> QED
      BY <2>4, <3>1, <3>2 DEF Entries
  <2>14. Answered'
    <3>1. ASSUME NEW x \in Ends, NEW g \in handlers'[x], NEW k \in DOMAIN g.accept PROVE Said(x, g.accept[k], k)'
      <4>1. CASE \E f \in handlers[x] : k \in DOMAIN f.accept /\ f.accept[k] = g.accept[k]
        BY <2>5, <4>1 DEF Ids, Answered
      <4>2. CASE x = e /\ HandledId(e, h, n, accepted, g.accept[k], k)
        BY <2>7, <4>2
      <4> QED
        BY <1>2, <4>1, <4>2
    <3> QED
      BY <3>1 DEF Answered
  <2>15. OwnIds'
    <3>1. ASSUME NEW x \in Ends, NEW id, NEW k, ~closed[x], Fact(id, k)', ByRole(x, id) PROVE Said(x, id, k)'
      <4>1. CASE Fact(id, k)
        BY <2>5, <3>1, <4>1 DEF Ids, OwnIds
      <4>2. CASE id = new /\ k = n
        BY <1>0, <1>5, <2>6, <3>1, <4>2
      <4> QED
        BY <2>8, <3>1, <4>1, <4>2
    <3> QED
      BY <1>1, <3>1 DEF OwnIds
  <2>16. NoIdYet'
    <3>1. ASSUME NEW x \in Ends, NEW id, NEW k, Asked(x, k)' \/ Refused(x, k)', Fact(id, k)' PROVE ~ByRole(x, id)
      <4>1. k \in Names
        BY <1>1, <1>7, <2>8, <3>1
      <4>2. Asked(x, k) \/ Refused(x, k)
        BY <1>1, <1>8, <3>1, <4>1
      <4>3. CASE Fact(id, k)
        BY <4>2, <4>3 DEF Ids, NoIdYet
      <4>4. CASE id = new /\ k = n
        <5>1. x # e
          BY <1>1, <1>3, <1>8, <3>1, <4>4
        <5> QED
          BY <1>0, <1>5, <4>4, <5>1
      <4> QED
        BY <2>8, <3>1, <4>3, <4>4
    <3> QED
      BY <3>1 DEF NoIdYet
  <2>17. AskerKnows'
    <3>1. ASSUME NEW x \in Ends, NEW id, NEW k, Fact(id, k)', ByRole(x, id), ~closed[Peer(x)] PROVE Known(Peer(x), k)'
      <4>1. CASE Fact(id, k)
        BY <1>7, <2>2, <3>1, <4>1, PeerFact DEF Ids, AskerKnows
      <4>2. CASE id = new /\ k = n
        <5>1. x = e /\ Peer(x) = p
          BY <1>0, <1>5, <3>1, <4>2 DEF p
        <5>2. Pending(p, n)
          BY <1>1, <1>3, <3>1, <5>1 DEF Places, AwaitsResponse
        <5>3. Known(p, n)
          BY <5>2 DEF Pending
        <5> QED
          BY <1>0, <1>1, <2>2, <4>2, <5>1, <5>3
      <4> QED
        BY <2>8, <3>1, <4>1, <4>2
    <3> QED
      BY <1>1, <3>1 DEF AskerKnows
  <2> QED
    BY <1>n, <1>1, <1>6, <1>8, <2>8, <2>9, <2>10, <2>11, <2>12, <2>13, <2>14, <2>15, <2>16, <2>17 DEF Ids
<1>9. CASE ~(accepted /\ IdsOf(e, n) = <<>>)
  <2>1. types' = types /\ names' = names /\ nextId' = nextId
    BY <1>0, <1>9, HandleTypes DEF typeVars
  <2>2. \A x \in Ends : \A k : /\ IdsOf(x, k)' = IdsOf(x, k) /\ (Known(x, k)' <=> Known(x, k))
                               /\ (Pending(x, k)' <=> Pending(x, k)) /\ \A id : Said(x, id, k)' <=> Said(x, id, k)
    BY <2>1 DEF IdsOf, Known, Pending, Said
  <2>3. ASSUME NEW id, NEW k, HandledId(e, h, n, accepted, id, k) PROVE Said(e, id, k)
    <3>1. CASE k \in DOMAIN h.accept /\ id = h.accept[k]
      BY <3>1 DEF Ids, Answered
    <3>2. CASE accepted /\ k = n /\ id = IdsOf(e, n)'[1]
      <4>1. IdsOf(e, n) # <<>> /\ IdsOf(e, n) \in Seq(Nat) /\ id = IdsOf(e, n)[1]
        BY <1>0, <1>9, <2>2, <3>2, IdsFact
      <4>2. HasId(IdsOf(e, n), id)
        BY <4>1, TailFact DEF HasId
      <4> QED
        BY <1>1, <3>2, <4>2 DEF Ids, Entries
    <3> QED
      BY <2>3, <3>1, <3>2 DEF HandledId
  <2>4. \A id, k : Fact(id, k)' <=> Fact(id, k)
    <3>1. \A x \in Ends : \A id, k : AcceptIn(wire[x], id, k)' => AcceptIn(wire[x], id, k) \/ Said(e, id, k)
      BY <1>2, <2>3
    <3> QED
      BY <1>1, <2>2, <3>1 DEF Fact
  <2>5. OneName' /\ OneIdEach' /\ Assigned'
    BY <2>1, <2>4, FewerFacts
  <2>6. Entries'
    BY <2>2 DEF Ids, Entries
  <2>7. Answered'
    <3>1. ASSUME NEW x \in Ends, NEW g \in handlers'[x], NEW k \in DOMAIN g.accept PROVE Said(x, g.accept[k], k)
      <4>1. CASE \E f \in handlers[x] : k \in DOMAIN f.accept /\ f.accept[k] = g.accept[k]
        BY <4>1 DEF Ids, Answered
      <4>2. CASE x = e /\ HandledId(e, h, n, accepted, g.accept[k], k)
        BY <2>3, <4>2
      <4> QED
        BY <1>2, <4>1, <4>2
    <3> QED
      BY <2>2, <3>1 DEF Answered
  <2>8. OwnIds'
    BY <1>1, <2>2, <2>4 DEF Ids, OwnIds
  <2>9. NoIdYet'
    <3>1. ASSUME NEW x \in Ends, NEW id, NEW k, Asked(x, k)' \/ Refused(x, k)', Fact(id, k) PROVE ~ByRole(x, id)
      <4>1. k \in Names
        BY <1>7, <3>1
      <4>2. Asked(x, k) \/ Refused(x, k)
        BY <1>1, <1>3, <3>1, <4>1
      <4> QED
        BY <3>1, <4>2 DEF Ids, NoIdYet
    <3> QED
      BY <2>4, <3>1 DEF NoIdYet
  <2>10. AskerKnows'
    BY <1>1, <2>2, <2>4, PeerFact DEF Ids, AskerKnows
  <2> QED
    BY <1>1, <1>6, <2>4, <2>5, <2>6, <2>7, <2>8, <2>9, <2>10 DEF Ids
<1> QED
  BY <1>8, <1>9

(* addRoleId never fails: an id that comes is new to the type only if it   *)
(* is the first, or the first of its end.                                  *)
LEMMA ResponseAdds ==
    ASSUME Shapes, Ids, NEW e \in Ends, NextIs(e, "response"), NEW m, m = Head(wire[e])
    PROVE  /\ MayAccept(e, m)
           /\ \A k \in DOMAIN m.accept : m.accept[k] \in Nat /\ k \in Names /\ Fact(m.accept[k], k)
<1>1. wire[e] # <<>> /\ m.type = "response" /\ wire[e] \in Seq(MessageT)
  BY DEF NextIs, Shapes
<1>2. m \in MessageT /\ m = wire[e][1] /\ 1 \in DOMAIN wire[e]
  BY <1>1, TailFact
<1>3. IsPartial(m.accept, Names, Nat)
  BY <1>1, <1>2, MessageFact
<1>4. ASSUME NEW k \in DOMAIN m.accept PROVE m.accept[k] \in Nat /\ k \in Names /\ Fact(m.accept[k], k)
  <2>1. AcceptIn(wire[e], m.accept[k], k)
    BY <1>1, <1>2 DEF AcceptIn, Accepts
  <2> QED
    BY <1>3, <2>1 DEF IsPartial, Fact
<1>5. ASSUME NEW k \in DOMAIN m.accept PROVE MayAddRoleId(IdsOf(e, k), m.accept[k])
  <2> DEFINE ids == IdsOf(e, k)
             id == m.accept[k]
  <2>1. ids \in Seq(Nat) /\ Sorted(ids) /\ \A j : HasId(ids, j) => Said(e, j, k)
    BY <1>4, IdsFact DEF Ids, Entries
  <2>2. Fact(id, k) /\ id \in Nat
    BY <1>4
  <2> HIDE DEF ids, id
  <2>3. ASSUME NEW j \in Nat, HasId(ids, j), j % 2 = id % 2 PROVE j = id
    <3>1. Fact(j, k)
      BY <2>1, <2>3 DEF Fact
    <3>2. \A x \in Ends : ByRole(x, id) <=> ByRole(x, j)
      BY <2>2, <2>3, RolesFact
    <3>3. \E x \in Ends : ByRole(x, id)
      BY <2>2, PeerFact, RoleFact
    <3> QED
      BY <2>2, <3>1, <3>2, <3>3 DEF Ids, OneIdEach
  <2>4. CASE ids = <<>> \/ HasId(ids, id)
    BY <2>4 DEF MayAddRoleId, ids, id
  <2>5. CASE ids = <<ids[1]>> /\ ids # <<>> /\ ~HasId(ids, id)
    <3>1. ids[1] \in Nat /\ HasId(ids, ids[1]) /\ Len(ids) = 1
      BY <2>1, <2>5, TailFact DEF HasId
    <3> QED
      BY <2>3, <2>5, <3>1 DEF MayAddRoleId, ids, id
  <2>6. CASE ids = <<ids[1], ids[2]>> /\ ids[1] < ids[2] /\ ~HasId(ids, id)
    <3>1. Len(ids) = 2
      BY <2>6
    <3>2. DOMAIN ids = {1, 2}
      BY <2>6
    <3>3. ids[1] \in Nat /\ ids[2] \in Nat
      <4>1. ids \in Seq(Nat) /\ 1 \in 1 .. Len(ids) /\ 2 \in 1 .. Len(ids)
        BY <2>1, <3>1
      <4> QED
        BY <4>1, ElementOfSeq
    <3>4. PICK i \in Nat, j \in Nat : i = ids[1] /\ j = ids[2]
      BY <3>3
    <3>5. i < j /\ HasId(ids, i) /\ HasId(ids, j)
      BY <2>6, <3>2, <3>4 DEF HasId
    <3>6. i % 2 # id % 2 /\ j % 2 # id % 2
      BY <2>3, <2>6, <3>5
    <3>7. i % 2 = j % 2
      BY <2>2, <3>6
    <3>8. Fact(i, k) /\ Fact(j, k)
      BY <2>1, <3>5 DEF Fact
    <3>9. \A x \in Ends : ByRole(x, i) <=> ByRole(x, j)
      BY <3>7, RolesFact
    <3>10. \E x \in Ends : ByRole(x, i)
      BY PeerFact, RoleFact
    <3>11. i = j
      BY <3>8, <3>9, <3>10 DEF Ids, OneIdEach
    <3> QED
      BY <3>5, <3>11
  <2> QED
    BY <2>1, <2>4, <2>5, <2>6 DEF Sorted
<1> QED
  BY <1>4, <1>5 DEF MayAccept

(* The table of ids after a response. *)
LEMMA ResponseNames ==
    ASSUME Shapes, NEW e \in Ends, OnResponse(e), NEW m, m = Head(wire[e]), MayAccept(e, m)
    PROVE  /\ \A k, id : Said(e, id, k)' => Said(e, id, k) \/ Accepts(m, id, k)
           /\ \A id : id \in DOMAIN names'[e] <=> id \in DOMAIN names[e] \/ \E k : Accepts(m, id, k)
<1>1. m.type = "response"
  BY DEF OnResponse, NextIs
<1> DEFINE ns == NamesAccepted(e, m.accept)
<1>4. names' = [names EXCEPT ![e] = ns]
  BY DEF OnResponse, MayAccept
<1>8. /\ DOMAIN ns = DOMAIN names[e] \cup Range(m.accept)
      /\ \A id \in Range(m.accept) : ns[id] \in DOMAIN m.accept /\ m.accept[ns[id]] = id
      /\ \A id \in DOMAIN names[e] \ Range(m.accept) : ns[id] = names[e][id]
  BY DEF NamesAccepted, Range
<1> HIDE DEF ns
<1>11. names'[e] = ns
  BY <1>4 DEF Shapes
<1>12. \A id : id \in Range(m.accept) <=> \E k : Accepts(m, id, k)
  BY <1>1 DEF Range, Accepts
<1>13. \A k, id : Said(e, id, k)' => Said(e, id, k) \/ Accepts(m, id, k)
  BY <1>1, <1>8, <1>11 DEF Said, Accepts
<1>14. \A id : id \in DOMAIN names'[e] <=> id \in DOMAIN names[e] \/ \E k : Accepts(m, id, k)
  BY <1>8, <1>11, <1>12
<1> QED
  BY <1>13, <1>14

(* A response keeps the ids: what it says was a fact before. *)
LEMMA ResponseIds ==
    ASSUME Places, Shapes', Ids, NEW e \in Ends, OnResponse(e), NEW m, m = Head(wire[e])
    PROVE  /\ Places' /\ Ids' /\ MayAccept(e, m)
           /\ \A id, k : Fact(id, k)' => Fact(id, k)
           /\ \A x \in Ends : \A id, k : Said(x, id, k) => Said(x, id, k)'
           /\ \A k \in DOMAIN m.accept : Said(e, m.accept[k], k)'
           /\ \A k \in DOMAIN m.accept : /\ Sorted(IdsOf(e, k)') /\ IdsOf(e, k)' # <<>>
                                         /\ \A j : HasId(IdsOf(e, k)', j) <=> HasId(IdsOf(e, k), j) \/ j = m.accept[k]
<1> DEFINE p == Peer(e)
<1>0. Shapes /\ p \in Ends /\ p # e /\ Peer(p) = e /\ \A x \in Ends : x = e \/ x = p
  BY PeerFact DEF Places
<1>1. /\ MayAccept(e, m)
      /\ \A k \in DOMAIN m.accept : m.accept[k] \in Nat /\ k \in Names /\ Fact(m.accept[k], k)
  BY <1>0, ResponseAdds DEF OnResponse
<1>2. Places'
  BY <1>1, ResponsePlaces
<1>3. \A x \in Ends, k \in Names : (Asked(x, k)' <=> Asked(x, k)) /\ (Refused(x, k)' => Refused(x, k))
  BY <1>1, ResponsePlaces
<1>4. \A x \in Ends, k \in Names : x # e =>
          IdsOf(x, k)' = IdsOf(x, k) /\ (Known(x, k)' <=> Known(x, k)) /\ (Pending(x, k)' <=> Pending(x, k))
  BY <1>1, ResponsePlaces
<1>5. \A x \in Ends : \A id, k :
          AcceptIn(wire[x], id, k) <=> AcceptIn(wire[x], id, k)' \/ (x = e /\ Accepts(m, id, k))
  BY <1>1, ResponsePlaces
<1>6. \A k \in DOMAIN m.accept : Known(e, k)' /\ ~Pending(e, k)' /\ IdsOf(e, k)' = AddRoleId(IdsOf(e, k), m.accept[k])
  BY <1>1, ResponsePlaces
<1>7. \A k \in Names : k \in m.reject => ~Known(e, k)' /\ ~Pending(e, k)' /\ Refused(p, k)
  BY <1>1, ResponsePlaces
<1>8. \A k \in Names : k \notin DOMAIN m.accept /\ k \notin m.reject =>
          IdsOf(e, k)' = IdsOf(e, k) /\ (Known(e, k)' <=> Known(e, k)) /\ (Pending(e, k)' <=> Pending(e, k))
  BY <1>1, ResponsePlaces
<1>9. UNCHANGED <<handlers, nextId, closed, careful, reader>> /\ faults' = faults /\ m.type = "response"
  BY <1>1, ResponsePlaces
<1>10. /\ \A x \in Ends : x # e => types'[x] = types[x] /\ names'[x] = names[x]
       /\ \A k, id : Said(e, id, k)' => Said(e, id, k) \/ Accepts(m, id, k)
       /\ \A id : id \in DOMAIN names'[e] <=> id \in DOMAIN names[e] \/ \E k : Accepts(m, id, k)
  <2>1. Shapes /\ MayAccept(e, m)
    BY <1>0, <1>1
  <2>2. \A x \in Ends : x # e => types'[x] = types[x] /\ names'[x] = names[x]
    BY <2>1, ResponseTypes
  <2>3. \A k, id : Said(e, id, k)' => Said(e, id, k) \/ Accepts(m, id, k)
    BY <2>1, ResponseNames
  <2>4. \A id : id \in DOMAIN names'[e] <=> id \in DOMAIN names[e] \/ \E k : Accepts(m, id, k)
    BY <2>1, ResponseNames
  <2> QED
    BY <2>2, <2>3, <2>4
<1>101. \A id, k : Accepts(m, id, k) => k \in DOMAIN m.accept /\ m.accept[k] = id
  BY DEF Accepts
<1>102. \A k \in DOMAIN m.accept : Accepts(m, m.accept[k], k)
  BY <1>9 DEF Accepts
<1>11. \A x \in Ends : \A id, k : x # e => (Said(x, id, k)' <=> Said(x, id, k))
  BY <1>10 DEF Said
<1>12. \A id, k : Fact(id, k)' => Fact(id, k)
  <2>1. \A id, k : Said(e, id, k)' => Fact(id, k)
    BY <1>1, <1>10, <1>101 DEF Fact
  <2> QED
    BY <1>5, <1>11, <2>1 DEF Fact
<1>13. ASSUME NEW id, NEW k, Fact(id, k), id \in DOMAIN names'[e] PROVE Said(e, id, k)'
  <2>1. PICK n : n = names'[e][id]
    OBVIOUS
  <2>2. Said(e, id, n)'
    BY <1>13, <2>1 DEF Said
  <2>3. Fact(id, n)
    BY <1>1, <1>10, <1>101, <2>2 DEF Fact
  <2>4. n = k
    BY <1>13, <2>3 DEF Ids, OneName
  <2> QED
    BY <2>2, <2>4
<1>14. \A x \in Ends : \A id, k : Said(x, id, k) => Said(x, id, k)'
  <2>1. \A id, k : Said(e, id, k) => Fact(id, k) /\ id \in DOMAIN names'[e]
    BY <1>10 DEF Said, Fact
  <2> QED
    BY <1>11, <1>13, <2>1
<1>15. \A k \in DOMAIN m.accept : Said(e, m.accept[k], k)'
  BY <1>1, <1>10, <1>102, <1>13
<1>16. ASSUME NEW k \in DOMAIN m.accept
       PROVE  /\ Sorted(IdsOf(e, k)') /\ IdsOf(e, k)' # <<>>
              /\ \A j : HasId(IdsOf(e, k)', j) <=> HasId(IdsOf(e, k), j) \/ j = m.accept[k]
  <2>1. IdsOf(e, k) \in Seq(Nat) /\ Sorted(IdsOf(e, k)) /\ m.accept[k] \in Nat /\ MayAddRoleId(IdsOf(e, k), m.accept[k])
    BY <1>0, <1>1, IdsFact DEF Ids, Entries, MayAccept
  <2>2. IdsOf(e, k)' = AddRoleId(IdsOf(e, k), m.accept[k])
    BY <1>6
  <2>3. /\ Sorted(AddRoleId(IdsOf(e, k), m.accept[k])) /\ AddRoleId(IdsOf(e, k), m.accept[k]) # <<>>
        /\ \A j : HasId(AddRoleId(IdsOf(e, k), m.accept[k]), j) <=> HasId(IdsOf(e, k), j) \/ j = m.accept[k]
    BY <2>1, AddRoleIdFact
  <2> QED
    BY <2>2, <2>3
<1>17. OneName' /\ OneIdEach' /\ Assigned'
  BY <1>9, <1>12, FewerFacts
<1>18. Entries'
  <2>1. ASSUME NEW x \in Ends, NEW k \in Names
        PROVE  /\ Sorted(IdsOf(x, k)')
               /\ Known(x, k)' /\ IdsOf(x, k)' = <<>> => Pending(x, k)'
               /\ \A id : HasId(IdsOf(x, k)', id) => Said(x, id, k)'
    <3>1. /\ Sorted(IdsOf(x, k))
          /\ Known(x, k) /\ IdsOf(x, k) = <<>> => Pending(x, k)
          /\ \A id : HasId(IdsOf(x, k), id) => Said(x, id, k)'
      BY <1>14 DEF Ids, Entries
    <3>2. CASE x # e
      BY <1>4, <3>1, <3>2
    <3>3. CASE x = e /\ k \in DOMAIN m.accept
      BY <1>15, <1>16, <3>1, <3>3
    <3>4. CASE x = e /\ k \in m.reject
      <4>1. IdsOf(e, k)' = <<>> /\ ~Known(e, k)'
        BY <1>7, <3>4 DEF IdsOf
      <4> QED
        BY <3>4, <4>1, HasIdFact DEF Sorted
    <3>5. CASE x = e /\ k \notin DOMAIN m.accept /\ k \notin m.reject
      BY <1>8, <3>1, <3>5
    <3> QED
      BY <3>2, <3>3, <3>4, <3>5
  <2> QED
    BY <2>1 DEF Entries
<1>19. Answered'
  BY <1>9, <1>14 DEF Ids, Answered
<1>20. OwnIds'
  BY <1>9, <1>12, <1>14 DEF Ids, OwnIds
<1>21. \A id, n : Fact(id, n) => n \in Names
  BY DEF Ids, Assigned
<1>22. NoIdYet'
  BY <1>3, <1>12, <1>21 DEF Ids, NoIdYet
<1>23. AskerKnows'
  <2>1. ASSUME NEW x \in Ends, NEW id, NEW k, Fact(id, k), ByRole(x, id), ~closed[Peer(x)] PROVE Known(Peer(x), k)'
    <3>1. Known(Peer(x), k) /\ k \in Names /\ Peer(x) \in Ends
      BY <1>21, <2>1, PeerFact DEF Ids, AskerKnows
    <3>2. CASE Peer(x) # e
      BY <1>4, <3>1, <3>2
    <3>3. CASE Peer(x) = e
      <4>1. x = p
        BY <1>0, <3>3
      <4>2. k \notin m.reject
        BY <1>0, <1>7, <2>1, <3>1, <4>1 DEF Ids, NoIdYet
      <4> QED
        BY <1>6, <1>8, <3>1, <3>3, <4>2
    <3> QED
      BY <3>2, <3>3
  <2> QED
    BY <1>9, <1>12, <2>1 DEF AskerKnows
<1> QED
  BY <1>1, <1>2, <1>9, <1>12, <1>14, <1>15, <1>16, <1>17, <1>18, <1>19, <1>20, <1>22, <1>23 DEF Ids

(* The steps of either kind: what concerns the registrations, and what does*)
(* not.                                                                    *)
DataStep ==
    \/ \E e \in Ends, n \in Names : Write(e, n)
    \/ \E e \in Ends : ReceiveData(e)
    \/ \E f \in Filters : Read(f) \/ Continue(f)
RegistrationStep ==
    \/ \E e \in Ends, ns \in Registrations : AddMessageTypes(e, ns)
    \/ \E e \in Ends : OnRequest(e) \/ OnResponse(e) \/ Disconnect(e)
    \/ \E e \in Ends : \E h \in handlers[e], accepted \in BOOLEAN : \E n \in h.names : HandleName(e, h, n, accepted)

(* Every step is of one kind or the other. *)
LEMMA StepKinds == Next => DataStep \/ RegistrationStep
<1>1. \A e \in Ends : Use(e) => DataStep \/ RegistrationStep
  BY DEF Use, DataStep, RegistrationStep
<1>2. \A e \in Ends : Receive(e) => DataStep \/ RegistrationStep
  BY DEF Receive, DataStep, RegistrationStep
<1>3. \A e \in Ends : Handle(e) => RegistrationStep
  BY DEF Handle, RegistrationStep
<1>4. \A e \in Ends : ConnectionLost(e) \/ Disconnect(e) => RegistrationStep
  BY DEF ConnectionLost, RegistrationStep
<1>5. \A f \in Filters : Read(f) \/ Continue(f) => DataStep
  BY DEF DataStep
<1> QED
  BY <1>1, <1>2, <1>3, <1>4, <1>5 DEF Next, Progress

(* The steps of the first kind do not concern the registrations. *)
LEMMA DataStepSame ==
    ASSUME Shapes, DataStep
    PROVE  Shapes' /\ SameRegistration /\ ("ids" \notin faults => "ids" \notin faults')
<1>1. ASSUME NEW e \in Ends, NEW n \in Names, Write(e, n)
      PROVE  Shapes' /\ SameRegistration /\ faults' = faults
  BY <1>1, WriteShapes, WriteSame DEF Write
<1>2. ASSUME NEW e \in Ends, ReceiveData(e)
      PROVE  Shapes' /\ SameRegistration /\ faults' = faults
  BY <1>2, ReceiveDataShapes, ReceiveDataSame DEF ReceiveData
<1>3. ASSUME NEW f \in Filters, Read(f) \/ Continue(f)
      PROVE  Shapes' /\ SameRegistration /\ faults' \subseteq faults \cup {"chain"}
  <2>1. Shapes' /\ SameRegistration
    BY <1>3, ReadShapes, ContinueShapes, ReadSame
  <2>2. faults' \subseteq faults \cup {"chain"}
    BY <1>3 DEF Read, Continue, ReadSync
  <2> QED
    BY <2>1, <2>2
<1>4. "ids" # "chain"
  OBVIOUS
<1> QED
  BY <1>1, <1>2, <1>3, <1>4 DEF DataStep

(* Every step keeps the places and the ids. *)
LEMMA StepIds == ASSUME Places, Ids, [Next]_vars PROVE Places' /\ Ids'
<1>0. Shapes
  BY DEF Places
<1>1. CASE DataStep
  <2>1. Shapes' /\ SameRegistration /\ "ids" \notin faults'
    BY <1>0, <1>1, DataStepSame DEF Ids
  <2> QED
    BY <2>1, SamePlaces, SameIds
<1>2. CASE RegistrationStep
  <2>1. ASSUME NEW e \in Ends, NEW ns \in Registrations, AddMessageTypes(e, ns) PROVE Places' /\ Ids'
    BY <1>0, <2>1, AddShapes, AddIds
  <2>2. ASSUME NEW e \in Ends, OnRequest(e) PROVE Places' /\ Ids'
    BY <1>0, <2>2, OnRequestShapes, OnRequestIds
  <2>3. ASSUME NEW e \in Ends, OnResponse(e) PROVE Places' /\ Ids'
    BY <1>0, <2>3, OnResponseShapes, ResponseIds
  <2>4. ASSUME NEW e \in Ends, Disconnect(e) PROVE Places' /\ Ids'
    BY <1>0, <2>4, DisconnectShapes, DisconnectIds
  <2>5. ASSUME NEW e \in Ends, NEW h \in handlers[e], NEW n \in h.names, NEW accepted \in BOOLEAN,
               HandleName(e, h, n, accepted)
        PROVE  Places' /\ Ids'
    <3>1. Shapes'
      BY <1>0, <2>5, HandleShapes
    <3> QED
      BY <2>5, <3>1, HandleIds
  <2> QED
    BY <1>2, <2>1, <2>2, <2>3, <2>4, <2>5 DEF RegistrationStep
<1>3. CASE UNCHANGED vars
  <2>1. /\ UNCHANGED <<types, names, nextId, handlers, closed, wire, careful, reader, remapping, chunks>>
        /\ UNCHANGED <<chained, reads, requested, written, called, faults>>
    BY <1>3 DEF vars, typeVars, readVars, countVars
  <2>2. Shapes'
    BY <1>0, <2>1 DEF Shapes
  <2>3. SameRegistration /\ "ids" \notin faults'
    BY <2>1 DEF SameRegistration, SameQueue, Ids
  <2> QED
    BY <2>2, <2>3, SamePlaces, SameIds
<1> QED
  BY <1>1, <1>2, <1>3, StepKinds

(* However registrations cross, each one is in one place, an id stands for *)
(* one name, a name has one id of each end at most, and the id that a      *)
(* response brings can be added (#onMesgTypeRegRequest,                    *)
(* #onMesgTypeRegResponse, addRoleId).                                     *)
THEOREM IdsUnambiguous == Spec => [](Places /\ Ids)
<1>1. Init => Places /\ Ids
  BY InitIds
<1>2. Places /\ Ids /\ [Next]_vars => (Places /\ Ids)'
  BY StepIds
<1> QED
  BY <1>1, <1>2, PTL DEF Spec

----------------------------------------------------------------------------
(* The ends agree, when types are registered one at a time.                *)

OneByOne ==
    \A e \in Ends :
        /\ \A h \in handlers[e] : \E n \in Names : h.names = {n}
        /\ \A i \in DOMAIN wire[e] : wire[e][i].type = "request" => \E n \in Names : wire[e][i].names = {n}

(* What an end assigned has reached the other end, or is on the way.       *)
Heard ==
    \A e \in Ends : \A id, n : Fact(id, n) /\ ByRole(e, id) /\ ~closed[Peer(e)] =>
            HasId(IdsOf(Peer(e), n), id) \/ AcceptIn(wire[Peer(e)], id, n)

(* An end whose registration was rejected forgets the id it had assigned   *)
(* for the other one.  While it has not got it back, it waits for the      *)
(* response to another registration, that will tell it.                    *)
Lost(e, id, n) == ~closed[e] /\ Known(e, n) /\ ByRole(e, id) /\ Fact(id, n) /\ ~HasId(IdsOf(e, n), id)
LostIsPending ==
    \A e \in Ends : \A id, n : Lost(e, id, n) => Pending(e, n) /\ \A j : Fact(j, n) => ByRole(e, j)
Preceded(q, id, n) == \A i \in DOMAIN q : Asks(q[i], n) => \E j \in 1 .. (i - 1) : Accepts(q[j], id, n)
Reminds ==
    \A e \in Ends : \A id, n : Lost(e, id, n) =>
            HasId(IdsOf(Peer(e), n), id) \/ (~Handled(Peer(e), n) /\ Preceded(wire[Peer(e)], id, n))

Agree == OneByOne /\ Heard /\ LostIsPending /\ Reminds

(* What precedes a request in a queue, as the queue moves. *)
LEMMA PrecededFact ==
    ASSUME NEW q \in Seq(MessageT)
    PROVE  /\ \A m \in MessageT : \A id, n : Preceded(q, id, n) /\ (Asks(m, n) => AcceptIn(q, id, n)) =>
                     Preceded(Append(q, m), id, n)
           /\ q # <<>> => \A id, n : Preceded(q, id, n) /\ ~Accepts(Head(q), id, n) => Preceded(Tail(q), id, n)
           /\ q # <<>> => \A id, n : Preceded(q, id, n) => ~Asks(Head(q), n)
           /\ \A id, n : ~RequestIn(q, n) => Preceded(q, id, n)
<1>1. ASSUME NEW m \in MessageT, NEW id, NEW n, Preceded(q, id, n), Asks(m, n) => AcceptIn(q, id, n)
      PROVE  Preceded(Append(q, m), id, n)
  <2> DEFINE r == Append(q, m)
             l == Len(q) + 1
  <2>1. /\ DOMAIN r = DOMAIN q \cup {l} /\ r[l] = m /\ DOMAIN q = 1 .. Len(q) /\ Len(q) \in Nat
        /\ \A i \in DOMAIN q : r[i] = q[i] /\ i \in Nat
    BY AppendFact
  <2> HIDE DEF r
  <2>2. ASSUME NEW i \in DOMAIN q, Asks(r[i], n) PROVE \E j \in 1 .. (i - 1) : Accepts(r[j], id, n)
    <3>1. PICK j \in 1 .. (i - 1) : Accepts(q[j], id, n)
      BY <1>1, <2>1, <2>2 DEF Preceded
    <3>2. j \in DOMAIN q
      BY <2>1, <3>1
    <3> QED
      BY <2>1, <3>1, <3>2
  <2>3. ASSUME Asks(m, n) PROVE \E j \in 1 .. (l - 1) : Accepts(r[j], id, n)
    <3>1. PICK j \in DOMAIN q : Accepts(q[j], id, n)
      BY <1>1, <2>3 DEF AcceptIn
    <3>2. j \in 1 .. (l - 1)
      BY <2>1, <3>1
    <3> QED
      BY <2>1, <3>1, <3>2
  <2> HIDE DEF l
  <2>4. Preceded(r, id, n)
    BY <2>1, <2>2, <2>3 DEF Preceded
  <2> QED
    BY <2>4 DEF r
<1>2. ASSUME q # <<>>, NEW id, NEW n, Preceded(q, id, n), ~Accepts(Head(q), id, n)
      PROVE  Preceded(Tail(q), id, n)
  <2> DEFINE r == Tail(q)
  <2>1. /\ Head(q) = q[1] /\ 1 \in DOMAIN q /\ DOMAIN q = 1 .. Len(q) /\ Len(q) \in Nat
        /\ \A i \in DOMAIN r : i \in Nat /\ i >= 1 /\ i + 1 \in DOMAIN q /\ r[i] = q[i + 1]
        /\ \A i \in DOMAIN q : i # 1 => i - 1 \in DOMAIN r /\ r[i - 1] = q[i]
    BY <1>2, TailFact
  <2> HIDE DEF r
  <2>2. ASSUME NEW i \in DOMAIN r, Asks(r[i], n) PROVE \E j \in 1 .. (i - 1) : Accepts(r[j], id, n)
    <3>1. i \in Nat /\ i + 1 \in DOMAIN q /\ Asks(q[i + 1], n)
      BY <2>1, <2>2
    <3>2. PICK j \in 1 .. ((i + 1) - 1) : Accepts(q[j], id, n)
      BY <1>2, <3>1 DEF Preceded
    <3>3. j # 1
      BY <1>2, <2>1, <3>2
    <3>4. j \in DOMAIN q /\ j - 1 \in 1 .. (i - 1)
      BY <2>1, <3>1, <3>2, <3>3
    <3>5. Accepts(r[j - 1], id, n)
      BY <2>1, <3>2, <3>3, <3>4
    <3> QED
      BY <3>4, <3>5
  <2>3. Preceded(r, id, n)
    BY <2>2 DEF Preceded
  <2> QED
    BY <2>3 DEF r
<1>3. ASSUME q # <<>>, NEW id, NEW n, Preceded(q, id, n), Asks(Head(q), n) PROVE FALSE
  <2>1. Head(q) = q[1] /\ 1 \in DOMAIN q
    BY <1>3, TailFact
  <2>2. 1 .. (1 - 1) = {}
    OBVIOUS
  <2> QED
    BY <1>3, <2>1, <2>2 DEF Preceded
<1>4. \A id, n : ~RequestIn(q, n) => Preceded(q, id, n)
  BY DEF RequestIn, Preceded
<1> QED
  BY <1>1, <1>2, <1>3, <1>4

(* Two types that have the same ids have them in the same order. *)
LEMMA SortedFact ==
    ASSUME NEW s \in Seq(Nat), NEW t \in Seq(Nat), Sorted(s), Sorted(t), \A k : HasId(s, k) <=> HasId(t, k)
    PROVE  s = t
<1>1. ASSUME NEW u \in Seq(Nat), Sorted(u)
      PROVE  \/ u = <<>>
             \/ \E i \in Nat : u = <<i>>
             \/ \E i, j \in Nat : u = <<i, j>> /\ i < j
  <2>1. CASE u = <<>>
    BY <2>1
  <2>2. CASE u # <<>> /\ u = <<u[1]>>
    <3>1. u[1] \in Nat
      BY <2>2, TailFact
    <3> QED
      BY <2>2, <3>1
  <2>3. CASE u = <<u[1], u[2]>> /\ u[1] < u[2]
    <3>1. Len(u) = 2
      BY <2>3
    <3>2. u \in Seq(Nat) /\ 1 \in 1 .. Len(u) /\ 2 \in 1 .. Len(u)
      BY <3>1
    <3>3. u[1] \in Nat /\ u[2] \in Nat
      BY <3>2, ElementOfSeq
    <3> QED
      BY <2>3, <3>3
  <2> QED
    BY <1>1, <2>1, <2>2, <2>3 DEF Sorted
<1>2. CASE s = <<>>
  <2>1. \A k : ~HasId(t, k)
    BY <1>2, HasIdFact
  <2>2. ASSUME NEW i \in Nat, t = <<i>> PROVE FALSE
    <3>1. HasId(<<i>>, i)
      BY HasIdFact
    <3> QED
      BY <2>1, <2>2, <3>1
  <2>3. ASSUME NEW i \in Nat, NEW j \in Nat, t = <<i, j>> PROVE FALSE
    <3>1. HasId(<<i, j>>, i)
      BY HasIdFact
    <3> QED
      BY <2>1, <2>3, <3>1
  <2> QED
    BY <1>1, <1>2, <2>2, <2>3
<1>3. ASSUME NEW i \in Nat, s = <<i>> PROVE s = t
  <2>1. \A k : HasId(t, k) <=> k = i
    BY <1>3, HasIdFact
  <2>2. ASSUME t = <<>> PROVE FALSE
    <3>1. ~HasId(<<>>, i)
      BY HasIdFact
    <3> QED
      BY <2>1, <2>2, <3>1
  <2>3. ASSUME NEW j \in Nat, t = <<j>> PROVE j = i
    <3>1. HasId(<<j>>, j)
      BY HasIdFact
    <3> QED
      BY <2>1, <2>3, <3>1
  <2>4. ASSUME NEW j \in Nat, NEW l \in Nat, t = <<j, l>> PROVE j = l
    <3>1. HasId(<<j, l>>, j) /\ HasId(<<j, l>>, l)
      BY HasIdFact
    <3> QED
      BY <2>1, <2>4, <3>1
  <2>5. CASE \E j, l \in Nat : t = <<j, l>> /\ j < l
    BY <2>4, <2>5
  <2> QED
    BY <1>1, <1>3, <2>2, <2>3, <2>5
<1>4. ASSUME NEW i \in Nat, NEW j \in Nat, s = <<i, j>>, i < j PROVE s = t
  <2>1. \A k : HasId(t, k) <=> k = i \/ k = j
    BY <1>4, HasIdFact
  <2>2. i # j
    BY <1>4
  <2>3. ASSUME t = <<>> PROVE FALSE
    <3>1. ~HasId(<<>>, i)
      BY HasIdFact
    <3> QED
      BY <2>1, <2>3, <3>1
  <2>4. ASSUME NEW k \in Nat, t = <<k>> PROVE FALSE
    <3>1. \A x : HasId(<<k>>, x) <=> x = k
      BY HasIdFact
    <3>2. HasId(t, i) /\ HasId(t, j)
      BY <2>1
    <3>3. i = k /\ j = k
      BY <2>4, <3>1, <3>2
    <3> QED
      BY <2>2, <3>3
  <2>5. ASSUME NEW k \in Nat, NEW l \in Nat, t = <<k, l>>, k < l PROVE k = i /\ l = j
    <3>1. \A x : x = k \/ x = l <=> x = i \/ x = j
      BY <2>1, <2>5, HasIdFact
    <3>2. (k = i /\ l = j) \/ (k = j /\ l = i) \/ k = l
      BY <3>1
    <3> QED
      BY <1>4, <2>5, <3>2
  <2>6. CASE \E k, l \in Nat : t = <<k, l>> /\ k < l
    BY <1>4, <2>5, <2>6
  <2> QED
    BY <1>1, <2>3, <2>4, <2>6
<1> QED
  BY <1>1, <1>2, <1>3, <1>4

(* The invariant says that the ends agree. *)
LEMMA AgreeFact ==
    ASSUME Places, Ids, careful => Agree PROVE IdsAgree
<1>0. Shapes
  BY DEF Places
<1>1. "a" \in Ends /\ "b" \in Ends /\ Peer("a") = "b" /\ Peer("b") = "a"
  BY DEF Ends, Peer
<1>2. ASSUME NEW id \in DOMAIN names["a"] \cap DOMAIN names["b"] PROVE names["a"][id] = names["b"][id]
  <2>1. Fact(id, names["a"][id]) /\ Fact(id, names["b"][id])
    BY <1>1, <1>2 DEF Fact, Said
  <2> QED
    BY <2>1 DEF Ids, OneName
<1>3. ASSUME careful, Quiet, NEW n \in Names, Known("a", n), Known("b", n) PROVE IdsOf("a", n) = IdsOf("b", n)
  <2>1. \A e \in Ends : ~closed[e] /\ wire[e] = <<>> /\ handlers[e] = {}
    BY <1>3 DEF Quiet
  <2>2. \A e \in Ends : ~UnderWay(e, n) /\ \A id : ~AcceptIn(wire[e], id, n)
    BY <2>1, EmptyQueue, PeerFact DEF UnderWay, Handled
  <2>3. \A e \in Ends : ~Pending(e, n)
    BY <1>1, <2>1, <2>2 DEF Places, ResponseComes, Ends
  <2>4. \A e \in Ends : Known(e, n)
    BY <1>3 DEF Ends
  <2>5. ASSUME NEW e \in Ends, NEW id, HasId(IdsOf(e, n), id) PROVE HasId(IdsOf(Peer(e), n), id)
    <3>1. Fact(id, n) /\ id \in Nat /\ Peer(e) \in Ends
      BY <2>5, PeerFact DEF Ids, Entries, Assigned, Fact
    <3>2. CASE ByRole(e, id)
      BY <1>3, <2>1, <2>2, <3>1, <3>2 DEF Agree, Heard
    <3>3. CASE ByRole(Peer(e), id)
      BY <1>3, <2>1, <2>3, <2>4, <3>1, <3>3 DEF Agree, LostIsPending, Lost
    <3> QED
      BY <3>1, <3>2, <3>3, RoleFact
  <2>6. \A id : HasId(IdsOf("a", n), id) <=> HasId(IdsOf("b", n), id)
    BY <1>1, <2>5
  <2>7. IdsOf("a", n) \in Seq(Nat) /\ IdsOf("b", n) \in Seq(Nat)
    BY <1>0, <1>1, IdsFact
  <2>8. Sorted(IdsOf("a", n)) /\ Sorted(IdsOf("b", n))
    BY <1>1 DEF Ids, Entries
  <2> QED
    BY <2>6, <2>7, <2>8, SortedFact
<1> QED
  BY <1>2, <1>3 DEF IdsAgree

(* What the steps that do not concern registrations do to a queue.         *)
DataOnly(q, r) ==
    \/ r = q
    \/ \E m \in MessageT : m.type = "data" /\ (r = Append(q, m) \/ (q # <<>> /\ Head(q) = m /\ r = Tail(q)))

(* Such a queue keeps what it says of registrations, in its order. *)
LEMMA DataOnlyFact ==
    ASSUME NEW q \in Seq(MessageT), NEW r, DataOnly(q, r)
    PROVE  /\ \A i \in DOMAIN r : r[i].type # "data" => \E j \in DOMAIN q : r[i] = q[j]
           /\ \A id, n : Preceded(q, id, n) => Preceded(r, id, n)
<1>1. CASE r = q
  BY <1>1
<1>2. ASSUME NEW m \in MessageT, m.type = "data", r = Append(q, m)
      PROVE  /\ \A i \in DOMAIN r : r[i].type # "data" => \E j \in DOMAIN q : r[i] = q[j]
             /\ \A id, n : Preceded(q, id, n) => Preceded(r, id, n)
  <2>1. \A n : ~Asks(m, n)
    BY <1>2, KindFact
  <2>2. \A id, n : Preceded(q, id, n) => Preceded(r, id, n)
    BY <1>2, <2>1, PrecededFact
  <2>3. DOMAIN r = DOMAIN q \cup {Len(q) + 1} /\ r[Len(q) + 1] = m /\ \A i \in DOMAIN q : r[i] = q[i]
    BY <1>2, AppendFact
  <2> QED
    BY <1>2, <2>2, <2>3
<1>3. ASSUME q # <<>>, Head(q).type = "data", r = Tail(q)
      PROVE  /\ \A i \in DOMAIN r : r[i].type # "data" => \E j \in DOMAIN q : r[i] = q[j]
             /\ \A id, n : Preceded(q, id, n) => Preceded(r, id, n)
  <2>1. \A id, n : ~Accepts(Head(q), id, n)
    BY <1>3, KindFact
  <2>2. \A id, n : Preceded(q, id, n) => Preceded(r, id, n)
    BY <1>3, <2>1, PrecededFact
  <2>3. \A i \in DOMAIN r : i + 1 \in DOMAIN q /\ r[i] = q[i + 1]
    BY <1>3, TailFact
  <2> QED
    BY <2>2, <2>3
<1> QED
  BY <1>1, <1>2, <1>3 DEF DataOnly

(* The steps that do not concern registrations do no more to a queue. *)
LEMMA DataStepOnly == ASSUME Shapes, DataStep PROVE \A x \in Ends : DataOnly(wire[x], wire'[x])
<1>1. ASSUME NEW e \in Ends, NEW n \in Names, Write(e, n) PROVE \A x \in Ends : DataOnly(wire[x], wire'[x])
  <2> DEFINE m == Data(IdToWrite(IdsOf(e, n)), n)
  <2>1. IdsOf(e, n)[1] \in Nat
    BY <1>1, IdsFact DEF Write
  <2>2. m \in MessageT /\ m.type = "data"
    BY <2>1 DEF Data, IdToWrite, MessageT, DataT, Shapes
  <2> HIDE DEF m
  <2>3. Send(e, m)
    BY <1>1 DEF Write, m
  <2>4. /\ wire'[e] = wire[e] /\ (closed[Peer(e)] => wire' = wire)
        /\ ~closed[Peer(e)] => wire'[Peer(e)] = Append(wire[Peer(e)], m)
    BY <2>2, <2>3, SendFact
  <2> QED
    BY <2>2, <2>4, PeerFact DEF DataOnly
<1>2. ASSUME NEW e \in Ends, ReceiveData(e) PROVE \A x \in Ends : DataOnly(wire[x], wire'[x])
  <2>1. wire[e] # <<>> /\ Head(wire[e]).type = "data" /\ Received(e)
    BY <1>2 DEF ReceiveData, NextIs
  <2>2. wire'[e] = Tail(wire[e]) /\ wire'[Peer(e)] = wire[Peer(e)] /\ Head(wire[e]) \in MessageT
    BY <2>1, ReceivedFact
  <2> QED
    BY <2>1, <2>2, PeerFact DEF DataOnly
<1>3. ASSUME NEW f \in Filters, Read(f) \/ Continue(f) PROVE wire' = wire
  BY <1>3 DEF Read, Continue
<1> QED
  BY <1>1, <1>2, <1>3 DEF DataStep, DataOnly

(* Those steps keep the agreement. *)
LEMMA SameAgree ==
    ASSUME Places, Ids, Agree, SameRegistration, \A x \in Ends : DataOnly(wire[x], wire'[x])
    PROVE  Agree'
<1>0. Shapes /\ \A x \in Ends : wire[x] \in Seq(MessageT)
  BY DEF Places, Shapes
<1>1. \A e \in Ends : \A n : /\ Handled(e, n)' <=> Handled(e, n)
                             /\ IdsOf(e, n)' = IdsOf(e, n) /\ (Known(e, n)' <=> Known(e, n))
                             /\ (Pending(e, n)' <=> Pending(e, n))
                             /\ \A id : Said(e, id, n)' <=> Said(e, id, n)
  BY <1>0, SameFact
<1>2. handlers' = handlers /\ closed' = closed
  BY DEF SameRegistration
<1>3. \A e \in Ends : \A id, n : AcceptIn(wire[e], id, n)' <=> AcceptIn(wire[e], id, n)
  BY DEF SameRegistration, SameQueue
<1>4. \A id, n : Fact(id, n)' <=> Fact(id, n)
  BY <1>1, <1>3 DEF Fact
<1>5. \A x \in Ends : /\ \A i \in DOMAIN wire'[x] : wire'[x][i].type # "data" => \E j \in DOMAIN wire[x] : wire'[x][i] = wire[x][j]
                      /\ \A id, n : Preceded(wire[x], id, n) => Preceded(wire'[x], id, n)
  BY <1>0, DataOnlyFact
<1>6. OneByOne'
  BY <1>2, <1>5 DEF Agree, OneByOne
<1>7. Heard'
  BY <1>1, <1>2, <1>3, <1>4, PeerFact DEF Agree, Heard
<1>8. \A e \in Ends : \A id, n : Lost(e, id, n)' <=> Lost(e, id, n)
  BY <1>1, <1>2, <1>4 DEF Lost
<1>9. LostIsPending'
  BY <1>1, <1>4, <1>8 DEF Agree, LostIsPending
<1>10. Reminds'
  BY <1>1, <1>5, <1>8, PeerFact DEF Agree, Reminds
<1> QED
  BY <1>6, <1>7, <1>9, <1>10 DEF Agree

(* A request that is sent keeps the agreement. *)
LEMMA AddAgree ==
    ASSUME Places, Ids, Agree, careful, NEW e \in Ends, NEW ns \in Registrations, AddMessageTypes(e, ns)
    PROVE  Agree'
<1> DEFINE new == {n \in ns : ~Known(e, n)}
           m == Request(new)
           p == Peer(e)
<1>0. Shapes /\ p \in Ends /\ p # e /\ Peer(p) = e /\ \A x \in Ends : x = e \/ x = p
  BY PeerFact DEF Places
<1>1. /\ new \subseteq Names /\ m \in MessageT /\ Send(e, m) /\ ~closed[e]
      /\ UNCHANGED <<names, nextId, handlers, closed, careful, reader>>
      /\ \A x \in Ends, k \in Names :
            /\ Known(x, k)' <=> Known(x, k) \/ (x = e /\ k \in new)
            /\ Pending(x, k)' <=> Pending(x, k) \/ (x = e /\ k \in new)
            /\ IdsOf(x, k)' = IdsOf(x, k)
  BY <1>0, AddTypes
<1>2. PICK n0 \in Names : new = {n0}
  BY DEF AddMessageTypes
<1>3. ~Known(e, n0) /\ IdsOf(e, n0) = <<>>
  <2>1. n0 \in new
    BY <1>2
  <2> QED
    BY <2>1 DEF IdsOf
<1>4. m.type = "request" /\ m.names = {n0} /\ \A n : Asks(m, n) <=> n = n0
  BY <1>2 DEF Request, Asks
<1> HIDE DEF new, m
<1>5. /\ wire'[e] = wire[e] /\ (closed[p] => wire' = wire)
      /\ ~closed[p] => wire'[p] = Append(wire[p], m)
      /\ wire[p] \in Seq(MessageT) /\ wire[e] \in Seq(MessageT)
  BY <1>0, <1>1, SendFact
<1>6. \A x \in Ends : \A id, n : (Said(x, id, n)' <=> Said(x, id, n)) /\ (Handled(x, n)' <=> Handled(x, n))
  BY <1>1 DEF Said, Handled
<1>7. \A x \in Ends : \A id, n : AcceptIn(wire'[x], id, n) <=> AcceptIn(wire[x], id, n)
  <2>1. ASSUME ~closed[p] PROVE \A id, n : AcceptIn(wire'[p], id, n) <=> AcceptIn(wire[p], id, n)
    <3>1. \A id, n : AcceptIn(Append(wire[p], m), id, n) <=> AcceptIn(wire[p], id, n) \/ Accepts(m, id, n)
      BY <1>1, <1>5, AppendQueue
    <3>2. \A id, n : ~Accepts(m, id, n)
      BY <1>4, KindFact
    <3> QED
      BY <1>5, <2>1, <3>1, <3>2
  <2> QED
    BY <1>0, <1>5, <2>1
<1>8. \A id, n : Fact(id, n)' <=> Fact(id, n)
  BY <1>6, <1>7 DEF Fact
<1>9. \A id, n : Fact(id, n) => n \in Names /\ id \in Nat
  BY DEF Ids, Assigned
<1>10. OneByOne'
  <2>1. \A i \in DOMAIN wire'[p] : wire'[p][i].type = "request" => \E n \in Names : wire'[p][i].names = {n}
    <3>1. CASE closed[p]
      BY <1>0, <1>5, <3>1 DEF Agree, OneByOne
    <3>2. CASE ~closed[p]
      <4>1. DOMAIN wire'[p] = DOMAIN wire[p] \cup {Len(wire[p]) + 1} /\ wire'[p][Len(wire[p]) + 1] = m
            /\ \A i \in DOMAIN wire[p] : wire'[p][i] = wire[p][i]
        BY <1>1, <1>5, <3>2, AppendFact
      <4> QED
        BY <1>0, <1>4, <4>1 DEF Agree, OneByOne
    <3> QED
      BY <3>1, <3>2
  <2> QED
    BY <1>0, <1>1, <1>5, <2>1 DEF Agree, OneByOne
<1>11. Heard'
  BY <1>1, <1>7, <1>8, <1>9, PeerFact DEF Agree, Heard
<1>12. ~UnderWay(p, n0)
  BY <1>0, <1>1, <1>3 DEF Places, AwaitsResponse, Pending
<1>13. ASSUME NEW x \in Ends, NEW id, NEW n, Lost(x, id, n)'
       PROVE  /\ n \in Names /\ ByRole(x, id) /\ Fact(id, n) /\ ~HasId(IdsOf(x, n), id) /\ ~closed[x]
              /\ Lost(x, id, n) \/ (x = e /\ n = n0)
  <2>1. Fact(id, n)' /\ Known(x, n)' /\ ByRole(x, id) /\ ~HasId(IdsOf(x, n)', id) /\ ~closed'[x]
    BY <1>13 DEF Lost
  <2>2. Fact(id, n) /\ n \in Names
    BY <1>8, <1>9, <2>1
  <2> QED
    BY <1>1, <1>2, <2>1, <2>2 DEF Lost
<1>14. LostIsPending'
  <2>1. ASSUME NEW x \in Ends, NEW id, NEW n, Lost(x, id, n)'
        PROVE  Pending(x, n)' /\ \A j : Fact(j, n) => ByRole(x, j)
    <3>1. CASE Lost(x, id, n)
      BY <1>1, <1>13, <2>1, <3>1 DEF Agree, LostIsPending
    <3>2. CASE x = e /\ n = n0
      <4>1. ASSUME NEW j, Fact(j, n0), ByRole(p, j) PROVE FALSE
        <5>1. HasId(IdsOf(e, n0), j) \/ AcceptIn(wire[e], j, n0)
          BY <1>0, <1>1, <4>1 DEF Agree, Heard
        <5>2. ~AcceptIn(wire[e], j, n0)
          BY <1>0, <1>12, AnswerFact DEF UnderWay
        <5> QED
          BY <1>3, <5>1, <5>2, HasIdFact
      <4>2. \A j : Fact(j, n0) => ByRole(e, j)
        BY <1>0, <1>9, <4>1, RoleFact
      <4> QED
        BY <1>1, <1>2, <3>2, <4>2
    <3> QED
      BY <1>13, <2>1, <3>1, <3>2
  <2> QED
    BY <1>8, <2>1 DEF LostIsPending
<1>15. Reminds'
  <2>1. ASSUME NEW x \in Ends, NEW id, NEW n, Lost(x, id, n)'
        PROVE  HasId(IdsOf(Peer(x), n), id) \/ (~Handled(Peer(x), n) /\ Preceded(wire'[Peer(x)], id, n))
    <3>1. CASE x = p
      BY <1>0, <1>3, <1>5, <1>13, <2>1, <3>1 DEF Agree, Reminds
    <3>2. CASE x = e /\ n # n0
      <4>1. HasId(IdsOf(p, n), id) \/ (~Handled(p, n) /\ Preceded(wire[p], id, n))
        BY <1>13, <2>1, <3>2 DEF Agree, Reminds
      <4>2. Preceded(wire[p], id, n) => Preceded(wire'[p], id, n)
        <5>1. ~Asks(m, n)
          BY <1>4, <3>2
        <5>2. Preceded(wire[p], id, n) => Preceded(Append(wire[p], m), id, n)
          BY <1>1, <1>5, <5>1, PrecededFact
        <5> QED
          BY <1>5, <5>2
      <4> QED
        BY <3>2, <4>1, <4>2
    <3>3. CASE x = e /\ n = n0
      <4>1. ~Handled(p, n) /\ Preceded(wire[p], id, n)
        BY <1>5, <1>12, <3>3, PrecededFact DEF UnderWay
      <4>2. ~closed[p] => HasId(IdsOf(p, n), id) \/ AcceptIn(wire[p], id, n)
        BY <1>13, <2>1, <3>3 DEF Agree, Heard
      <4>3. CASE closed[p]
        BY <1>5, <3>3, <4>1, <4>3
      <4>4. CASE ~closed[p] /\ AcceptIn(wire[p], id, n)
        <5>1. Preceded(Append(wire[p], m), id, n)
          BY <1>1, <1>5, <4>1, <4>4, PrecededFact
        <5> QED
          BY <1>5, <3>3, <4>1, <4>4, <5>1
      <4> QED
        BY <3>3, <4>2, <4>3, <4>4
    <3> QED
      BY <1>0, <3>1, <3>2, <3>3
  <2> QED
    BY <1>1, <1>6, <1>13, <2>1, PeerFact DEF Reminds
<1> QED
  BY <1>10, <1>11, <1>14, <1>15 DEF Agree

(* A request that arrives keeps the agreement. *)
LEMMA OnRequestAgree ==
    ASSUME Places, Shapes', Ids, Agree, NEW e \in Ends, OnRequest(e) PROVE Agree'
<1> DEFINE m == Head(wire[e])
           p == Peer(e)
<1>0. Shapes /\ p \in Ends /\ p # e /\ Peer(p) = e /\ \A x \in Ends : x = e \/ x = p
  BY PeerFact DEF Places
<1>1. wire[e] # <<>> /\ m.type = "request" /\ Received(e)
  BY DEF OnRequest, NextIs
<1>2. wire'[e] = Tail(wire[e]) /\ wire'[p] = wire[p] /\ wire[e] \in Seq(MessageT) /\ m \in MessageT /\ m = wire[e][1] /\ 1 \in DOMAIN wire[e]
  BY <1>0, <1>1, ReceivedFact, TailFact
<1>3. /\ \A x \in Ends : \A id, k : AcceptIn(wire[x], id, k)' <=> AcceptIn(wire[x], id, k)
      /\ UNCHANGED <<types, names, nextId, closed, careful, reader>>
  BY OnRequestPlaces
<1>4. PICK h \in HandlerT : /\ handlers' = [handlers EXCEPT ![e] = @ \cup {h}]
                            /\ h = [names |-> Head(wire[e]).names, accept |-> <<>>, reject |-> {}]
  BY OnRequestPlaces
<1>5. PICK n0 \in Names : m.names = {n0}
  BY <1>1, <1>2 DEF Agree, OneByOne
<1>6. /\ h.names = {n0}
      /\ \A n : About(h, n) <=> n = n0
      /\ \A n : Asks(m, n) <=> n = n0
      /\ \A id, n : ~Accepts(m, id, n)
  BY <1>1, <1>4, <1>5, EmptyFact DEF About, Asks, Accepts
<1> HIDE DEF m, p
<1>7. handlers'[e] = handlers[e] \cup {h} /\ handlers'[p] = handlers[p]
  BY <1>0, <1>4 DEF Shapes
<1>8. \A n : (Handled(e, n)' <=> Handled(e, n) \/ n = n0) /\ (Handled(p, n)' <=> Handled(p, n))
  BY <1>6, <1>7 DEF Handled
<1>9. \A x \in Ends : \A n : /\ IdsOf(x, n)' = IdsOf(x, n) /\ (Known(x, n)' <=> Known(x, n))
                             /\ (Pending(x, n)' <=> Pending(x, n))
                             /\ \A id : Said(x, id, n)' <=> Said(x, id, n)
  BY <1>3 DEF IdsOf, Known, Pending, Said
<1>10. \A id, n : Fact(id, n)' <=> Fact(id, n)
  BY <1>3, <1>9 DEF Fact
<1>11. OneByOne'
  <2>1. \A i \in DOMAIN wire'[e] : i + 1 \in DOMAIN wire[e] /\ wire'[e][i] = wire[e][i + 1]
    BY <1>1, <1>2, TailFact
  <2>2. \A i \in DOMAIN wire[e] : wire[e][i].type = "request" => \E k \in Names : wire[e][i].names = {k}
    BY DEF Agree, OneByOne
  <2>3. \A i \in DOMAIN wire'[e] : wire'[e][i].type = "request" => \E k \in Names : wire'[e][i].names = {k}
    BY <2>1, <2>2
  <2>4. \A g \in handlers'[e] : \E k \in Names : g.names = {k}
    <3>1. \A g \in handlers[e] : \E k \in Names : g.names = {k}
      BY DEF Agree, OneByOne
    <3>2. \E k \in Names : h.names = {k}
      BY <1>6
    <3> QED
      BY <1>7, <3>1, <3>2
  <2>5. /\ \A g \in handlers'[p] : \E k \in Names : g.names = {k}
        /\ \A i \in DOMAIN wire'[p] : wire'[p][i].type = "request" => \E k \in Names : wire'[p][i].names = {k}
    BY <1>0, <1>2, <1>7 DEF Agree, OneByOne
  <2>6. ASSUME NEW x \in Ends
        PROVE  /\ \A g \in handlers'[x] : \E k \in Names : g.names = {k}
               /\ \A i \in DOMAIN wire'[x] : wire'[x][i].type = "request" => \E k \in Names : wire'[x][i].names = {k}
    <3>1. CASE x = e
      BY <2>3, <2>4, <3>1
    <3>2. CASE x = p
      BY <2>5, <3>2
    <3> QED
      BY <1>0, <3>1, <3>2
  <2> QED
    BY <2>6 DEF OneByOne
<1>12. Heard'
  BY <1>3, <1>9, <1>10, PeerFact DEF Agree, Heard
<1>13. \A x \in Ends : \A id, n : Lost(x, id, n)' <=> Lost(x, id, n)
  BY <1>3, <1>9, <1>10 DEF Lost
<1>14. LostIsPending'
  BY <1>9, <1>10, <1>13 DEF Agree, LostIsPending
<1>15. Reminds'
  <2>1. ASSUME NEW x \in Ends, NEW id, NEW n, Lost(x, id, n)
        PROVE  HasId(IdsOf(Peer(x), n), id) \/ (~Handled(Peer(x), n)' /\ Preceded(wire'[Peer(x)], id, n))
    <3>1. HasId(IdsOf(Peer(x), n), id) \/ (~Handled(Peer(x), n) /\ Preceded(wire[Peer(x)], id, n))
      BY <2>1 DEF Agree, Reminds
    <3>2. CASE x = e
      BY <1>2, <1>8, <3>1, <3>2 DEF p
    <3>3. CASE x = p
      <4>1. Preceded(wire[e], id, n) => Preceded(Tail(wire[e]), id, n) /\ ~Asks(m, n)
        BY <1>1, <1>2, <1>6, PrecededFact DEF m
      <4> QED
        BY <1>0, <1>2, <1>6, <1>8, <3>1, <3>3, <4>1
    <3> QED
      BY <1>0, <3>2, <3>3
  <2> QED
    BY <1>9, <1>13, <2>1, PeerFact DEF Reminds
<1> QED
  BY <1>11, <1>12, <1>14, <1>15 DEF Agree

(* So does a name that is handled: what it assigns or confirms is on its   *)
(* way to the other end.                                                   *)
LEMMA HandleAgree ==
    ASSUME Places, Shapes', Ids, Agree, NEW e \in Ends, NEW h \in handlers[e], NEW n \in h.names, NEW accepted \in BOOLEAN,
           HandleName(e, h, n, accepted)
    PROVE  Agree'
<1> DEFINE p == Peer(e)
           accept == HandledAccept(e, h, n, accepted)
           reject == HandledReject(h, n, accepted)
           m == Response(accept, reject)
<1>0. Shapes /\ p \in Ends /\ p # e /\ Peer(p) = e /\ \A x \in Ends : x = e \/ x = p
  BY PeerFact DEF Places
<1>1. h.names = {n} /\ n \in Names
  <2>1. \E k \in Names : h.names = {k}
    BY DEF Agree, OneByOne
  <2> QED
    BY <2>1
<1>2. /\ \A x \in Ends : \A g \in handlers'[x] : g \in handlers[x]
      /\ wire'[e] = wire[e] /\ (closed[p] => wire' = wire)
  BY <1>1, HandleLeaves
<1>3. ~closed[p] => wire'[p] = Append(wire[p], m) /\ \A k \in DOMAIN accept : AcceptIn(wire'[p], accept[k], k)
  BY <1>1, HandleLeaves
<1>4. \A x \in Ends : \A id, k : AcceptIn(wire[x], id, k) => AcceptIn(wire'[x], id, k)
  BY <1>1, HandleLeaves
<1>5. /\ \A id, k : Fact(id, k) => Fact(id, k)'
      /\ \A id, k : Fact(id, k)' => Fact(id, k) \/
            (accepted /\ IdsOf(e, n) = <<>> /\ id = nextId[e] /\ k = n /\ ~closed[e])
  BY HandleIds
<1>6. closed' = closed /\ ~closed[e]
  BY HandlePlaces
<1>7. m \in MessageT /\ m.type = "response" /\ wire[p] \in Seq(MessageT)
  <2>1. Response(HandledAccept(e, h, n, accepted), HandledReject(h, n, accepted)) \in MessageT
    BY <1>0, HandleFact
  <2> QED
    BY <1>0, <2>1 DEF Response, Shapes
<1>8. \A k : ~Asks(m, k)
  BY <1>7, KindFact
<1>9. /\ \A x \in Ends, k \in Names :
            /\ Known(x, k) => Known(x, k)'
            /\ Known(x, k)' => Known(x, k) \/ (x = e /\ k = n /\ accepted /\ IdsOf(e, n) = <<>>)
            /\ Pending(x, k)' <=> Pending(x, k)
            /\ \A j : HasId(IdsOf(x, k), j) => HasId(IdsOf(x, k)', j)
      /\ accepted /\ IdsOf(e, n) = <<>> => IdsOf(e, n)' = <<nextId[e]>>
  <2>1. CASE accepted /\ IdsOf(e, n) = <<>>
    <3>1. AcceptName(e, n)
      BY <1>0, <2>1, HandleTypes
    <3>2. \A x \in Ends, k \in Names :
              /\ Known(x, k)' <=> Known(x, k) \/ (x = e /\ k = n)
              /\ IdsOf(x, k)' = IF x = e /\ k = n THEN <<nextId[e]>> ELSE IdsOf(x, k)
              /\ Pending(x, k)' <=> Pending(x, k)
      BY <1>0, <1>1, <2>1, <3>1, AssignFact
    <3>3. \A j : ~HasId(IdsOf(e, n), j)
      BY <2>1, HasIdFact
    <3> QED
      BY <1>1, <2>1, <3>2, <3>3
  <2>2. CASE ~(accepted /\ IdsOf(e, n) = <<>>)
    <3>1. types' = types
      BY <1>0, <2>2, HandleTypes DEF typeVars
    <3> QED
      BY <2>2, <3>1 DEF Known, IdsOf, Pending
  <2> QED
    BY <2>1, <2>2
<1>10. (n \in DOMAIN accept /\ accept[n] = IdsOf(e, n)'[1]) \/ ~accepted
  BY DEF HandledAccept, Put
<1> HIDE DEF m, p, accept, reject
<1>11. \A id, k : Fact(id, k) => k \in Names /\ id \in Nat
  BY DEF Ids, Assigned
<1>12. PICK new : new = nextId[e] /\ new \in Nat /\ ByRole(e, new) /\ ~ByRole(p, new)
  <2>1. nextId[e] \in Nat /\ ByRole(e, nextId[e])
    BY DEF Ids, Assigned
  <2> QED
    BY <2>1, RoleFact DEF p
<1>13. Handled(e, n) /\ Asked(e, n)
  BY <1>1 DEF Handled, About, Asked
<1>14. OneByOne'
  <2>1. \A i \in DOMAIN wire'[p] : wire'[p][i].type = "request" => \E k \in Names : wire'[p][i].names = {k}
    <3>1. CASE closed[p]
      BY <1>0, <1>2, <3>1 DEF Agree, OneByOne
    <3>2. CASE ~closed[p]
      <4>1. /\ DOMAIN Append(wire[p], m) = DOMAIN wire[p] \cup {Len(wire[p]) + 1}
            /\ Append(wire[p], m)[Len(wire[p]) + 1] = m
            /\ \A i \in DOMAIN wire[p] : Append(wire[p], m)[i] = wire[p][i]
        BY <1>7, AppendFact
      <4>2. m.type # "request"
        BY <1>7
      <4> QED
        BY <1>0, <1>3, <3>2, <4>1, <4>2 DEF Agree, OneByOne
    <3> QED
      BY <3>1, <3>2
  <2> QED
    BY <1>0, <1>2, <2>1 DEF Agree, OneByOne
<1>15. Heard'
  <2>1. ASSUME NEW x \in Ends, NEW id, NEW k, Fact(id, k)', ByRole(x, id), ~closed[Peer(x)]
        PROVE  HasId(IdsOf(Peer(x), k)', id) \/ AcceptIn(wire'[Peer(x)], id, k)
    <3>1. CASE Fact(id, k)
      <4>1. HasId(IdsOf(Peer(x), k), id) \/ AcceptIn(wire[Peer(x)], id, k)
        BY <2>1, <3>1 DEF Agree, Heard
      <4> QED
        BY <1>4, <1>9, <1>11, <3>1, <4>1, PeerFact
    <3>2. CASE accepted /\ IdsOf(e, n) = <<>> /\ id = new /\ k = n
      <4>1. x = e /\ ~closed[p] /\ Peer(x) = p
        BY <1>0, <1>12, <2>1, <3>2 DEF p
      <4>2. IdsOf(e, n)'[1] = new
        BY <1>9, <1>12, <3>2
      <4>3. AcceptIn(wire'[p], new, n)
        BY <1>3, <1>10, <3>2, <4>1, <4>2
      <4> QED
        BY <3>2, <4>1, <4>3
    <3> QED
      BY <1>5, <1>12, <2>1, <3>1, <3>2
  <2> QED
    BY <1>6, <2>1 DEF Heard
<1>16. ASSUME NEW x \in Ends, NEW id, NEW k, Lost(x, id, k)' PROVE Lost(x, id, k) /\ k \in Names
  <2>1. ~closed[x] /\ Known(x, k)' /\ ByRole(x, id) /\ Fact(id, k)' /\ ~HasId(IdsOf(x, k)', id)
    BY <1>6, <1>16 DEF Lost
  <2>2. CASE Fact(id, k)
    <3>1. CASE x = e /\ k = n
      BY <1>13, <2>1, <2>2, <3>1 DEF Ids, NoIdYet
    <3>2. CASE ~(x = e /\ k = n)
      BY <1>9, <1>11, <2>1, <2>2, <3>2 DEF Lost
    <3> QED
      BY <3>1, <3>2
  <2>3. CASE accepted /\ IdsOf(e, n) = <<>> /\ id = new /\ k = n
    <3>1. x = e
      BY <1>0, <1>12, <2>1, <2>3
    <3>2. HasId(<<new>>, new)
      BY HasIdFact
    <3> QED
      BY <1>9, <1>12, <2>1, <2>3, <3>1, <3>2
  <2> QED
    BY <1>5, <1>12, <2>1, <2>2, <2>3
<1>17. LostIsPending'
  <2>1. ASSUME NEW x \in Ends, NEW id, NEW k, Lost(x, id, k)'
        PROVE  Pending(x, k)' /\ \A j : Fact(j, k)' => ByRole(x, j)
    <3>1. Pending(x, k) /\ \A j : Fact(j, k) => ByRole(x, j)
      BY <1>16, <2>1 DEF Agree, LostIsPending
    <3>2. CASE accepted /\ IdsOf(e, n) = <<>> /\ k = n
      <4>1. x = e
        <5>1. CASE x = p
          <6>1. HasId(IdsOf(e, n), id)
            BY <1>0, <1>13, <1>16, <2>1, <3>2, <5>1 DEF Agree, Reminds
          <6> QED
            BY <3>2, <6>1, HasIdFact
        <5> QED
          BY <1>0, <5>1
      <4> QED
        BY <1>5, <1>9, <1>12, <1>16, <2>1, <3>1, <4>1
    <3>3. CASE ~(accepted /\ IdsOf(e, n) = <<>> /\ k = n)
      BY <1>5, <1>9, <1>16, <2>1, <3>1, <3>3
    <3> QED
      BY <3>2, <3>3
  <2> QED
    BY <2>1 DEF LostIsPending
<1>18. Reminds'
  <2>1. ASSUME NEW x \in Ends, NEW id, NEW k, Lost(x, id, k)'
        PROVE  HasId(IdsOf(Peer(x), k)', id) \/ (~Handled(Peer(x), k)' /\ Preceded(wire'[Peer(x)], id, k))
    <3>1. HasId(IdsOf(Peer(x), k), id) \/ (~Handled(Peer(x), k) /\ Preceded(wire[Peer(x)], id, k))
      BY <1>16, <2>1 DEF Agree, Reminds
    <3>2. Peer(x) \in Ends /\ k \in Names
      BY <1>16, <2>1, PeerFact
    <3>3. Handled(Peer(x), k)' => Handled(Peer(x), k)
      BY <1>2, <3>2 DEF Handled
    <3>4. Preceded(wire[Peer(x)], id, k) => Preceded(wire'[Peer(x)], id, k)
      <4>1. CASE Peer(x) = e \/ closed[p]
        BY <1>0, <1>2, <3>2, <4>1
      <4>2. CASE Peer(x) = p /\ ~closed[p]
        <5>1. Preceded(wire[p], id, k) => Preceded(Append(wire[p], m), id, k)
          BY <1>7, <1>8, PrecededFact
        <5> QED
          BY <1>3, <4>2, <5>1
      <4> QED
        BY <1>0, <3>2, <4>1, <4>2
    <3> QED
      BY <1>9, <3>1, <3>2, <3>3, <3>4
  <2> QED
    BY <2>1 DEF Reminds
<1> QED
  BY <1>14, <1>15, <1>17, <1>18 DEF Agree

(* So does a response: the end then has the ids that it brings, and what   *)
(* it refuses the end forgets.                                             *)
LEMMA ResponseAgree ==
    ASSUME Places, Shapes', Ids, Agree, NEW e \in Ends, OnResponse(e) PROVE Agree'
<1> DEFINE p == Peer(e)
<1>0. Shapes /\ p \in Ends /\ p # e /\ Peer(p) = e /\ \A x \in Ends : x = e \/ x = p
  BY PeerFact DEF Places
<1>m. PICK m : m = Head(wire[e])
  OBVIOUS
<1>1. Places' /\ Ids' /\ MayAccept(e, m)
  BY <1>m, ResponseIds
<1>2. /\ \A id, k : Fact(id, k)' => Fact(id, k)
      /\ \A k \in DOMAIN m.accept : \A j : HasId(IdsOf(e, k)', j) <=> HasId(IdsOf(e, k), j) \/ j = m.accept[k]
  BY <1>m, ResponseIds
<1>3. /\ \A x \in Ends, k \in Names :
            x # e => IdsOf(x, k)' = IdsOf(x, k) /\ (Known(x, k)' <=> Known(x, k)) /\ (Pending(x, k)' <=> Pending(x, k))
      /\ \A x \in Ends : \A id, k : AcceptIn(wire[x], id, k) <=> AcceptIn(wire[x], id, k)' \/ (x = e /\ Accepts(m, id, k))
  BY <1>m, <1>1, ResponsePlaces
<1>4. /\ \A k \in DOMAIN m.accept : Accepts(m, m.accept[k], k) /\ Known(e, k)' /\ ~Pending(e, k)' /\ k \in Names
      /\ \A k \in Names : k \in m.reject => ~Known(e, k)' /\ Refused(p, k)
      /\ \A k \in Names : k \notin DOMAIN m.accept /\ k \notin m.reject =>
            IdsOf(e, k)' = IdsOf(e, k) /\ (Known(e, k)' <=> Known(e, k)) /\ (Pending(e, k)' <=> Pending(e, k))
  BY <1>m, <1>1, ResponsePlaces
<1>5. /\ \A k \in Names : Answers(m, k) => Pending(e, k) /\ UnderWay(p, k)
      /\ m.type = "response" /\ ~closed[e] /\ handlers' = handlers /\ closed' = closed
      /\ m \in MessageT /\ wire[e] # <<>> /\ wire'[e] = Tail(wire[e]) /\ wire'[p] = wire[p]
      /\ wire[e] \in Seq(MessageT)
  BY <1>m, <1>1, ResponsePlaces
<1> HIDE DEF p
<1>6. \A id, k : Fact(id, k) => k \in Names /\ id \in Nat
  BY DEF Ids, Assigned
<1>7. \A x \in Ends : \A k : Handled(x, k)' <=> Handled(x, k)
  BY <1>5 DEF Handled
<1>8. \A k \in Names : \A j : HasId(IdsOf(e, k), j) => HasId(IdsOf(e, k)', j) \/ k \in m.reject
  <2>1. ASSUME NEW k \in Names, NEW j, HasId(IdsOf(e, k), j), k \notin m.reject PROVE HasId(IdsOf(e, k)', j)
    <3>1. CASE k \in DOMAIN m.accept
      BY <1>2, <2>1, <3>1
    <3>2. CASE k \notin DOMAIN m.accept
      BY <1>4, <2>1, <3>2
    <3> QED
      BY <3>1, <3>2
  <2> QED
    BY <2>1
<1>9. \A id, k : Accepts(m, id, k) => HasId(IdsOf(e, k)', id)
  <2>1. ASSUME NEW id, NEW k, Accepts(m, id, k) PROVE HasId(IdsOf(e, k)', id)
    <3>1. k \in DOMAIN m.accept /\ id = m.accept[k]
      BY <2>1 DEF Accepts
    <3> QED
      BY <1>2, <3>1
  <2> QED
    BY <2>1
<1>10. ASSUME NEW id, NEW k, Fact(id, k), ByRole(p, id) PROVE k \notin m.reject
  BY <1>0, <1>4, <1>6, <1>10 DEF Ids, NoIdYet
<1>11. OneByOne'
  <2>1. \A i \in DOMAIN wire'[e] : wire'[e][i].type = "request" => \E k \in Names : wire'[e][i].names = {k}
    <3>1. \A i \in DOMAIN wire'[e] : i + 1 \in DOMAIN wire[e] /\ wire'[e][i] = wire[e][i + 1]
      BY <1>5, TailFact
    <3>2. \A i \in DOMAIN wire[e] : wire[e][i].type = "request" => \E k \in Names : wire[e][i].names = {k}
      BY DEF Agree, OneByOne
    <3> QED
      BY <3>1, <3>2
  <2>2. /\ \A x \in Ends : \A g \in handlers'[x] : \E k \in Names : g.names = {k}
        /\ \A i \in DOMAIN wire'[p] : wire'[p][i].type = "request" => \E k \in Names : wire'[p][i].names = {k}
    BY <1>0, <1>5 DEF Agree, OneByOne
  <2>3. ASSUME NEW x \in Ends, NEW i \in DOMAIN wire'[x], wire'[x][i].type = "request"
        PROVE  \E k \in Names : wire'[x][i].names = {k}
    <3>1. CASE x = e
      BY <2>1, <2>3, <3>1
    <3>2. CASE x = p
      BY <2>2, <2>3, <3>2
    <3> QED
      BY <1>0, <3>1, <3>2
  <2> QED
    BY <2>2, <2>3 DEF OneByOne
<1>12. Heard'
  <2>1. ASSUME NEW x \in Ends, NEW id, NEW k, Fact(id, k)', ByRole(x, id), ~closed[Peer(x)]
        PROVE  HasId(IdsOf(Peer(x), k)', id) \/ AcceptIn(wire[Peer(x)], id, k)'
    <3>1. Fact(id, k) /\ k \in Names
      BY <1>2, <1>6, <2>1
    <3>2. HasId(IdsOf(Peer(x), k), id) \/ AcceptIn(wire[Peer(x)], id, k)
      BY <2>1, <3>1 DEF Agree, Heard
    <3>3. CASE x = e
      <4>1. Peer(x) = p /\ IdsOf(p, k)' = IdsOf(p, k) /\ (AcceptIn(wire[p], id, k) <=> AcceptIn(wire[p], id, k)')
        BY <1>0, <1>3, <3>1, <3>3 DEF p
      <4> QED
        BY <3>2, <4>1
    <3>4. CASE x = p
      <4>1. Peer(x) = e /\ k \notin m.reject
        BY <1>0, <1>10, <2>1, <3>1, <3>4
      <4>2. AcceptIn(wire[e], id, k) => AcceptIn(wire[e], id, k)' \/ Accepts(m, id, k)
        BY <1>3
      <4> QED
        BY <1>8, <1>9, <3>1, <3>2, <4>1, <4>2
    <3> QED
      BY <1>0, <3>3, <3>4
  <2> QED
    BY <1>5, <2>1 DEF Heard
<1>13. ASSUME NEW x \in Ends, NEW id, NEW k, Lost(x, id, k)'
       PROVE  Lost(x, id, k) /\ k \in Names /\ id \in Nat /\ (x = e => ~Answers(m, k)) /\ Fact(id, k)
  <2>1. ~closed[x] /\ Known(x, k)' /\ ByRole(x, id) /\ Fact(id, k)' /\ ~HasId(IdsOf(x, k)', id)
    BY <1>5, <1>13 DEF Lost
  <2>2. Fact(id, k) /\ k \in Names /\ id \in Nat
    BY <1>2, <1>6, <2>1
  <2>3. CASE x = p
    BY <1>0, <1>3, <2>1, <2>2, <2>3 DEF Lost
  <2>4. CASE x = e /\ ~Answers(m, k)
    <3>1. k \notin DOMAIN m.accept /\ k \notin m.reject
      BY <1>5, <2>4 DEF Answers
    <3> QED
      BY <1>4, <2>1, <2>2, <2>4, <3>1 DEF Lost
  <2>5. CASE x = e /\ k \in m.reject
    BY <1>4, <2>1, <2>2, <2>5
  <2>6. CASE x = e /\ k \in DOMAIN m.accept
    <3> DEFINE j == m.accept[k]
    <3>1. Accepts(m, j, k)
      BY <1>4, <2>6
    <3>2. AcceptIn(wire[e], j, k)
      BY <1>3, <3>1
    <3>3. Fact(j, k)
      BY <3>2 DEF Fact
    <3>4. HasId(IdsOf(e, k)', j) /\ \A i : HasId(IdsOf(e, k), i) => HasId(IdsOf(e, k)', i)
      BY <1>2, <2>6
    <3> HIDE DEF j
    <3>5. Pending(e, k)
      BY <1>5, <2>2, <2>6 DEF Answers
    <3>6. Lost(e, id, k)
      BY <2>1, <2>2, <2>6, <3>4, <3>5 DEF Lost, Pending
    <3>7. ByRole(e, j)
      BY <3>3, <3>6 DEF Agree, LostIsPending
    <3>8. j = id
      BY <2>1, <2>2, <2>6, <3>3, <3>7 DEF Ids, OneIdEach
    <3> QED
      BY <2>1, <2>6, <3>4, <3>8
  <2> QED
    BY <1>0, <1>5, <2>3, <2>4, <2>5, <2>6 DEF Answers
<1>14. LostIsPending'
  <2>1. ASSUME NEW x \in Ends, NEW id, NEW k, Lost(x, id, k)'
        PROVE  Pending(x, k)' /\ \A j : Fact(j, k)' => ByRole(x, j)
    <3>1. Lost(x, id, k) /\ k \in Names /\ (x = e => ~Answers(m, k))
      BY <1>13, <2>1
    <3>2. Pending(x, k) /\ \A j : Fact(j, k) => ByRole(x, j)
      BY <3>1 DEF Agree, LostIsPending
    <3>3. Pending(x, k)'
      <4>1. CASE x = e
        <5>1. k \notin DOMAIN m.accept /\ k \notin m.reject
          BY <1>5, <3>1, <4>1 DEF Answers
        <5> QED
          BY <1>4, <3>1, <3>2, <4>1, <5>1
      <4>2. CASE x # e
        BY <1>3, <3>1, <3>2, <4>2
      <4> QED
        BY <4>1, <4>2
    <3> QED
      BY <1>2, <3>2, <3>3
  <2> QED
    BY <2>1 DEF LostIsPending
<1>15. Reminds'
  <2>1. ASSUME NEW x \in Ends, NEW id, NEW k, Lost(x, id, k)'
        PROVE  HasId(IdsOf(Peer(x), k)', id) \/ (~Handled(Peer(x), k) /\ Preceded(wire'[Peer(x)], id, k))
    <3>1. Lost(x, id, k) /\ k \in Names /\ Fact(id, k) /\ ByRole(x, id)
      BY <1>13, <2>1 DEF Lost
    <3>2. HasId(IdsOf(Peer(x), k), id) \/ (~Handled(Peer(x), k) /\ Preceded(wire[Peer(x)], id, k))
      BY <3>1 DEF Agree, Reminds
    <3>3. CASE x = e
      <4>1. Peer(x) = p /\ IdsOf(p, k)' = IdsOf(p, k)
        BY <1>0, <1>3, <3>1, <3>3 DEF p
      <4> QED
        BY <1>5, <3>2, <4>1
    <3>4. CASE x = p
      <4>1. Peer(x) = e /\ k \notin m.reject
        BY <1>0, <1>10, <3>1, <3>4
      <4>2. Preceded(wire[e], id, k) /\ ~Accepts(m, id, k) => Preceded(Tail(wire[e]), id, k)
        BY <1>m, <1>5, PrecededFact
      <4> QED
        BY <1>5, <1>8, <1>9, <3>1, <3>2, <4>1, <4>2
    <3> QED
      BY <1>0, <3>3, <3>4
  <2> QED
    BY <1>7, <2>1, PeerFact DEF Reminds
<1> QED
  BY <1>11, <1>12, <1>14, <1>15 DEF Agree

(* So does a disconnect: a closed end need not agree. *)
LEMMA DisconnectAgree ==
    ASSUME Places, Shapes', Ids, Agree, NEW e \in Ends, Disconnect(e) PROVE Agree'
<1> DEFINE p == Peer(e)
<1>0. Shapes /\ p \in Ends /\ p # e /\ Peer(p) = e /\ \A x \in Ends : x = e \/ x = p
  BY PeerFact DEF Places
<1>1. /\ ~closed[e] /\ closed'[e] /\ closed'[p] = closed[p]
      /\ wire'[e] = <<>> /\ handlers'[e] = {} /\ types'[e] = <<>> /\ names'[e] = <<>>
      /\ wire'[p] = wire[p] /\ handlers'[p] = handlers[p] /\ types'[p] = types[p] /\ names'[p] = names[p]
  <2>1. /\ ~closed[e] /\ closed' = [closed EXCEPT ![e] = TRUE]
        /\ wire'[e] = <<>> /\ handlers'[e] = {} /\ types'[e] = <<>> /\ names'[e] = <<>>
        /\ \A x \in Ends : x # e => /\ wire'[x] = wire[x] /\ handlers'[x] = handlers[x]
                                    /\ types'[x] = types[x] /\ names'[x] = names[x]
                                    /\ closed'[x] = closed[x]
    BY <1>0, DisconnectTypes
  <2>2. closed'[e]
    BY <1>0, <2>1 DEF Shapes
  <2> HIDE DEF p
  <2> QED
    BY <1>0, <2>1, <2>2
<1> HIDE DEF p
<1>2. \A id, k : Fact(id, k)' => Fact(id, k)
  <2>1. \A id, k : ~Said(e, id, k)' /\ ~AcceptIn(wire[e], id, k)'
    <3>1. \A id, k : ~AcceptIn(<<>>, id, k)
      BY EmptyQueue
    <3>2. DOMAIN names'[e] = {}
      BY <1>1
    <3> QED
      BY <1>1, <3>1, <3>2 DEF Said
  <2>2. \A id, k : (Said(p, id, k)' <=> Said(p, id, k)) /\ (AcceptIn(wire[p], id, k)' <=> AcceptIn(wire[p], id, k))
    BY <1>1 DEF Said
  <2> QED
    BY <1>0, <2>1, <2>2 DEF Fact
<1>3. \A k : /\ Known(p, k)' <=> Known(p, k)
             /\ IdsOf(p, k)' = IdsOf(p, k)
             /\ Pending(p, k)' <=> Pending(p, k)
             /\ Handled(p, k)' <=> Handled(p, k)
             /\ ~Handled(e, k)'
  BY <1>1 DEF Known, IdsOf, Pending, Handled
<1>4. OneByOne'
  <2>1. /\ \A g \in handlers'[p] : \E k \in Names : g.names = {k}
        /\ \A i \in DOMAIN wire'[p] : wire'[p][i].type = "request" => \E k \in Names : wire'[p][i].names = {k}
    BY <1>0, <1>1 DEF Agree, OneByOne
  <2>2. handlers'[e] = {} /\ DOMAIN wire'[e] = {}
    BY <1>1
  <2> QED
    BY <1>0, <2>1, <2>2 DEF OneByOne
<1>5. Heard'
  <2>1. ASSUME NEW x \in Ends, NEW id, NEW k, Fact(id, k)', ByRole(x, id), ~closed'[Peer(x)]
        PROVE  HasId(IdsOf(Peer(x), k)', id) \/ AcceptIn(wire'[Peer(x)], id, k)
    <3>1. Peer(x) = p
      BY <1>0, <1>1, <2>1, PeerFact
    <3>2. HasId(IdsOf(p, k), id) \/ AcceptIn(wire[p], id, k)
      BY <1>1, <1>2, <2>1, <3>1 DEF Agree, Heard
    <3> QED
      BY <1>1, <1>3, <3>1, <3>2
  <2> QED
    BY <2>1 DEF Heard
<1>6. ASSUME NEW x \in Ends, NEW id, NEW k, Lost(x, id, k)' PROVE x = p /\ Lost(p, id, k)
  <2>1. ~closed'[x] /\ Known(x, k)' /\ ByRole(x, id) /\ Fact(id, k)' /\ ~HasId(IdsOf(x, k)', id)
    BY <1>6 DEF Lost
  <2>2. x = p
    BY <1>0, <1>1, <2>1
  <2> QED
    BY <1>1, <1>2, <1>3, <2>1, <2>2 DEF Lost
<1>7. LostIsPending'
  BY <1>0, <1>2, <1>3, <1>6 DEF Agree, LostIsPending
<1>8. Reminds'
  <2>1. \A id, k : Preceded(<<>>, id, k)
    BY DEF Preceded
  <2>2. ASSUME NEW x \in Ends, NEW id, NEW k, Lost(x, id, k)'
        PROVE  ~Handled(Peer(x), k)' /\ Preceded(wire'[Peer(x)], id, k)
    <3>1. Peer(x) = e
      BY <1>0, <1>6, <2>2
    <3> QED
      BY <1>1, <1>3, <2>1, <3>1
  <2> QED
    BY <2>2 DEF Reminds
<1> QED
  BY <1>4, <1>5, <1>7, <1>8 DEF Agree

(* At first there is nothing to agree on. *)
LEMMA InitAgree == Init => Agree
<1> SUFFICES ASSUME Init PROVE Agree
  OBVIOUS
<1>1. \A x \in Ends : \A id, n : ~Said(x, id, n) /\ ~AcceptIn(wire[x], id, n)
  BY InitPlaces
<1>2. \A id, n : ~Fact(id, n)
  BY <1>1 DEF Fact
<1>3. \A x \in Ends : handlers[x] = {} /\ DOMAIN wire[x] = {}
  BY DEF Init
<1> QED
  BY <1>2, <1>3 DEF Agree, OneByOne, Heard, LostIsPending, Reminds, Lost

(* With careful applications every step keeps the agreement. *)
LEMMA StepAgree ==
    ASSUME Places, Ids, careful => Agree, [Next]_vars PROVE (careful => Agree)'
<1>0. Shapes
  BY DEF Places
<1>1. Shapes'
  BY StepIds DEF Places
<1>2. CASE UNCHANGED vars
  <2>1. UNCHANGED <<careful, types, names, handlers, closed, wire>>
    BY <1>2 DEF vars, typeVars
  <2>2. SameRegistration /\ \A x \in Ends : DataOnly(wire[x], wire'[x])
    BY <1>2 DEF SameRegistration, SameQueue, DataOnly, vars, typeVars
  <2> QED
    BY <2>1, <2>2, SameAgree
<1>3. CASE DataStep
  <2>1. careful' = careful
    BY <1>3 DEF DataStep, Write, ReceiveData, Read, Continue
  <2> QED
    BY <1>0, <1>3, <2>1, DataStepSame, DataStepOnly, SameAgree
<1>4. CASE RegistrationStep
  <2>1. careful' = careful
    <3>1. \A e \in Ends : OnRequest(e) \/ OnResponse(e) \/ Disconnect(e) => careful' = careful
      BY DEF AddMessageTypes, OnRequest, OnResponse, Disconnect
    <3>2. \A e \in Ends, ns \in Registrations : AddMessageTypes(e, ns) => careful' = careful
      BY DEF AddMessageTypes
    <3>3. \A e \in Ends : \A h \in handlers[e], accepted \in BOOLEAN : \A n \in h.names :
             HandleName(e, h, n, accepted) => careful' = careful
      BY DEF HandleName
    <3> QED
      BY <1>4, <3>1, <3>2, <3>3 DEF RegistrationStep
  <2> QED
    BY <1>1, <1>4, <2>1, AddAgree, OnRequestAgree, ResponseAgree, HandleAgree, DisconnectAgree DEF RegistrationStep
<1> QED
  BY <1>2, <1>3, <1>4, StepKinds

(* No id stands for two types, at either end; and when careful             *)
(* applications have registered and nothing is on its way, both ends have  *)
(* the same ids in the same order for a type that both know.               *)
THEOREM EndsAgree == Spec => []IdsAgree
<1>1. Init => Places /\ Ids /\ (careful => Agree)
  BY InitIds, InitAgree
<1>2. Places /\ Ids /\ (careful => Agree) /\ [Next]_vars => (Places /\ Ids /\ (careful => Agree))'
  BY StepIds, StepAgree
<1>3. Places /\ Ids /\ (careful => Agree) => IdsAgree
  BY AgreeFact
<1> QED
  BY <1>1, <1>2, <1>3, PTL DEF Spec

----------------------------------------------------------------------------
(* The data.  A message under an id is held while it is on its way to the  *)
(* reader or has arrived.                                                  *)
Carries(m, id, n) == m.type = "data" /\ m.id = id /\ m.name = n
DataIn(q, id, n) == \E i \in DOMAIN q : Carries(q[i], id, n)
Kept(id, n) == \E i \in DOMAIN chunks : chunks[i].active = id /\ chunks[i].name = n
Holds(id, n) == DataIn(wire[reader], id, n) \/ Kept(id, n)

(* It is held under the smallest id of its type, by which the writer still *)
(* knows it, and no other id of the type can come up any more.             *)
Held ==
    \A id, n : Holds(id, n) =>
        /\ id > 0 /\ \A j : Fact(j, n) => id <= j
        /\ \A m : Fact(id, m) => m = n
        /\ \A m : Holds(id, m) => m = n
        /\ \A j : Holds(j, n) => j = id
        /\ ~Asked(reader, n)
        /\ ~closed[Peer(reader)] =>
              /\ Known(Peer(reader), n) /\ ~Pending(Peer(reader), n)
              /\ IdsOf(Peer(reader), n) # <<>> /\ IdsOf(Peer(reader), n)[1] = id
        /\ \A e \in Ends : ByRole(e, id) => id < nextId[e]

(* The reader has the id in its table, or is told before the message comes.*)
Announced(q, id, n) == \A i \in DOMAIN q : Carries(q[i], id, n) => \E j \in 1 .. (i - 1) : Accepts(q[j], id, n)
Told ==
    ~closed[reader] =>
        \A id, n : Said(reader, id, n) \/ (Announced(wire[reader], id, n) /\ ~Kept(id, n))

NoData(q) == \A i \in DOMAIN q : q[i].type # "data"

(* What is remapped is a larger id, so that nothing held is.               *)
Remapped ==
    ~closed[reader] =>
        \A high \in DOMAIN remapping : \E n :
            Said(reader, high, n) /\ Said(reader, remapping[high], n) /\ remapping[high] < high

Filed == \A i \in DOMAIN chunks : chunks[i].chain = chunks[i].active /\ chunks[i].active \in chained

(* Messages are in the order in which they were written. *)
Ordered(q) ==
    \A i, j \in DOMAIN q : i < j /\ q[i].type = "data" /\ q[j].type = "data" => q[i].serial < q[j].serial
InOrder ==
    /\ Ordered(wire[reader])
    /\ \A i, j \in DOMAIN chunks : i < j => chunks[i].serial < chunks[j].serial
    /\ \A i \in DOMAIN chunks, j \in DOMAIN wire[reader] :
          wire[reader][j].type = "data" => chunks[i].serial < wire[reader][j].serial
    /\ \A i \in DOMAIN chunks : chunks[i].serial < written
    /\ \A j \in DOMAIN wire[reader] : wire[reader][j].type = "data" => wire[reader][j].serial < written

Stored == /\ Held /\ Told /\ NoData(wire[Peer(reader)]) /\ Remapped /\ Filed /\ InOrder
          /\ "chain" \notin faults

(* Only data carry data, and only responses accept. *)
LEMMA CarriesFact ==
    ASSUME NEW m
    PROVE  /\ m.type # "data" => \A id, n : ~Carries(m, id, n)
           /\ m.type # "response" => \A id, n : ~Accepts(m, id, n)
BY DEF Carries, Accepts

(* What is held has an id and a name. *)
LEMMA HoldsType ==
    ASSUME Shapes, NEW id, NEW n, Holds(id, n) PROVE id \in Nat /\ n \in Names
<1>1. CASE Kept(id, n)
  <2>1. PICK i \in DOMAIN chunks : chunks[i].active = id /\ chunks[i].name = n
    BY <1>1 DEF Kept
  <2>2. chunks[i] \in ChunkT
    BY ElementOfSeq DEF Shapes
  <2> QED
    BY <2>1, <2>2 DEF ChunkT
<1>2. CASE DataIn(wire[reader], id, n)
  <2>1. wire[reader] \in Seq(MessageT)
    BY DEF Shapes
  <2>2. PICK i \in DOMAIN wire[reader] : Carries(wire[reader][i], id, n)
    BY <1>2 DEF DataIn
  <2>3. wire[reader][i] \in MessageT
    BY <2>1, ElementOfSeq
  <2> QED
    BY <2>2, <2>3, MessageFact DEF Carries
<1> QED
  BY <1>1, <1>2 DEF Holds

(* Data in a queue to which a message is added, or from which it is taken. *)
LEMMA AppendData ==
    ASSUME NEW q \in Seq(MessageT), NEW m \in MessageT
    PROVE  /\ \A id, n : DataIn(Append(q, m), id, n) <=> DataIn(q, id, n) \/ Carries(m, id, n)
           /\ \A id, n : Announced(q, id, n) /\ (Carries(m, id, n) => AcceptIn(q, id, n)) =>
                 Announced(Append(q, m), id, n)
           /\ NoData(q) /\ m.type # "data" => NoData(Append(q, m))
<1> DEFINE r == Append(q, m)
<1>1. /\ Len(q) \in Nat /\ DOMAIN q = 1 .. Len(q) /\ DOMAIN r = DOMAIN q \cup {Len(q) + 1}
      /\ r[Len(q) + 1] = m /\ \A i \in DOMAIN q : r[i] = q[i] /\ i \in Nat /\ i <= Len(q) /\ i # Len(q) + 1
  BY AppendFact
<1> HIDE DEF r
<1>2. \A id, n : DataIn(r, id, n) <=> DataIn(q, id, n) \/ Carries(m, id, n)
  BY <1>1 DEF DataIn
<1>3. ASSUME NEW id, NEW n, Announced(q, id, n), Carries(m, id, n) => AcceptIn(q, id, n), NEW i \in DOMAIN r, Carries(r[i], id, n)
      PROVE  \E j \in 1 .. (i - 1) : Accepts(r[j], id, n)
  <2>1. CASE i = Len(q) + 1
    <3>1. AcceptIn(q, id, n)
      BY <1>1, <1>3, <2>1
    <3>2. PICK j \in DOMAIN q : Accepts(q[j], id, n)
      BY <3>1 DEF AcceptIn
    <3>3. j \in 1 .. (i - 1) /\ r[j] = q[j]
      BY <1>1, <2>1
    <3> QED
      BY <3>2, <3>3
  <2>2. CASE i \in DOMAIN q
    <3>1. PICK j \in 1 .. (i - 1) : Accepts(q[j], id, n)
      BY <1>1, <1>3, <2>2 DEF Announced
    <3>2. r[j] = q[j]
      BY <1>1, <2>2
    <3> QED
      BY <3>1, <3>2
  <2> QED
    BY <1>1, <1>3, <2>1, <2>2
<1>4. \A id, n : Announced(q, id, n) /\ (Carries(m, id, n) => AcceptIn(q, id, n)) => Announced(r, id, n)
  BY <1>3 DEF Announced
<1>5. NoData(q) /\ m.type # "data" => NoData(r)
  BY <1>1 DEF NoData
<1> QED
  BY <1>2, <1>4, <1>5 DEF r

(* What the rest of a queue carries, and announces. *)
LEMMA TailData ==
    ASSUME NEW q \in Seq(MessageT), q # <<>>
    PROVE  /\ \A id, n : DataIn(q, id, n) <=> DataIn(Tail(q), id, n) \/ Carries(Head(q), id, n)
           /\ \A id, n : Announced(q, id, n) /\ ~Accepts(Head(q), id, n) => Announced(Tail(q), id, n)
           /\ \A id, n : Announced(q, id, n) => ~Carries(Head(q), id, n)
           /\ NoData(q) => NoData(Tail(q)) /\ Head(q).type # "data"
<1> DEFINE r == Tail(q)
           m == Head(q)
<1>1. /\ m = q[1] /\ 1 \in DOMAIN q
      /\ \A i \in DOMAIN r : i \in Nat /\ i >= 1 /\ i + 1 \in DOMAIN q /\ r[i] = q[i + 1]
      /\ \A i \in DOMAIN q : i \in Nat /\ i >= 1 /\ (i # 1 => i - 1 \in DOMAIN r /\ r[i - 1] = q[i])
  BY TailFact
<1>a. DOMAIN q = 1 .. Len(q) /\ Len(q) \in Nat
  BY TailFact
<1> HIDE DEF r, m
<1>2. \A id, n : DataIn(q, id, n) <=> DataIn(r, id, n) \/ Carries(m, id, n)
  <2>1. ASSUME NEW id, NEW n, DataIn(q, id, n), ~Carries(m, id, n) PROVE DataIn(r, id, n)
    <3>1. PICK i \in DOMAIN q : Carries(q[i], id, n)
      BY <2>1 DEF DataIn
    <3>2. i # 1
      BY <1>1, <2>1, <3>1
    <3> QED
      BY <1>1, <3>1, <3>2 DEF DataIn
  <2>2. ASSUME NEW id, NEW n, DataIn(r, id, n) PROVE DataIn(q, id, n)
    BY <1>1, <2>2 DEF DataIn
  <2>3. ASSUME NEW id, NEW n, Carries(m, id, n) PROVE DataIn(q, id, n)
    BY <1>1, <2>3 DEF DataIn
  <2> QED
    BY <2>1, <2>2, <2>3
<1>3. ASSUME NEW id, NEW n, Announced(q, id, n), ~Accepts(m, id, n), NEW i \in DOMAIN r, Carries(r[i], id, n)
      PROVE  \E j \in 1 .. (i - 1) : Accepts(r[j], id, n)
  <2>1. i + 1 \in DOMAIN q /\ Carries(q[i + 1], id, n) /\ i \in Nat
    BY <1>1, <1>3
  <2>2. PICK j \in 1 .. ((i + 1) - 1) : Accepts(q[j], id, n)
    BY <1>3, <2>1 DEF Announced
  <2>3. j # 1
    BY <1>1, <1>3, <2>2
  <2>4. j \in DOMAIN q /\ j - 1 \in 1 .. (i - 1)
    BY <1>a, <2>1, <2>2, <2>3
  <2>5. r[j - 1] = q[j]
    BY <1>1, <2>3, <2>4
  <2> QED
    BY <2>2, <2>4, <2>5
<1>4. \A id, n : Announced(q, id, n) /\ ~Accepts(m, id, n) => Announced(r, id, n)
  BY <1>3 DEF Announced
<1>5. ASSUME NEW id, NEW n, Announced(q, id, n), Carries(m, id, n) PROVE FALSE
  <2>1. \E j \in 1 .. (1 - 1) : Accepts(q[j], id, n)
    BY <1>1, <1>5 DEF Announced
  <2>2. 1 .. (1 - 1) = {}
    OBVIOUS
  <2> QED
    BY <2>1, <2>2
<1>6. NoData(q) => NoData(r) /\ m.type # "data"
  BY <1>1 DEF NoData
<1> QED
  BY <1>2, <1>4, <1>5, <1>6 DEF r, m

(* What a step does to a queue that adds no data to it.                    *)
Quieter(q, r) ==
    \/ r = q \/ r = <<>>
    \/ \E m \in MessageT : m.type # "data" /\ (r = Append(q, m) \/ (q # <<>> /\ Head(q) = m /\ r = Tail(q)))

(* Such a queue has no data that it did not have, in their order. *)
LEMMA QuieterFact ==
    ASSUME NEW q \in Seq(MessageT), NEW r, Quieter(q, r)
    PROVE  /\ \A id, n : DataIn(r, id, n) => DataIn(q, id, n)
           /\ NoData(q) => NoData(r)
           /\ Ordered(q) => Ordered(r)
           /\ \A j \in DOMAIN r : r[j].type = "data" => \E i \in DOMAIN q : r[j] = q[i]
<1>1. CASE r = q
  BY <1>1
<1>2. CASE r = <<>>
  BY <1>2 DEF DataIn, NoData, Ordered
<1>3. ASSUME NEW m \in MessageT, m.type # "data", r = Append(q, m)
      PROVE  /\ \A id, n : DataIn(r, id, n) => DataIn(q, id, n)
             /\ NoData(q) => NoData(r)
             /\ Ordered(q) => Ordered(r)
             /\ \A j \in DOMAIN r : r[j].type = "data" => \E i \in DOMAIN q : r[j] = q[i]
  <2>1. /\ DOMAIN r = DOMAIN q \cup {Len(q) + 1} /\ r[Len(q) + 1] = m
        /\ \A i \in DOMAIN q : r[i] = q[i] /\ i \in Nat /\ i <= Len(q) /\ i # Len(q) + 1
    BY <1>3, AppendFact
  <2>2. Ordered(q) => Ordered(r)
    BY <1>3, <2>1 DEF Ordered
  <2>3. \A id, n : DataIn(r, id, n) => DataIn(q, id, n)
    BY <1>3, AppendData, CarriesFact
  <2>4. NoData(q) => NoData(r)
    BY <1>3, AppendData
  <2> QED
    BY <1>3, <2>1, <2>2, <2>3, <2>4
<1>4. ASSUME q # <<>>, r = Tail(q)
      PROVE  /\ \A id, n : DataIn(r, id, n) => DataIn(q, id, n)
             /\ NoData(q) => NoData(r)
             /\ Ordered(q) => Ordered(r)
             /\ \A j \in DOMAIN r : r[j].type = "data" => \E i \in DOMAIN q : r[j] = q[i]
  <2>1. \A i \in DOMAIN r : i \in Nat /\ i + 1 \in DOMAIN q /\ r[i] = q[i + 1]
    BY <1>4, TailFact
  <2>2. Ordered(q) => Ordered(r)
    <3>1. \A i, j \in DOMAIN r : i < j => i + 1 < j + 1
      BY <2>1
    <3> QED
      BY <2>1, <3>1 DEF Ordered
  <2>3. \A id, n : DataIn(r, id, n) => DataIn(q, id, n)
    BY <1>4, TailData
  <2>4. NoData(q) => NoData(r)
    BY <1>4, TailData
  <2> QED
    BY <2>1, <2>2, <2>3, <2>4
<1> QED
  BY <1>1, <1>2, <1>3, <1>4 DEF Quieter

(* An end that knows a type, and awaits no response for it, knows its ids. *)
LEMMA KnowsAll ==
    ASSUME Places, Ids, Agree, NEW e \in Ends, NEW n \in Names, ~closed[e], Known(e, n), ~Pending(e, n)
    PROVE  /\ \A id : Fact(id, n) => HasId(IdsOf(e, n), id)
           /\ ~UnderWay(Peer(e), n)
           /\ IdsOf(e, n) # <<>> /\ IdsOf(e, n)[1] \in Nat /\ \A id : Fact(id, n) => IdsOf(e, n)[1] <= id
           /\ HasId(IdsOf(e, n), IdsOf(e, n)[1])
           /\ \A id : HasId(IdsOf(e, n), id) => Said(e, id, n) /\ Fact(id, n)
<1>0. Shapes /\ Peer(e) \in Ends /\ Peer(Peer(e)) = e
  BY PeerFact DEF Places
<1>1. ~UnderWay(Peer(e), n)
  BY <1>0 DEF Places, AwaitsResponse
<1>2. ASSUME NEW id, Fact(id, n) PROVE HasId(IdsOf(e, n), id)
  <2>1. id \in Nat
    BY <1>2 DEF Ids, Assigned
  <2>2. CASE ByRole(e, id)
    BY <1>2, <2>2 DEF Agree, LostIsPending, Lost
  <2>3. CASE ByRole(Peer(e), id)
    <3>1. HasId(IdsOf(e, n), id) \/ AcceptIn(wire[e], id, n)
      BY <1>0, <1>2, <2>3 DEF Agree, Heard
    <3>2. ~AcceptIn(wire[e], id, n)
      BY <1>0, <1>1, AnswerFact DEF UnderWay
    <3> QED
      BY <3>1, <3>2
  <2> QED
    BY <2>1, <2>2, <2>3, RoleFact
<1>3. IdsOf(e, n) # <<>> /\ Sorted(IdsOf(e, n)) /\ \A id : HasId(IdsOf(e, n), id) => Said(e, id, n)
  BY DEF Ids, Entries
<1>4. IdsOf(e, n)[1] \in Nat
  BY <1>0, <1>3, IdsFact
<1>5. HasId(IdsOf(e, n), IdsOf(e, n)[1]) /\ \A k : HasId(IdsOf(e, n), k) => k = IdsOf(e, n)[1] \/ IdsOf(e, n)[1] < k
  <2>1. CASE IdsOf(e, n) = <<IdsOf(e, n)[1]>>
    <3>1. \A i, k : HasId(<<i>>, k) <=> k = i
      BY HasIdFact
    <3> HIDE DEF HasId
    <3> QED
      BY <2>1, <3>1
  <2>2. CASE IdsOf(e, n) = <<IdsOf(e, n)[1], IdsOf(e, n)[2]>> /\ IdsOf(e, n)[1] < IdsOf(e, n)[2]
    <3>1. \A i, j, k : HasId(<<i, j>>, k) <=> k = i \/ k = j
      BY HasIdFact
    <3> QED
      BY <2>2, <3>1
  <2> QED
    BY <1>3, <2>1, <2>2 DEF Sorted
<1>6. \A id : Fact(id, n) => IdsOf(e, n)[1] <= id
  <2>1. \A id : Fact(id, n) => id \in Nat
    BY DEF Ids, Assigned
  <2> QED
    BY <1>2, <1>4, <1>5, <2>1
<1> QED
  BY <1>1, <1>2, <1>3, <1>4, <1>5, <1>6 DEF Fact

(* What a step has to keep, if it holds nothing new.                       *)
LEMMA KeepHeld ==
    ASSUME Shapes, Held, reader' = reader,
           \A id, n : Holds(id, n)' => Holds(id, n),
           \A id, n : Holds(id, n) => (\A j : Fact(j, n)' => Fact(j, n)) /\ (\A m : Fact(id, m)' => Fact(id, m)),
           \A id, n : Holds(id, n) => ~Asked(reader, n)',
           \A id, n : Holds(id, n) /\ ~closed'[Peer(reader)] =>
              /\ ~closed[Peer(reader)] /\ (Known(Peer(reader), n) => Known(Peer(reader), n)')
              /\ (Pending(Peer(reader), n)' => Pending(Peer(reader), n))
              /\ IdsOf(Peer(reader), n)' = IdsOf(Peer(reader), n),
           nextId' \in [Ends -> Nat], \A e \in Ends : nextId[e] <= nextId'[e]
    PROVE  Held'
<1> SUFFICES ASSUME NEW id, NEW n, Holds(id, n)'
             PROVE  /\ id > 0 /\ \A j : Fact(j, n)' => id <= j
                    /\ \A m : Fact(id, m)' => m = n
                    /\ \A m : Holds(id, m)' => m = n
                    /\ \A j : Holds(j, n)' => j = id
                    /\ ~Asked(reader, n)'
                    /\ ~closed'[Peer(reader)] =>
                          /\ Known(Peer(reader), n)' /\ ~Pending(Peer(reader), n)'
                          /\ IdsOf(Peer(reader), n)' # <<>> /\ IdsOf(Peer(reader), n)'[1] = id
                    /\ \A e \in Ends : ByRole(e, id) => id < nextId'[e]
  BY DEF Held
<1>1. Holds(id, n)
  OBVIOUS
<1>2. /\ id > 0 /\ \A j : Fact(j, n) => id <= j
      /\ \A m : Fact(id, m) => m = n
      /\ \A m : Holds(id, m) => m = n
      /\ \A j : Holds(j, n) => j = id
      /\ ~closed[Peer(reader)] =>
            /\ Known(Peer(reader), n) /\ ~Pending(Peer(reader), n)
            /\ IdsOf(Peer(reader), n) # <<>> /\ IdsOf(Peer(reader), n)[1] = id
      /\ \A e \in Ends : ByRole(e, id) => id < nextId[e]
  BY <1>1 DEF Held
<1>3. id \in Nat
  BY <1>1, HoldsType
<1>4. \A e \in Ends : ByRole(e, id) => id < nextId'[e]
  <2>1. \A e \in Ends : nextId[e] \in Nat /\ nextId'[e] \in Nat /\ nextId[e] <= nextId'[e]
    BY DEF Shapes
  <2> HIDE DEF ByRole
  <2> QED
    BY <1>2, <1>3, <2>1
<1>5. ~closed'[Peer(reader)] =>
         /\ Known(Peer(reader), n)' /\ ~Pending(Peer(reader), n)'
         /\ IdsOf(Peer(reader), n)' # <<>> /\ IdsOf(Peer(reader), n)'[1] = id
  BY <1>1, <1>2
<1>6. (\A j : Fact(j, n)' => id <= j) /\ (\A m : Fact(id, m)' => m = n)
  BY <1>1, <1>2
<1>7. (\A m : Holds(id, m)' => m = n) /\ (\A j : Holds(j, n)' => j = id)
  BY <1>2
<1> QED
  BY <1>1, <1>2, <1>4, <1>5, <1>6, <1>7

(* The same of all that is stored, when no data come or go. *)
LEMMA KeepStored ==
    ASSUME Shapes, Stored, Held', Remapped', reader' = reader,
           chunks' = chunks, chained' = chained, written' = written, "chain" \notin faults',
           closed[reader] => closed'[reader],
           \A x \in Ends : Quieter(wire[x], wire'[x]),
           \A id, n : ~closed'[reader] /\ Said(reader, id, n) => Said(reader, id, n)',
           \A id, n : ~closed'[reader] /\ Announced(wire[reader], id, n) =>
              Announced(wire'[reader], id, n) \/ Said(reader, id, n)'
    PROVE  Stored'
<1>1. reader \in Ends /\ Peer(reader) \in Ends /\ \A x \in Ends : wire[x] \in Seq(MessageT)
  BY PeerFact DEF Shapes
<1>2. \A id, n : Kept(id, n)' <=> Kept(id, n)
  BY DEF Kept
<1>3. Told'
  BY <1>2 DEF Stored, Told
<1>4. NoData(wire'[Peer(reader)])
  BY <1>1, QuieterFact DEF Stored
<1>5. Filed'
  BY DEF Stored, Filed
<1>6. /\ Ordered(wire[reader]) => Ordered(wire'[reader])
      /\ \A j \in DOMAIN wire'[reader] : wire'[reader][j].type = "data" => \E i \in DOMAIN wire[reader] : wire'[reader][j] = wire[reader][i]
  BY <1>1, QuieterFact
<1>7. InOrder'
  BY <1>6 DEF Stored, InOrder
<1> QED
  BY <1>3, <1>4, <1>5, <1>7 DEF Stored

(* Ids that stay in the table stay remapped. *)
LEMMA KeepRemapped ==
    ASSUME Remapped, reader' = reader, remapping' = remapping, closed[reader] => closed'[reader],
           \A id, n : ~closed'[reader] /\ Said(reader, id, n) => Said(reader, id, n)'
    PROVE  Remapped'
BY DEF Remapped

(* What is held stays, if no data are added. *)
LEMMA KeepHolds ==
    ASSUME Shapes, reader' = reader, chunks' = chunks, Quieter(wire[reader], wire'[reader])
    PROVE  \A id, n : Holds(id, n)' => Holds(id, n)
<1>1. wire[reader] \in Seq(MessageT)
  BY DEF Shapes
<1>2. \A id, n : DataIn(wire'[reader], id, n) => DataIn(wire[reader], id, n)
  BY <1>1, QuieterFact
<1>3. \A id, n : Kept(id, n)' <=> Kept(id, n)
  BY DEF Kept
<1> QED
  BY <1>2, <1>3 DEF Holds

(* At first nothing is stored. *)
LEMMA InitStored == ASSUME Init PROVE Stored
<1>1. reader \in Ends /\ Peer(reader) \in Ends
  BY PeerFact DEF Init
<1>2. wire[reader] = <<>> /\ wire[Peer(reader)] = <<>> /\ chunks = <<>> /\ remapping = <<>> /\ faults = {}
  BY <1>1 DEF Init
<1>3. \A id, n : ~Holds(id, n) /\ ~Kept(id, n) /\ Announced(wire[reader], id, n)
  BY <1>2 DEF Holds, DataIn, Kept, Announced
<1>4. Held /\ Told /\ NoData(wire[Peer(reader)])
  BY <1>2, <1>3 DEF Held, Told, NoData
<1>5. Remapped /\ Filed /\ InOrder
  BY <1>2 DEF Remapped, Filed, InOrder, Ordered
<1> QED
  BY <1>2, <1>4, <1>5 DEF Stored

(* A request that is sent keeps what is stored. *)
LEMMA AddStored ==
    ASSUME Places, Shapes', Ids, Agree, Stored, NEW e \in Ends, NEW ns \in Registrations, AddMessageTypes(e, ns)
    PROVE  Stored'
<1> DEFINE new == {n \in ns : ~Known(e, n)}
           m == Request(new)
           p == Peer(e)
<1>0. Shapes /\ p \in Ends /\ p # e /\ Peer(p) = e /\ \A x \in Ends : x = e \/ x = p
  BY PeerFact DEF Places
<1>1. /\ m \in MessageT /\ Send(e, m) /\ ~closed[e]
      /\ UNCHANGED <<names, nextId, handlers, closed, careful, reader>>
      /\ \A x \in Ends, k \in Names :
            /\ Known(x, k)' <=> Known(x, k) \/ (x = e /\ k \in new)
            /\ Pending(x, k)' <=> Pending(x, k) \/ (x = e /\ k \in new)
            /\ IdsOf(x, k)' = IdsOf(x, k)
  BY <1>0, AddTypes
<1>2. /\ \A x \in Ends, k \in Names : Asked(x, k)' => Asked(x, k) \/ (x = p /\ ~Known(e, k) /\ ~closed[e])
      /\ \A x \in Ends : \A id, k : AcceptIn(wire[x], id, k)' <=> AcceptIn(wire[x], id, k)
  BY AddPlaces
<1>3. UNCHANGED <<remapping, chunks, chained, written, faults>>
  BY DEF AddMessageTypes, readVars
<1>4. m.type = "request"
  BY DEF Request
<1>5. \A k \in Names : k \in new => ~Known(e, k)
  OBVIOUS
<1> HIDE DEF m, new
<1>6. /\ wire'[e] = wire[e] /\ (closed[p] => wire' = wire)
      /\ ~closed[p] => wire'[p] = Append(wire[p], m)
      /\ wire[p] \in Seq(MessageT) /\ wire[e] \in Seq(MessageT)
  BY <1>0, <1>1, SendFact
<1> HIDE DEF p
<1>7. \A x \in Ends : Quieter(wire[x], wire'[x])
  BY <1>0, <1>1, <1>4, <1>6 DEF Quieter
<1>8. reader \in Ends /\ Peer(reader) \in Ends /\ reader # Peer(reader)
  BY <1>0, PeerFact DEF Shapes
<1>9. \A x, id, n : Said(x, id, n)' <=> Said(x, id, n)
  BY <1>1 DEF Said
<1>10. \A id, n : Fact(id, n)' <=> Fact(id, n)
  BY <1>2, <1>9 DEF Fact
<1>11. \A id, n : Holds(id, n)' => Holds(id, n)
  BY <1>0, <1>1, <1>3, <1>7, <1>8, KeepHolds
<1>12. \A id, n : Holds(id, n) => n \in Names /\ ~Asked(reader, n) /\ (~closed[Peer(reader)] => Known(Peer(reader), n))
  BY <1>0, HoldsType DEF Stored, Held
<1>13. \A id, n : Holds(id, n) => ~Asked(reader, n)'
  <2>1. reader = p => e = Peer(reader)
    BY <1>0
  <2>2. \A n \in Names : Asked(reader, n)' => Asked(reader, n) \/ (reader = p /\ ~Known(e, n) /\ ~closed[e])
    <3>1. reader' = reader
      BY <1>1
    <3> QED
      BY <1>2, <1>8, <3>1
  <2> QED
    BY <1>12, <2>1, <2>2
<1>14. \A id, n : Holds(id, n) /\ ~closed'[Peer(reader)] =>
              /\ ~closed[Peer(reader)] /\ (Known(Peer(reader), n) => Known(Peer(reader), n)')
              /\ (Pending(Peer(reader), n)' => Pending(Peer(reader), n))
              /\ IdsOf(Peer(reader), n)' = IdsOf(Peer(reader), n)
  BY <1>1, <1>5, <1>8, <1>12
<1>15. nextId' \in [Ends -> Nat] /\ \A x \in Ends : nextId[x] <= nextId'[x]
  BY <1>0, <1>1 DEF Shapes
<1>16. Held'
  BY <1>0, <1>1, <1>10, <1>11, <1>13, <1>14, <1>15, KeepHeld DEF Stored
<1>17. Remapped'
  BY <1>1, <1>3, <1>9, KeepRemapped DEF Stored
<1>18. \A id, n : Announced(wire[reader], id, n) => Announced(wire'[reader], id, n)
  <2>1. \A id, n : Announced(wire[p], id, n) => Announced(Append(wire[p], m), id, n)
    BY <1>1, <1>4, <1>6, AppendData, CarriesFact
  <2> QED
    BY <1>0, <1>6, <1>8, <2>1
<1> QED
  BY <1>0, <1>1, <1>3, <1>7, <1>9, <1>16, <1>17, <1>18, KeepStored DEF Stored

(* A request that arrives keeps what is stored. *)
LEMMA OnRequestStored ==
    ASSUME Places, Shapes', Ids, Agree, Stored, NEW e \in Ends, OnRequest(e)
    PROVE  Stored'
<1> DEFINE m == Head(wire[e])
           p == Peer(e)
<1>0. Shapes /\ p \in Ends /\ p # e /\ Peer(p) = e /\ \A x \in Ends : x = e \/ x = p
  BY PeerFact DEF Places
<1>1. wire[e] # <<>> /\ m.type = "request" /\ Received(e)
  BY DEF OnRequest, NextIs
<1>2. wire'[e] = Tail(wire[e]) /\ wire'[p] = wire[p] /\ wire[e] \in Seq(MessageT) /\ m \in MessageT
  BY <1>0, <1>1, ReceivedFact
<1>3. /\ \A x \in Ends, k \in Names : Asked(x, k)' <=> Asked(x, k)
      /\ \A x \in Ends : \A id, k : AcceptIn(wire[x], id, k)' <=> AcceptIn(wire[x], id, k)
      /\ UNCHANGED <<types, names, nextId, closed, careful, reader>>
  BY OnRequestPlaces
<1>4. UNCHANGED <<remapping, chunks, chained, written, faults>>
  BY DEF OnRequest, readVars, countVars
<1> HIDE DEF p
<1>5. \A x \in Ends : Quieter(wire[x], wire'[x])
  BY <1>0, <1>1, <1>2 DEF Quieter
<1>6. reader \in Ends /\ Peer(reader) \in Ends
  BY <1>0, PeerFact DEF Shapes
<1>7. \A x, id, n : Said(x, id, n)' <=> Said(x, id, n)
  BY <1>3 DEF Said
<1>8. \A id, n : Fact(id, n)' <=> Fact(id, n)
  BY <1>3, <1>7 DEF Fact
<1>9. \A id, n : Holds(id, n)' => Holds(id, n)
  BY <1>0, <1>3, <1>4, <1>5, <1>6, KeepHolds
<1>10. \A id, n : Holds(id, n) => n \in Names /\ ~Asked(reader, n)
  BY <1>0, HoldsType DEF Stored, Held
<1>11. \A id, n : Holds(id, n) => ~Asked(reader, n)'
  BY <1>3, <1>6, <1>10
<1>12. \A x, n : (Known(x, n)' <=> Known(x, n)) /\ (Pending(x, n)' <=> Pending(x, n)) /\ IdsOf(x, n)' = IdsOf(x, n)
  BY <1>3 DEF Known, Pending, IdsOf
<1>13. nextId' \in [Ends -> Nat] /\ \A x \in Ends : nextId[x] <= nextId'[x]
  BY <1>0, <1>3 DEF Shapes
<1>14. Held'
  BY <1>0, <1>3, <1>8, <1>9, <1>11, <1>12, <1>13, KeepHeld DEF Stored
<1>15. Remapped'
  BY <1>3, <1>4, <1>7, KeepRemapped DEF Stored
<1>16. \A id, n : Announced(wire[reader], id, n) => Announced(wire'[reader], id, n)
  <2>1. \A id, n : ~Accepts(m, id, n)
    BY <1>1, CarriesFact
  <2>2. \A id, n : Announced(wire[e], id, n) => Announced(Tail(wire[e]), id, n)
    BY <1>1, <1>2, <2>1, TailData
  <2> QED
    BY <1>0, <1>2, <1>6, <2>2
<1> QED
  BY <1>0, <1>3, <1>4, <1>5, <1>7, <1>14, <1>15, <1>16, KeepStored DEF Stored

(* A disconnect keeps what is stored, or drops it. *)
LEMMA DisconnectStored ==
    ASSUME Places, Shapes', Ids, Agree, Stored, NEW e \in Ends, Disconnect(e)
    PROVE  Stored'
<1>0. Shapes /\ Peer(e) \in Ends /\ Peer(e) # e /\ \A x \in Ends : x = e \/ x = Peer(e)
  BY PeerFact DEF Places
<1>1. /\ ~closed[e] /\ closed' = [closed EXCEPT ![e] = TRUE]
      /\ wire'[e] = <<>> /\ handlers'[e] = {} /\ types'[e] = <<>> /\ names'[e] = <<>>
      /\ \A x \in Ends : x # e => /\ wire'[x] = wire[x] /\ handlers'[x] = handlers[x]
                                  /\ types'[x] = types[x] /\ names'[x] = names[x]
                                  /\ closed'[x] = closed[x]
      /\ UNCHANGED <<careful, reader, nextId, remapping, chunks, chained, countVars, faults>>
  BY <1>0, DisconnectTypes
<1>2. closed'[e] /\ written' = written
  BY <1>0, <1>1 DEF Shapes, countVars
<1>3. /\ \A x \in Ends, k \in Names : Asked(x, k)' => Asked(x, k)
      /\ \A x \in Ends : \A id, k : AcceptIn(wire[x], id, k)' => AcceptIn(wire[x], id, k)
  BY DisconnectPlaces
<1>4. reader \in Ends /\ Peer(reader) \in Ends
  BY <1>0, PeerFact DEF Shapes
<1>5. \A x \in Ends : Quieter(wire[x], wire'[x])
  BY <1>1 DEF Quieter
<1>6. \A x \in Ends : \A id, n : Said(x, id, n)' => Said(x, id, n)
  <2>1. \A id, n : ~Said(e, id, n)'
    BY <1>1 DEF Said
  <2> QED
    BY <1>1, <2>1 DEF Said
<1>7. \A id, n : Fact(id, n)' => Fact(id, n)
  BY <1>3, <1>6 DEF Fact
<1>8. \A id, n : Holds(id, n)' => Holds(id, n)
  BY <1>0, <1>1, <1>4, <1>5, KeepHolds
<1>9. \A id, n : Holds(id, n) => n \in Names /\ ~Asked(reader, n)
  BY <1>0, HoldsType DEF Stored, Held
<1>10. \A id, n : Holds(id, n) => ~Asked(reader, n)'
  <2>1. reader' = reader
    BY <1>1
  <2> QED
    BY <1>3, <1>4, <1>9, <2>1
<1>11. \A x \in Ends : ~closed'[x] =>
          /\ x # e /\ ~closed[x]
          /\ \A n : (Known(x, n)' <=> Known(x, n)) /\ (Pending(x, n)' <=> Pending(x, n)) /\ IdsOf(x, n)' = IdsOf(x, n)
          /\ \A id, n : Said(x, id, n)' <=> Said(x, id, n)
  BY <1>1, <1>2 DEF Known, Pending, IdsOf, Said
<1>12. nextId' \in [Ends -> Nat] /\ \A x \in Ends : nextId[x] <= nextId'[x]
  BY <1>0, <1>1 DEF Shapes
<1>13. Held'
  BY <1>0, <1>1, <1>4, <1>7, <1>8, <1>10, <1>11, <1>12, KeepHeld DEF Stored
<1>14. Remapped'
  BY <1>1, <1>4, <1>11, KeepRemapped DEF Stored
<1> QED
  BY <1>0, <1>1, <1>2, <1>4, <1>5, <1>11, <1>13, <1>14, KeepStored DEF Stored

(* The chunks have their type. *)
LEMMA ChunkFact ==
    ASSUME Shapes
    PROVE  chunks \in Seq(ChunkT) /\ \A i \in DOMAIN chunks : chunks[i] \in ChunkT /\ i \in Nat
BY ElementOfSeq DEF Shapes

(* No id in a table of ids is lost as a name is handled. *)
LEMMA HandleSaid ==
    ASSUME Places, Ids, NEW e \in Ends, NEW h \in handlers[e], NEW n \in h.names, NEW accepted \in BOOLEAN,
           HandleName(e, h, n, accepted)
    PROVE  /\ \A x \in Ends : \A id, k : Said(x, id, k) => Said(x, id, k)'
           /\ \A x \in Ends, k \in Names : (x = e /\ k = n /\ accepted /\ IdsOf(e, n) = <<>>) \/
                 /\ Known(x, k)' <=> Known(x, k)
                 /\ IdsOf(x, k)' = IdsOf(x, k)
                 /\ Pending(x, k)' <=> Pending(x, k)
           /\ \A x \in Ends : nextId[x] <= nextId'[x]
<1>0. Shapes
  BY DEF Places
<1>1. n \in Names
  BY <1>0, HandleTypes
<1>2. CASE accepted /\ IdsOf(e, n) = <<>>
  <2>1. AcceptName(e, n)
    BY <1>0, <1>2, HandleTypes
  <2>2. /\ nextId' = [nextId EXCEPT ![e] = @ + 2]
        /\ \A x \in Ends, k \in Names :
              /\ Known(x, k)' <=> Known(x, k) \/ (x = e /\ k = n)
              /\ IdsOf(x, k)' = IF x = e /\ k = n THEN <<nextId[e]>> ELSE IdsOf(x, k)
              /\ Pending(x, k)' <=> Pending(x, k)
        /\ \A x \in Ends : \A id, k :
              Said(x, id, k)' <=> IF x = e /\ id = nextId[e] THEN k = n ELSE Said(x, id, k)
    BY <1>0, <1>1, <1>2, <2>1, AssignFact
  <2>3. \A x \in Ends : nextId[x] \in Nat
    BY <1>0 DEF Shapes
  <2>4. \A k : ~Said(e, nextId[e], k)
    <3>1. ASSUME NEW k, Fact(nextId[e], k) PROVE FALSE
      <4>1. nextId[e] < nextId[e]
        BY <3>1 DEF Ids, Assigned
      <4> QED
        BY <2>3, <4>1
    <3> QED
      BY <3>1 DEF Fact
  <2>5. \A x \in Ends : nextId[x] <= nextId'[x]
    BY <1>0, <2>2, <2>3 DEF Shapes
  <2> QED
    BY <1>2, <2>2, <2>4, <2>5
<1>3. CASE ~(accepted /\ IdsOf(e, n) = <<>>)
  <2>1. UNCHANGED <<types, names, nextId>>
    BY <1>0, <1>3, HandleTypes DEF typeVars
  <2>2. \A x \in Ends : nextId[x] \in Nat
    BY <1>0 DEF Shapes
  <2> QED
    BY <1>3, <2>1, <2>2 DEF Known, IdsOf, Pending, Said
<1> QED
  BY <1>2, <1>3

(* A handled name keeps what is stored: a type that has an id of the       *)
(* writer gets none that is smaller.                                       *)
LEMMA HandleStored ==
    ASSUME Places, Shapes', Ids, Agree, Stored, NEW e \in Ends, NEW h \in handlers[e], NEW n \in h.names,
           NEW accepted \in BOOLEAN, HandleName(e, h, n, accepted)
    PROVE  Stored'
<1> DEFINE p == Peer(e)
           accept == HandledAccept(e, h, n, accepted)
           reject == HandledReject(h, n, accepted)
           m == Response(accept, reject)
<1>0. Shapes /\ p \in Ends /\ p # e /\ Peer(p) = e /\ \A x \in Ends : x = e \/ x = p
  BY PeerFact DEF Places
<1>1. h.names = {n} /\ n \in Names
  <2>1. \E k \in Names : h.names = {k}
    BY DEF Agree, OneByOne
  <2> QED
    BY <2>1
<1>2. wire'[e] = wire[e] /\ (closed[p] => wire' = wire) /\ (~closed[p] => wire'[p] = Append(wire[p], m))
  <2>1. wire'[e] = wire[e] /\ (closed[p] => wire' = wire)
    BY <1>1, HandleLeaves
  <2>2. ~closed[p] => wire'[p] = Append(wire[p], m) /\ \A k \in DOMAIN accept : AcceptIn(wire'[p], accept[k], k)
    BY <1>1, HandleLeaves
  <2> HIDE DEF p, m
  <2> QED
    BY <2>1, <2>2
<1>3. m \in MessageT /\ m.type = "response" /\ wire[p] \in Seq(MessageT)
  <2>1. Response(HandledAccept(e, h, n, accepted), HandledReject(h, n, accepted)) \in MessageT
    BY <1>0, HandleFact
  <2> QED
    BY <1>0, <2>1 DEF Response, Shapes
<1>4. UNCHANGED <<reader, closed, remapping, chunks, chained, written, faults>>
  BY DEF HandleName, readVars, countVars
<1>5. ~closed[e] /\ \A x \in Ends, k \in Names : Asked(x, k)' => Asked(x, k)
  BY HandlePlaces
<1>6. \A id, k : Fact(id, k)' => Fact(id, k) \/ (accepted /\ IdsOf(e, n) = <<>> /\ id = nextId[e] /\ k = n /\ ~closed[e])
  BY HandleIds
<1>7. /\ \A x \in Ends : \A id, k : Said(x, id, k) => Said(x, id, k)'
      /\ \A x \in Ends, k \in Names : (x = e /\ k = n /\ accepted /\ IdsOf(e, n) = <<>>) \/
            /\ Known(x, k)' <=> Known(x, k)
            /\ IdsOf(x, k)' = IdsOf(x, k)
            /\ Pending(x, k)' <=> Pending(x, k)
      /\ \A x \in Ends : nextId[x] <= nextId'[x]
  BY HandleSaid
<1>8. Asked(e, n)
  BY DEF Asked
<1> HIDE DEF m, p, accept, reject
<1>9. \A x \in Ends : Quieter(wire[x], wire'[x])
  BY <1>0, <1>2, <1>3 DEF Quieter
<1>10. reader \in Ends /\ Peer(reader) \in Ends /\ (e = reader \/ e = Peer(reader))
  BY <1>0, PeerFact DEF Shapes
<1>11. \A id, k : Holds(id, k)' => Holds(id, k)
  BY <1>0, <1>4, <1>9, <1>10, KeepHolds
<1>12. ASSUME NEW id, Holds(id, n), accepted, IdsOf(e, n) = <<>> PROVE FALSE
  <2>1. ~Asked(reader, n) /\ (~closed[Peer(reader)] => IdsOf(Peer(reader), n) # <<>>)
    BY <1>12 DEF Stored, Held
  <2> QED
    BY <1>5, <1>8, <1>10, <1>12, <2>1
<1>13. ASSUME NEW id, NEW k, Holds(id, k)
       PROVE  (\A j : Fact(j, k)' => Fact(j, k)) /\ (\A i : Fact(id, i)' => Fact(id, i))
  <2>1. \A j : Fact(j, k)' => Fact(j, k)
    BY <1>6, <1>12, <1>13
  <2>2. id # nextId[e]
    <3>1. ByRole(e, nextId[e]) /\ nextId[e] \in Nat
      BY DEF Ids, Assigned
    <3>2. ByRole(e, id) => id < nextId[e]
      BY <1>13 DEF Stored, Held
    <3> HIDE DEF ByRole
    <3> QED
      BY <3>1, <3>2
  <2> QED
    BY <1>6, <2>1, <2>2
<1>14. \A id, k : Holds(id, k) => k \in Names /\ ~Asked(reader, k)
  BY <1>0, HoldsType DEF Stored, Held
<1>15. \A id, k : Holds(id, k) => ~Asked(reader, k)'
  <2>1. reader' = reader
    BY <1>4
  <2> QED
    BY <1>5, <1>10, <1>14, <2>1
<1>16. ASSUME NEW id, NEW k, Holds(id, k), ~closed'[Peer(reader)]
       PROVE  /\ ~closed[Peer(reader)] /\ (Known(Peer(reader), k) => Known(Peer(reader), k)')
              /\ (Pending(Peer(reader), k)' => Pending(Peer(reader), k))
              /\ IdsOf(Peer(reader), k)' = IdsOf(Peer(reader), k)
  <2>1. k \in Names /\ ~(k = n /\ accepted /\ IdsOf(e, n) = <<>>)
    BY <1>12, <1>14, <1>16
  <2>2. reader' = reader /\ closed' = closed
    BY <1>4
  <2> QED
    BY <1>7, <1>10, <1>16, <2>1, <2>2
<1>17. nextId' \in [Ends -> Nat]
  BY DEF Shapes
<1>18. Held'
  BY <1>0, <1>4, <1>7, <1>11, <1>13, <1>15, <1>16, <1>17, KeepHeld DEF Stored
<1>19. \A id, k : Said(reader, id, k) => Said(reader, id, k)'
  <2>1. reader' = reader
    BY <1>4
  <2> QED
    BY <1>7, <1>10, <2>1
<1>20. Remapped'
  BY <1>4, <1>19, KeepRemapped DEF Stored
<1>21. \A id, k : Announced(wire[reader], id, k) => Announced(wire'[reader], id, k)
  <2>1. \A id, k : Announced(wire[p], id, k) => Announced(Append(wire[p], m), id, k)
    BY <1>3, AppendData, CarriesFact
  <2> QED
    BY <1>0, <1>2, <1>10, <2>1
<1> QED
  BY <1>0, <1>4, <1>9, <1>18, <1>19, <1>20, <1>21, KeepStored DEF Stored

(* The larger ids that a response settles, and the smaller ones. *)
LEMMA SettledIds ==
    ASSUME Places, Shapes', Ids, NEW e \in Ends, OnResponse(e), NEW id \in DOMAIN Settled(e, Head(wire[e])),
           NEW low, low = Settled(e, Head(wire[e]))[id]
    PROVE  \E n \in Names : /\ Said(e, id, n)' /\ Said(e, low, n)' /\ low < id
                            /\ Fact(id, n) /\ Fact(low, n)
<1>m. PICK m : m = Head(wire[e])
  OBVIOUS
<1>0. Shapes
  BY DEF Places
<1>1. Places' /\ Ids' /\ MayAccept(e, m) /\ (\A i, k : Fact(i, k)' => Fact(i, k))
  BY <1>m, ResponseIds
<1>2. \A k \in DOMAIN m.accept : k \in Names /\ IdsOf(e, k)' = AddRoleId(IdsOf(e, k), m.accept[k])
  BY <1>m, <1>1, ResponsePlaces
<1>3. IsPartial(m.accept, Names, Nat)
  BY <1>0, <1>m, <1>1, ResponseTypes
<1>4. PICK n \in DOMAIN m.accept :
         LET ids == AddRoleId(IdsOf(e, n), m.accept[n])
         IN  Len(ids) = 2 /\ ids[2] = id /\ ids[1] = Settled(e, m)[id]
  BY <1>0, <1>m, <1>3, SettledFact
<1>5. PICK ids : ids = IdsOf(e, n)'
  OBVIOUS
<1>6. Len(ids) = 2 /\ ids[2] = id /\ ids[1] = Settled(e, m)[id] /\ n \in Names
  BY <1>2, <1>4, <1>5
<1>7. Sorted(ids) /\ \A i : HasId(ids, i) => Said(e, i, n)'
  <2>1. \A x \in Ends, k \in Names : Sorted(IdsOf(x, k)') /\ \A i : HasId(IdsOf(x, k)', i) => Said(x, i, k)'
    BY <1>1 DEF Ids, Entries
  <2> QED
    BY <1>5, <1>6, <2>1
<1>8. ids = <<ids[1], ids[2]>> /\ ids[1] < ids[2]
  <2>1. ids # <<>>
    BY <1>6
  <2>2. ids # <<ids[1]>>
    <3>1. Len(<<ids[1]>>) = 1
      OBVIOUS
    <3> QED
      BY <1>6, <3>1
  <2> QED
    BY <1>7, <2>1, <2>2 DEF Sorted
<1>9. HasId(ids, ids[1]) /\ HasId(ids, ids[2])
  <2>1. \A i, j, k : HasId(<<i, j>>, k) <=> k = i \/ k = j
    BY HasIdFact
  <2> HIDE DEF HasId
  <2> QED
    BY <1>8, <2>1
<1>10. Said(e, ids[1], n)' /\ Said(e, ids[2], n)'
  BY <1>7, <1>9
<1>11. Fact(ids[1], n) /\ Fact(ids[2], n)
  BY <1>1, <1>10 DEF Fact
<1>12. low = Settled(e, m)[id]
  BY <1>m
<1>13. /\ Said(e, id, n)' /\ Said(e, low, n)' /\ low < id
       /\ Fact(id, n) /\ Fact(low, n)
  <2>1. low = ids[1] /\ id = ids[2]
    BY <1>6, <1>12
  <2> QED
    BY <1>8, <1>10, <1>11, <2>1
<1>14. \E k \in Names : Said(e, id, k)' /\ Said(e, low, k)' /\ low < id /\ Fact(id, k) /\ Fact(low, k)
  BY <1>6, <1>13
<1> QED
  BY <1>14

(* A response relabels nothing that has arrived.                           *)
LEMMA SettleKeeps ==
    ASSUME Places, Shapes', Ids, Stored, NEW e \in Ends, OnResponse(e)
    PROVE  /\ chunks' = chunks /\ chained' = chained
           /\ \A id \in DOMAIN remapping' : id \notin DOMAIN remapping \/ remapping'[id] # remapping[id] =>
                 e = reader /\ id \in DOMAIN Settled(e, Head(wire[e])) /\ remapping'[id] = Settled(e, Head(wire[e]))[id]
           /\ \A f \in Filters : /\ reads'[f].state = reads[f].state /\ reads'[f].got = reads[f].got
                                 /\ \A id \in reads[f].under : id \in reads'[f].under
                                 /\ \A id \in reads'[f].under : id \in reads[f].under \/
                                       (e = reader /\ \E high \in DOMAIN Settled(e, Head(wire[e])) :
                                            high \in reads[f].under /\ id = Settled(e, Head(wire[e]))[high])
<1>0. Shapes
  BY DEF Places
<1>1. MayAccept(e, Head(wire[e]))
  BY ResponseIds
<1>2. CASE e # reader
  <2>1. UNCHANGED readVars
    BY <1>2 DEF OnResponse
  <2> QED
    BY <1>2, <2>1 DEF readVars
<1>3. CASE e = reader
  <2> DEFINE s == Settled(e, Head(wire[e]))
  <2>1. SettleMessageTypes(s)
    BY <1>0, <1>1, <1>3, ResponseSettles
  <2>2. IsPartial(Head(wire[e]).accept, Names, Nat)
    BY <1>0, <1>1, ResponseTypes
  <2>3. IsPartial(s, Nat, Nat)
    BY <1>0, <2>2, SettledFact
  <2>4. ASSUME NEW i \in DOMAIN chunks, chunks[i].active \in DOMAIN s PROVE FALSE
    <3>1. chunks[i] \in ChunkT
      BY <1>0, ChunkFact
    <3>2. PICK id : id = chunks[i].active
      OBVIOUS
    <3>3. Holds(id, chunks[i].name) /\ id \in Nat /\ s[id] \in Nat
      BY <2>3, <2>4, <3>1, <3>2 DEF Holds, Kept, ChunkT, IsPartial
    <3>4. PICK n \in Names : s[id] < id /\ Fact(id, n) /\ Fact(s[id], n)
      <4>1. PICK low : low = s[id]
        OBVIOUS
      <4>2. \E n \in Names : low < id /\ Fact(id, n) /\ Fact(low, n)
        BY <2>4, <3>2, <4>1, SettledIds
      <4> QED
        BY <4>1, <4>2
    <3>5. n = chunks[i].name
      BY <3>3, <3>4 DEF Stored, Held
    <3>6. id <= s[id]
      BY <3>3, <3>4, <3>5 DEF Stored, Held
    <3> QED
      BY <3>3, <3>4, <3>6
  <2> HIDE DEF s
  <2>5. /\ chained' = chained /\ DOMAIN chunks' = DOMAIN chunks /\ chunks' \in Seq(ChunkT)
        /\ \A i \in DOMAIN chunks : chunks'[i] =
              [chunks[i] EXCEPT !.active = IF chunks[i].active \in DOMAIN s THEN s[chunks[i].active] ELSE @]
        /\ \A f \in Filters : /\ reads'[f].state = reads[f].state /\ reads'[f].got = reads[f].got
                              /\ reads'[f].under = reads[f].under \cup {s[id] : id \in DOMAIN s \cap reads[f].under}
    BY <1>0, <2>1, <2>3, SettleShapes
  <2>6. \A i \in DOMAIN chunks : chunks'[i] = chunks[i]
    <3> TAKE i \in DOMAIN chunks
    <3>1. chunks[i] \in ChunkT
      BY <1>0, ChunkFact
    <3>2. chunks'[i] = [chunks[i] EXCEPT !.active = chunks[i].active]
      BY <2>4, <2>5
    <3> QED
      BY <3>1, <3>2 DEF ChunkT
  <2>7. chunks' = chunks
    <3>1. chunks \in Seq(ChunkT)
      BY <1>0 DEF Shapes
    <3>2. chunks \in [1 .. Len(chunks) -> ChunkT] /\ chunks' \in [1 .. Len(chunks') -> ChunkT]
      BY <2>5, <3>1
    <3> QED
      BY <2>5, <2>6, <3>2
  <2>8. remapping' = [id \in DOMAIN remapping \cup DOMAIN s |-> IF id \in DOMAIN s THEN s[id] ELSE remapping[id]]
    BY <2>1 DEF SettleMessageTypes
  <2>9. \A f \in Filters : \A id \in reads'[f].under : id \in reads[f].under \/ \E high \in DOMAIN s : high \in reads[f].under /\ id = s[high]
    BY <2>5
  <2> QED
    BY <1>3, <2>5, <2>7, <2>8, <2>9 DEF s
<1> QED
  BY <1>2, <1>3

(* A response keeps what is stored: the larger ids that it settles are not *)
(* held.                                                                   *)
LEMMA ResponseStored ==
    ASSUME Places, Shapes', Ids, Agree, Stored, NEW e \in Ends, OnResponse(e)
    PROVE  Stored'
<1> DEFINE p == Peer(e)
<1>0. Shapes /\ p \in Ends /\ p # e /\ Peer(p) = e /\ \A x \in Ends : x = e \/ x = p
  BY PeerFact DEF Places
<1>m. PICK m : m = Head(wire[e])
  OBVIOUS
<1>1. MayAccept(e, m)
  BY <1>m, ResponseIds
<1>2. /\ \A id, k : Fact(id, k)' => Fact(id, k)
      /\ \A x \in Ends : \A id, k : Said(x, id, k) => Said(x, id, k)'
      /\ \A k \in DOMAIN m.accept : Said(e, m.accept[k], k)'
  BY <1>m, ResponseIds
<1>3. \A x \in Ends, k \in Names :
            /\ Asked(x, k)' <=> Asked(x, k)
            /\ x # e => IdsOf(x, k)' = IdsOf(x, k) /\ (Known(x, k)' <=> Known(x, k)) /\ (Pending(x, k)' <=> Pending(x, k))
  BY <1>m, <1>1, ResponsePlaces
<1>4. \A k \in Names : k \notin DOMAIN m.accept /\ k \notin m.reject =>
            IdsOf(e, k)' = IdsOf(e, k) /\ (Known(e, k)' <=> Known(e, k)) /\ (Pending(e, k)' <=> Pending(e, k))
  BY <1>m, <1>1, ResponsePlaces
<1>5. /\ \A k \in Names : Answers(m, k) => Pending(e, k) /\ UnderWay(p, k)
      /\ m.type = "response" /\ ~closed[e]
      /\ UNCHANGED <<handlers, nextId, closed, careful, reader>>
      /\ m \in MessageT /\ wire[e] # <<>> /\ wire'[e] = Tail(wire[e]) /\ wire'[p] = wire[p]
      /\ wire[e] \in Seq(MessageT) /\ faults' = faults
  BY <1>m, <1>1, ResponsePlaces
<1> HIDE DEF p
<1>6. chunks' = chunks /\ chained' = chained /\ written' = written
  <2>1. written' = written
    BY DEF OnResponse, countVars
  <2> QED
    BY <2>1, SettleKeeps
<1>7. \A x \in Ends : Quieter(wire[x], wire'[x])
  <2>1. Quieter(wire[e], wire'[e])
    BY <1>m, <1>5, <1>6 DEF Quieter
  <2>2. Quieter(wire[p], wire'[p])
    BY <1>5 DEF Quieter
  <2> QED
    BY <1>0, <2>1, <2>2
<1>8. reader \in Ends /\ Peer(reader) \in Ends /\ reader' = reader /\ closed' = closed
  BY <1>0, <1>5, PeerFact DEF Shapes
<1>9. \A id, n : Holds(id, n)' => Holds(id, n)
  BY <1>0, <1>6, <1>7, <1>8, KeepHolds
<1>10. \A id, n : Holds(id, n) => n \in Names /\ ~Asked(reader, n)
  BY <1>0, HoldsType DEF Stored, Held
<1>11. \A id, n : Holds(id, n) => ~Asked(reader, n)'
  BY <1>3, <1>8, <1>10
<1>12. ASSUME NEW id, NEW n, Holds(id, n), ~closed'[Peer(reader)]
       PROVE  /\ ~closed[Peer(reader)] /\ (Known(Peer(reader), n) => Known(Peer(reader), n)')
              /\ (Pending(Peer(reader), n)' => Pending(Peer(reader), n))
              /\ IdsOf(Peer(reader), n)' = IdsOf(Peer(reader), n)
  <2>1. n \in Names /\ ~closed[Peer(reader)]
    BY <1>8, <1>10, <1>12
  <2>2. ~Pending(Peer(reader), n)
    BY <1>12, <2>1 DEF Stored, Held
  <2>3. CASE e = Peer(reader)
    <3>1. n \notin DOMAIN m.accept /\ n \notin m.reject
      BY <1>5, <2>1, <2>2, <2>3 DEF Answers
    <3>2. IdsOf(e, n)' = IdsOf(e, n) /\ (Known(e, n)' <=> Known(e, n)) /\ (Pending(e, n)' <=> Pending(e, n))
      BY <1>4, <2>1, <3>1
    <3> QED
      BY <1>8, <2>1, <2>3, <3>2
  <2>4. CASE e # Peer(reader)
    <3>1. \A x \in Ends : x # e => IdsOf(x, n)' = IdsOf(x, n) /\ (Known(x, n)' <=> Known(x, n)) /\ (Pending(x, n)' <=> Pending(x, n))
      BY <1>3, <2>1
    <3> QED
      BY <1>8, <2>1, <2>4, <3>1
  <2> QED
    BY <2>3, <2>4
<1>13. nextId' \in [Ends -> Nat] /\ \A x \in Ends : nextId[x] <= nextId'[x]
  BY <1>0, <1>5 DEF Shapes
<1>14. Held'
  BY <1>0, <1>2, <1>8, <1>9, <1>11, <1>12, <1>13, KeepHeld DEF Stored
<1>15. \A id, n : Said(reader, id, n) => Said(reader, id, n)'
  BY <1>2, <1>8
<1>16. Remapped'
  <2>1. ASSUME ~closed'[reader], NEW high \in DOMAIN remapping'
        PROVE  \E n : (Said(reader, high, n) /\ Said(reader, remapping[high], n) /\ remapping[high] < high)'
    <3>1. CASE high \in DOMAIN remapping /\ remapping'[high] = remapping[high]
      <4>1. PICK n : Said(reader, high, n) /\ Said(reader, remapping[high], n) /\ remapping[high] < high
        BY <1>8, <2>1, <3>1 DEF Stored, Remapped
      <4>2. PICK low : low = remapping[high]
        OBVIOUS
      <4>3. Said(reader, high, n)' /\ Said(reader, low, n)'
        BY <1>15, <4>1, <4>2
      <4>4. Said(reader, remapping[high], n)' <=> Said(reader, low, n)'
        BY <3>1, <4>2
      <4> QED
        BY <3>1, <4>1, <4>3, <4>4
    <3>2. CASE ~(high \in DOMAIN remapping /\ remapping'[high] = remapping[high])
      <4>1. e = reader /\ high \in DOMAIN Settled(e, Head(wire[e])) /\ remapping'[high] = Settled(e, Head(wire[e]))[high]
        BY <2>1, <3>2, SettleKeeps
      <4>2. PICK low : low = remapping'[high]
        OBVIOUS
      <4>3. low = Settled(e, Head(wire[e]))[high]
        BY <4>1, <4>2
      <4>4. PICK n : Said(e, high, n)' /\ Said(e, low, n)' /\ low < high
        BY <4>1, <4>3, SettledIds
      <4>5. Said(reader, high, n)' /\ Said(reader, low, n)'
        BY <1>8, <4>1, <4>4
      <4>6. Said(reader, remapping[high], n)' <=> Said(reader, low, n)'
        BY <4>2
      <4> QED
        BY <4>2, <4>4, <4>5, <4>6
    <3> QED
      BY <3>1, <3>2
  <2> QED
    BY <1>8, <2>1 DEF Remapped
<1>17. \A id, n : Announced(wire[reader], id, n) => Announced(wire'[reader], id, n) \/ Said(reader, id, n)'
  <2>1. CASE reader = e
    <3>1. \A id, n : Announced(wire[e], id, n) /\ ~Accepts(m, id, n) => Announced(Tail(wire[e]), id, n)
      BY <1>m, <1>5, TailData
    <3>2. ASSUME NEW id, NEW n, Accepts(m, id, n) PROVE Said(e, id, n)'
      <4>1. n \in DOMAIN m.accept /\ id = m.accept[n]
        BY <3>2 DEF Accepts
      <4> QED
        BY <1>2, <4>1
    <3>3. \A id, n : Said(reader, id, n)' <=> Said(e, id, n)'
      BY <1>8, <2>1
    <3> QED
      BY <1>5, <2>1, <3>1, <3>2, <3>3
  <2>2. CASE reader = p
    BY <1>5, <2>2
  <2> QED
    BY <1>0, <1>8, <2>1, <2>2
<1>18. "chain" \notin faults'
  BY <1>5 DEF Stored
<1> QED
  BY <1>0, <1>6, <1>7, <1>8, <1>14, <1>15, <1>16, <1>17, <1>18, KeepStored

(* A message is written under the smallest id of its type, and a careful   *)
(* writer knows by then that no smaller one is to come.                    *)
LEMMA WriteStored ==
    ASSUME Places, Shapes', Ids, Agree, careful, Stored, NEW e \in Ends, NEW n \in Names, Write(e, n)
    PROVE  Stored'
<1>0. Shapes /\ reader \in Ends /\ e = Peer(reader) /\ Peer(reader) \in Ends /\ reader = Peer(e) /\ \A x \in Ends : x = reader \/ x = e
  <2>1. Shapes /\ e # reader /\ reader \in Ends
    BY DEF Places, Shapes, Write
  <2> QED
    BY <2>1, PeerFact
<1>1. ~closed[e] /\ IdsOf(e, n) # <<>> /\ ~Pending(e, n)
  BY DEF Write
<1>2. Known(e, n)
  BY <1>1 DEF IdsOf
<1>3. /\ \A id : Fact(id, n) => HasId(IdsOf(e, n), id)
      /\ ~UnderWay(Peer(e), n)
      /\ IdsOf(e, n) # <<>> /\ IdsOf(e, n)[1] \in Nat /\ \A id : Fact(id, n) => IdsOf(e, n)[1] <= id
      /\ HasId(IdsOf(e, n), IdsOf(e, n)[1])
      /\ \A id : HasId(IdsOf(e, n), id) => Said(e, id, n) /\ Fact(id, n)
  BY <1>1, <1>2, KnowsAll
<1>4. PICK new : new = IdsOf(e, n)[1]
  OBVIOUS
<1>5. new \in Nat /\ Fact(new, n) /\ Said(e, new, n) /\ \A id : Fact(id, n) => new <= id
  BY <1>3, <1>4
<1>6. PICK m : m = Data(new, n)
  OBVIOUS
<1>7. /\ m \in MessageT /\ m.type = "data" /\ m.serial = written
      /\ \A id, k : Carries(m, id, k) <=> id = new /\ k = n
  BY <1>0, <1>5, <1>6 DEF Data, Carries, MessageT, DataT, Shapes
<1>8. Send(e, m)
  BY <1>4, <1>6 DEF Write, IdToWrite
<1>9. /\ wire'[e] = wire[e] /\ (closed[reader] => wire' = wire)
      /\ ~closed[reader] => wire'[reader] = Append(wire[reader], m)
      /\ wire[reader] \in Seq(MessageT) /\ wire[e] \in Seq(MessageT)
  BY <1>0, <1>7, <1>8, SendFact
<1>10. UNCHANGED <<reader, types, names, nextId, handlers, closed, remapping, chunks, chained, reads, faults>> /\ written' = written + 1
  BY DEF Write, typeVars, readVars
<1>11. /\ \A x \in Ends : \A k : (Asked(x, k)' <=> Asked(x, k)) /\ (Known(x, k)' <=> Known(x, k))
                                /\ (Pending(x, k)' <=> Pending(x, k)) /\ IdsOf(x, k)' = IdsOf(x, k)
                                /\ \A id : Said(x, id, k)' <=> Said(x, id, k)
       /\ SameRegistration
  BY <1>0, WriteSame, SameFact
<1>12. \A id, k : Fact(id, k)' <=> Fact(id, k)
  BY <1>11 DEF Fact, SameRegistration, SameQueue
<1>13. \A id, k : Holds(id, k)' => Holds(id, k) \/ (id = new /\ k = n)
  <2>1. \A id, k : DataIn(wire'[reader], id, k) => DataIn(wire[reader], id, k) \/ (id = new /\ k = n)
    <3>1. \A id, k : DataIn(Append(wire[reader], m), id, k) <=> DataIn(wire[reader], id, k) \/ Carries(m, id, k)
      BY <1>7, <1>9, AppendData
    <3> QED
      BY <1>7, <1>9, <3>1
  <2>2. \A id, k : Kept(id, k)' <=> Kept(id, k)
    BY <1>10 DEF Kept
  <2>3. reader' = reader
    BY <1>10
  <2> QED
    BY <2>1, <2>2, <2>3 DEF Holds
<1>14. Held'
  <2>1. ASSUME NEW id, NEW k, Holds(id, k)'
        PROVE  /\ id > 0 /\ \A j : Fact(j, k) => id <= j
               /\ \A i : Fact(id, i) => i = k
               /\ ~Asked(reader, k)
               /\ ~closed[e] => /\ Known(e, k) /\ ~Pending(e, k)
                                /\ IdsOf(e, k) # <<>> /\ IdsOf(e, k)[1] = id
               /\ \A x \in Ends : ByRole(x, id) => id < nextId[x]
    <3>1. CASE Holds(id, k)
      BY <1>0, <3>1 DEF Stored, Held
    <3>2. CASE id = new /\ k = n
      <4>1. new > 0 /\ \A x \in Ends : ByRole(x, new) => new < nextId[x]
        BY <1>5 DEF Ids, Assigned
      <4>2. \A i : Fact(new, i) => i = n
        BY <1>5 DEF Ids, OneName
      <4>3. ~Asked(reader, n)
        <5>1. \A h \in handlers[reader] : n \in h.names => About(h, n)
          BY DEF About
        <5> QED
          BY <1>0, <1>3, <5>1 DEF Asked, UnderWay, Handled
      <4> QED
        BY <1>1, <1>2, <1>4, <1>5, <3>2, <4>1, <4>2, <4>3
    <3> QED
      BY <1>13, <2>1, <3>1, <3>2
  <2>2. ASSUME NEW id, NEW k, Holds(id, k), id = new \/ k = n PROVE id = new /\ k = n
    <3>1. \A i : Fact(id, i) => i = k
      BY <2>2 DEF Stored, Held
    <3>2. ~closed[e] => IdsOf(e, k)[1] = id
      BY <1>0, <2>2 DEF Stored, Held
    <3> QED
      BY <1>1, <1>4, <1>5, <2>2, <3>1, <3>2
  <2>3. \A id, i, k : Holds(id, i)' /\ Holds(id, k)' => i = k
    <3>1. \A id, i, k : Holds(id, i) /\ Holds(id, k) => i = k
      BY DEF Stored, Held
    <3> QED
      BY <1>13, <2>2, <3>1
  <2>4. \A id, j, k : Holds(id, k)' /\ Holds(j, k)' => id = j
    <3>1. \A id, j, k : Holds(id, k) /\ Holds(j, k) => id = j
      BY DEF Stored, Held
    <3> QED
      BY <1>13, <2>2, <3>1
  <2>5. reader' = reader /\ closed' = closed /\ nextId' = nextId
    BY <1>10
  <2>6. ASSUME NEW id, NEW k, Holds(id, k)'
        PROVE  /\ id > 0 /\ \A j : Fact(j, k)' => id <= j
               /\ \A i : Fact(id, i)' => i = k
               /\ ~Asked(reader, k)'
               /\ ~closed'[Peer(reader)] =>
                    /\ Known(Peer(reader), k)' /\ ~Pending(Peer(reader), k)'
                    /\ IdsOf(Peer(reader), k)' # <<>> /\ IdsOf(Peer(reader), k)'[1] = id
               /\ \A x \in Ends : ByRole(x, id) => id < nextId'[x]
    <3>1. /\ id > 0 /\ \A j : Fact(j, k) => id <= j
          /\ \A i : Fact(id, i) => i = k
          /\ ~Asked(reader, k)
          /\ ~closed[e] => /\ Known(e, k) /\ ~Pending(e, k)
                           /\ IdsOf(e, k) # <<>> /\ IdsOf(e, k)[1] = id
          /\ \A x \in Ends : ByRole(x, id) => id < nextId[x]
      BY <2>1, <2>6
    <3>2. (Asked(reader, k)' <=> Asked(reader, k)) /\ Peer(reader)' = e
      BY <1>0, <1>11, <2>5
    <3>3. /\ Known(Peer(reader), k)' <=> Known(e, k)
          /\ Pending(Peer(reader), k)' <=> Pending(e, k)
          /\ IdsOf(Peer(reader), k)' = IdsOf(e, k)
      BY <1>0, <1>11, <2>5
    <3> QED
      BY <1>0, <1>12, <2>5, <3>1, <3>2, <3>3
  <2>7. ASSUME NEW id, NEW k, Holds(id, k)'
        PROVE  (/\ id > 0 /\ \A j : Fact(j, k) => id <= j
                /\ \A i : Fact(id, i) => i = k
                /\ \A i : Holds(id, i) => i = k
                /\ \A j : Holds(j, k) => j = id
                /\ ~Asked(reader, k)
                /\ ~closed[Peer(reader)] =>
                      /\ Known(Peer(reader), k) /\ ~Pending(Peer(reader), k)
                      /\ IdsOf(Peer(reader), k) # <<>> /\ IdsOf(Peer(reader), k)[1] = id
                /\ \A x \in Ends : ByRole(x, id) => id < nextId[x])'
    <3>1. (\A i : Holds(id, i)' => i = k) /\ (\A j : Holds(j, k)' => j = id)
      BY <2>3, <2>4, <2>7
    <3>2. /\ id > 0 /\ \A j : Fact(j, k)' => id <= j
          /\ \A i : Fact(id, i)' => i = k
          /\ ~Asked(reader, k)'
          /\ ~closed'[Peer(reader)] =>
                /\ Known(Peer(reader), k)' /\ ~Pending(Peer(reader), k)'
                /\ IdsOf(Peer(reader), k)' # <<>> /\ IdsOf(Peer(reader), k)'[1] = id
          /\ \A x \in Ends : ByRole(x, id) => id < nextId'[x]
      BY <2>6, <2>7
    <3> QED
      BY <2>5, <3>1, <3>2
  <2> QED
    BY <2>7 DEF Held
<1>15. Told'
  <2>1. ASSUME ~closed[reader], NEW id, NEW k, ~Said(reader, id, k) PROVE Announced(wire'[reader], id, k) /\ ~Kept(id, k)
    <3>1. Announced(wire[reader], id, k) /\ ~Kept(id, k)
      BY <2>1 DEF Stored, Told
    <3>2. ASSUME id = new /\ k = n PROVE AcceptIn(wire[reader], id, k)
      <4>1. CASE ByRole(reader, new)
        BY <1>0, <1>5, <2>1, <3>2, <4>1 DEF Ids, OwnIds
      <4>2. CASE ByRole(e, new)
        <5>1. HasId(IdsOf(reader, n), new) \/ AcceptIn(wire[reader], new, n)
          BY <1>0, <1>5, <2>1, <4>2 DEF Agree, Heard
        <5>2. ~HasId(IdsOf(reader, n), new)
          BY <1>0, <2>1, <3>2 DEF Ids, Entries
        <5> QED
          BY <3>2, <5>1, <5>2
      <4> QED
        BY <1>0, <1>5, <4>1, <4>2, RoleFact
    <3>3. Announced(Append(wire[reader], m), id, k)
      BY <1>7, <1>9, <3>1, <3>2, AppendData
    <3> QED
      BY <1>9, <2>1, <3>1, <3>3
  <2>2. \A id, k : (Said(reader, id, k)' <=> Said(reader, id, k)) /\ (Kept(id, k)' <=> Kept(id, k))
    BY <1>10 DEF Said, Kept
  <2> QED
    BY <1>10, <2>1, <2>2 DEF Told
<1>16. NoData(wire'[Peer(reader)])
  BY <1>0, <1>9 DEF Stored
<1>17. Remapped'
  <2>1. \A id, k : Said(reader, id, k)' <=> Said(reader, id, k)
    BY <1>10 DEF Said
  <2> QED
    BY <1>10, <2>1, KeepRemapped DEF Stored
<1>18. Filed'
  BY <1>10 DEF Stored, Filed
<1>19. InOrder'
  <2>1. written \in Nat
    BY <1>0 DEF Shapes
  <2>2. CASE closed[reader]
    <3>1. wire'[reader] = wire[reader] /\ reader' = reader /\ chunks' = chunks /\ written' = written + 1
      BY <1>9, <1>10, <2>2
    <3>2. \A j \in DOMAIN wire[reader] : wire[reader][j].type = "data" => wire[reader][j].serial \in Nat
      BY <1>9, ElementOfSeq, MessageFact
    <3>3. \A i \in DOMAIN chunks : chunks[i].serial \in Nat
      BY <1>0, ChunkFact DEF ChunkT
    <3> QED
      BY <2>1, <3>1, <3>2, <3>3 DEF Stored, InOrder
  <2>3. CASE ~closed[reader]
    <3>1. wire'[reader] = Append(wire[reader], m) /\ reader' = reader /\ chunks' = chunks /\ written' = written + 1
      BY <1>9, <1>10, <2>3
    <3>2. \A j \in DOMAIN wire[reader] : wire[reader][j].type = "data" => wire[reader][j].serial \in Nat
      BY <1>9, ElementOfSeq, MessageFact
    <3>3. \A i \in DOMAIN chunks : chunks[i].serial \in Nat
      BY <1>0, ChunkFact DEF ChunkT
    <3>4. /\ DOMAIN wire'[reader] = DOMAIN wire[reader] \cup {Len(wire[reader]) + 1}
          /\ wire'[reader][Len(wire[reader]) + 1] = m
          /\ \A i \in DOMAIN wire[reader] : wire'[reader][i] = wire[reader][i] /\ i \in Nat /\ i <= Len(wire[reader])
          /\ Len(wire[reader]) \in Nat
      BY <1>7, <1>9, <3>1, AppendFact
    <3>5. InOrder
      BY DEF Stored
    <3>6. Ordered(wire'[reader])
      <4>1. ASSUME NEW i \in DOMAIN wire'[reader], NEW j \in DOMAIN wire'[reader], i < j,
                   wire'[reader][i].type = "data", wire'[reader][j].type = "data"
            PROVE  wire'[reader][i].serial < wire'[reader][j].serial
        <5>1. i \in DOMAIN wire[reader]
          BY <3>4, <4>1
        <5>2. CASE j \in DOMAIN wire[reader]
          BY <3>4, <3>5, <4>1, <5>1, <5>2 DEF InOrder, Ordered
        <5>3. CASE j = Len(wire[reader]) + 1
          BY <1>7, <3>4, <3>5, <4>1, <5>1, <5>3 DEF InOrder
        <5> QED
          BY <3>4, <5>2, <5>3
      <4> QED
        BY <4>1 DEF Ordered
    <3>7. \A i \in DOMAIN chunks, j \in DOMAIN wire'[reader] :
             wire'[reader][j].type = "data" => chunks[i].serial < wire'[reader][j].serial
      BY <1>7, <3>4, <3>5 DEF InOrder
    <3>8. \A i \in DOMAIN chunks : chunks[i].serial < written + 1
      BY <2>1, <3>3, <3>5 DEF InOrder
    <3>9. \A j \in DOMAIN wire'[reader] : wire'[reader][j].type = "data" => wire'[reader][j].serial < written + 1
      BY <1>7, <2>1, <3>2, <3>4, <3>5 DEF InOrder
    <3> QED
      BY <3>1, <3>5, <3>6, <3>7, <3>8, <3>9 DEF InOrder
  <2> QED
    BY <2>2, <2>3
<1> QED
  BY <1>10, <1>14, <1>15, <1>16, <1>17, <1>18, <1>19 DEF Stored

(* A message that arrives was announced, and its id is not remapped.       *)
LEMMA ReceiveKnown ==
    ASSUME Places, Ids, Stored, NEW e \in Ends, ReceiveData(e), NEW m, m = Head(wire[e])
    PROVE  /\ e = reader /\ ~closed[reader] /\ Said(reader, m.id, m.name) /\ Holds(m.id, m.name)
           /\ m.id \notin DOMAIN remapping /\ m \in MessageT /\ m.type = "data" /\ m.id > 0
           /\ wire[reader] # <<>> /\ wire[reader] \in Seq(MessageT)
           /\ wire'[reader] = Tail(wire[reader]) /\ wire'[Peer(reader)] = wire[Peer(reader)]
<1>0. Shapes /\ reader \in Ends /\ Peer(reader) \in Ends /\ \A x \in Ends : x = reader \/ x = Peer(reader)
  BY PeerFact DEF Places, Shapes
<1>1. wire[e] # <<>> /\ m.type = "data" /\ ~closed[e] /\ Received(e) /\ wire[e] \in Seq(MessageT)
  BY <1>0 DEF ReceiveData, NextIs, Shapes
<1>2. e = reader
  <2>1. NoData(wire[e]) => m.type # "data"
    BY <1>1, TailData
  <2>2. NoData(wire[Peer(reader)])
    BY DEF Stored
  <2> QED
    BY <1>0, <1>1, <2>1, <2>2
<1>3. wire'[e] = Tail(wire[e]) /\ wire'[Peer(e)] = wire[Peer(e)] /\ m \in MessageT
  BY <1>0, <1>1, ReceivedFact
<1>4. Carries(m, m.id, m.name)
  BY <1>1 DEF Carries
<1>5. ~Announced(wire[e], m.id, m.name) /\ DataIn(wire[e], m.id, m.name)
  BY <1>1, <1>4, TailData
<1>6. Said(reader, m.id, m.name)
  BY <1>1, <1>2, <1>5 DEF Stored, Told
<1>7. Holds(m.id, m.name)
  BY <1>2, <1>5 DEF Holds
<1>8. /\ m.id > 0 /\ \A j : Fact(j, m.name) => m.id <= j
      /\ \A n : Fact(m.id, n) => n = m.name
  BY <1>7 DEF Stored, Held
<1>9. ASSUME m.id \in DOMAIN remapping PROVE FALSE
  <2>1. PICK n : Said(reader, m.id, n) /\ Said(reader, remapping[m.id], n) /\ remapping[m.id] < m.id
    BY <1>1, <1>2, <1>9 DEF Stored, Remapped
  <2>2. Fact(m.id, n) /\ Fact(remapping[m.id], n)
    BY <1>0, <2>1 DEF Fact
  <2>3. m.id <= remapping[m.id]
    BY <1>8, <2>2
  <2>4. remapping[m.id] \in Nat /\ m.id \in Nat
    BY <2>2 DEF Ids, Assigned
  <2> QED
    BY <2>1, <2>3, <2>4
<1> QED
  BY <1>1, <1>2, <1>3, <1>6, <1>7, <1>8, <1>9

(* The chunk that it becomes is filed under the id that it has. *)
LEMMA ReceiveChunk ==
    ASSUME Places, Ids, Stored, NEW e \in Ends, ReceiveData(e), NEW m, m = Head(wire[e])
    PROVE  LET c == [active |-> m.id, chain |-> m.id, name |-> m.name, serial |-> m.serial]
           IN  /\ c \in ChunkT /\ m.id \in Nat /\ m.name \in Names /\ m.serial \in Nat
               /\ chunks' = Append(chunks, c) /\ chained' = chained \cup {m.id}
               /\ \A f \in Filters : reads'[f] = IF f \in Wakes(m.id) THEN Woken(reads[f], m.id) ELSE reads[f]
<1>0. Shapes
  BY DEF Places
<1>1. m.id \notin DOMAIN remapping
  BY ReceiveKnown
<1>2. PICK active : active = IF m.id \in DOMAIN remapping THEN remapping[m.id] ELSE m.id
  OBVIOUS
<1>3. active = m.id
  BY <1>1, <1>2
<1>4. LET c == [active |-> active, chain |-> active, name |-> m.name, serial |-> m.serial]
      IN  /\ m.type = "data" /\ m.id \in Nat /\ m.name \in Names /\ m.serial \in Nat /\ active \in Nat
          /\ c \in ChunkT /\ chunks' = Append(chunks, c) /\ chained' = chained \cup {active}
          /\ reads' \in [Filters -> ReadT]
          /\ \A f \in Filters : reads'[f] = IF f \in Wakes(m.id) THEN Woken(reads[f], m.id) ELSE reads[f]
  BY <1>0, <1>2, ReceiveDataFact
<1> QED
  BY <1>3, <1>4

(* Data that arrive stay held under that id. *)
LEMMA ReceiveStored ==
    ASSUME Places, Shapes', Ids, Stored, NEW e \in Ends, ReceiveData(e)
    PROVE  Stored'
<1>0. Shapes /\ reader \in Ends /\ Peer(reader) \in Ends /\ \A x \in Ends : x = reader \/ x = Peer(reader)
  BY PeerFact DEF Places, Shapes
<1>m. PICK m : m = Head(wire[e])
  OBVIOUS
<1>1. /\ e = reader /\ ~closed[reader] /\ Said(reader, m.id, m.name) /\ Holds(m.id, m.name)
      /\ m \in MessageT /\ m.type = "data"
      /\ wire[reader] # <<>> /\ wire[reader] \in Seq(MessageT)
      /\ wire'[reader] = Tail(wire[reader]) /\ wire'[Peer(reader)] = wire[Peer(reader)]
  BY <1>m, ReceiveKnown
<1>2. PICK c \in ChunkT : /\ c = [active |-> m.id, chain |-> m.id, name |-> m.name, serial |-> m.serial]
                          /\ chunks' = Append(chunks, c) /\ chained' = chained \cup {m.id}
  BY <1>m, ReceiveChunk
<1>3. UNCHANGED <<reader, types, names, nextId, handlers, closed, remapping, written, faults>>
  BY DEF ReceiveData, typeVars, countVars
<1>4. /\ \A x \in Ends : \A k : (Asked(x, k)' <=> Asked(x, k)) /\ (Known(x, k)' <=> Known(x, k))
                                /\ (Pending(x, k)' <=> Pending(x, k)) /\ IdsOf(x, k)' = IdsOf(x, k)
                                /\ \A id : Said(x, id, k)' <=> Said(x, id, k)
      /\ SameRegistration
  BY <1>0, ReceiveDataSame, SameFact
<1>5. \A id, k : Fact(id, k)' <=> Fact(id, k)
  BY <1>4 DEF Fact, SameRegistration, SameQueue
<1>6. /\ Len(chunks) \in Nat /\ DOMAIN chunks' = DOMAIN chunks \cup {Len(chunks) + 1} /\ chunks'[Len(chunks) + 1] = c
      /\ \A i \in DOMAIN chunks : chunks'[i] = chunks[i] /\ i \in Nat /\ i <= Len(chunks) /\ i # Len(chunks) + 1
  BY <1>0, <1>2, ChunkFact, AppendFact
<1>7. \A id, n : Kept(id, n)' <=> Kept(id, n) \/ (id = m.id /\ n = m.name)
  BY <1>2, <1>6 DEF Kept
<1>8. \A id, n : DataIn(wire'[reader], id, n) => DataIn(wire[reader], id, n)
  BY <1>1, TailData
<1>9. \A id, n : Holds(id, n)' => Holds(id, n)
  BY <1>1, <1>3, <1>7, <1>8 DEF Holds
<1>10. Held'
  <2>1. \A id, n : Holds(id, n) => ~Asked(reader, n)'
    BY <1>0, <1>3, <1>4 DEF Stored, Held
  <2>2. \A id, n : Holds(id, n) /\ ~closed'[Peer(reader)] =>
              /\ ~closed[Peer(reader)] /\ (Known(Peer(reader), n) => Known(Peer(reader), n)')
              /\ (Pending(Peer(reader), n)' => Pending(Peer(reader), n))
              /\ IdsOf(Peer(reader), n)' = IdsOf(Peer(reader), n)
    BY <1>0, <1>3, <1>4
  <2>3. nextId' \in [Ends -> Nat] /\ \A x \in Ends : nextId[x] <= nextId'[x]
    BY <1>0, <1>3 DEF Shapes
  <2> QED
    BY <1>0, <1>3, <1>5, <1>9, <2>1, <2>2, <2>3, KeepHeld DEF Stored
<1>11. \A id, n : Said(reader, id, n)' <=> Said(reader, id, n)
  BY <1>3 DEF Said
<1>12. Told'
  <2>1. \A id, n : Announced(wire[reader], id, n) => Announced(wire'[reader], id, n)
    <3>1. \A id, n : ~Accepts(m, id, n)
      BY <1>1, CarriesFact
    <3> QED
      BY <1>m, <1>1, <3>1, TailData
  <2>2. \A id, n : Said(reader, id, n) \/ (Announced(wire[reader], id, n) /\ ~Kept(id, n))
    BY <1>1 DEF Stored, Told
  <2> QED
    BY <1>1, <1>3, <1>7, <1>11, <2>1, <2>2 DEF Told
<1>13. NoData(wire'[Peer(reader)])
  BY <1>1 DEF Stored
<1>14. Remapped'
  BY <1>3, <1>11, KeepRemapped DEF Stored
<1>15. Filed'
  BY <1>2, <1>6 DEF Stored, Filed
<1>16. InOrder'
  <2>1. InOrder
    BY DEF Stored
  <2>2. \A i \in DOMAIN wire'[reader] : i \in Nat /\ i + 1 \in DOMAIN wire[reader] /\ wire'[reader][i] = wire[reader][i + 1]
    BY <1>1, TailFact
  <2>3. m = wire[reader][1] /\ 1 \in DOMAIN wire[reader]
    BY <1>m, <1>1, TailFact
  <2>4. c.serial = m.serial /\ \A i \in DOMAIN chunks : chunks[i].serial < m.serial
    BY <1>1, <1>2, <2>1, <2>3 DEF InOrder
  <2>5. \A j \in DOMAIN wire'[reader] : wire'[reader][j].type = "data" => m.serial < wire'[reader][j].serial
    <3>1. ASSUME NEW j \in DOMAIN wire'[reader], wire'[reader][j].type = "data" PROVE m.serial < wire'[reader][j].serial
      <4>1. 1 < j + 1
        <5>1. j >= 1
          BY <1>1, <3>1, TailFact
        <5> QED
          BY <2>2, <5>1
      <4>2. j + 1 \in DOMAIN wire[reader] /\ wire'[reader][j] = wire[reader][j + 1]
        BY <2>2
      <4> QED
        BY <1>1, <2>1, <2>3, <3>1, <4>1, <4>2 DEF InOrder, Ordered
    <3> QED
      BY <3>1
  <2>6. Ordered(wire'[reader])
    <3>1. \A i, j \in DOMAIN wire'[reader] : i < j => i + 1 < j + 1
      BY <2>2
    <3> QED
      BY <2>1, <2>2, <3>1 DEF InOrder, Ordered
  <2>7. \A i, j \in DOMAIN chunks' : i < j => chunks'[i].serial < chunks'[j].serial
    <3>1. ASSUME NEW i \in DOMAIN chunks', NEW j \in DOMAIN chunks', i < j PROVE chunks'[i].serial < chunks'[j].serial
      <4>1. i \in DOMAIN chunks
        BY <1>6, <3>1
      <4>2. CASE j \in DOMAIN chunks
        BY <1>6, <2>1, <3>1, <4>1, <4>2 DEF InOrder
      <4>3. CASE j = Len(chunks) + 1
        BY <1>6, <2>4, <4>1, <4>3
      <4> QED
        BY <1>6, <4>2, <4>3
    <3> QED
      BY <3>1
  <2>8. \A i \in DOMAIN chunks', j \in DOMAIN wire'[reader] :
           wire'[reader][j].type = "data" => chunks'[i].serial < wire'[reader][j].serial
    <3>1. ASSUME NEW i \in DOMAIN chunks', NEW j \in DOMAIN wire'[reader], wire'[reader][j].type = "data"
          PROVE  chunks'[i].serial < wire'[reader][j].serial
      <4>1. CASE i \in DOMAIN chunks
        BY <1>6, <2>1, <2>2, <3>1, <4>1 DEF InOrder
      <4>2. CASE i = Len(chunks) + 1
        BY <1>6, <2>4, <2>5, <3>1, <4>2
      <4> QED
        BY <1>6, <4>1, <4>2
    <3> QED
      BY <3>1
  <2>9. \A i \in DOMAIN chunks' : chunks'[i].serial < written
    <3>1. m.serial < written
      BY <1>1, <2>1, <2>3 DEF InOrder
    <3>2. \A i \in DOMAIN chunks : chunks[i].serial < written
      BY <2>1 DEF InOrder
    <3> QED
      BY <1>6, <2>4, <3>1, <3>2
  <2>10. \A j \in DOMAIN wire'[reader] : wire'[reader][j].type = "data" => wire'[reader][j].serial < written
    BY <2>1, <2>2 DEF InOrder
  <2> QED
    BY <1>3, <2>6, <2>7, <2>8, <2>9, <2>10 DEF InOrder
<1> QED
  BY <1>3, <1>10, <1>12, <1>13, <1>14, <1>15, <1>16 DEF Stored

(* The first of a set of indices. *)
LEMMA FirstOfFact ==
    ASSUME NEW S \in SUBSET Nat
    PROVE  /\ FirstOf({}) = {}
           /\ S # {} => \E x \in S : FirstOf(S) = {x} /\ \A y \in S : x <= y
<1>1. FirstOf({}) = {}
  BY DEF FirstOf
<1>2. ASSUME S # {} PROVE \E x \in S : FirstOf(S) = {x} /\ \A y \in S : x <= y
  <2>1. PICK x \in S : FirstOf(S) = {x}
    BY <1>2, LeastFact
  <2>2. x \in FirstOf(S)
    BY <2>1
  <2> QED
    BY <2>1, <2>2 DEF FirstOf
<1> QED
  BY <1>1, <1>2

(* A chain is the chunks of that chain. *)
LEMMA ChainFact ==
    ASSUME Shapes, NEW id
    PROVE  /\ Chain(id) \in SUBSET Nat /\ Chain(id) \subseteq DOMAIN chunks
           /\ \A i : i \in Chain(id) <=> i \in DOMAIN chunks /\ chunks[i].chain = id
BY ChunkFact DEF Chain

(* Where every chunk is filed under its type, readSync finds the first     *)
(* chunk of the type of its candidate.                                     *)
LEMMA SelectFact ==
    ASSUME Shapes, Filed
    PROVE  /\ ~Throws({}) /\ Selected({}) = {}
           /\ \A c \in DOMAIN chunks :
                 /\ ~Throws({c})
                 /\ \E i \in DOMAIN chunks : /\ Selected({c}) = {i} /\ chunks[i].active = chunks[c].active
                                             /\ \A j \in DOMAIN chunks : chunks[j].active = chunks[c].active => i <= j
<1>1. ~Throws({}) /\ Selected({}) = {}
  BY DEF Throws, Selected
<1>2. ASSUME NEW c \in DOMAIN chunks
      PROVE  /\ ~Throws({c})
             /\ \E i \in DOMAIN chunks : /\ Selected({c}) = {i} /\ chunks[i].active = chunks[c].active
                                         /\ \A j \in DOMAIN chunks : chunks[j].active = chunks[c].active => i <= j
  <2>1. ~Throws({c})
    BY DEF Throws, Filed
  <2>2. Selected({c}) = FirstOf(Chain(chunks[c].active))
    BY DEF Selected
  <2>3. \A j : j \in Chain(chunks[c].active) <=> j \in DOMAIN chunks /\ chunks[j].active = chunks[c].active
    BY ChainFact DEF Filed
  <2>4. Chain(chunks[c].active) \in SUBSET Nat /\ Chain(chunks[c].active) # {}
    BY <2>3, ChainFact
  <2>5. PICK i \in Chain(chunks[c].active) :
           FirstOf(Chain(chunks[c].active)) = {i} /\ \A y \in Chain(chunks[c].active) : i <= y
    BY <2>4, FirstOfFact
  <2> QED
    BY <2>1, <2>2, <2>3, <2>5
<1> QED
  BY <1>1, <1>2

(* The first chunk, if there is one. *)
LEMMA FirstFact ==
    ASSUME Shapes
    PROVE  (First = {} /\ DOMAIN chunks = {}) \/ \E c \in DOMAIN chunks : First = {c}
<1>1. DOMAIN chunks \in SUBSET Nat
  BY ChunkFact
<1> QED
  BY <1>1, FirstOfFact DEF First

(* The first chunk of the first id that has any. *)
LEMMA AmongFact ==
    ASSUME Shapes, NEW ids \in Seq(Nat)
    PROVE  \/ FirstAmong(ids) = {} /\ \A k \in DOMAIN ids : Chain(ids[k]) = {}
           \/ \E c \in DOMAIN chunks, k \in DOMAIN ids : FirstAmong(ids) = {c} /\ chunks[c].chain = ids[k]
<1> DEFINE K == {k \in DOMAIN ids : Chain(ids[k]) # {}}
<1>1. K \in SUBSET Nat
  OBVIOUS
<1>2. FirstAmong(ids) = UNION {FirstOf(Chain(ids[k])) : k \in FirstOf(K)}
  BY DEF FirstAmong
<1>3. CASE K = {}
  <2>1. FirstOf(K) = {}
    BY <1>3, FirstOfFact
  <2> QED
    BY <1>2, <1>3, <2>1
<1>4. CASE K # {}
  <2>1. PICK k \in K : FirstOf(K) = {k}
    BY <1>1, <1>4, FirstOfFact
  <2>2. FirstAmong(ids) = FirstOf(Chain(ids[k]))
    BY <1>2, <2>1
  <2>3. PICK c \in Chain(ids[k]) : FirstOf(Chain(ids[k])) = {c}
    BY ChainFact, FirstOfFact
  <2>4. c \in DOMAIN chunks /\ chunks[c].chain = ids[k]
    BY ChainFact
  <2> QED
    BY <2>2, <2>3, <2>4
<1> QED
  BY <1>3, <1>4

(* Where an element was before one was removed. *)
Was(i, j) == IF j < i THEN j ELSE j + 1
(* The elements after one was removed are those before but for it, in      *)
(* their order.                                                            *)
LEMMA RemovedFact ==
    ASSUME NEW S, NEW s \in Seq(S), NEW i \in DOMAIN s, NEW r, r = RemoveAt(s, i)
    PROVE  /\ r # s
           /\ \A j \in DOMAIN r : Was(i, j) \in DOMAIN s /\ Was(i, j) # i /\ r[j] = s[Was(i, j)]
           /\ \A j, k \in DOMAIN r : j < k => Was(i, j) < Was(i, k)
           /\ \A k \in DOMAIN s : k # i => \E j \in DOMAIN r : r[j] = s[k]
<1>1. /\ r \in Seq(S) /\ Len(r) = Len(s) - 1
      /\ \A j \in 1 .. (Len(s) - 1) : r[j] = IF j < i THEN s[j] ELSE s[j + 1]
  BY RemoveAtFact
<1>2. Len(s) \in Nat /\ DOMAIN s = 1 .. Len(s) /\ DOMAIN r = 1 .. (Len(s) - 1) /\ i \in 1 .. Len(s)
  BY <1>1
<1>3. r # s
  BY <1>1, <1>2
<1>4. \A j \in DOMAIN r : Was(i, j) \in DOMAIN s /\ Was(i, j) # i /\ r[j] = s[Was(i, j)]
  BY <1>1, <1>2 DEF Was
<1>5. \A j, k \in DOMAIN r : j < k => Was(i, j) < Was(i, k)
  BY <1>2 DEF Was
<1>6. ASSUME NEW k \in DOMAIN s, k # i PROVE \E j \in DOMAIN r : r[j] = s[k]
  <2>1. CASE k < i
    <3>1. k \in DOMAIN r /\ r[k] = s[k]
      BY <1>1, <1>2, <2>1
    <3> QED
      BY <3>1
  <2>2. CASE k > i
    <3>1. k - 1 \in DOMAIN r /\ r[k - 1] = s[k]
      BY <1>1, <1>2, <2>2
    <3> QED
      BY <3>1
  <2> QED
    BY <1>2, <1>6, <2>1, <2>2
<1> QED
  BY <1>3, <1>4, <1>5, <1>6

(* A chunk is taken, or none is. *)
Takes(i) ==
    /\ i \in DOMAIN chunks /\ chunks' = RemoveAt(chunks, i)
    /\ \A j \in DOMAIN chunks : chunks[j].active = chunks[i].active => i <= j

(* The first chunk of its type may be taken. *)
LEMMA TakeStored ==
    ASSUME Places, Ids, Stored, SameRegistration,
           UNCHANGED <<reader, wire, remapping, chained, written, faults>>,
           chunks' = chunks \/ \E i : Takes(i)
    PROVE  Stored'
<1>0. Shapes /\ reader \in Ends /\ Peer(reader) \in Ends
  BY PeerFact DEF Places, Shapes
<1>1. CASE chunks' = chunks
  <2>1. UNCHANGED <<types, names, nextId, handlers, closed>>
    BY DEF SameRegistration
  <2> QED
    BY <1>1, <2>1 DEF Stored, Held, Told, Remapped, Filed, InOrder, Holds, Kept, Fact, Said, Asked, Known, Pending, IdsOf
<1>2. ASSUME NEW i, Takes(i) PROVE Stored'
  <2>1. /\ \A j \in DOMAIN chunks' : Was(i, j) \in DOMAIN chunks /\ chunks'[j] = chunks[Was(i, j)]
        /\ \A j, k \in DOMAIN chunks' : j < k => Was(i, j) < Was(i, k)
    BY <1>0, <1>2, ChunkFact, RemovedFact DEF Takes
  <2>2. UNCHANGED <<types, names, nextId, handlers, closed>>
    BY DEF SameRegistration
  <2>3. \A x \in Ends : \A k : (Asked(x, k)' <=> Asked(x, k)) /\ (Known(x, k)' <=> Known(x, k))
                                /\ (Pending(x, k)' <=> Pending(x, k)) /\ IdsOf(x, k)' = IdsOf(x, k)
                                /\ \A id : Said(x, id, k)' <=> Said(x, id, k)
    BY <1>0, SameFact
  <2>4. \A id, k : Fact(id, k)' <=> Fact(id, k)
    BY <2>3 DEF Fact, SameRegistration, SameQueue
  <2>5. \A id, n : Kept(id, n)' => Kept(id, n)
    BY <2>1 DEF Kept
  <2>6. \A id, n : Holds(id, n)' => Holds(id, n)
    BY <2>5 DEF Holds
  <2>7. Held'
    <3>1. \A id, n : Holds(id, n) => ~Asked(reader, n)'
      BY <1>0, <2>3 DEF Stored, Held
    <3>2. \A id, n : Holds(id, n) /\ ~closed'[Peer(reader)] =>
                /\ ~closed[Peer(reader)] /\ (Known(Peer(reader), n) => Known(Peer(reader), n)')
                /\ (Pending(Peer(reader), n)' => Pending(Peer(reader), n))
                /\ IdsOf(Peer(reader), n)' = IdsOf(Peer(reader), n)
      BY <1>0, <2>2, <2>3
    <3>3. nextId' \in [Ends -> Nat] /\ \A x \in Ends : nextId[x] <= nextId'[x]
      BY <1>0, <2>2 DEF Shapes
    <3> QED
      BY <1>0, <2>4, <2>6, <3>1, <3>2, <3>3, KeepHeld DEF Stored
  <2>8. Told'
    <3>1. \A id, n : Said(reader, id, n)' <=> Said(reader, id, n)
      BY <2>2 DEF Said
    <3>2. \A id, n : Announced(wire[reader], id, n)' <=> Announced(wire[reader], id, n)
      BY DEF Announced
    <3> QED
      BY <2>2, <2>5, <3>1, <3>2 DEF Stored, Told
  <2>9. Remapped'
    <3>1. \A id, n : Said(reader, id, n)' <=> Said(reader, id, n)
      BY <2>2 DEF Said
    <3> QED
      BY <2>2, <3>1, KeepRemapped DEF Stored
  <2>10. Filed'
    BY <2>1 DEF Stored, Filed
  <2>11. InOrder'
    BY <2>1 DEF Stored, InOrder
  <2> QED
    BY <2>7, <2>8, <2>9, <2>10, <2>11 DEF Stored
<1> QED
  BY <1>1, <1>2

(* What reading returns. *)
LEMMA ReadSyncTakes ==
    ASSUME Shapes, Stored, NEW candidate, ReadSync(candidate),
           candidate = {} \/ \E c \in DOMAIN chunks : candidate = {c}
    PROVE  /\ faults' = faults
           /\ candidate = {} => chunks' = chunks
           /\ \A c \in DOMAIN chunks : candidate = {c} => \E i : Takes(i) /\ chunks[i].active = chunks[c].active
<1>1. Filed
  BY DEF Stored
<1>2. ~Throws(candidate)
  BY <1>1, SelectFact
<1>3. candidate = {} => Selected(candidate) = {}
  BY <1>1, SelectFact
<1>4. ASSUME NEW c \in DOMAIN chunks, candidate = {c} PROVE \E i : Takes(i) /\ chunks[i].active = chunks[c].active
  <2>1. PICK i \in DOMAIN chunks : /\ Selected(candidate) = {i} /\ chunks[i].active = chunks[c].active
                                   /\ \A j \in DOMAIN chunks : chunks[j].active = chunks[c].active => i <= j
    BY <1>1, <1>4, SelectFact
  <2>2. chunks' = RemoveAt(chunks, i)
    BY <2>1 DEF ReadSync
  <2> QED
    BY <2>1, <2>2 DEF Takes
<1> QED
  BY <1>2, <1>3, <1>4 DEF ReadSync

----------------------------------------------------------------------------
(* The readers.  One that waits does so under every id of its type, and    *)
(* nothing for it has arrived; one that was woken finds its message.       *)
Waits ==
    /\ \A f \in Filters : reads[f].state = "waiting" =>
          ~closed[reader] /\ \A i \in DOMAIN chunks : f # All /\ chunks[i].name # f
    /\ \A n \in Names : reads[n].state = "waiting" =>
          /\ Known(reader, n) /\ ~Pending(reader, n)
          /\ \A id : HasId(IdsOf(reader, n), id) => id \in reads[n].under
Under ==
    /\ reads[All].under = {}
    /\ \A n \in Names : \A id \in reads[n].under : ~closed[reader] => Said(reader, id, n)
Alone == Active(All) => \A n \in Names : ~Active(n)
ServedBy(f) ==
    IF reads[f].got = 0
    THEN closed[reader]
    ELSE \E i \in DOMAIN chunks : chunks[i].chain = reads[f].got /\ (f # All => chunks[i].name = f)
Served == \A f \in Filters : reads[f].state = "woken" => ServedBy(f)
Reading == Waits /\ Under /\ Alone /\ Served

(* The filters are the names and All. *)
LEMMA FilterFact == All \in Filters /\ (\A n \in Names : n \in Filters /\ n # All) /\ (\A f \in Filters : f = All \/ f \in Names)
BY NamesAssumption DEF Filters

(* The set of the ids of a type. *)
LEMMA RangeFact ==
    ASSUME NEW ids \in Seq(Nat) PROVE \A id : id \in Range(ids) <=> HasId(ids, id)
BY DEF Range, HasId

(* A step that takes no chunk and wakes no reader. *)
LEMMA KeepReading ==
    ASSUME Reading, reader' = reader, chunks' = chunks, closed'[reader] = closed[reader],
           \A f \in Filters : reads'[f].state = reads[f].state /\ reads'[f].got = reads[f].got,
           reads'[All].under = {},
           \A n \in Names : \A id \in reads[n].under : id \in reads'[n].under,
           \A n \in Names : \A id \in reads'[n].under : ~closed[reader] => Said(reader, id, n)',
           \A n \in Names : ~closed[reader] /\ Known(reader, n) /\ ~Pending(reader, n) =>
              Known(reader, n)' /\ ~Pending(reader, n)' /\ IdsOf(reader, n)' = IdsOf(reader, n)
    PROVE  Reading'
<1>1. Waits'
  <2>1. \A f \in Filters : reads'[f].state = "waiting" =>
          ~closed'[reader] /\ \A i \in DOMAIN chunks' : f # All /\ chunks'[i].name # f
    BY DEF Reading, Waits
  <2>2. ASSUME NEW n \in Names, reads'[n].state = "waiting"
        PROVE  /\ Known(reader, n)' /\ ~Pending(reader, n)'
               /\ \A id : HasId(IdsOf(reader, n), id)' => id \in reads'[n].under
    <3>1. reads[n].state = "waiting"
      BY <2>2, FilterFact
    <3>2. /\ Known(reader, n) /\ ~Pending(reader, n) /\ ~closed[reader]
          /\ \A id : HasId(IdsOf(reader, n), id) => id \in reads[n].under
      BY <3>1, FilterFact DEF Reading, Waits
    <3>3. Known(reader, n)' /\ ~Pending(reader, n)' /\ IdsOf(reader, n)' = IdsOf(reader, n)
      BY <3>2
    <3>4. \A id : HasId(IdsOf(reader, n), id)' <=> HasId(IdsOf(reader, n), id)
      BY <3>3 DEF HasId
    <3> QED
      BY <3>2, <3>3, <3>4
  <2>3. \A n \in Names : reads'[n].state = "waiting" =>
               /\ Known(reader, n)' /\ ~Pending(reader, n)'
               /\ \A id : HasId(IdsOf(reader, n), id)' => id \in reads'[n].under
    BY <2>2
  <2> QED
    BY <2>1, <2>3 DEF Waits
<1>2. Under'
  BY DEF Under
<1>3. Alone'
  BY FilterFact DEF Reading, Alone, Active
<1>4. Served'
  BY DEF Reading, Served, ServedBy
<1> QED
  BY <1>1, <1>2, <1>3, <1>4 DEF Reading

(* At first nobody reads. *)
LEMMA InitReading == ASSUME Init PROVE Reading
<1>1. \A f \in Filters : reads[f].state = "none" /\ reads[f].under = {}
  BY DEF Init, NoRead
<1> QED
  BY <1>1, FilterFact DEF Reading, Waits, Under, Alone, Served, Active

(* The readers do not see the steps of a registration, but for a response. *)
LEMMA QuietReading ==
    ASSUME Reading, UNCHANGED <<reader, chunks, reads>>, closed'[reader] = closed[reader],
           \A id, n : ~closed[reader] /\ Said(reader, id, n) => Said(reader, id, n)',
           \A n \in Names : ~closed[reader] /\ Known(reader, n) /\ ~Pending(reader, n) =>
              Known(reader, n)' /\ ~Pending(reader, n)' /\ IdsOf(reader, n)' = IdsOf(reader, n)
    PROVE  Reading'
<1>1. reads'[All].under = {} /\ \A n \in Names : \A id \in reads'[n].under : ~closed[reader] => Said(reader, id, n)'
  BY DEF Reading, Under
<1> QED
  BY <1>1, KeepReading

(* Sending a request does not touch the readers. *)
LEMMA AddReading ==
    ASSUME Places, Shapes', Reading, NEW e \in Ends, NEW ns \in Registrations, AddMessageTypes(e, ns)
    PROVE  Reading'
<1> DEFINE new == {n \in ns : ~Known(e, n)}
<1>0. Shapes /\ reader \in Ends
  BY DEF Places, Shapes
<1>1. /\ UNCHANGED <<names, nextId, handlers, closed, careful, reader>>
      /\ \A x \in Ends, k \in Names :
            /\ Known(x, k)' <=> Known(x, k) \/ (x = e /\ k \in new)
            /\ Pending(x, k)' <=> Pending(x, k) \/ (x = e /\ k \in new)
            /\ IdsOf(x, k)' = IdsOf(x, k)
  BY <1>0, AddTypes
<1>2. UNCHANGED <<reader, chunks, reads>>
  BY DEF AddMessageTypes, readVars
<1>3. \A k \in Names : k \in new => ~Known(e, k)
  OBVIOUS
<1> HIDE DEF new
<1>4. \A id, n : Said(reader, id, n)' <=> Said(reader, id, n)
  BY <1>1 DEF Said
<1>5. \A n \in Names : ~closed[reader] /\ Known(reader, n) /\ ~Pending(reader, n) =>
              Known(reader, n)' /\ ~Pending(reader, n)' /\ IdsOf(reader, n)' = IdsOf(reader, n)
  BY <1>0, <1>1, <1>3
<1> QED
  BY <1>1, <1>2, <1>4, <1>5, QuietReading

(* Nor does one that arrives. *)
LEMMA OnRequestReading ==
    ASSUME Places, Shapes', Reading, NEW e \in Ends, OnRequest(e)
    PROVE  Reading'
<1>1. UNCHANGED <<reader, chunks, reads, types, names, closed>>
  BY DEF OnRequest, readVars, typeVars
<1>2. \A id, n : /\ Said(reader, id, n)' <=> Said(reader, id, n)
                 /\ Known(reader, n)' <=> Known(reader, n)
                 /\ Pending(reader, n)' <=> Pending(reader, n)
                 /\ IdsOf(reader, n)' = IdsOf(reader, n)
  BY <1>1 DEF Said, Known, Pending, IdsOf
<1> QED
  BY <1>1, <1>2, QuietReading

(* Nor does writing. *)
LEMMA WriteReading ==
    ASSUME Places, Shapes', Reading, NEW e \in Ends, NEW n \in Names, Write(e, n)
    PROVE  Reading'
<1>1. UNCHANGED <<reader, chunks, reads, types, names, closed>>
  BY DEF Write, readVars, typeVars
<1>2. \A id, k : /\ Said(reader, id, k)' <=> Said(reader, id, k)
                 /\ Known(reader, k)' <=> Known(reader, k)
                 /\ Pending(reader, k)' <=> Pending(reader, k)
                 /\ IdsOf(reader, k)' = IdsOf(reader, k)
  BY <1>1 DEF Said, Known, Pending, IdsOf
<1> QED
  BY <1>1, <1>2, QuietReading

(* Nor does a name that is handled. *)
LEMMA HandleReading ==
    ASSUME Places, Shapes', Ids, Reading, NEW e \in Ends, NEW h \in handlers[e], NEW n \in h.names,
           NEW accepted \in BOOLEAN, HandleName(e, h, n, accepted)
    PROVE  Reading'
<1>1. UNCHANGED <<reader, chunks, reads, closed>> /\ reader \in Ends
  BY DEF HandleName, readVars, Places, Shapes
<1>2. /\ \A x \in Ends : \A id, k : Said(x, id, k) => Said(x, id, k)'
      /\ \A x \in Ends, k \in Names : (x = e /\ k = n /\ accepted /\ IdsOf(e, n) = <<>>) \/
            /\ Known(x, k)' <=> Known(x, k)
            /\ IdsOf(x, k)' = IdsOf(x, k)
            /\ Pending(x, k)' <=> Pending(x, k)
  BY HandleSaid
<1>3. \A k \in Names : Known(reader, k) /\ ~Pending(reader, k) => IdsOf(reader, k) # <<>>
  BY <1>1 DEF Ids, Entries
<1>4. \A k \in Names : ~closed[reader] /\ Known(reader, k) /\ ~Pending(reader, k) =>
              Known(reader, k)' /\ ~Pending(reader, k)' /\ IdsOf(reader, k)' = IdsOf(reader, k)
  BY <1>1, <1>2, <1>3
<1>5. \A id, k : Said(reader, id, k) => Said(reader, id, k)'
  BY <1>1, <1>2
<1> QED
  BY <1>1, <1>4, <1>5, QuietReading

(* A response registers a reader that waits under the larger id of its     *)
(* type under the smaller one too.                                         *)
LEMMA ResponseReading ==
    ASSUME Places, Shapes', Ids, Stored, Reading, NEW e \in Ends, OnResponse(e)
    PROVE  Reading'
<1>0. Shapes /\ reader \in Ends
  BY DEF Places, Shapes
<1>m. PICK m : m = Head(wire[e])
  OBVIOUS
<1>1. MayAccept(e, m) /\ \A x \in Ends : \A id, k : Said(x, id, k) => Said(x, id, k)'
  BY <1>m, ResponseIds
<1>2. \A x \in Ends, k \in Names :
            x # e => IdsOf(x, k)' = IdsOf(x, k) /\ (Known(x, k)' <=> Known(x, k)) /\ (Pending(x, k)' <=> Pending(x, k))
  BY <1>m, <1>1, ResponsePlaces
<1>3. \A k \in Names : k \notin DOMAIN m.accept /\ k \notin m.reject =>
            IdsOf(e, k)' = IdsOf(e, k) /\ (Known(e, k)' <=> Known(e, k)) /\ (Pending(e, k)' <=> Pending(e, k))
  BY <1>m, <1>1, ResponsePlaces
<1>4. /\ \A k \in Names : Answers(m, k) => Pending(e, k) /\ UnderWay(Peer(e), k)
      /\ m.type = "response" /\ ~closed[e]
      /\ UNCHANGED <<handlers, nextId, closed, careful, reader>>
  BY <1>m, <1>1, ResponsePlaces
<1>5. chunks' = chunks
  BY SettleKeeps
<1>6. \A f \in Filters : /\ reads'[f].state = reads[f].state /\ reads'[f].got = reads[f].got
                         /\ \A id \in reads[f].under : id \in reads'[f].under
                         /\ \A id \in reads'[f].under : id \in reads[f].under \/
                               (e = reader /\ \E high \in DOMAIN Settled(e, Head(wire[e])) :
                                    high \in reads[f].under /\ id = Settled(e, Head(wire[e]))[high])
  BY SettleKeeps
<1>7. reads'[All].under = {}
  BY <1>6, FilterFact DEF Reading, Under
<1>8. \A id, n : Said(reader, id, n) => Said(reader, id, n)'
  BY <1>0, <1>1, <1>4
<1>9. ASSUME NEW n \in Names, NEW id \in reads'[n].under, ~closed[reader] PROVE Said(reader, id, n)'
  <2>1. CASE id \in reads[n].under
    BY <1>8, <1>9, <2>1 DEF Reading, Under
  <2>2. ASSUME e = reader, NEW high \in DOMAIN Settled(e, Head(wire[e])), high \in reads[n].under,
               id = Settled(e, Head(wire[e]))[high]
        PROVE  Said(reader, id, n)'
    <3>1. PICK k \in Names : Said(e, high, k)' /\ Said(e, id, k)'
      BY <2>2, SettledIds
    <3>2. Said(reader, high, n)'
      BY <1>8, <1>9, <2>2 DEF Reading, Under
    <3>3. Said(reader, high, k)' /\ Said(reader, id, k)'
      BY <1>4, <2>2, <3>1
    <3> QED
      BY <3>2, <3>3 DEF Said
  <2> QED
    BY <1>6, <1>9, <2>1, <2>2, FilterFact
<1>10. ASSUME NEW n \in Names, Known(reader, n), ~Pending(reader, n)
       PROVE  Known(reader, n)' /\ ~Pending(reader, n)' /\ IdsOf(reader, n)' = IdsOf(reader, n)
  <2>1. CASE e = reader
    <3>1. n \notin DOMAIN m.accept /\ n \notin m.reject
      BY <1>4, <1>10, <2>1 DEF Answers
    <3>2. IdsOf(e, n)' = IdsOf(e, n) /\ (Known(e, n)' <=> Known(e, n)) /\ (Pending(e, n)' <=> Pending(e, n))
      BY <1>3, <3>1
    <3> QED
      BY <1>4, <1>10, <2>1, <3>2
  <2>2. CASE e # reader
    <3>1. IdsOf(reader, n)' = IdsOf(reader, n) /\ (Known(reader, n)' <=> Known(reader, n)) /\ (Pending(reader, n)' <=> Pending(reader, n))
      BY <1>0, <1>2, <1>4, <2>2
    <3> QED
      BY <1>10, <3>1
  <2> QED
    BY <2>1, <2>2
<1>11. reader' = reader /\ closed'[reader] = closed[reader]
  BY <1>4
<1>12. \A n \in Names : \A id \in reads[n].under : id \in reads'[n].under
  BY <1>6, FilterFact
<1> QED
  BY <1>5, <1>6, <1>7, <1>9, <1>10, <1>11, <1>12, KeepReading

(* A disconnect wakes every reader that waits. *)
LEMMA DisconnectReading ==
    ASSUME Places, Shapes', Ids, Reading, NEW e \in Ends, Disconnect(e)
    PROVE  Reading'
<1>0. Shapes /\ reader \in Ends /\ \A f \in Filters : reads[f] \in ReadT
  BY DEF Places, Shapes
<1>1. /\ ~closed[e] /\ closed' = [closed EXCEPT ![e] = TRUE]
      /\ \A x \in Ends : x # e => /\ wire'[x] = wire[x] /\ handlers'[x] = handlers[x]
                                  /\ types'[x] = types[x] /\ names'[x] = names[x]
                                  /\ closed'[x] = closed[x]
      /\ UNCHANGED <<careful, reader, nextId, remapping, chunks, chained, countVars, faults>>
  BY <1>0, DisconnectTypes
<1>2. closed'[e]
  BY <1>0, <1>1 DEF Shapes
<1>3. \A f \in Filters : reads'[f] = IF e = reader /\ WakesAtDisconnect(f) THEN Woken(reads[f], 0) ELSE reads[f]
  BY DEF Disconnect
<1>4. CASE e # reader
  <2>1. reads' = reads
    <3>1. reads' = [f \in Filters |-> reads[f]]
      BY <1>4 DEF Disconnect
    <3> QED
      BY <1>0, <3>1 DEF Shapes
  <2>2. closed'[reader] = closed[reader] /\ types'[reader] = types[reader] /\ names'[reader] = names[reader] /\ UNCHANGED <<reader, chunks>>
    BY <1>0, <1>1, <1>4
  <2>3. \A id, n : /\ Said(reader, id, n)' <=> Said(reader, id, n)
                   /\ Known(reader, n)' <=> Known(reader, n)
                   /\ Pending(reader, n)' <=> Pending(reader, n)
                   /\ IdsOf(reader, n)' = IdsOf(reader, n)
    BY <2>2 DEF Said, Known, Pending, IdsOf
  <2> QED
    BY <2>1, <2>2, <2>3, QuietReading
<1>5. CASE e = reader
  <2>1. \A f \in Filters : reads[f].state = "waiting" => WakesAtDisconnect(f)
    <3>1. ASSUME NEW n \in Names, reads[n].state = "waiting" PROVE reads[n].under # {}
      <4>1. Known(reader, n) /\ ~Pending(reader, n) /\ \A id : HasId(IdsOf(reader, n), id) => id \in reads[n].under
        BY <3>1 DEF Reading, Waits
      <4>2. IdsOf(reader, n) # <<>> /\ Sorted(IdsOf(reader, n))
        BY <1>0, <4>1 DEF Ids, Entries
      <4>3. IdsOf(reader, n) \in Seq(Nat)
        BY <1>0, IdsFact
      <4>4. 1 \in DOMAIN IdsOf(reader, n)
        BY <4>2, <4>3, TailFact
      <4>5. HasId(IdsOf(reader, n), IdsOf(reader, n)[1])
        BY <4>4 DEF HasId
      <4> QED
        BY <4>1, <4>5
    <3> QED
      BY <3>1, FilterFact DEF WakesAtDisconnect
  <2>2. \A f \in Filters : /\ reads'[f].under = reads[f].under
                           /\ reads[f].state = "waiting" => reads'[f].state = "woken" /\ reads'[f].got = 0
                           /\ reads[f].state # "waiting" => reads'[f] = reads[f]
    BY <1>0, <1>3, <1>5, <2>1, WokenFact
  <2>3. closed'[reader] /\ reader' = reader /\ chunks' = chunks
    BY <1>1, <1>2, <1>5
  <2>4. Waits'
    <3>1. \A f \in Filters : reads'[f].state # "waiting"
      BY <2>2
    <3> QED
      BY <3>1, FilterFact DEF Waits
  <2>5. Under'
    BY <2>2, <2>3, FilterFact DEF Reading, Under
  <2>6. Alone'
    <3>1. \A f \in Filters : Active(f)' <=> Active(f)
      BY <2>2 DEF Active
    <3> QED
      BY <3>1, FilterFact DEF Reading, Alone
  <2>7. Served'
    <3>1. ASSUME NEW f \in Filters, reads'[f].state = "woken" PROVE ServedBy(f)'
      <4>1. CASE reads[f].state = "waiting"
        BY <2>2, <2>3, <4>1 DEF ServedBy
      <4>2. CASE reads[f].state # "waiting"
        <5>1. reads'[f] = reads[f] /\ reads[f].state = "woken"
          BY <2>2, <3>1, <4>2
        <5>2. ServedBy(f)
          BY <5>1 DEF Reading, Served
        <5> QED
          BY <2>3, <5>1, <5>2 DEF ServedBy
      <4> QED
        BY <4>1, <4>2
    <3> QED
      BY <3>1 DEF Served
  <2> QED
    BY <2>4, <2>5, <2>6, <2>7 DEF Reading
<1> QED
  BY <1>4, <1>5

(* A message that arrives wakes the reader that waits for it, and no       *)
(* reader that waits is passed by.                                         *)
LEMMA ReceiveReading ==
    ASSUME Places, Shapes', Ids, Agree, Stored, Reading, NEW e \in Ends, ReceiveData(e)
    PROVE  Reading'
<1>0. Shapes /\ reader \in Ends /\ \A f \in Filters : reads[f] \in ReadT
  BY DEF Places, Shapes
<1>m. PICK m : m = Head(wire[e])
  OBVIOUS
<1>1. ~closed[reader] /\ Said(reader, m.id, m.name) /\ m.id > 0
  BY <1>m, ReceiveKnown
<1>2. PICK c \in ChunkT : /\ c = [active |-> m.id, chain |-> m.id, name |-> m.name, serial |-> m.serial]
                          /\ chunks' = Append(chunks, c) /\ m.id \in Nat
                          /\ \A f \in Filters : reads'[f] = IF f \in Wakes(m.id) THEN Woken(reads[f], m.id) ELSE reads[f]
  BY <1>m, ReceiveChunk
<1>3. UNCHANGED <<reader, types, names, closed>>
  BY DEF ReceiveData, typeVars
<1>4. \A id, k : /\ Said(reader, id, k)' <=> Said(reader, id, k)
                 /\ Known(reader, k)' <=> Known(reader, k)
                 /\ Pending(reader, k)' <=> Pending(reader, k)
                 /\ IdsOf(reader, k)' = IdsOf(reader, k)
  BY <1>3 DEF Said, Known, Pending, IdsOf
<1>5. /\ DOMAIN chunks' = DOMAIN chunks \cup {Len(chunks) + 1} /\ chunks'[Len(chunks) + 1] = c
      /\ \A i \in DOMAIN chunks : chunks'[i] = chunks[i]
  BY <1>0, <1>2, ChunkFact, AppendFact
<1>6. \A f \in Filters : /\ reads'[f].under = reads[f].under
                         /\ reads[f].state = "waiting" /\ f \in Wakes(m.id) => reads'[f].state = "woken" /\ reads'[f].got = m.id
                         /\ reads[f].state # "waiting" \/ f \notin Wakes(m.id) => reads'[f] = reads[f]
  <2> TAKE f \in Filters
  <2>1. reads[f] \in ReadT /\ m.id \in Nat
    BY <1>0, <1>2
  <2>2. /\ Woken(reads[f], m.id).under = reads[f].under
        /\ reads[f].state = "waiting" => Woken(reads[f], m.id).state = "woken" /\ Woken(reads[f], m.id).got = m.id
        /\ reads[f].state # "waiting" => Woken(reads[f], m.id) = reads[f]
    BY <2>1, WokenFact
  <2>3. reads'[f] = IF f \in Wakes(m.id) THEN Woken(reads[f], m.id) ELSE reads[f]
    BY <1>2
  <2> QED
    BY <2>2, <2>3
<1>7. /\ Active(All) => Wakes(m.id) = {All}
      /\ ~Active(All) => Wakes(m.id) = {f \in Names : Active(f) /\ m.id \in reads[f].under}
  BY DEF Wakes, FindReader
<1>8. ASSUME NEW f \in Filters, reads'[f].state = "waiting"
      PROVE  /\ reads[f].state = "waiting" /\ f # All /\ f \in Names /\ c.name # f
  <2>1. reads[f].state = "waiting" /\ f \notin Wakes(m.id)
    BY <1>6, <1>8
  <2>2. Active(f)
    BY <2>1 DEF Active
  <2>3. f # All
    BY <1>7, <2>1, <2>2
  <2>4. f \in Names
    BY <2>3, FilterFact
  <2>5. ~Active(All)
    BY <2>2, <2>4 DEF Reading, Alone
  <2>6. m.id \notin reads[f].under
    BY <1>7, <2>1, <2>2, <2>4, <2>5
  <2>7. Known(reader, f) /\ ~Pending(reader, f) /\ ~HasId(IdsOf(reader, f), m.id)
    BY <2>1, <2>4, <2>6 DEF Reading, Waits
  <2>8. ~Fact(m.id, f)
    BY <1>0, <1>1, <2>4, <2>7, KnowsAll
  <2>9. m.name # f
    BY <1>0, <1>1, <2>8 DEF Fact
  <2> QED
    BY <1>2, <2>1, <2>3, <2>4, <2>9
<1>9. Waits'
  <2>1. \A f \in Filters : reads'[f].state = "waiting" =>
          ~closed'[reader] /\ \A i \in DOMAIN chunks' : f # All /\ chunks'[i].name # f
    BY <1>1, <1>3, <1>5, <1>8 DEF Reading, Waits
  <2>2. ASSUME NEW n \in Names, reads'[n].state = "waiting"
        PROVE  /\ Known(reader, n)' /\ ~Pending(reader, n)'
               /\ \A id : HasId(IdsOf(reader, n), id)' => id \in reads'[n].under
    <3>1. reads[n].state = "waiting" /\ reads'[n].under = reads[n].under
      BY <1>6, <1>8, <2>2, FilterFact
    <3>2. /\ Known(reader, n) /\ ~Pending(reader, n)
          /\ \A id : HasId(IdsOf(reader, n), id) => id \in reads[n].under
      BY <3>1, FilterFact DEF Reading, Waits
    <3>3. \A id : HasId(IdsOf(reader, n), id)' <=> HasId(IdsOf(reader, n), id)
      BY <1>4 DEF HasId
    <3> QED
      BY <1>4, <3>1, <3>2, <3>3
  <2>3. \A n \in Names : reads'[n].state = "waiting" =>
               /\ Known(reader, n)' /\ ~Pending(reader, n)'
               /\ \A id : HasId(IdsOf(reader, n), id)' => id \in reads'[n].under
    BY <2>2
  <2>4. reader' = reader
    BY <1>3
  <2> QED
    BY <2>1, <2>3, <2>4 DEF Waits
<1>10. Under'
  <2>1. reads'[All].under = {}
    BY <1>6, FilterFact DEF Reading, Under
  <2>2. \A n \in Names : \A id \in reads'[n].under : ~closed'[reader] => Said(reader, id, n)'
    BY <1>3, <1>4, <1>6, FilterFact DEF Reading, Under
  <2> QED
    BY <1>3, <2>1, <2>2 DEF Under
<1>11. Alone'
  <2>1. \A f \in Filters : Active(f)' <=> Active(f)
    BY <1>6 DEF Active
  <2> QED
    BY <2>1, FilterFact DEF Reading, Alone
<1>12. Served'
  <2>1. ASSUME NEW f \in Filters, reads'[f].state = "woken" PROVE ServedBy(f)'
    <3>1. CASE reads[f].state = "waiting"
      <4>1. f \in Wakes(m.id) /\ reads'[f].got = m.id
        BY <1>6, <2>1, <3>1
      <4>2. f # All => f = m.name
        <5>1. ASSUME f # All PROVE m.id \in reads[f].under /\ f \in Names
          BY <1>7, <4>1, <5>1
        <5>2. f # All => Said(reader, m.id, f)
          BY <1>1, <5>1 DEF Reading, Under
        <5> QED
          BY <1>1, <5>2 DEF Said
      <4>3. chunks'[Len(chunks) + 1].chain = m.id /\ chunks'[Len(chunks) + 1].name = m.name
        BY <1>2, <1>5
      <4>4. Len(chunks) + 1 \in DOMAIN chunks'
        BY <1>5
      <4>5. \E i \in DOMAIN chunks' : chunks'[i].chain = reads'[f].got /\ (f # All => chunks'[i].name = f)
        BY <4>1, <4>2, <4>3, <4>4
      <4>6. reads'[f].got # 0
        BY <1>1, <1>2, <4>1
      <4> QED
        BY <4>5, <4>6 DEF ServedBy
    <3>2. CASE reads[f].state # "waiting"
      <4>1. reads'[f] = reads[f] /\ reads[f].state = "woken"
        BY <1>6, <2>1, <3>2
      <4>2. ServedBy(f)
        BY <4>1 DEF Reading, Served
      <4> QED
        BY <1>3, <1>5, <4>1, <4>2 DEF ServedBy
    <3> QED
      BY <3>1, <3>2
  <2> QED
    BY <2>1 DEF Served
<1> QED
  BY <1>9, <1>10, <1>11, <1>12 DEF Reading

(* The chunk taken is one of the type that is read for. *)
LEMMA ReadEffect ==
    ASSUME Places, Ids, Agree, careful, Stored, NEW f \in Filters, Read(f)
    PROVE  /\ faults' = faults /\ ~closed[reader] /\ reads[f].state = "none" /\ ~Conflict(f, IF f = All THEN <<>> ELSE IdsOf(reader, f))
           /\ f # All => Known(reader, f) /\ ~Pending(reader, f) /\ ~Active(All)
           /\ \/ reads' = reads /\ \E i : Takes(i) /\ (f # All => chunks[i].name = f)
              \/ /\ chunks' = chunks
                 /\ reads' = [reads EXCEPT ![f] = [state |-> "waiting", got |-> 0,
                                                   under |-> IF f = All THEN {} ELSE Range(IdsOf(reader, f))]]
                 /\ \A i \in DOMAIN chunks : f # All /\ chunks[i].name # f
<1>0. Shapes /\ reader \in Ends /\ Filed
  BY DEF Places, Shapes, Stored
<1>1. /\ ~closed[reader] /\ reads[f].state = "none" /\ ~Conflict(f, IF f = All THEN <<>> ELSE IdsOf(reader, f))
      /\ f # All => IdsOf(reader, f) # <<>> /\ ~Pending(reader, f) /\ ~Active(All)
  BY DEF Read, IdsToRead
<1>2. f # All => Known(reader, f) /\ f \in Names
  BY <1>1, FilterFact DEF IdsOf
<1>3. PICK candidate : candidate = IF f = All THEN First ELSE FirstAmong(IdsOf(reader, f))
  OBVIOUS
<1>4. IF Throws(candidate) \/ Selected(candidate) # {}
      THEN ReadSync(candidate) /\ UNCHANGED reads
      ELSE /\ reads' = [reads EXCEPT ![f] =
                          [state |-> "waiting", under |-> Range(IF f = All THEN <<>> ELSE IdsOf(reader, f)), got |-> 0]]
           /\ UNCHANGED <<chunks, faults>>
  BY <1>3 DEF Read, IdsToRead
<1>5. IdsOf(reader, f) \in Seq(Nat)
  BY <1>0, IdsFact
<1>6. candidate = {} \/ \E c \in DOMAIN chunks : candidate = {c}
  <2>1. f = All => candidate = {} \/ \E c \in DOMAIN chunks : candidate = {c}
    BY <1>0, <1>3, FirstFact
  <2>2. f # All => candidate = {} \/ \E c \in DOMAIN chunks : candidate = {c}
    BY <1>0, <1>3, <1>5, AmongFact
  <2> QED
    BY <2>1, <2>2
<1>7. \A i \in DOMAIN chunks : Said(reader, chunks[i].active, chunks[i].name) /\ chunks[i].chain = chunks[i].active
  BY <1>1 DEF Stored, Told, Kept, Filed
<1>8. CASE candidate = {}
  <2>1. chunks' = chunks /\ faults' = faults
        /\ reads' = [reads EXCEPT ![f] =
                       [state |-> "waiting", under |-> Range(IF f = All THEN <<>> ELSE IdsOf(reader, f)), got |-> 0]]
    BY <1>0, <1>4, <1>8, SelectFact
  <2>2. Range(IF f = All THEN <<>> ELSE IdsOf(reader, f)) = IF f = All THEN {} ELSE Range(IdsOf(reader, f))
    BY DEF Range
  <2>3. ASSUME NEW i \in DOMAIN chunks PROVE f # All /\ chunks[i].name # f
    <3>1. f # All
      <4>1. CASE f = All
        BY <1>0, <1>3, <1>8, <2>3, <4>1, FirstFact
      <4> QED
        BY <4>1
    <3>2. ASSUME chunks[i].name = f PROVE FALSE
      <4>1. Fact(chunks[i].active, f)
        BY <1>0, <1>7, <3>2 DEF Fact
      <4>2. HasId(IdsOf(reader, f), chunks[i].active)
        BY <1>0, <1>1, <1>2, <3>1, <4>1, KnowsAll
      <4>3. PICK k \in DOMAIN IdsOf(reader, f) : IdsOf(reader, f)[k] = chunks[i].active
        BY <4>2 DEF HasId
      <4>4. i \in Chain(IdsOf(reader, f)[k])
        BY <1>7, <4>3 DEF Chain
      <4>5. FirstAmong(IdsOf(reader, f)) = {}
        BY <1>3, <1>8, <3>1
      <4>6. ASSUME NEW x PROVE {x} # {}
        OBVIOUS
      <4> QED
        BY <1>0, <1>5, <4>4, <4>5, AmongFact
    <3> QED
      BY <3>1, <3>2
  <2> QED
    BY <1>1, <1>2, <2>1, <2>2, <2>3
<1>9. ASSUME NEW c \in DOMAIN chunks, candidate = {c}
      PROVE  faults' = faults /\ reads' = reads /\ \E i : Takes(i) /\ (f # All => chunks[i].name = f)
  <2>1. Selected(candidate) # {}
    BY <1>0, <1>9, SelectFact
  <2>2. ReadSync(candidate) /\ reads' = reads
    BY <1>4, <2>1
  <2>3. faults' = faults /\ \E i : Takes(i) /\ chunks[i].active = chunks[c].active
    BY <1>0, <1>9, <2>2, ReadSyncTakes
  <2>4. PICK i : Takes(i) /\ chunks[i].active = chunks[c].active
    BY <2>3
  <2>5. ASSUME f # All PROVE chunks[i].name = f
    <3>1. \E d \in DOMAIN chunks, k \in DOMAIN IdsOf(reader, f) : {c} = {d} /\ chunks[d].chain = IdsOf(reader, f)[k]
      BY <1>0, <1>3, <1>5, <1>9, <2>5, AmongFact
    <3>2. HasId(IdsOf(reader, f), chunks[c].chain)
      BY <3>1 DEF HasId
    <3>3. Said(reader, chunks[c].chain, f)
      BY <1>0, <1>2, <2>5, <3>2 DEF Ids, Entries
    <3>4. i \in DOMAIN chunks
      BY <2>4 DEF Takes
    <3>5. Said(reader, chunks[i].active, chunks[i].name) /\ chunks[i].active = chunks[c].chain
      BY <1>7, <1>9, <2>4, <3>4
    <3> QED
      BY <3>3, <3>5 DEF Said
  <2> QED
    BY <2>2, <2>3, <2>4, <2>5
<1> QED
  BY <1>1, <1>2, <1>6, <1>8, <1>9

(* A reader that was woken with an id takes a chunk of its type; one that  *)
(* was not, finds the channel closed.                                      *)
LEMMA ContinueEffect ==
    ASSUME Places, Stored, Reading, NEW f \in Filters, Continue(f)
    PROVE  /\ reads[f].state = "woken" /\ reads' = [reads EXCEPT ![f] = NoRead] /\ faults' = faults
           /\ reads[f].got = 0 => chunks' = chunks /\ closed[reader]
           /\ reads[f].got # 0 => \E i : Takes(i) /\ (f # All => chunks[i].name = f)
<1>0. Shapes /\ Filed
  BY DEF Places, Stored
<1>1. reads[f].state = "woken" /\ reads' = [reads EXCEPT ![f] = NoRead]
  BY DEF Continue
<1>2. ServedBy(f)
  BY <1>1 DEF Reading, Served
<1>3. reads[f].got = 0 => chunks' = chunks /\ faults' = faults /\ closed[reader]
  BY <1>2 DEF Continue, ServedBy
<1>4. ASSUME reads[f].got # 0 PROVE faults' = faults /\ \E i : Takes(i) /\ (f # All => chunks[i].name = f)
  <2>1. PICK got : got = reads[f].got
    OBVIOUS
  <2>2. got \in Nat /\ <<got>> \in Seq(Nat) /\ DOMAIN <<got>> = {1} /\ <<got>>[1] = got
    <3>1. reads[f] \in ReadT
      BY <1>0 DEF Shapes
    <3> QED
      BY <2>1, <3>1 DEF ReadT
  <2>3. ReadSync(FirstAmong(<<got>>))
    BY <1>4, <2>1 DEF Continue
  <2>4. PICK j \in DOMAIN chunks : chunks[j].chain = got /\ (f # All => chunks[j].name = f)
    BY <1>2, <1>4, <2>1 DEF ServedBy
  <2>5. j \in Chain(got)
    BY <2>4 DEF Chain
  <2>6. PICK c \in DOMAIN chunks : FirstAmong(<<got>>) = {c} /\ chunks[c].chain = got
    BY <1>0, <2>2, <2>5, AmongFact
  <2>7. faults' = faults /\ \E i : Takes(i) /\ chunks[i].active = chunks[c].active
    BY <1>0, <2>3, <2>6, ReadSyncTakes
  <2>8. PICK i : Takes(i) /\ chunks[i].active = chunks[c].active
    BY <2>7
  <2>9. i \in DOMAIN chunks
    BY <2>8 DEF Takes
  <2>10. chunks[i].active = got /\ chunks[j].active = got
    BY <1>0, <2>4, <2>6, <2>8 DEF Filed
  <2>11. Holds(got, chunks[i].name) /\ Holds(got, chunks[j].name)
    BY <2>9, <2>10 DEF Holds, Kept
  <2>12. chunks[i].name = chunks[j].name
    BY <2>11 DEF Stored, Held
  <2> QED
    BY <2>4, <2>7, <2>8, <2>12
<1> QED
  BY <1>1, <1>3, <1>4

(* What is left when a chunk was taken for a reader. *)
LEMMA TakenFact ==
    ASSUME Shapes, NEW i, Takes(i)
    PROVE  /\ i \in DOMAIN chunks /\ chunks' # chunks
           /\ \A j \in DOMAIN chunks' : \E k \in DOMAIN chunks : k # i /\ chunks'[j] = chunks[k]
           /\ \A k \in DOMAIN chunks : k # i => \E j \in DOMAIN chunks' : chunks'[j] = chunks[k]
<1>1. chunks \in Seq(ChunkT) /\ i \in DOMAIN chunks /\ chunks' = RemoveAt(chunks, i)
  BY ChunkFact DEF Takes
<1>2. /\ chunks' # chunks
      /\ \A j \in DOMAIN chunks' : Was(i, j) \in DOMAIN chunks /\ Was(i, j) # i /\ chunks'[j] = chunks[Was(i, j)]
      /\ \A k \in DOMAIN chunks : k # i => \E j \in DOMAIN chunks' : chunks'[j] = chunks[k]
  BY <1>1, RemovedFact
<1> QED
  BY <1>1, <1>2

(* Nobody but the one that takes a chunk waited for it. *)
LEMMA TakeReading ==
    ASSUME Shapes, Reading, UNCHANGED <<reader, types, names, closed>>, NEW f \in Filters, NEW i, Takes(i),
           f # All => chunks[i].name = f,
           reads[f].state # "waiting",
           (reads' = reads /\ reads[f].state = "none") \/ reads' = [reads EXCEPT ![f] = NoRead],
           \A g \in Filters : g # f /\ Active(g) => f # All /\ g # All
    PROVE  Reading'
<1>0. reader \in Ends /\ reads = [g \in Filters |-> reads[g]]
  BY DEF Shapes
<1>1. /\ \A g \in Filters : g # f => reads'[g] = reads[g]
      /\ reads'[f].state = "none" /\ (reads'[f].under = reads[f].under \/ reads'[f].under = {})
  BY <1>0 DEF NoRead
<1>2. /\ i \in DOMAIN chunks
      /\ \A j \in DOMAIN chunks' : \E k \in DOMAIN chunks : k # i /\ chunks'[j] = chunks[k]
      /\ \A k \in DOMAIN chunks : k # i => \E j \in DOMAIN chunks' : chunks'[j] = chunks[k]
  BY TakenFact
<1>3. \A id, k : /\ Said(reader, id, k)' <=> Said(reader, id, k)
                 /\ Known(reader, k)' <=> Known(reader, k)
                 /\ Pending(reader, k)' <=> Pending(reader, k)
                 /\ IdsOf(reader, k)' = IdsOf(reader, k)
  BY DEF Said, Known, Pending, IdsOf
<1>4. Waits'
  <2>1. \A g \in Filters : reads'[g].state = "waiting" => g # f /\ reads'[g] = reads[g]
    BY <1>1
  <2>2. \A g \in Filters : reads'[g].state = "waiting" =>
          ~closed'[reader] /\ \A j \in DOMAIN chunks' : g # All /\ chunks'[j].name # g
    BY <1>2, <2>1 DEF Reading, Waits
  <2>3. ASSUME NEW n \in Names, reads'[n].state = "waiting"
        PROVE  /\ Known(reader, n)' /\ ~Pending(reader, n)'
               /\ \A id : HasId(IdsOf(reader, n), id)' => id \in reads'[n].under
    <3>1. reads[n].state = "waiting" /\ reads'[n].under = reads[n].under
      BY <2>1, <2>3, FilterFact
    <3>2. /\ Known(reader, n) /\ ~Pending(reader, n)
          /\ \A id : HasId(IdsOf(reader, n), id) => id \in reads[n].under
      BY <3>1, FilterFact DEF Reading, Waits
    <3>3. \A id : HasId(IdsOf(reader, n), id)' <=> HasId(IdsOf(reader, n), id)
      BY <1>3 DEF HasId
    <3> QED
      BY <1>3, <3>1, <3>2, <3>3
  <2>4. \A n \in Names : reads'[n].state = "waiting" =>
               /\ Known(reader, n)' /\ ~Pending(reader, n)'
               /\ \A id : HasId(IdsOf(reader, n), id)' => id \in reads'[n].under
    BY <2>3
  <2> QED
    BY <2>2, <2>4 DEF Waits
<1>5. Under'
  <2>1. \A g \in Filters : \A id \in reads'[g].under : id \in reads[g].under
    BY <1>1
  <2>2. reads'[All].under = {}
    BY <2>1, FilterFact DEF Reading, Under
  <2>3. \A n \in Names : \A id \in reads'[n].under : ~closed'[reader] => Said(reader, id, n)'
    BY <1>3, <2>1, FilterFact DEF Reading, Under
  <2> QED
    BY <2>2, <2>3 DEF Under
<1>6. Alone'
  <2>1. \A g \in Filters : Active(g)' => Active(g)
    BY <1>1 DEF Active
  <2> QED
    BY <2>1, FilterFact DEF Reading, Alone
<1>7. Served'
  <2>1. ASSUME NEW g \in Filters, reads'[g].state = "woken" PROVE ServedBy(g)'
    <3>1. g # f /\ reads'[g] = reads[g] /\ reads[g].state = "woken"
      BY <1>1, <2>1
    <3>2. f # All /\ g # All
      BY <3>1 DEF Active
    <3>3. ServedBy(g)
      BY <3>1 DEF Reading, Served
    <3>4. CASE reads[g].got = 0
      BY <3>1, <3>3, <3>4 DEF ServedBy
    <3>5. CASE reads[g].got # 0
      <4>1. PICK k \in DOMAIN chunks : chunks[k].chain = reads[g].got /\ chunks[k].name = g
        BY <3>2, <3>3, <3>5 DEF ServedBy
      <4>2. k # i
        BY <3>1, <3>2, <4>1
      <4>3. PICK j \in DOMAIN chunks' : chunks'[j] = chunks[k]
        BY <1>2, <4>2
      <4> QED
        BY <3>1, <3>5, <4>1, <4>3 DEF ServedBy
    <3> QED
      BY <3>4, <3>5
  <2> QED
    BY <2>1 DEF Served
<1> QED
  BY <1>4, <1>5, <1>6, <1>7 DEF Reading

(* A call of read keeps the readers served. *)
LEMMA ReadReading ==
    ASSUME Places, Ids, Agree, careful, Stored, Reading, NEW f \in Filters, Read(f)
    PROVE  Reading'
<1>0. Shapes /\ reader \in Ends /\ reads = [g \in Filters |-> reads[g]]
  BY DEF Places, Shapes
<1>1. UNCHANGED <<reader, types, names, closed>>
  BY DEF Read, typeVars
<1>2. /\ ~closed[reader] /\ reads[f].state = "none" /\ ~Conflict(f, IF f = All THEN <<>> ELSE IdsOf(reader, f))
      /\ f # All => Known(reader, f) /\ ~Pending(reader, f) /\ ~Active(All)
  BY ReadEffect
<1>3. \A g \in Filters : g # f /\ Active(g) => f # All /\ g # All
  BY <1>2 DEF Conflict
<1>4. ASSUME reads' = reads, NEW i, Takes(i), f # All => chunks[i].name = f PROVE Reading'
  BY <1>0, <1>1, <1>2, <1>3, <1>4, TakeReading
<1>5. ASSUME chunks' = chunks,
             reads' = [reads EXCEPT ![f] = [state |-> "waiting", got |-> 0,
                                            under |-> IF f = All THEN {} ELSE Range(IdsOf(reader, f))]],
             \A i \in DOMAIN chunks : f # All /\ chunks[i].name # f
      PROVE  Reading'
  <2>1. /\ \A g \in Filters : g # f => reads'[g] = reads[g]
        /\ reads'[f].state = "waiting" /\ (f = All => reads'[f].under = {})
        /\ f # All => reads'[f].under = Range(IdsOf(reader, f))
    BY <1>0, <1>5
  <2>2. \A id : f # All => (id \in reads'[f].under <=> HasId(IdsOf(reader, f), id))
    BY <1>0, <2>1, IdsFact, RangeFact
  <2>3. \A id, k : /\ Said(reader, id, k)' <=> Said(reader, id, k)
                   /\ Known(reader, k)' <=> Known(reader, k)
                   /\ Pending(reader, k)' <=> Pending(reader, k)
                   /\ IdsOf(reader, k)' = IdsOf(reader, k)
    BY <1>1 DEF Said, Known, Pending, IdsOf
  <2>4. Waits'
    <3>1. \A g \in Filters : reads'[g].state = "waiting" =>
            ~closed'[reader] /\ \A j \in DOMAIN chunks' : g # All /\ chunks'[j].name # g
      BY <1>1, <1>2, <1>5, <2>1 DEF Reading, Waits
    <3>2. ASSUME NEW n \in Names, reads'[n].state = "waiting"
          PROVE  /\ Known(reader, n)' /\ ~Pending(reader, n)'
                 /\ \A id : HasId(IdsOf(reader, n), id)' => id \in reads'[n].under
      <4>1. \A id : HasId(IdsOf(reader, n), id)' <=> HasId(IdsOf(reader, n), id)
        BY <2>3 DEF HasId
      <4>2. /\ Known(reader, n) /\ ~Pending(reader, n)
            /\ \A id : HasId(IdsOf(reader, n), id) => id \in reads'[n].under
        <5>1. CASE n = f
          BY <1>2, <2>2, <5>1, FilterFact
        <5>2. CASE n # f
          BY <2>1, <3>2, <5>2, FilterFact DEF Reading, Waits
        <5> QED
          BY <5>1, <5>2
      <4> QED
        BY <2>3, <4>1, <4>2
    <3>3. \A n \in Names : reads'[n].state = "waiting" =>
                 /\ Known(reader, n)' /\ ~Pending(reader, n)'
                 /\ \A id : HasId(IdsOf(reader, n), id)' => id \in reads'[n].under
      BY <3>2
    <3>4. reader' = reader
      BY <1>1
    <3> QED
      BY <3>1, <3>3, <3>4 DEF Waits
  <2>5. Under'
    <3>1. reads'[All].under = {}
      BY <2>1, FilterFact DEF Reading, Under
    <3>2. ASSUME NEW n \in Names, NEW id \in reads'[n].under PROVE Said(reader, id, n)'
      <4>1. CASE n = f
        <5>1. HasId(IdsOf(reader, f), id)
          BY <2>2, <3>2, <4>1, FilterFact
        <5>2. Said(reader, id, n)
          BY <1>0, <4>1, <5>1 DEF Ids, Entries
        <5> QED
          BY <2>3, <5>2
      <4>2. CASE n # f
        BY <1>2, <2>1, <2>3, <3>2, <4>2, FilterFact DEF Reading, Under
      <4> QED
        BY <4>1, <4>2
    <3> QED
      BY <3>1, <3>2 DEF Under
  <2>6. Alone'
    <3>1. \A g \in Filters : g # f => (Active(g)' <=> Active(g))
      BY <2>1 DEF Active
    <3>2. f = All => \A n \in Names : ~Active(n)
      BY <1>3, FilterFact
    <3> QED
      BY <1>2, <3>1, <3>2, FilterFact DEF Reading, Alone
  <2>7. Served'
    <3>1. ASSUME NEW g \in Filters, reads'[g].state = "woken" PROVE ServedBy(g)'
      <4>1. g # f /\ reads'[g] = reads[g] /\ reads[g].state = "woken"
        BY <2>1, <3>1
      <4>2. ServedBy(g)
        BY <4>1 DEF Reading, Served
      <4> QED
        BY <1>1, <1>5, <4>1, <4>2 DEF ServedBy
    <3> QED
      BY <3>1 DEF Served
  <2> QED
    BY <2>4, <2>5, <2>6, <2>7 DEF Reading
<1> QED
  BY <1>4, <1>5, ReadEffect

(* A read that continues keeps the others served. *)
LEMMA ContinueReading ==
    ASSUME Places, Stored, Reading, NEW f \in Filters, Continue(f)
    PROVE  Reading'
<1>0. Shapes /\ reader \in Ends /\ reads = [g \in Filters |-> reads[g]]
  BY DEF Places, Shapes
<1>1. UNCHANGED <<reader, types, names, closed>>
  BY DEF Continue, typeVars
<1>2. /\ reads[f].state = "woken" /\ reads' = [reads EXCEPT ![f] = NoRead]
      /\ reads[f].got = 0 => chunks' = chunks
      /\ reads[f].got # 0 => \E i : Takes(i) /\ (f # All => chunks[i].name = f)
  BY ContinueEffect
<1>3. \A g \in Filters : g # f /\ Active(g) => f # All /\ g # All
  <2>1. Active(f)
    BY <1>2 DEF Active
  <2> QED
    BY <2>1, FilterFact DEF Reading, Alone
<1>4. CASE reads[f].got # 0
  <2>1. PICK i : Takes(i) /\ (f # All => chunks[i].name = f)
    BY <1>2, <1>4
  <2>2. reads[f].state # "waiting"
    BY <1>2
  <2> QED
    BY <1>0, <1>1, <1>2, <1>3, <2>1, <2>2, TakeReading
<1>5. CASE reads[f].got = 0
  <2>1. /\ \A g \in Filters : g # f => reads'[g] = reads[g]
        /\ reads'[f].state = "none" /\ reads'[f].under = {} /\ chunks' = chunks
    BY <1>0, <1>2, <1>5 DEF NoRead
  <2>2. \A id, k : /\ Said(reader, id, k)' <=> Said(reader, id, k)
                   /\ Known(reader, k)' <=> Known(reader, k)
                   /\ Pending(reader, k)' <=> Pending(reader, k)
                   /\ IdsOf(reader, k)' = IdsOf(reader, k)
    BY <1>1 DEF Said, Known, Pending, IdsOf
  <2>3. Waits'
    <3>1. \A g \in Filters : reads'[g].state = "waiting" => reads'[g] = reads[g]
      BY <2>1
    <3>2. \A g \in Filters : reads'[g].state = "waiting" =>
            ~closed'[reader] /\ \A j \in DOMAIN chunks' : g # All /\ chunks'[j].name # g
      BY <1>1, <2>1, <3>1 DEF Reading, Waits
    <3>3. ASSUME NEW n \in Names, reads'[n].state = "waiting"
          PROVE  /\ Known(reader, n)' /\ ~Pending(reader, n)'
                 /\ \A id : HasId(IdsOf(reader, n), id)' => id \in reads'[n].under
      <4>1. \A id : HasId(IdsOf(reader, n), id)' <=> HasId(IdsOf(reader, n), id)
        BY <2>2 DEF HasId
      <4>2. reads'[n] = reads[n]
        BY <3>1, <3>3, FilterFact
      <4>3. /\ Known(reader, n) /\ ~Pending(reader, n)
            /\ \A id : HasId(IdsOf(reader, n), id) => id \in reads[n].under
        BY <3>3, <4>2, FilterFact DEF Reading, Waits
      <4> QED
        BY <2>2, <4>1, <4>2, <4>3
    <3>4. \A n \in Names : reads'[n].state = "waiting" =>
                 /\ Known(reader, n)' /\ ~Pending(reader, n)'
                 /\ \A id : HasId(IdsOf(reader, n), id)' => id \in reads'[n].under
      BY <3>3
    <3>5. reader' = reader
      BY <1>1
    <3> QED
      BY <3>2, <3>4, <3>5 DEF Waits
  <2>4. Under'
    <3>1. \A g \in Filters : \A id \in reads'[g].under : id \in reads[g].under
      BY <2>1
    <3>2. reads'[All].under = {}
      BY <3>1, FilterFact DEF Reading, Under
    <3>3. \A n \in Names : \A id \in reads'[n].under : ~closed'[reader] => Said(reader, id, n)'
      BY <1>1, <2>2, <3>1, FilterFact DEF Reading, Under
    <3> QED
      BY <1>1, <3>2, <3>3 DEF Under
  <2>5. Alone'
    <3>1. \A g \in Filters : Active(g)' => Active(g)
      BY <2>1 DEF Active
    <3> QED
      BY <3>1, FilterFact DEF Reading, Alone
  <2>6. Served'
    <3>1. ASSUME NEW g \in Filters, reads'[g].state = "woken" PROVE ServedBy(g)'
      <4>1. reads'[g] = reads[g] /\ reads[g].state = "woken"
        BY <2>1, <3>1
      <4>2. ServedBy(g)
        BY <4>1 DEF Reading, Served
      <4> QED
        BY <1>1, <2>1, <4>1, <4>2 DEF ServedBy
    <3> QED
      BY <3>1 DEF Served
  <2> QED
    BY <2>3, <2>4, <2>5, <2>6 DEF Reading
<1> QED
  BY <1>4, <1>5

(* A call of read keeps what is stored. *)
LEMMA ReadStored ==
    ASSUME Places, Ids, Agree, careful, Stored, NEW f \in Filters, Read(f)
    PROVE  Stored'
<1>1. Shapes /\ SameRegistration
  BY ReadSame DEF Places
<1>2. UNCHANGED <<reader, wire, remapping, chained, written>>
  BY DEF Read
<1>3. faults' = faults /\ (chunks' = chunks \/ \E i : Takes(i))
  BY ReadEffect
<1> QED
  BY <1>1, <1>2, <1>3, TakeStored

(* A read that continues keeps what is stored. *)
LEMMA ContinueStored ==
    ASSUME Places, Ids, Stored, Reading, NEW f \in Filters, Continue(f)
    PROVE  Stored'
<1>1. Shapes /\ SameRegistration
  BY ReadSame DEF Places
<1>2. UNCHANGED <<reader, wire, remapping, chained, written>>
  BY DEF Continue, countVars
<1>3. faults' = faults /\ (chunks' = chunks \/ \E i : Takes(i))
  BY ContinueEffect
<1> QED
  BY <1>1, <1>2, <1>3, TakeStored

(* A step that changes nothing keeps it all. *)
LEMMA StutterData ==
    ASSUME Places, Ids, Stored, Reading, UNCHANGED vars
    PROVE  Stored' /\ Reading'
<1>1. /\ UNCHANGED <<types, names, nextId, handlers, closed, wire, careful, reader, remapping, chunks>>
      /\ UNCHANGED <<chained, reads, requested, written, called, faults>>
  BY DEF vars, typeVars, readVars, countVars
<1>2. Stored'
  <2>1. SameRegistration
    BY <1>1 DEF SameRegistration, SameQueue
  <2> QED
    BY <1>1, <2>1, TakeStored
<1>3. Reading'
  <2>1. \A id, n : /\ Said(reader, id, n)' <=> Said(reader, id, n)
                   /\ Known(reader, n)' <=> Known(reader, n)
                   /\ Pending(reader, n)' <=> Pending(reader, n)
                   /\ IdsOf(reader, n)' = IdsOf(reader, n)
    BY <1>1 DEF Said, Known, Pending, IdsOf
  <2>2. closed'[reader] = closed[reader] /\ UNCHANGED <<reader, chunks, reads>>
    BY <1>1
  <2> QED
    BY <2>1, <2>2, QuietReading
<1> QED
  BY <1>2, <1>3

(* With careful applications, every step with data keeps what is stored    *)
(* and the readers served.                                                 *)
LEMMA DataStepData ==
    ASSUME Places, Shapes', Ids, Agree, careful, Stored, Reading, DataStep
    PROVE  Stored' /\ Reading'
<1>1. ASSUME NEW e \in Ends, NEW n \in Names, Write(e, n) PROVE Stored' /\ Reading'
  BY <1>1, WriteStored, WriteReading
<1>2. ASSUME NEW e \in Ends, ReceiveData(e) PROVE Stored' /\ Reading'
  BY <1>2, ReceiveStored, ReceiveReading
<1>3. ASSUME NEW f \in Filters, Read(f) PROVE Stored' /\ Reading'
  BY <1>3, ReadStored, ReadReading
<1>4. ASSUME NEW f \in Filters, Continue(f) PROVE Stored' /\ Reading'
  BY <1>4, ContinueStored, ContinueReading
<1> QED
  BY <1>1, <1>2, <1>3, <1>4 DEF DataStep

(* So does every step of a registration. *)
LEMMA RegistrationStepData ==
    ASSUME Places, Shapes', Ids, Agree, Stored, Reading, RegistrationStep
    PROVE  Stored' /\ Reading'
<1>1. ASSUME NEW e \in Ends, NEW ns \in Registrations, AddMessageTypes(e, ns) PROVE Stored' /\ Reading'
  BY <1>1, AddStored, AddReading
<1>2. ASSUME NEW e \in Ends, OnRequest(e) PROVE Stored' /\ Reading'
  BY <1>2, OnRequestStored, OnRequestReading
<1>3. ASSUME NEW e \in Ends, OnResponse(e) PROVE Stored' /\ Reading'
  BY <1>3, ResponseStored, ResponseReading
<1>4. ASSUME NEW e \in Ends, Disconnect(e) PROVE Stored' /\ Reading'
  BY <1>4, DisconnectStored, DisconnectReading
<1>5. ASSUME NEW e \in Ends, NEW h \in handlers[e], NEW n \in h.names, NEW accepted \in BOOLEAN,
             HandleName(e, h, n, accepted)
      PROVE  Stored' /\ Reading'
  BY <1>5, HandleStored, HandleReading
<1> QED
  BY <1>1, <1>2, <1>3, <1>4, <1>5 DEF RegistrationStep

(* Careful applications stay so. *)
LEMMA StepCareful ==
    ASSUME [Next]_vars PROVE careful' = careful
<1>1. CASE DataStep
  BY <1>1 DEF DataStep, Write, ReceiveData, Read, Continue
<1>2. CASE RegistrationStep
  <2>1. \A e \in Ends : OnRequest(e) \/ OnResponse(e) \/ Disconnect(e) => careful' = careful
    BY DEF OnRequest, OnResponse, Disconnect
  <2>2. \A e \in Ends, ns \in Registrations : AddMessageTypes(e, ns) => careful' = careful
    BY DEF AddMessageTypes
  <2>3. \A e \in Ends : \A h \in handlers[e], accepted \in BOOLEAN : \A n \in h.names :
           HandleName(e, h, n, accepted) => careful' = careful
    BY DEF HandleName
  <2> QED
    BY <1>2, <2>1, <2>2, <2>3 DEF RegistrationStep
<1>3. CASE UNCHANGED vars
  BY <1>3 DEF vars
<1> QED
  BY <1>1, <1>2, <1>3, StepKinds

----------------------------------------------------------------------------
(* The inductive invariant.  What it says of registrations holds for every *)
(* application; the rest, for careful ones.                                *)
Inv == Places /\ Ids /\ (careful => Agree /\ Stored /\ Reading)

(* The initial states satisfy the inductive invariant. *)
LEMMA InitInv == Init => Inv
BY InitIds, InitAgree, InitStored, InitReading DEF Inv

(* Every step keeps the inductive invariant. *)
LEMMA StepInv == Inv /\ [Next]_vars => Inv'
<1> SUFFICES ASSUME Inv, [Next]_vars PROVE Inv'
  OBVIOUS
<1>1. Places' /\ Ids' /\ Shapes'
  BY StepIds DEF Inv, Places
<1>2. careful' = careful /\ (careful => Agree)'
  BY StepCareful, StepAgree DEF Inv
<1>3. ASSUME careful PROVE Stored' /\ Reading'
  <2>1. Places /\ Ids /\ Agree /\ Stored /\ Reading
    BY <1>3 DEF Inv
  <2>2. CASE DataStep
    BY <1>1, <1>3, <2>1, <2>2, DataStepData
  <2>3. CASE RegistrationStep
    BY <1>1, <2>1, <2>3, RegistrationStepData
  <2>4. CASE UNCHANGED vars
    BY <2>1, <2>4, StutterData
  <2> QED
    BY <2>2, <2>3, <2>4, StepKinds
<1> QED
  BY <1>1, <1>2, <1>3 DEF Inv

(* It is an invariant. *)
LEMMA SpecInv == Spec => []Inv
BY InitInv, StepInv, PTL DEF Spec

(* The shape of the state, with the ids, gives the type invariant. *)
LEMMA TypesFact == ASSUME Places, Ids PROVE TypeOK
<1>0. Shapes
  BY DEF Places
<1>1. ASSUME NEW e \in Ends
      PROVE  /\ DOMAIN types[e] \subseteq Names /\ Range(names[e]) \subseteq Names
             /\ \A n \in DOMAIN types[e] : types[e][n].pending \/ types[e][n].ids # <<>>
  <2>1. DOMAIN types[e] \subseteq Names /\ Range(names[e]) \subseteq Names
    BY <1>0 DEF Shapes, IsPartial, Range
  <2>2. ASSUME NEW n \in DOMAIN types[e] PROVE types[e][n].pending \/ types[e][n].ids # <<>>
    <3>1. n \in Names /\ Known(e, n)
      BY <2>1 DEF Known
    <3>2. IdsOf(e, n) = types[e][n].ids /\ (Pending(e, n) <=> types[e][n].pending)
      BY <3>1 DEF IdsOf, Pending
    <3> QED
      BY <3>1, <3>2 DEF Ids, Entries
  <2> QED
    BY <2>1, <2>2
<1>2. \A f \in Filters : /\ reads[f].state \in {"none", "waiting", "woken"}
                         /\ reads[f].under \subseteq Nat /\ reads[f].got \in Nat
  BY <1>0 DEF Shapes, ReadT
<1> QED
  BY <1>0, <1>1, <1>2 DEF TypeOK, Shapes

(* The types are kept; however the registrations of both ends cross, no id *)
(* is refused as an additional one (addRoleId), and with careful           *)
(* applications #readSync finds a chunk in the chain of its type.          *)
THEOREM IsFaultless == Spec => []NoFaults
<1>1. Inv => NoFaults
  BY TypesFact DEF Inv, NoFaults, Ids, Stored
<1> QED
  BY <1>1, SpecInv, PTL

(* With careful applications no read keeps waiting when a message that it  *)
(* may return has arrived (read, #receiveDataMessage, #findReader).        *)
THEOREM ReadsAreServed == Spec => []NoReadWaitsInVain
<1>1. Inv => NoReadWaitsInVain
  BY DEF Inv, Reading, Waits, NoReadWaitsInVain
<1> QED
  BY <1>1, SpecInv, PTL

----------------------------------------------------------------------------
(* What the steps may never do.  Most take nothing from the chunks, and    *)
(* leave a reader that was woken awake.                                    *)
Untaken == \A i \in DOMAIN chunks : \E j \in DOMAIN chunks' : chunks'[j] = chunks[i]
StaysAwake(f) == reads[f].state = "woken" => reads'[f].state = "woken"

(* No chunk is taken by such a step. *)
LEMMA UntakenFact == ASSUME Untaken PROVE Taken = {}
BY DEF Untaken, Taken, Range

(* The steps of a registration take no chunk and leave readers awake. *)
LEMMA RegistrationAwake ==
    ASSUME Places, Shapes', Ids, Stored, RegistrationStep
    PROVE  Untaken /\ \A f \in Filters : StaysAwake(f)
<1>0. Shapes /\ \A f \in Filters : reads[f] \in ReadT
  BY DEF Places, Shapes
<1>1. ASSUME NEW e \in Ends, NEW ns \in Registrations, AddMessageTypes(e, ns)
      PROVE  chunks' = chunks /\ \A f \in Filters : StaysAwake(f)
  BY <1>1 DEF AddMessageTypes, StaysAwake, readVars
<1>2. ASSUME NEW e \in Ends, OnRequest(e)
      PROVE  chunks' = chunks /\ \A f \in Filters : StaysAwake(f)
  BY <1>2 DEF OnRequest, StaysAwake, readVars
<1>3. ASSUME NEW e \in Ends, OnResponse(e)
      PROVE  chunks' = chunks /\ \A f \in Filters : StaysAwake(f)
  <2>1. chunks' = chunks
    BY <1>3, SettleKeeps
  <2>2. \A f \in Filters : reads'[f].state = reads[f].state
    BY <1>3, SettleKeeps
  <2> QED
    BY <2>1, <2>2 DEF StaysAwake
<1>4. ASSUME NEW e \in Ends, Disconnect(e)
      PROVE  chunks' = chunks /\ \A f \in Filters : StaysAwake(f)
  <2>1. chunks' = chunks
    BY <1>4 DEF Disconnect
  <2>2. \A f \in Filters : reads'[f] = reads[f] \/ reads'[f] = Woken(reads[f], 0)
    BY <1>4 DEF Disconnect
  <2>3. \A f \in Filters : reads[f].state = "woken" => Woken(reads[f], 0) = reads[f]
    BY <1>0, WokenFact
  <2> QED
    BY <2>1, <2>2, <2>3 DEF StaysAwake
<1>5. ASSUME NEW e \in Ends, NEW h \in handlers[e], NEW n \in h.names, NEW accepted \in BOOLEAN,
             HandleName(e, h, n, accepted)
      PROVE  chunks' = chunks /\ \A f \in Filters : StaysAwake(f)
  BY <1>5 DEF HandleName, StaysAwake, readVars
<1>6. chunks' = chunks /\ \A f \in Filters : StaysAwake(f)
  BY <1>1, <1>2, <1>3, <1>4, <1>5 DEF RegistrationStep
<1> QED
  BY <1>6 DEF Untaken

(* So do writing, and data that arrive. *)
LEMMA DataAwake ==
    ASSUME Places, Ids, Stored, NEW e \in Ends, ReceiveData(e) \/ \E n \in Names : Write(e, n)
    PROVE  Untaken /\ \A f \in Filters : StaysAwake(f)
<1>0. Shapes /\ \A f \in Filters : reads[f] \in ReadT
  BY DEF Places, Shapes
<1>1. ASSUME NEW n \in Names, Write(e, n) PROVE Untaken /\ \A f \in Filters : StaysAwake(f)
  BY <1>1 DEF Write, Untaken, StaysAwake, readVars
<1>2. CASE ReceiveData(e)
  <2> DEFINE m == Head(wire[e])
             c == [active |-> m.id, chain |-> m.id, name |-> m.name, serial |-> m.serial]
  <2>1. c \in ChunkT /\ m.id \in Nat /\ chunks' = Append(chunks, c)
    BY <1>2, ReceiveChunk
  <2>2. \A f \in Filters : reads'[f] = IF f \in Wakes(m.id) THEN Woken(reads[f], m.id) ELSE reads[f]
    BY <1>2, ReceiveChunk
  <2> HIDE DEF c, m
  <2>3. Untaken
    <3>1. \A i \in DOMAIN chunks : i \in DOMAIN chunks' /\ chunks'[i] = chunks[i]
      BY <1>0, <2>1, ChunkFact, AppendFact
    <3> QED
      BY <3>1 DEF Untaken
  <2>4. \A f \in Filters : reads[f].state = "woken" => Woken(reads[f], m.id) = reads[f]
    BY <1>0, <2>1, WokenFact
  <2> QED
    BY <2>2, <2>3, <2>4 DEF StaysAwake
<1> QED
  BY <1>1, <1>2

(* A chunk that is taken comes before all that remain of its name, and the *)
(* reader knows its name by its id.                                        *)
LEMMA TakesInOrder ==
    ASSUME Places, Stored, NEW i, Takes(i), NEW c \in Taken
    PROVE  /\ \A d \in Range(chunks') : d.name = c.name => d.serial > c.serial
           /\ closed[reader] \/ UnderItsName(c)
<1>0. Shapes
  BY DEF Places
<1>1. /\ i \in DOMAIN chunks
      /\ \A j \in DOMAIN chunks' : \E k \in DOMAIN chunks : k # i /\ chunks'[j] = chunks[k]
      /\ \A k \in DOMAIN chunks : k # i => \E j \in DOMAIN chunks' : chunks'[j] = chunks[k]
  BY <1>0, TakenFact
<1>2. c = chunks[i]
  BY <1>1 DEF Taken, Range
<1>3. Kept(c.active, c.name)
  BY <1>1, <1>2 DEF Kept
<1>4. ASSUME NEW d \in Range(chunks'), d.name = c.name PROVE d.serial > c.serial
  <2>1. PICK k \in DOMAIN chunks : k # i /\ d = chunks[k]
    BY <1>1 DEF Range
  <2>2. Kept(d.active, c.name)
    BY <1>4, <2>1 DEF Kept
  <2>3. d.active = c.active
    BY <1>3, <2>2 DEF Stored, Held, Holds
  <2>4. i <= k
    BY <1>2, <2>1, <2>3 DEF Takes
  <2>5. i < k
    BY <1>0, <1>1, <2>1, <2>4, ChunkFact
  <2>6. chunks[i].serial < chunks[k].serial /\ chunks[i] \in ChunkT /\ chunks[k] \in ChunkT
    BY <1>0, <1>1, <2>1, <2>5, ChunkFact DEF Stored, InOrder
  <2> QED
    BY <1>2, <2>1, <2>6 DEF ChunkT
<1>5. closed[reader] \/ Said(reader, c.active, c.name)
  BY <1>3 DEF Stored, Told
<1> QED
  BY <1>4, <1>5 DEF UnderItsName, Said

(* Every step takes nothing, or the first chunk of a type. *)
LEMMA StepTakes ==
    ASSUME Inv, careful, [Next]_vars PROVE Untaken \/ \E i : Takes(i)
<1>1. Places /\ Ids /\ Agree /\ Stored /\ Reading
  BY DEF Inv
<1>2. CASE RegistrationStep
  <2>1. Shapes'
    BY <1>1, StepIds DEF Places
  <2> QED
    BY <1>1, <1>2, <2>1, RegistrationAwake
<1>3. ASSUME NEW e \in Ends, NEW n \in Names, Write(e, n) PROVE Untaken
  BY <1>1, <1>3, DataAwake
<1>4. ASSUME NEW e \in Ends, ReceiveData(e) PROVE Untaken
  BY <1>1, <1>4, DataAwake
<1>5. ASSUME chunks' = chunks PROVE Untaken
  BY <1>5 DEF Untaken
<1>6. ASSUME NEW f \in Filters, Read(f) PROVE chunks' = chunks \/ \E i : Takes(i)
  BY <1>1, <1>6, ReadEffect
<1>7. ASSUME NEW f \in Filters, Continue(f) PROVE chunks' = chunks \/ \E i : Takes(i)
  BY <1>1, <1>7, ContinueEffect
<1>8. CASE DataStep
  BY <1>3, <1>4, <1>5, <1>6, <1>7, <1>8 DEF DataStep
<1>9. CASE UNCHANGED vars
  <2>1. chunks' = chunks
    BY <1>9 DEF vars, readVars
  <2> QED
    BY <1>5, <2>1
<1> QED
  BY <1>2, <1>8, <1>9, StepKinds

(* Careful applications read the messages of a type in the order they were *)
(* written, and under the name they were written under, whatever the       *)
(* registrations of both ends settle on meanwhile (#readSync,              *)
(* #settleMessageType).                                                    *)
THEOREM TypesInOrder == Spec => ReadsInOrder
<1>1. ASSUME Inv, [Next]_vars
      PROVE  careful => \A c \in Taken :
                /\ \A d \in Range(chunks') : d.name = c.name => d.serial > c.serial
                /\ closed[reader] \/ UnderItsName(c)
  <2> SUFFICES ASSUME careful, NEW c \in Taken
               PROVE  /\ \A d \in Range(chunks') : d.name = c.name => d.serial > c.serial
                      /\ closed[reader] \/ UnderItsName(c)
    OBVIOUS
  <2>1. PICK i : Takes(i)
    BY <1>1, StepTakes, UntakenFact
  <2>2. Places /\ Stored
    BY <1>1 DEF Inv
  <2> QED
    BY <2>1, <2>2, TakesInOrder
<1> QED
  BY <1>1, SpecInv, PTL DEF Spec, ReadsInOrder

(* A read that returns null has found the channel closed. *)
LEMMA NullStep ==
    ASSUME Inv, careful, [Next]_vars, NEW f \in Filters, ReturnsNull(f) PROVE closed[reader]
<1>1. Places /\ Ids /\ Agree /\ Stored /\ Reading /\ reads = [g \in Filters |-> reads[g]]
  BY DEF Inv, Places, Shapes
<1>2. ~StaysAwake(f) /\ chunks' = chunks /\ reads[f].state = "woken"
  BY DEF ReturnsNull, StaysAwake
<1>3. CASE RegistrationStep
  <2>1. Shapes'
    BY <1>1, StepIds DEF Places
  <2> QED
    BY <1>1, <1>2, <1>3, <2>1, RegistrationAwake
<1>4. ASSUME NEW e \in Ends, ReceiveData(e) \/ \E n \in Names : Write(e, n) PROVE FALSE
  BY <1>1, <1>2, <1>4, DataAwake
<1>5. ASSUME NEW g \in Filters, Read(g) PROVE FALSE
  <2>1. reads[g].state = "none" /\ \A k \in Filters : k # g => reads'[k] = reads[k]
    BY <1>1, <1>5, ReadEffect
  <2> QED
    BY <1>2, <2>1 DEF StaysAwake
<1>6. ASSUME NEW g \in Filters, Continue(g) PROVE closed[reader]
  <2>1. /\ reads' = [reads EXCEPT ![g] = NoRead]
        /\ reads[g].got = 0 => closed[reader]
        /\ reads[g].got # 0 => \E i : Takes(i)
    BY <1>1, <1>6, ContinueEffect
  <2>2. g = f
    BY <1>1, <1>2, <2>1 DEF StaysAwake
  <2>3. \A i : ~Takes(i)
    BY <1>1, <1>2, TakenFact DEF Places
  <2> QED
    BY <2>1, <2>3
<1>7. CASE DataStep
  BY <1>4, <1>5, <1>6, <1>7 DEF DataStep
<1>8. CASE UNCHANGED vars
  BY <1>2, <1>8 DEF StaysAwake, vars, readVars
<1> QED
  BY <1>3, <1>7, <1>8, StepKinds

(* With careful applications read() returns null only if the channel was   *)
(* closed, never when it was woken for a message (read).                   *)
THEOREM NullMeansClosed == Spec => NullMeansClosedIfCareful
<1>1. ASSUME Inv, [Next]_vars
      PROVE  careful => \A f \in Filters : ReturnsNull(f) => closed[reader]
  BY <1>1, NullStep
<1> QED
  BY <1>1, SpecInv, PTL DEF Spec, NullMeansClosedIfCareful
=============================================================================
