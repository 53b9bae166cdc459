-------------------------- MODULE ChannelCloseProofs --------------------------
(***************************************************************************)
(* For any number of writes and closes, any limit and any message: the     *)
(* close handshake of a channel implements Closure, and nothing of a       *)
(* channel comes to an end that is closed but for the echo of a switch to  *)
(* discard mode.                                                           *)
(***************************************************************************)
EXTENDS ChannelClose, FiniteSetTheorems, TLAPS

----------------------------------------------------------------------------
(* What the proof needs to know of message queues.                         *)

IsClosed(m) == m.type = "chanClosed"
HasClosed(s) == \E i \in DOMAIN s : IsClosed(s[i])
OneClosed(s) == \A i, j \in DOMAIN s : IsClosed(s[i]) /\ IsClosed(s[j]) => i = j

(* A queue that gets another message, or gives up its first. *)
LEMMA AppendClosed ==
    ASSUME NEW T, NEW s \in Seq(T), NEW m \in T
    PROVE  /\ Append(s, m) \in Seq(T)
           /\ HasClosed(Append(s, m)) <=> HasClosed(s) \/ IsClosed(m)
           /\ OneClosed(s) /\ ~(HasClosed(s) /\ IsClosed(m)) => OneClosed(Append(s, m))
<1>1. Append(s, m) \in Seq(T) /\ DOMAIN Append(s, m) = 1 .. Len(s) + 1 /\ DOMAIN s = 1 .. Len(s) /\ Len(s) \in Nat
  OBVIOUS
<1>2. Append(s, m)[Len(s) + 1] = m /\ \A i \in 1 .. Len(s) : Append(s, m)[i] = s[i]
  OBVIOUS
<1>3. \A i \in 1 .. Len(s) + 1 : i \in 1 .. Len(s) \/ i = Len(s) + 1
  BY <1>1
<1>4. \A i \in 1 .. Len(s) : i \in 1 .. Len(s) + 1
  BY <1>1
<1>5. Len(s) + 1 \in 1 .. Len(s) + 1
  BY <1>1
<1>6. HasClosed(Append(s, m)) <=> HasClosed(s) \/ IsClosed(m)
  BY <1>1, <1>2, <1>3, <1>4, <1>5 DEF HasClosed
<1>7. ASSUME OneClosed(s), ~(HasClosed(s) /\ IsClosed(m)) PROVE OneClosed(Append(s, m))
  BY <1>1, <1>2, <1>3, <1>7 DEF OneClosed, HasClosed
<1> QED
  BY <1>1, <1>6, <1>7

LEMMA TailClosed ==
    ASSUME NEW T, NEW s \in Seq(T), s # <<>>
    PROVE  /\ Tail(s) \in Seq(T) /\ Head(s) \in T
           /\ HasClosed(s) <=> IsClosed(Head(s)) \/ HasClosed(Tail(s))
           /\ OneClosed(s) => OneClosed(Tail(s)) /\ ~(IsClosed(Head(s)) /\ HasClosed(Tail(s)))
<1>1. /\ Tail(s) \in Seq(T) /\ Head(s) = s[1] /\ Head(s) \in T /\ Len(s) \in Nat /\ Len(s) > 0
      /\ DOMAIN Tail(s) = 1 .. Len(s) - 1 /\ DOMAIN s = 1 .. Len(s)
  OBVIOUS
<1>2. \A i \in 1 .. Len(s) - 1 : Tail(s)[i] = s[i + 1] /\ i + 1 \in 1 .. Len(s)
  BY <1>1
<1>3. \A i \in 1 .. Len(s) : i = 1 \/ (i - 1 \in 1 .. Len(s) - 1 /\ Tail(s)[i - 1] = s[i])
  BY <1>1
<1>4. HasClosed(s) <=> IsClosed(Head(s)) \/ HasClosed(Tail(s))
  <2>1. ASSUME HasClosed(s) PROVE IsClosed(Head(s)) \/ HasClosed(Tail(s))
    <3>1. PICK i \in 1 .. Len(s) : IsClosed(s[i])
      BY <1>1, <2>1 DEF HasClosed
    <3> QED
      BY <1>1, <1>3, <3>1 DEF HasClosed
  <2>2. ASSUME HasClosed(Tail(s)) PROVE HasClosed(s)
    BY <1>1, <1>2, <2>2 DEF HasClosed
  <2>3. 1 \in 1 .. Len(s)
    BY <1>1
  <2> QED
    BY <1>1, <2>1, <2>2, <2>3 DEF HasClosed
<1>5. ASSUME OneClosed(s) PROVE OneClosed(Tail(s)) /\ ~(IsClosed(Head(s)) /\ HasClosed(Tail(s)))
  <2>1. \A i \in 1 .. Len(s) - 1 : i + 1 # 1
    BY <1>1
  <2>2. \A i, j \in 1 .. Len(s) - 1 : i + 1 = j + 1 => i = j
    BY <1>1
  <2> QED
    BY <1>1, <1>2, <1>5, <2>1, <2>2 DEF OneClosed, HasClosed
<1> QED
  BY <1>1, <1>4, <1>5

(* Data messages in a queue; DataTo(e) is their number on the wire to e. *)
DataIn(s) == {i \in DOMAIN s : s[i].type = "data"}
DataCount(s) == Cardinality(DataIn(s))

LEMMA DataFinite ==
    ASSUME NEW T, NEW s \in Seq(T)
    PROVE  IsFiniteSet(DataIn(s)) /\ DataCount(s) \in Nat /\ DataIn(s) \subseteq 1 .. Len(s) /\ Len(s) \in Nat
<1>1. DataIn(s) \subseteq 1 .. Len(s) /\ Len(s) \in Nat
  BY DEF DataIn
<1>2. IsFiniteSet(1 .. Len(s))
  BY <1>1, FS_Interval
<1> QED
  BY <1>1, <1>2, FS_Subset, FS_CardinalityType DEF DataCount

LEMMA AppendData ==
    ASSUME NEW T, NEW s \in Seq(T), NEW m \in T
    PROVE  DataCount(Append(s, m)) = DataCount(s) + (IF m.type = "data" THEN 1 ELSE 0)
<1>1. DOMAIN Append(s, m) = 1 .. Len(s) + 1 /\ DOMAIN s = 1 .. Len(s) /\ Len(s) \in Nat
  OBVIOUS
<1>2. Append(s, m)[Len(s) + 1] = m /\ \A i \in 1 .. Len(s) : Append(s, m)[i] = s[i]
  OBVIOUS
<1>3. \A i \in 1 .. Len(s) + 1 : i \in 1 .. Len(s) \/ i = Len(s) + 1
  BY <1>1
<1>4. 1 .. Len(s) \subseteq 1 .. Len(s) + 1 /\ Len(s) + 1 \in 1 .. Len(s) + 1 /\ Len(s) + 1 \notin 1 .. Len(s)
  BY <1>1
<1>5. CASE m.type = "data"
  <2>1. DataIn(Append(s, m)) = DataIn(s) \cup {Len(s) + 1}
    BY <1>1, <1>2, <1>3, <1>4, <1>5 DEF DataIn
  <2>2. Len(s) + 1 \notin DataIn(s)
    BY <1>4, DataFinite
  <2> QED
    BY <2>1, <2>2, <1>5, DataFinite, FS_AddElement DEF DataCount
<1>6. CASE m.type # "data"
  <2>1. DataIn(Append(s, m)) = DataIn(s)
    BY <1>1, <1>2, <1>3, <1>4, <1>6 DEF DataIn
  <2> QED
    BY <2>1, <1>6, DataFinite DEF DataCount
<1> QED
  BY <1>5, <1>6

LEMMA TailData ==
    ASSUME NEW T, NEW s \in Seq(T), s # <<>>
    PROVE  DataCount(s) = DataCount(Tail(s)) + (IF Head(s).type = "data" THEN 1 ELSE 0)
<1>1. /\ Tail(s) \in Seq(T) /\ Head(s) = s[1] /\ Len(s) \in Nat /\ Len(s) > 0
      /\ DOMAIN Tail(s) = 1 .. Len(s) - 1 /\ DOMAIN s = 1 .. Len(s)
  OBVIOUS
<1>2. \A i \in 1 .. Len(s) - 1 : Tail(s)[i] = s[i + 1] /\ i + 1 \in 1 .. Len(s)
  BY <1>1
<1>3. \A i \in 1 .. Len(s) : i = 1 \/ (i - 1 \in 1 .. Len(s) - 1 /\ Tail(s)[i - 1] = s[i])
  BY <1>1
<1> DEFINE f == [i \in DataIn(Tail(s)) |-> i + 1]
<1>4. f \in Bijection(DataIn(Tail(s)), DataIn(s) \ {1})
  <2>1. \A i \in DataIn(Tail(s)) : i \in Int /\ i + 1 \in DataIn(s) \ {1}
    BY <1>1, <1>2 DEF DataIn
  <2>2. f \in [DataIn(Tail(s)) -> DataIn(s) \ {1}]
    BY <2>1
  <2>3. \A i, j \in DataIn(Tail(s)) : f[i] = f[j] => i = j
    BY <2>1
  <2>4. \A k \in DataIn(s) \ {1} : k - 1 \in DataIn(Tail(s)) /\ f[k - 1] = k
    BY <1>1, <1>3 DEF DataIn
  <2> HIDE DEF f
  <2>5. f \in Injection(DataIn(Tail(s)), DataIn(s) \ {1})
    BY <2>2, <2>3 DEF Injection, IsInjective
  <2>6. f \in Surjection(DataIn(Tail(s)), DataIn(s) \ {1})
    BY <2>2, <2>4 DEF Surjection
  <2> QED
    BY <2>5, <2>6 DEF Bijection
<1>5. ExistsBijection(DataIn(Tail(s)), DataIn(s) \ {1})
  BY <1>4 DEF ExistsBijection
<1>6. Cardinality(DataIn(s) \ {1}) = DataCount(Tail(s))
  BY <1>1, <1>5, DataFinite, FS_Bijection DEF DataCount
<1>7. 1 \in DataIn(s) <=> Head(s).type = "data"
  BY <1>1 DEF DataIn
<1>8. Cardinality(DataIn(s) \ {1}) = IF 1 \in DataIn(s) THEN DataCount(s) - 1 ELSE DataCount(s)
  BY DataFinite, FS_RemoveElement DEF DataCount
<1> QED
  BY <1>1, <1>6, <1>7, <1>8, DataFinite

(* The chunks that the ACKs in a queue report, summed up: the sums f do    *)
(* not decrease, which the definition says so that no induction is needed. *)
Acked(m) == IF m.type = "ack" THEN m.count ELSE 0
Sums(s) ==
    {f \in [0 .. Len(s) -> Nat] :
        /\ f[0] = 0 /\ \A i \in 1 .. Len(s) : f[i] = f[i - 1] + Acked(s[i])
        /\ \A i, j \in 0 .. Len(s) : i <= j => f[i] <= f[j]}
AckCount(s, n) == \E f \in Sums(s) : f[Len(s)] = n

LEMMA AckedNat == \A m \in Messages : Acked(m) \in Nat /\ (m.type = "ack" => Acked(m) > 0)
BY DEF Messages, TccMessages, Acked

LEMMA EmptyAcks == AckCount(<<>>, 0)
<1> DEFINE f == [i \in {0} |-> 0]
<1>1. 0 .. 0 = {0} /\ 1 .. 0 = {} /\ Len(<<>>) = 0
  OBVIOUS
<1>2. f \in Sums(<<>>) /\ f[0] = 0
  BY <1>1 DEF Sums
<1> QED
  BY <1>1, <1>2 DEF AckCount

LEMMA AppendAcks ==
    ASSUME NEW s \in Seq(Messages), NEW m \in Messages, NEW n, AckCount(s, n)
    PROVE  AckCount(Append(s, m), n + Acked(m))
<1> DEFINE k == Len(s)
           t == Append(s, m)
<1>1. PICK f \in Sums(s) : f[k] = n
  BY DEF AckCount
<1> DEFINE g == [i \in 0 .. k + 1 |-> IF i = k + 1 THEN n + Acked(m) ELSE f[i]]
<1>2. /\ k \in Nat /\ Len(t) = k + 1 /\ t[k + 1] = m /\ \A i \in 1 .. k : t[i] = s[i]
  OBVIOUS
<1> HIDE DEF k, t
<1>3. f \in [0 .. k -> Nat] /\ f[0] = 0 /\ n \in Nat /\ Acked(m) \in Nat
  BY <1>1, <1>2, AckedNat DEF Sums, k
<1>4. \A i \in 1 .. k : f[i] = f[i - 1] + Acked(s[i])
  BY <1>1 DEF Sums, k
<1>5. \A i, j \in 0 .. k : i <= j => f[i] <= f[j]
  BY <1>1 DEF Sums, k
<1>6. g \in [0 .. k + 1 -> Nat] /\ g[0] = 0 /\ g[k + 1] = n + Acked(m)
  BY <1>2, <1>3
<1>7. ASSUME NEW i \in 1 .. k + 1 PROVE g[i] = g[i - 1] + Acked(t[i])
  <2>1. CASE i = k + 1
    BY <1>1, <1>2, <1>3, <2>1
  <2>2. CASE i \in 1 .. k
    BY <1>2, <1>3, <1>4, <2>2
  <2> QED
    BY <1>2, <2>1, <2>2
<1>8. ASSUME NEW i \in 0 .. k + 1, NEW j \in 0 .. k + 1, i <= j PROVE g[i] <= g[j]
  <2>1. CASE j = k + 1 /\ i = k + 1
    BY <1>2, <1>3, <2>1
  <2>2. CASE j = k + 1 /\ i \in 0 .. k
    <3>1. f[i] <= n /\ f[i] \in Nat
      BY <1>1, <1>2, <1>3, <1>5, <2>2
    <3> QED
      BY <1>2, <1>3, <2>2, <3>1
  <2>3. CASE j \in 0 .. k
    <3>1. i \in 0 .. k /\ i # k + 1 /\ j # k + 1
      BY <1>2, <1>8, <2>3
    <3> QED
      BY <1>5, <1>8, <2>3, <3>1
  <2> QED
    BY <1>2, <2>1, <2>2, <2>3
<1> HIDE DEF g
<1>9. g \in Sums(t)
  BY <1>2, <1>6, <1>7, <1>8 DEF Sums
<1> QED
  BY <1>2, <1>6, <1>9 DEF AckCount, t

LEMMA TailAcks ==
    ASSUME NEW s \in Seq(Messages), s # <<>>, NEW n, AckCount(s, n)
    PROVE  n \in Nat /\ n - Acked(Head(s)) \in Nat /\ AckCount(Tail(s), n - Acked(Head(s)))
<1> DEFINE k == Len(s)
           t == Tail(s)
<1>1. PICK f \in Sums(s) : f[k] = n
  BY DEF AckCount
<1> DEFINE g == [i \in 0 .. k - 1 |-> f[i + 1] - f[1]]
<1>2. /\ k \in Nat /\ k > 0 /\ Len(t) = k - 1 /\ Head(s) = s[1] /\ s[1] \in Messages
      /\ \A i \in 1 .. k - 1 : t[i] = s[i + 1]
  OBVIOUS
<1> HIDE DEF k, t
<1>3. f \in [0 .. k -> Nat] /\ f[0] = 0 /\ n \in Nat /\ Acked(s[1]) \in Nat
  BY <1>1, <1>2, AckedNat DEF Sums, k
<1>4. \A i \in 1 .. k : f[i] = f[i - 1] + Acked(s[i])
  BY <1>1 DEF Sums, k
<1>5. \A i, j \in 0 .. k : i <= j => f[i] <= f[j]
  BY <1>1 DEF Sums, k
<1>6. f[1] = Acked(s[1])
  BY <1>2, <1>3, <1>4
<1>7. \A i \in 0 .. k - 1 : i + 1 \in 1 .. k /\ f[i + 1] \in Nat /\ f[i + 1] >= f[1] /\ f[1] \in Nat
  BY <1>2, <1>3, <1>5
<1>8. g \in [0 .. k - 1 -> Nat] /\ g[0] = 0
  BY <1>2, <1>7
<1>9. g[k - 1] = n - f[1]
  BY <1>1, <1>2
<1>10. ASSUME NEW i \in 1 .. k - 1 PROVE g[i] = g[i - 1] + Acked(t[i])
  <2>1. f[i + 1] = f[i] + Acked(s[i + 1]) /\ t[i] = s[i + 1]
    BY <1>2, <1>4
  <2>2. g[i] = f[i + 1] - f[1] /\ g[i - 1] = f[i] - f[1]
    BY <1>2
  <2>3. f[i] \in Nat /\ f[1] \in Nat /\ f[i + 1] \in Nat
    BY <1>2, <1>3
  <2>4. Acked(s[i + 1]) \in Nat
    <3>1. s[i + 1] \in Messages
      BY <1>2 DEF k
    <3> QED
      BY <3>1, AckedNat
  <2> HIDE DEF g
  <2> QED
    BY <2>1, <2>2, <2>3, <2>4
<1>11. ASSUME NEW i \in 0 .. k - 1, NEW j \in 0 .. k - 1, i <= j PROVE g[i] <= g[j]
  <2>1. f[i + 1] <= f[j + 1]
    BY <1>2, <1>5, <1>11
  <2>2. g[i] = f[i + 1] - f[1] /\ g[j] = f[j + 1] - f[1]
    OBVIOUS
  <2>3. f[i + 1] \in Nat /\ f[j + 1] \in Nat /\ f[1] \in Nat
    BY <1>7
  <2> HIDE DEF g
  <2> QED
    BY <2>1, <2>2, <2>3
<1> HIDE DEF g
<1>12. g \in Sums(t)
  BY <1>2, <1>8, <1>10, <1>11 DEF Sums
<1>13. g[Len(t)] = n - Acked(Head(s)) /\ g[Len(t)] \in Nat
  BY <1>2, <1>6, <1>8, <1>9
<1> QED
  BY <1>3, <1>12, <1>13 DEF AckCount, t

(* An ACK, or a chunk, at the head of a queue counts. *)
LEMMA HeadCounts ==
    ASSUME NEW s \in Seq(Messages), s # <<>>
    PROVE  /\ Head(s).type = "data" => DataCount(s) > 0
           /\ \A n : AckCount(s, n) /\ Head(s).type = "ack" => n > 0
<1>1. Tail(s) \in Seq(Messages) /\ Head(s) \in Messages
  OBVIOUS
<1>2. DataCount(Tail(s)) \in Nat
  BY <1>1, DataFinite
<1>3. ASSUME NEW n, AckCount(s, n), Head(s).type = "ack" PROVE n > 0
  <2>1. n \in Nat /\ n - Acked(Head(s)) \in Nat
    BY <1>3, TailAcks
  <2>2. Acked(Head(s)) \in Nat /\ Acked(Head(s)) > 0
    BY <1>1, <1>3, AckedNat
  <2> QED
    BY <2>1, <2>2
<1> QED
  BY <1>2, <1>3, TailData

----------------------------------------------------------------------------
(* The invariant.                                                          *)

Finished(e) == closing[e] \in {"closedSent", "returned"}

(* What e has outstanding is on its way to the peer, there, or in an ACK. *)
Balanced(e) ==
    \E n : /\ AckCount(wire[e], n)
           /\ outstanding[e] = DataTo(Peer(e)) + buffered[Peer(e)] + held[Peer(e)] + ackable[Peer(e)] + n
(* A write task past its check has a chunk to send. *)
HasTask(e) == e \in sending /\ state[e] # "DISCONNECTED" => writes[e] # <<>>
(* Once drained, an end never sends data again. *)
Drained(e) ==
    closing[e] \in {"sendClosed", "closedSent", "returned"} => outstanding[e] = 0 /\ writes[e] = <<>>

OpenNotClosing(e) == state[e] = "OPEN" => closing[e] = "no"
(* chanClosed is sent once, ... *)
Announced(e) == OneClosed(tccOut[e]) /\ (HasClosed(tccOut[e]) => closing[e] = "sendClosed")
(* ... is from an end that has finished, and is handled only once; ... *)
Arriving(e) ==
    /\ OneClosed(wire[e]) /\ OneClosed(tccIn[e]) /\ ~(HasClosed(wire[e]) /\ HasClosed(tccIn[e]))
    /\ HasClosed(wire[e]) \/ HasClosed(tccIn[e]) =>
          Finished(Peer(e)) /\ state[e] \notin {"LOCAL_CLOSING", "CLOSED"}
(* ... and the state says which of the two chanClosed have been. *)
Agreed(e) ==
    /\ state[e] \in {"LOCAL_CLOSING", "CLOSED"} => Finished(Peer(e))
    /\ state[e] = "CLOSED" => Finished(e)
    /\ state[e] = "REMOTE_CLOSING" => closing[e] = "returned"

Accounts == \A e \in Ends : Balanced(e) /\ HasTask(e) /\ Drained(e)
Handshake == \A e \in Ends : OpenNotClosing(e) /\ Announced(e) /\ Arriving(e) /\ Agreed(e)
IInv == OnlyEchoIsLate /\ Accounts /\ Handshake

----------------------------------------------------------------------------
(* Facts for every action.                                                 *)

LEMMA PeerFacts ==
    \A e \in Ends : Peer(e) \in Ends /\ Peer(e) # e /\ Peer(Peer(e)) = e /\ \A o \in Ends : o = e \/ o = Peer(e)
<1>1. Peer("a") = "b"
  BY DEF Ends, Peer
<1>2. Peer("b") = "a"
  BY DEF Ends, Peer
<1> QED
  BY <1>1, <1>2 DEF Ends

LEMMA NatFacts ==
    ASSUME TypeOK
    PROVE  \A e \in Ends :
              /\ outstanding[e] \in Nat /\ buffered[e] \in Nat /\ held[e] \in Nat /\ ackable[e] \in Nat
              /\ wire[e] \in Seq(Messages) /\ tccOut[e] \in Seq(TccMessages) /\ tccIn[e] \in Seq(TccMessages)
              /\ DataTo(e) = DataCount(wire[e]) /\ DataTo(e) \in Nat
<1>1. \A e \in Ends : wire[e] \in Seq(Messages)
  BY DEF TypeOK
<1>2. \A e \in Ends : DataTo(e) = DataCount(wire[e])
  BY DEF DataTo, DataCount, DataIn
<1>3. \A e \in Ends : DataCount(wire[e]) \in Nat
  BY <1>1, DataFinite
<1> QED
  BY <1>1, <1>2, <1>3 DEF TypeOK

LEMMA MessageFacts ==
    /\ TccMessages \subseteq Messages
    /\ \A d \in BOOLEAN : ChanClose(d) \in TccMessages /\ ~IsClosed(ChanClose(d))
    /\ Message("chanClosed") \in TccMessages /\ IsClosed(Message("chanClosed"))
    /\ Message("data") \in Messages /\ Message("data").type = "data"
    /\ \A n \in Nat \ {0} : Ack(n) \in Messages /\ Ack(n).type = "ack" /\ Ack(n).count = n
    /\ \A m \in TccMessages : m.type \in {"chanClose", "chanClosed"} /\ Acked(m) = 0
    /\ \A m \in Messages : m.type \in {"chanClose", "chanClosed"} => m \in TccMessages
BY DEF TccMessages, Messages, ChanClose, Message, Ack, IsClosed, Acked

(* A message put on the wire to e, and the next one taken off it *)
LEMMA WireAppend ==
    ASSUME TypeOK, NEW e \in Ends, NEW m \in Messages, wire' = [wire EXCEPT ![e] = Append(@, m)]
    PROVE  /\ wire' \in [Ends -> Seq(Messages)] /\ \A o \in Ends : o # e => wire'[o] = wire[o]
           /\ DataTo(e)' = DataTo(e) + (IF m.type = "data" THEN 1 ELSE 0)
           /\ \A o \in Ends : o # e => DataTo(o)' = DataTo(o)
           /\ \A n : AckCount(wire[e], n) => AckCount(wire'[e], n + Acked(m))
           /\ HasClosed(wire'[e]) <=> HasClosed(wire[e]) \/ IsClosed(m)
           /\ OneClosed(wire[e]) /\ ~(HasClosed(wire[e]) /\ IsClosed(m)) => OneClosed(wire'[e])
<1>1. wire \in [Ends -> Seq(Messages)] /\ wire[e] \in Seq(Messages)
  BY DEF TypeOK
<1>2. wire'[e] = Append(wire[e], m) /\ \A o \in Ends : o # e => wire'[o] = wire[o]
  BY <1>1
<1>3. Append(wire[e], m) \in Seq(Messages)
  BY <1>1, AppendClosed
<1>4. wire' \in [Ends -> Seq(Messages)]
  BY <1>1, <1>3
<1>5. DataTo(e)' = DataCount(wire'[e]) /\ DataTo(e) = DataCount(wire[e])
      /\ \A o \in Ends : o # e => DataTo(o)' = DataTo(o)
  BY <1>2 DEF DataTo, DataCount, DataIn
<1> QED
  BY <1>1, <1>2, <1>4, <1>5, AppendClosed, AppendData, AppendAcks

LEMMA WireTail ==
    ASSUME TypeOK, NEW e \in Ends, wire[e] # <<>>, wire' = [wire EXCEPT ![e] = Tail(@)]
    PROVE  /\ wire' \in [Ends -> Seq(Messages)] /\ \A o \in Ends : o # e => wire'[o] = wire[o]
           /\ Head(wire[e]) \in Messages
           /\ DataTo(e) = DataTo(e)' + (IF Head(wire[e]).type = "data" THEN 1 ELSE 0) /\ DataTo(e)' \in Nat
           /\ \A o \in Ends : o # e => DataTo(o)' = DataTo(o)
           /\ \A n : AckCount(wire[e], n) =>
                 n \in Nat /\ n - Acked(Head(wire[e])) \in Nat /\ AckCount(wire'[e], n - Acked(Head(wire[e])))
           /\ HasClosed(wire[e]) <=> IsClosed(Head(wire[e])) \/ HasClosed(wire'[e])
           /\ OneClosed(wire[e]) => OneClosed(wire'[e]) /\ ~(IsClosed(Head(wire[e])) /\ HasClosed(wire'[e]))
<1>1. wire \in [Ends -> Seq(Messages)] /\ wire[e] \in Seq(Messages)
  BY DEF TypeOK
<1>2. wire'[e] = Tail(wire[e]) /\ \A o \in Ends : o # e => wire'[o] = wire[o]
  BY <1>1
<1>3. Tail(wire[e]) \in Seq(Messages) /\ Head(wire[e]) \in Messages
  BY <1>1, TailClosed
<1>4. wire' \in [Ends -> Seq(Messages)]
  BY <1>1, <1>3
<1>5. DataTo(e)' = DataCount(wire'[e]) /\ DataTo(e) = DataCount(wire[e])
      /\ \A o \in Ends : o # e => DataTo(o)' = DataTo(o)
  BY <1>2 DEF DataTo, DataCount, DataIn
<1>6. DataCount(wire'[e]) \in Nat
  BY <1>2, <1>3, DataFinite
<1> QED
  BY <1>1, <1>2, <1>3, <1>4, <1>5, <1>6, TailClosed, TailData, TailAcks

(* Steps that leave the handshake alone *)
LEMMA SameHandshake ==
    ASSUME Handshake, UNCHANGED <<state, closing, tccOut, tccIn>>,
           \A o \in Ends : (HasClosed(wire'[o]) <=> HasClosed(wire[o])) /\ (OneClosed(wire[o]) => OneClosed(wire'[o]))
    PROVE  Handshake'
BY DEF Handshake, OpenNotClosing, Announced, Arriving, Agreed, Finished

(* Steps that leave the chunks alone *)
LEMMA SameBalance ==
    ASSUME Accounts, UNCHANGED <<outstanding, wire, buffered, held, ackable>>
    PROVE  \A o \in Ends : Balanced(o)'
BY DEF Accounts, Balanced, DataTo

LEMMA InvInit == Init => IInv
<1> SUFFICES ASSUME Init PROVE IInv
  OBVIOUS
<1>1. TypeOK
  BY ChunksAssumption DEF Init, TypeOK
<1>2. ASSUME NEW e \in Ends PROVE Balanced(e)
  <2>1. \A o \in Ends : wire[o] = <<>>
    BY DEF Init
  <2>2. Peer(e) \in Ends
    BY PeerFacts
  <2>3. DataTo(Peer(e)) = 0
    <3>1. {i \in DOMAIN wire[Peer(e)] : wire[Peer(e)][i].type = "data"} = {}
      BY <2>1, <2>2
    <3> QED
      BY <3>1, FS_EmptySet DEF DataTo
  <2> QED
    BY <2>1, <2>2, <2>3, EmptyAcks DEF Init, Balanced
<1>3. Accounts
  BY <1>2 DEF Init, Accounts, HasTask, Drained
<1>4. Handshake
  BY DEF Init, Handshake, OpenNotClosing, Announced, Arriving, Agreed, HasClosed, OneClosed
<1> QED
  BY <1>1, <1>3, <1>4 DEF IInv, OnlyEchoIsLate, Init

----------------------------------------------------------------------------
(* Writing and reading keep the invariant.                                 *)

LEMMA WriteKeeps == ASSUME IInv, NEW e \in Ends, Write(e) PROVE IInv'
<1>1. TypeOK /\ Accounts /\ Handshake /\ faults \subseteq {"chanClose"}
  BY DEF IInv, OnlyEchoIsLate
<1>2. /\ writes' = [writes EXCEPT ![e] = Append(@, MessageChunks)] /\ written' = [written EXCEPT ![e] = @ + 1]
      /\ UNCHANGED <<closeVars, closes, sending, outstanding, readVars, tccOut, wire, tccIn, faults>>
      /\ closing[e] = "no"
  BY <1>1 DEF Write, Handshake, OpenNotClosing
<1>3. writes[e] \in Seq(1 .. MessageChunks) /\ MessageChunks \in 1 .. MessageChunks
  BY <1>1, ChunksAssumption DEF TypeOK
<1>4. Append(writes[e], MessageChunks) \in Seq(1 .. MessageChunks) /\ Append(writes[e], MessageChunks) # <<>>
  BY <1>3
<1>5. TypeOK'
  <2>1. writes' \in [Ends -> Seq(1 .. MessageChunks)] /\ written' \in [Ends -> Nat]
    <3>1. writes \in [Ends -> Seq(1 .. MessageChunks)] /\ written \in [Ends -> Nat]
      BY <1>1 DEF TypeOK
    <3> QED
      BY <1>2, <1>4, <3>1
  <2> QED
    BY <1>1, <1>2, <2>1 DEF TypeOK, closeVars, readVars
<1>6. \A o \in Ends : HasTask(o)' /\ Drained(o)'
  BY <1>1, <1>2, <1>4 DEF TypeOK, Accounts, HasTask, Drained, closeVars, readVars
<1>7. Handshake' /\ \A o \in Ends : Balanced(o)'
  BY <1>1, <1>2, SameHandshake, SameBalance DEF closeVars, readVars
<1> QED
  BY <1>1, <1>2, <1>5, <1>6, <1>7 DEF IInv, OnlyEchoIsLate, Accounts

LEMMA NextChunkKeeps == ASSUME IInv, NEW e \in Ends, NextChunk(e) PROVE IInv'
<1>1. TypeOK /\ Accounts /\ Handshake /\ faults \subseteq {"chanClose"}
  BY DEF IInv, OnlyEchoIsLate
<1>2. /\ writes[e] # <<>> /\ e \notin sending
      /\ UNCHANGED <<closeVars, closes, written, outstanding, readVars, tccOut, wire, tccIn, faults>>
      /\ \/ writes' = [writes EXCEPT ![e] = Tail(@)] /\ sending' = sending
         \/ sending' = sending \cup {e} /\ writes' = writes
  BY DEF NextChunk
<1>3. Tail(writes[e]) \in Seq(1 .. MessageChunks)
  BY <1>1, <1>2 DEF TypeOK
<1>4. TypeOK'
  BY <1>1, <1>2, <1>3 DEF TypeOK, closeVars, readVars
<1>5. \A o \in Ends : HasTask(o)' /\ Drained(o)'
  <2> TAKE o \in Ends
  <2>1. HasTask(o) /\ Drained(o) /\ writes \in [Ends -> Seq(1 .. MessageChunks)]
    BY <1>1 DEF Accounts, TypeOK
  <2>2. o # e => writes'[o] = writes[o] /\ (o \in sending' <=> o \in sending)
    BY <1>2, <2>1
  <2>3. o = e => HasTask(o)' /\ Drained(o)'
    <3>1. CASE writes' = [writes EXCEPT ![e] = Tail(@)] /\ sending' = sending
      BY <1>2, <2>1, <3>1 DEF HasTask, Drained, closeVars, readVars
    <3>2. CASE sending' = sending \cup {e} /\ writes' = writes
      BY <1>2, <2>1, <3>2 DEF HasTask, Drained, closeVars, readVars
    <3> QED
      BY <1>2, <3>1, <3>2
  <2> QED
    BY <1>2, <2>1, <2>2, <2>3 DEF HasTask, Drained, closeVars, readVars
<1>6. Handshake' /\ \A o \in Ends : Balanced(o)'
  BY <1>1, <1>2, SameHandshake, SameBalance DEF closeVars, readVars
<1> QED
  BY <1>1, <1>2, <1>4, <1>5, <1>6 DEF IInv, OnlyEchoIsLate, Accounts

(* What is left to write once a chunk is sent, is still to be written *)
LEMMA SeqFacts ==
    ASSUME NEW S, NEW w \in Seq(S), w # <<>>
    PROVE  /\ Head(w) = w[1] /\ w[1] \in S /\ Len(w) \in Nat /\ Len(w) > 0
           /\ Tail(w) \in Seq(S) /\ w \in [1 .. Len(w) -> S]
OBVIOUS

LEMMA OneChunkLessFacts ==
    ASSUME NEW w \in Seq(1 .. MessageChunks), w # <<>>
    PROVE  OneChunkLess(w) \in Seq(1 .. MessageChunks)
<1>1. /\ Head(w) = w[1] /\ w[1] \in 1 .. MessageChunks /\ Len(w) \in Nat /\ Len(w) > 0
      /\ Tail(w) \in Seq(1 .. MessageChunks) /\ w \in [1 .. Len(w) -> 1 .. MessageChunks]
  BY SeqFacts
<1>2. CASE Head(w) = 1
  BY <1>1, <1>2 DEF OneChunkLess
<1>3. CASE Head(w) # 1
  <2>1. w[1] - 1 \in 1 .. MessageChunks
    BY <1>1, <1>3, ChunksAssumption
  <2>3. [w EXCEPT ![1] = w[1] - 1] \in [1 .. Len(w) -> 1 .. MessageChunks]
    BY <1>1, <2>1
  <2>4. [w EXCEPT ![1] = w[1] - 1] \in Seq(1 .. MessageChunks)
    BY <1>1, <2>3
  <2> QED
    BY <1>3, <2>4 DEF OneChunkLess
<1> QED
  BY <1>2, <1>3

LEMMA SendChunkKeeps == ASSUME IInv, NEW e \in Ends, SendChunk(e) PROVE IInv'
<1> DEFINE p == Peer(e)
           m == Message("data")
<1>1. TypeOK /\ Accounts /\ Handshake /\ faults \subseteq {"chanClose"}
  BY DEF IInv, OnlyEchoIsLate
<1>2. p \in Ends /\ p # e /\ Peer(p) = e /\ \A o \in Ends : o = e \/ o = p
  BY PeerFacts
<1> HIDE DEF p
<1>3. /\ state[e] # "DISCONNECTED" /\ e \in sending /\ outstanding[e] < Limit /\ sending' = sending \ {e}
      /\ wire' = [wire EXCEPT ![p] = Append(@, m)] /\ outstanding' = [outstanding EXCEPT ![e] = @ + 1]
      /\ writes' = [writes EXCEPT ![e] = OneChunkLess(writes[e])]
      /\ UNCHANGED <<closeVars, closes, written, readVars, tccOut, tccIn, faults>>
  BY DEF SendChunk, p
<1>4. writes[e] # <<>> /\ closing[e] \notin {"sendClosed", "closedSent", "returned"}
  BY <1>1, <1>3 DEF Accounts, HasTask, Drained
<1>5. m \in Messages /\ m.type = "data" /\ ~IsClosed(m) /\ Acked(m) = 0
  BY MessageFacts DEF Acked, IsClosed
<1> HIDE DEF m
<1>6. OneChunkLess(writes[e]) \in Seq(1 .. MessageChunks)
  BY <1>1, <1>4, OneChunkLessFacts DEF TypeOK
<1>7. outstanding \in [Ends -> Nat] /\ outstanding[e] \in Nat /\ \A o \in Ends : outstanding[o] <= Limit
  BY <1>1 DEF TypeOK
<1>8. TypeOK'
  <2>1. outstanding' \in [Ends -> Nat] /\ \A o \in Ends : outstanding'[o] <= Limit
    BY <1>3, <1>7, ChunksAssumption
  <2>2. wire' \in [Ends -> Seq(Messages)]
    BY <1>1, <1>2, <1>3, <1>5, WireAppend
  <2> QED
    BY <1>1, <1>3, <1>6, <2>1, <2>2 DEF TypeOK, closeVars, readVars
<1>9. \A o \in Ends : HasTask(o)' /\ Drained(o)'
  BY <1>1, <1>2, <1>3, <1>4 DEF TypeOK, Accounts, HasTask, Drained, closeVars, readVars
<1>10. Balanced(e)'
  <2>1. PICK n : AckCount(wire[e], n) /\ outstanding[e] = DataTo(p) + buffered[p] + held[p] + ackable[p] + n
    BY <1>1 DEF Accounts, Balanced, p
  <2>2. DataTo(p)' = DataTo(p) + 1 /\ wire'[e] = wire[e]
    BY <1>1, <1>2, <1>3, <1>5, WireAppend
  <2>3. outstanding'[e] = outstanding[e] + 1
    BY <1>3, <1>7
  <2>4. n \in Nat
    BY <2>1 DEF AckCount, Sums
  <2>5. outstanding'[e] = DataTo(p)' + buffered[p] + held[p] + ackable[p] + n
    <3>1. /\ DataTo(p) \in Nat /\ buffered[p] \in Nat /\ held[p] \in Nat /\ ackable[p] \in Nat
          /\ outstanding[e] \in Nat
      BY <1>1, <1>2, NatFacts
    <3>2. DataTo(p)' = DataTo(p) + 1
      BY <2>2
    <3> QED
      BY <2>1, <2>3, <2>4, <3>1, <3>2
  <2> QED
    BY <1>3, <2>1, <2>2, <2>5 DEF Balanced, readVars, p
<1>11. Balanced(p)'
  <2>1. PICK n : AckCount(wire[p], n) /\ outstanding[p] = DataTo(e) + buffered[e] + held[e] + ackable[e] + n
    BY <1>1, <1>2 DEF Accounts, Balanced
  <2>2. n \in Nat
    BY <2>1 DEF AckCount, Sums
  <2>3. DataTo(e)' = DataTo(e) /\ AckCount(wire'[p], n + 0)
    BY <1>1, <1>2, <1>3, <1>5, <2>1, WireAppend
  <2>4. outstanding'[p] = outstanding[p]
    BY <1>2, <1>3, <1>7
  <2> QED
    BY <1>2, <1>3, <2>1, <2>2, <2>3, <2>4 DEF Balanced, readVars
<1>12. Handshake'
  <2>1. \A o \in Ends : (HasClosed(wire'[o]) <=> HasClosed(wire[o])) /\ (OneClosed(wire[o]) => OneClosed(wire'[o]))
    <3>1. \A o \in Ends : o # p => wire'[o] = wire[o]
      BY <1>1, <1>2, <1>3, <1>5, WireAppend
    <3>2. (HasClosed(wire'[p]) <=> HasClosed(wire[p])) /\ (OneClosed(wire[p]) => OneClosed(wire'[p]))
      BY <1>1, <1>2, <1>3, <1>5, WireAppend
    <3> QED
      BY <1>2, <3>1, <3>2
  <2> QED
    BY <1>1, <1>3, <2>1, SameHandshake DEF closeVars
<1> QED
  BY <1>1, <1>2, <1>3, <1>8, <1>9, <1>10, <1>11, <1>12 DEF IInv, OnlyEchoIsLate, Accounts

LEMMA ReadKeeps == ASSUME IInv, NEW e \in Ends, Read(e) \/ Done(e) PROVE IInv'
<1> DEFINE p == Peer(e)
<1>1. TypeOK /\ Accounts /\ Handshake /\ faults \subseteq {"chanClose"}
  BY DEF IInv, OnlyEchoIsLate
<1>2. p \in Ends /\ p # e /\ Peer(p) = e /\ \A o \in Ends : o = e \/ o = p
  BY PeerFacts
<1> HIDE DEF p
<1>3. /\ UNCHANGED <<closeVars, closes, writeVars, outstanding, tccOut, wire, tccIn, faults>>
      /\ \/ /\ buffered[e] > 0 /\ buffered' = [buffered EXCEPT ![e] = @ - 1] /\ held' = [held EXCEPT ![e] = @ + 1]
            /\ ackable' = ackable
         \/ /\ held[e] > 0 /\ held' = [held EXCEPT ![e] = @ - 1] /\ ackable' = [ackable EXCEPT ![e] = @ + 1]
            /\ buffered' = buffered
  BY DEF Read, Done
<1>4. buffered \in [Ends -> Nat] /\ held \in [Ends -> Nat] /\ ackable \in [Ends -> Nat]
  BY <1>1 DEF TypeOK
<1>5. buffered' \in [Ends -> Nat] /\ held' \in [Ends -> Nat] /\ ackable' \in [Ends -> Nat]
  <2>0. buffered[e] \in Nat /\ held[e] \in Nat /\ ackable[e] \in Nat
    BY <1>4
  <2>1. CASE /\ buffered[e] > 0 /\ buffered' = [buffered EXCEPT ![e] = @ - 1]
             /\ held' = [held EXCEPT ![e] = @ + 1] /\ ackable' = ackable
    <3>1. buffered[e] - 1 \in Nat /\ held[e] + 1 \in Nat
      BY <2>0, <2>1
    <3> QED
      BY <1>4, <2>1, <3>1
  <2>2. CASE /\ held[e] > 0 /\ held' = [held EXCEPT ![e] = @ - 1]
             /\ ackable' = [ackable EXCEPT ![e] = @ + 1] /\ buffered' = buffered
    <3>1. held[e] - 1 \in Nat /\ ackable[e] + 1 \in Nat
      BY <2>0, <2>2
    <3> QED
      BY <1>4, <2>2, <3>1
  <2> QED
    BY <1>3, <2>1, <2>2
<1>6. TypeOK'
  BY <1>1, <1>3, <1>5 DEF TypeOK, closeVars, writeVars
<1>7. \A o \in Ends : HasTask(o)' /\ Drained(o)'
  BY <1>1, <1>3 DEF Accounts, HasTask, Drained, closeVars, writeVars
<1>8. Balanced(e)'
  <2>1. buffered'[p] = buffered[p] /\ held'[p] = held[p] /\ ackable'[p] = ackable[p]
    BY <1>2, <1>3, <1>4
  <2> QED
    BY <1>1, <1>2, <1>3, <2>1 DEF Accounts, Balanced, DataTo, p
<1>9. Balanced(p)'
  <2>1. buffered'[e] + held'[e] + ackable'[e] = buffered[e] + held[e] + ackable[e]
    BY <1>3, <1>4
  <2>2. PICK n : AckCount(wire[p], n) /\ outstanding[p] = DataTo(e) + buffered[e] + held[e] + ackable[e] + n
    BY <1>1, <1>2 DEF Accounts, Balanced
  <2>3. n \in Nat /\ DataTo(e) \in Nat
    <3>1. Len(wire[p]) \in Nat /\ DataTo(e) \in Nat
      <4>1. wire[p] \in Seq(Messages) /\ DataTo(e) \in Nat
        BY <1>1, <1>2, NatFacts
      <4> QED
        BY <4>1
    <3>2. PICK f \in [0 .. Len(wire[p]) -> Nat] : f[Len(wire[p])] = n
      BY <2>2 DEF AckCount, Sums
    <3> QED
      BY <3>1, <3>2
  <2>4. wire'[p] = wire[p] /\ outstanding'[p] = outstanding[p] /\ DataTo(e)' = DataTo(e)
    BY <1>3 DEF DataTo
  <2>5. outstanding[p] = DataTo(e) + buffered'[e] + held'[e] + ackable'[e] + n
    <3>1. /\ buffered[e] \in Nat /\ held[e] \in Nat /\ ackable[e] \in Nat
          /\ buffered'[e] \in Nat /\ held'[e] \in Nat /\ ackable'[e] \in Nat
      BY <1>4, <1>5
    <3> QED
      BY <2>1, <2>2, <2>3, <3>1
  <2> QED
    BY <1>2, <2>2, <2>4, <2>5 DEF Balanced
<1>10. Handshake'
  BY <1>1, <1>3, SameHandshake DEF closeVars
<1> QED
  BY <1>1, <1>2, <1>3, <1>6, <1>7, <1>8, <1>9, <1>10 DEF IInv, OnlyEchoIsLate, Accounts

----------------------------------------------------------------------------
(* So do the messages between the ends.                                    *)

(* The two balances that e takes part in *)
LEMMA BalancedFacts ==
    ASSUME TypeOK, Accounts, NEW e \in Ends
    PROVE  \E n \in Nat : /\ AckCount(wire[e], n)
                          /\ outstanding[e] = DataTo(Peer(e)) + buffered[Peer(e)] + held[Peer(e)] + ackable[Peer(e)] + n
<1>1. PICK n : /\ AckCount(wire[e], n)
               /\ outstanding[e] = DataTo(Peer(e)) + buffered[Peer(e)] + held[Peer(e)] + ackable[Peer(e)] + n
  BY DEF Accounts, Balanced
<1>2. n \in Nat
  BY <1>1 DEF AckCount, Sums
<1> QED
  BY <1>1, <1>2

LEMMA SendAckKeeps == ASSUME IInv, NEW e \in Ends, SendAck(e) PROVE IInv'
<1> DEFINE p == Peer(e)
<1>1. TypeOK /\ Accounts /\ Handshake /\ faults \subseteq {"chanClose"}
  BY DEF IInv, OnlyEchoIsLate
<1>2. p \in Ends /\ p # e /\ Peer(p) = e /\ \A o \in Ends : o = e \/ o = p
  BY PeerFacts
<1> HIDE DEF p
<1>n. \A o \in Ends : /\ outstanding[o] \in Nat /\ buffered[o] \in Nat /\ held[o] \in Nat
                      /\ ackable[o] \in Nat /\ DataTo(o) \in Nat
  BY <1>1, NatFacts
<1> DEFINE m == Ack(ackable[e])
<1>3. /\ ackable[e] > 0 /\ ackable' = [ackable EXCEPT ![e] = 0] /\ wire' = [wire EXCEPT ![p] = Append(@, m)]
      /\ UNCHANGED <<closeVars, closes, writeVars, outstanding, buffered, held, tccOut, tccIn, faults>>
  BY DEF SendAck, p
<1>4. m \in Messages /\ m.type = "ack" /\ ~IsClosed(m) /\ Acked(m) = ackable[e]
  BY <1>3, <1>n, MessageFacts DEF Acked, IsClosed
<1> HIDE DEF m
<1>5. ackable \in [Ends -> Nat] /\ ackable' \in [Ends -> Nat]
  BY <1>1, <1>3 DEF TypeOK
<1>w. wire' \in [Ends -> Seq(Messages)] /\ wire'[e] = wire[e] /\ DataTo(p)' = DataTo(p) /\ DataTo(e)' = DataTo(e)
      /\ (\A n : AckCount(wire[p], n) => AckCount(wire'[p], n + ackable[e]))
      /\ (HasClosed(wire'[p]) <=> HasClosed(wire[p])) /\ (OneClosed(wire[p]) => OneClosed(wire'[p]))
  <2>1. DataTo(p)' = DataTo(p) + 0 /\ DataTo(p) \in Nat
    BY <1>1, <1>2, <1>3, <1>4, <1>n, WireAppend
  <2>2. wire' \in [Ends -> Seq(Messages)] /\ wire'[e] = wire[e] /\ DataTo(e)' = DataTo(e)
    BY <1>1, <1>2, <1>3, <1>4, WireAppend
  <2>3. \A n : AckCount(wire[p], n) => AckCount(wire'[p], n + ackable[e])
    BY <1>1, <1>2, <1>3, <1>4, WireAppend
  <2>4. (HasClosed(wire'[p]) <=> HasClosed(wire[p])) /\ (OneClosed(wire[p]) => OneClosed(wire'[p]))
    BY <1>1, <1>2, <1>3, <1>4, WireAppend
  <2>5. DataTo(p)' = DataTo(p)
    BY <2>1
  <2> QED
    BY <2>2, <2>3, <2>4, <2>5
<1>6. TypeOK'
  BY <1>1, <1>3, <1>5, <1>w DEF TypeOK, closeVars, writeVars
<1>7. \A o \in Ends : HasTask(o)' /\ Drained(o)'
  BY <1>1, <1>3 DEF Accounts, HasTask, Drained, closeVars, writeVars
<1>8. Balanced(e)'
  <2>1. ackable'[p] = ackable[p]
    BY <1>2, <1>3, <1>5
  <2> QED
    BY <1>1, <1>2, <1>3, <1>w, <2>1 DEF Accounts, Balanced, p
<1>9. Balanced(p)'
  <2>1. PICK n \in Nat : AckCount(wire[p], n) /\ outstanding[p] = DataTo(e) + buffered[e] + held[e] + ackable[e] + n
    BY <1>1, <1>2, BalancedFacts
  <2>2. AckCount(wire'[p], n + ackable[e]) /\ ackable'[e] = 0
    BY <1>2, <1>3, <1>5, <1>w, <2>1
  <2>3. outstanding[p] = DataTo(e) + buffered[e] + held[e] + 0 + (n + ackable[e])
    BY <1>2, <1>n, <2>1
  <2> QED
    BY <1>2, <1>3, <1>w, <2>2, <2>3 DEF Balanced
<1>10. Handshake'
  <2>1. \A o \in Ends : (HasClosed(wire'[o]) <=> HasClosed(wire[o])) /\ (OneClosed(wire[o]) => OneClosed(wire'[o]))
    BY <1>2, <1>w
  <2> QED
    BY <1>1, <1>3, <2>1, SameHandshake DEF closeVars
<1> QED
  BY <1>1, <1>2, <1>3, <1>6, <1>7, <1>8, <1>9, <1>10 DEF IInv, OnlyEchoIsLate, Accounts

(* No data comes to an end that is closed: its peer has drained. *)
LEMMA ReceiveDataKeeps == ASSUME IInv, NEW e \in Ends, ReceiveData(e) PROVE IInv' /\ faults' = faults
<1> DEFINE p == Peer(e)
<1>1. TypeOK /\ Accounts /\ Handshake /\ faults \subseteq {"chanClose"}
  BY DEF IInv, OnlyEchoIsLate
<1>2. p \in Ends /\ p # e /\ Peer(p) = e /\ \A o \in Ends : o = e \/ o = p
  BY PeerFacts
<1> HIDE DEF p
<1>n. \A o \in Ends : /\ outstanding[o] \in Nat /\ buffered[o] \in Nat /\ held[o] \in Nat
                      /\ ackable[o] \in Nat /\ DataTo(o) \in Nat
  BY <1>1, NatFacts
<1>3. /\ wire[e] # <<>> /\ Head(wire[e]).type = "data" /\ wire' = [wire EXCEPT ![e] = Tail(@)]
      /\ UNCHANGED <<closeVars, closes, writeVars, outstanding, tccOut, tccIn>>
  BY DEF ReceiveData
<1>w. /\ wire' \in [Ends -> Seq(Messages)] /\ wire'[p] = wire[p] /\ DataTo(p)' = DataTo(p)
      /\ DataTo(e) = DataTo(e)' + 1 /\ DataTo(e)' \in Nat
      /\ (\A n \in Nat : AckCount(wire[e], n) => AckCount(wire'[e], n))
      /\ (HasClosed(wire'[e]) <=> HasClosed(wire[e])) /\ (OneClosed(wire[e]) => OneClosed(wire'[e]))
  <2>1. Head(wire[e]) \in Messages /\ ~IsClosed(Head(wire[e])) /\ Acked(Head(wire[e])) = 0
    BY <1>1, <1>3, WireTail DEF IsClosed, Acked
  <2>2. \A n \in Nat : AckCount(wire[e], n) => AckCount(wire'[e], n - 0)
    BY <1>1, <1>3, <2>1, WireTail
  <2>3. \A n \in Nat : n - 0 = n
    OBVIOUS
  <2> QED
    BY <1>1, <1>2, <1>3, <2>1, <2>2, <2>3, WireTail
<1>4. PICK n \in Nat : AckCount(wire[p], n) /\ outstanding[p] = DataTo(e) + buffered[e] + held[e] + ackable[e] + n
  BY <1>1, <1>2, BalancedFacts
<1>5. state[e] # "CLOSED"
  <2>1. ASSUME state[e] = "CLOSED" PROVE outstanding[p] = 0
    BY <1>1, <1>2, <2>1 DEF Handshake, Agreed, Finished, Accounts, Drained, p
  <2>2. outstanding[p] > 0
    BY <1>2, <1>4, <1>n, <1>w
  <2> QED
    BY <2>1, <2>2
<1>6. /\ faults' = faults /\ held' = held
      /\ \/ ackable' = [ackable EXCEPT ![e] = @ + 1] /\ buffered' = buffered
         \/ buffered' = [buffered EXCEPT ![e] = @ + 1] /\ ackable' = ackable
  BY <1>5 DEF ReceiveData
<1>7. buffered \in [Ends -> Nat] /\ held \in [Ends -> Nat] /\ ackable \in [Ends -> Nat]
  BY <1>1 DEF TypeOK
<1>8. /\ buffered' \in [Ends -> Nat] /\ ackable' \in [Ends -> Nat]
      /\ buffered'[p] = buffered[p] /\ ackable'[p] = ackable[p]
      /\ buffered'[e] + ackable'[e] = buffered[e] + ackable[e] + 1
  BY <1>2, <1>6, <1>7
<1>9. TypeOK'
  BY <1>1, <1>3, <1>6, <1>8, <1>w DEF TypeOK, closeVars, writeVars
<1>10. \A o \in Ends : HasTask(o)' /\ Drained(o)'
  BY <1>1, <1>3 DEF Accounts, HasTask, Drained, closeVars, writeVars
<1>11. Balanced(e)'
  <2>1. PICK k \in Nat : AckCount(wire[e], k) /\ outstanding[e] = DataTo(p) + buffered[p] + held[p] + ackable[p] + k
    BY <1>1, BalancedFacts DEF p
  <2> QED
    BY <1>2, <1>3, <1>6, <1>8, <1>w, <2>1 DEF Balanced, p
<1>12. Balanced(p)'
  <2>1. outstanding[p] = DataTo(e)' + buffered'[e] + held[e] + ackable'[e] + n
    <3>1. buffered'[e] \in Nat /\ ackable'[e] \in Nat
      BY <1>8
    <3>2. DataTo(e)' \in Nat /\ DataTo(e) = DataTo(e)' + 1
      BY <1>w
    <3> QED
      BY <1>2, <1>4, <1>8, <1>n, <3>1, <3>2
  <2> QED
    BY <1>2, <1>3, <1>4, <1>6, <1>w, <2>1 DEF Balanced
<1>13. Handshake'
  <2>1. \A o \in Ends : (HasClosed(wire'[o]) <=> HasClosed(wire[o])) /\ (OneClosed(wire[o]) => OneClosed(wire'[o]))
    BY <1>2, <1>w
  <2> QED
    BY <1>1, <1>3, <2>1, SameHandshake DEF closeVars
<1> QED
  BY <1>1, <1>2, <1>6, <1>9, <1>10, <1>11, <1>12, <1>13 DEF IInv, OnlyEchoIsLate, Accounts

(* No ACK either: it has drained itself. *)
LEMMA ReceiveAckKeeps == ASSUME IInv, NEW e \in Ends, ReceiveAck(e) PROVE IInv' /\ faults' = faults
<1> DEFINE p == Peer(e)
<1>1. TypeOK /\ Accounts /\ Handshake /\ faults \subseteq {"chanClose"}
  BY DEF IInv, OnlyEchoIsLate
<1>2. p \in Ends /\ p # e /\ Peer(p) = e /\ \A o \in Ends : o = e \/ o = p
  BY PeerFacts
<1> HIDE DEF p
<1>n. \A o \in Ends : /\ outstanding[o] \in Nat /\ buffered[o] \in Nat /\ held[o] \in Nat
                      /\ ackable[o] \in Nat /\ DataTo(o) \in Nat
  BY <1>1, NatFacts
<1>3. /\ wire[e] # <<>> /\ Head(wire[e]).type = "ack" /\ wire' = [wire EXCEPT ![e] = Tail(@)]
      /\ UNCHANGED <<closeVars, closes, writeVars, readVars, tccOut, tccIn>>
  BY DEF ReceiveAck
<1> DEFINE c == Head(wire[e]).count
<1>4. /\ Head(wire[e]) \in Messages /\ ~IsClosed(Head(wire[e])) /\ Acked(Head(wire[e])) = c
      /\ c \in Nat /\ c > 0
  <2>1. Head(wire[e]) \in Messages
    BY <1>1, <1>3, WireTail
  <2> QED
    BY <1>3, <2>1, AckedNat DEF IsClosed, Acked
<1> HIDE DEF c
<1>w. /\ wire' \in [Ends -> Seq(Messages)] /\ wire'[p] = wire[p] /\ DataTo(p)' = DataTo(p) /\ DataTo(e)' = DataTo(e)
      /\ (\A n \in Nat : AckCount(wire[e], n) => n - c \in Nat /\ AckCount(wire'[e], n - c))
      /\ (HasClosed(wire'[e]) <=> HasClosed(wire[e])) /\ (OneClosed(wire[e]) => OneClosed(wire'[e]))
  <2>1. DataTo(e) = DataTo(e)' + 0 /\ DataTo(e)' \in Nat
    BY <1>1, <1>3, WireTail
  <2>2. wire' \in [Ends -> Seq(Messages)] /\ wire'[p] = wire[p] /\ DataTo(p)' = DataTo(p)
    BY <1>1, <1>2, <1>3, WireTail
  <2>3. \A n \in Nat : AckCount(wire[e], n) => n - c \in Nat /\ AckCount(wire'[e], n - c)
    BY <1>1, <1>3, <1>4, WireTail
  <2>4. (HasClosed(wire'[e]) <=> HasClosed(wire[e])) /\ (OneClosed(wire[e]) => OneClosed(wire'[e]))
    BY <1>1, <1>3, <1>4, WireTail
  <2>5. DataTo(e)' = DataTo(e)
    BY <2>1
  <2> QED
    BY <2>2, <2>3, <2>4, <2>5
<1>5. PICK n \in Nat : AckCount(wire[e], n) /\ outstanding[e] = DataTo(p) + buffered[p] + held[p] + ackable[p] + n
  BY <1>1, BalancedFacts DEF p
<1>6. n - c \in Nat /\ AckCount(wire'[e], n - c) /\ outstanding[e] >= c /\ outstanding[e] > 0
  <2>1. n - c \in Nat /\ AckCount(wire'[e], n - c)
    BY <1>5, <1>w
  <2> QED
    BY <1>2, <1>4, <1>5, <1>n, <2>1
<1>7. closing[e] \notin {"sendClosed", "closedSent", "returned"}
  BY <1>1, <1>6 DEF Accounts, Drained
<1>8. state[e] # "CLOSED"
  BY <1>1, <1>7 DEF Handshake, Agreed, Finished
<1>9. faults' = faults /\ outstanding' = [outstanding EXCEPT ![e] = @ - c]
  BY <1>8 DEF ReceiveAck, c
<1>10. outstanding \in [Ends -> Nat] /\ \A o \in Ends : outstanding[o] <= Limit
  BY <1>1 DEF TypeOK
<1>11. /\ outstanding' \in [Ends -> Nat] /\ outstanding'[e] = outstanding[e] - c
       /\ outstanding'[p] = outstanding[p] /\ outstanding'[e] <= Limit
  BY <1>2, <1>4, <1>6, <1>9, <1>10, ChunksAssumption
<1>12. TypeOK'
  <2>1. \A o \in Ends : outstanding'[o] <= Limit
    BY <1>2, <1>10, <1>11
  <2> QED
    BY <1>1, <1>3, <1>11, <1>w, <2>1 DEF TypeOK, closeVars, writeVars, readVars
<1>13. \A o \in Ends : HasTask(o)' /\ Drained(o)'
  <2>1. Drained(e)'
    BY <1>3, <1>7 DEF Drained, closeVars
  <2>2. Drained(p)'
    BY <1>1, <1>2, <1>3, <1>11 DEF Accounts, Drained, closeVars, writeVars
  <2> QED
    BY <1>1, <1>2, <1>3, <2>1, <2>2 DEF Accounts, HasTask, closeVars, writeVars
<1>14. Balanced(e)'
  <2>1. outstanding'[e] = DataTo(p) + buffered[p] + held[p] + ackable[p] + (n - c)
    BY <1>2, <1>4, <1>5, <1>11, <1>n
  <2> QED
    BY <1>2, <1>3, <1>6, <1>w, <2>1 DEF Balanced, readVars, p
<1>15. Balanced(p)'
  BY <1>1, <1>2, <1>3, <1>11, <1>w DEF Accounts, Balanced, readVars
<1>16. Handshake'
  <2>1. \A o \in Ends : (HasClosed(wire'[o]) <=> HasClosed(wire[o])) /\ (OneClosed(wire[o]) => OneClosed(wire'[o]))
    BY <1>2, <1>w
  <2> QED
    BY <1>1, <1>3, <2>1, SameHandshake DEF closeVars
<1> QED
  BY <1>1, <1>2, <1>9, <1>12, <1>13, <1>14, <1>15, <1>16 DEF IInv, OnlyEchoIsLate, Accounts

(* A TCC message put in the queue of one end, or taken out of it *)
LEMMA QueueAppend ==
    ASSUME NEW q \in [Ends -> Seq(TccMessages)], NEW e \in Ends, NEW m \in TccMessages
    PROVE  LET r == [q EXCEPT ![e] = Append(q[e], m)]
           IN  /\ r \in [Ends -> Seq(TccMessages)] /\ \A o \in Ends : o # e => r[o] = q[o]
               /\ HasClosed(r[e]) <=> HasClosed(q[e]) \/ IsClosed(m)
               /\ OneClosed(q[e]) /\ ~(HasClosed(q[e]) /\ IsClosed(m)) => OneClosed(r[e])
<1> DEFINE r == [q EXCEPT ![e] = Append(q[e], m)]
<1>1. q[e] \in Seq(TccMessages) /\ r[e] = Append(q[e], m)
  OBVIOUS
<1>2. Append(q[e], m) \in Seq(TccMessages)
  BY <1>1, AppendClosed
<1>3. r \in [Ends -> Seq(TccMessages)] /\ \A o \in Ends : o # e => r[o] = q[o]
  BY <1>2
<1> HIDE DEF r
<1>4. /\ HasClosed(r[e]) <=> HasClosed(q[e]) \/ IsClosed(m)
      /\ OneClosed(q[e]) /\ ~(HasClosed(q[e]) /\ IsClosed(m)) => OneClosed(r[e])
  BY <1>1, AppendClosed
<1> QED
  BY <1>3, <1>4 DEF r

LEMMA QueueTail ==
    ASSUME NEW q \in [Ends -> Seq(TccMessages)], NEW e \in Ends, q[e] # <<>>
    PROVE  LET r == [q EXCEPT ![e] = Tail(q[e])]
           IN  /\ r \in [Ends -> Seq(TccMessages)] /\ \A o \in Ends : o # e => r[o] = q[o]
               /\ Head(q[e]) \in TccMessages
               /\ HasClosed(q[e]) <=> IsClosed(Head(q[e])) \/ HasClosed(r[e])
               /\ OneClosed(q[e]) => OneClosed(r[e]) /\ ~(IsClosed(Head(q[e])) /\ HasClosed(r[e]))
<1> DEFINE r == [q EXCEPT ![e] = Tail(q[e])]
<1>1. q[e] \in Seq(TccMessages) /\ r[e] = Tail(q[e])
  OBVIOUS
<1>2. Tail(q[e]) \in Seq(TccMessages) /\ Head(q[e]) \in TccMessages
  BY <1>1, TailClosed
<1>3. r \in [Ends -> Seq(TccMessages)] /\ \A o \in Ends : o # e => r[o] = q[o]
  BY <1>2
<1> HIDE DEF r
<1>4. /\ HasClosed(q[e]) <=> IsClosed(Head(q[e])) \/ HasClosed(r[e])
      /\ OneClosed(q[e]) => OneClosed(r[e]) /\ ~(IsClosed(Head(q[e])) /\ HasClosed(r[e]))
  BY <1>1, TailClosed
<1> QED
  BY <1>2, <1>3, <1>4 DEF r

LEMMA ReceiveTccKeeps == ASSUME IInv, NEW e \in Ends, ReceiveTcc(e) PROVE IInv'
<1> DEFINE p == Peer(e)
<1>1. TypeOK /\ Accounts /\ Handshake /\ faults \subseteq {"chanClose"}
  BY DEF IInv, OnlyEchoIsLate
<1>2. p \in Ends /\ p # e /\ Peer(p) = e /\ \A o \in Ends : o = e \/ o = p
  BY PeerFacts
<1> HIDE DEF p
<1> DEFINE m == Head(wire[e])
<1>3. /\ wire[e] # <<>> /\ m.type \in {"chanClose", "chanClosed"} /\ wire' = [wire EXCEPT ![e] = Tail(@)]
      /\ tccIn' = [tccIn EXCEPT ![e] = Append(@, m)]
      /\ UNCHANGED <<closeVars, closes, writeVars, outstanding, readVars, tccOut, faults>>
  BY DEF ReceiveTcc
<1>4. m \in TccMessages /\ Acked(m) = 0 /\ m.type # "data"
  <2>1. m \in Messages
    BY <1>1, <1>3, WireTail
  <2> QED
    BY <1>3, <2>1, MessageFacts
<1> HIDE DEF m
<1>w. /\ wire' \in [Ends -> Seq(Messages)] /\ wire'[p] = wire[p] /\ DataTo(p)' = DataTo(p) /\ DataTo(e)' = DataTo(e)
      /\ (\A n \in Nat : AckCount(wire[e], n) => AckCount(wire'[e], n))
      /\ (HasClosed(wire[e]) <=> IsClosed(m) \/ HasClosed(wire'[e]))
      /\ (OneClosed(wire[e]) => OneClosed(wire'[e]) /\ ~(IsClosed(m) /\ HasClosed(wire'[e])))
  <2>1. DataTo(e) = DataTo(e)' + 0 /\ DataTo(e)' \in Nat
    BY <1>1, <1>3, <1>4, WireTail DEF m
  <2>2. wire' \in [Ends -> Seq(Messages)] /\ wire'[p] = wire[p] /\ DataTo(p)' = DataTo(p)
    BY <1>1, <1>2, <1>3, WireTail
  <2>3. \A n \in Nat : AckCount(wire[e], n) => AckCount(wire'[e], n - 0)
    BY <1>1, <1>3, <1>4, WireTail DEF m
  <2>4. \A n \in Nat : n - 0 = n
    OBVIOUS
  <2>5. /\ (HasClosed(wire[e]) <=> IsClosed(m) \/ HasClosed(wire'[e]))
        /\ (OneClosed(wire[e]) => OneClosed(wire'[e]) /\ ~(IsClosed(m) /\ HasClosed(wire'[e])))
    BY <1>1, <1>3, WireTail DEF m
  <2>6. DataTo(e)' = DataTo(e)
    BY <2>1
  <2> QED
    BY <2>2, <2>3, <2>4, <2>5, <2>6
<1>q. /\ tccIn' \in [Ends -> Seq(TccMessages)] /\ tccIn'[p] = tccIn[p]
      /\ (HasClosed(tccIn'[e]) <=> HasClosed(tccIn[e]) \/ IsClosed(m))
      /\ (OneClosed(tccIn[e]) /\ ~(HasClosed(tccIn[e]) /\ IsClosed(m)) => OneClosed(tccIn'[e]))
  <2>1. tccIn \in [Ends -> Seq(TccMessages)]
    BY <1>1 DEF TypeOK
  <2>2. tccIn' = [tccIn EXCEPT ![e] = Append(tccIn[e], m)]
    BY <1>3
  <2>3. /\ tccIn' \in [Ends -> Seq(TccMessages)] /\ \A o \in Ends : o # e => tccIn'[o] = tccIn[o]
        /\ HasClosed(tccIn'[e]) <=> HasClosed(tccIn[e]) \/ IsClosed(m)
        /\ OneClosed(tccIn[e]) /\ ~(HasClosed(tccIn[e]) /\ IsClosed(m)) => OneClosed(tccIn'[e])
    BY <1>4, <2>1, <2>2, QueueAppend
  <2> QED
    BY <1>2, <2>3
<1>5. TypeOK'
  BY <1>1, <1>3, <1>w, <1>q DEF TypeOK, closeVars, writeVars, readVars
<1>6. \A o \in Ends : HasTask(o)' /\ Drained(o)'
  BY <1>1, <1>3 DEF Accounts, HasTask, Drained, closeVars, writeVars
<1>7. Balanced(e)'
  <2>1. PICK n \in Nat : AckCount(wire[e], n) /\ outstanding[e] = DataTo(p) + buffered[p] + held[p] + ackable[p] + n
    BY <1>1, BalancedFacts DEF p
  <2> QED
    BY <1>2, <1>3, <1>w, <2>1 DEF Balanced, readVars, p
<1>8. Balanced(p)'
  BY <1>1, <1>2, <1>3, <1>w DEF Accounts, Balanced, readVars
<1>9. Arriving(e)'
  <2>1. Arriving(e)
    BY <1>1 DEF Handshake
  <2> QED
    BY <1>3, <1>w, <1>q, <2>1 DEF Arriving, Finished, closeVars
<1>10. Arriving(p)'
  BY <1>1, <1>2, <1>3, <1>w, <1>q DEF Handshake, Arriving, Finished, closeVars
<1>11. \A o \in Ends : OpenNotClosing(o)' /\ Announced(o)' /\ Agreed(o)'
  BY <1>1, <1>3 DEF Handshake, OpenNotClosing, Announced, Agreed, Finished, closeVars
<1>12. Handshake'
  BY <1>2, <1>9, <1>10, <1>11 DEF Handshake
<1> QED
  BY <1>1, <1>2, <1>3, <1>5, <1>6, <1>7, <1>8, <1>12 DEF IInv, OnlyEchoIsLate, Accounts

----------------------------------------------------------------------------
(* And so does closing.                                                    *)

(* Input thrown away is input to be ACKed. *)
LEMMA DiscardKeeps ==
    ASSUME TypeOK, Accounts, NEW e \in Ends, DiscardExistingInput(e) \/ UNCHANGED readVars,
           UNCHANGED <<outstanding, wire>>
    PROVE  /\ buffered' \in [Ends -> Nat] /\ held' = held /\ ackable' \in [Ends -> Nat]
           /\ \A o \in Ends : Balanced(o)'
<1>1. CASE UNCHANGED readVars
  BY <1>1, SameBalance DEF readVars, TypeOK
<1>2. CASE DiscardExistingInput(e)
  <2> DEFINE p == Peer(e)
  <2>1. p \in Ends /\ p # e /\ Peer(p) = e /\ \A o \in Ends : o = e \/ o = p
    BY PeerFacts
  <2> HIDE DEF p
  <2>2. /\ buffered \in [Ends -> Nat] /\ ackable \in [Ends -> Nat] /\ held' = held
        /\ buffered' = [buffered EXCEPT ![e] = 0] /\ ackable' = [ackable EXCEPT ![e] = @ + buffered[e]]
    BY <1>2 DEF DiscardExistingInput, TypeOK
  <2>3. buffered' \in [Ends -> Nat] /\ ackable' \in [Ends -> Nat]
    BY <2>2
  <2>4. /\ buffered'[e] = 0 /\ ackable'[e] = ackable[e] + buffered[e]
        /\ buffered'[p] = buffered[p] /\ ackable'[p] = ackable[p]
    BY <2>1, <2>2
  <2>5. Balanced(e)'
    BY <2>1, <2>2, <2>4 DEF Accounts, Balanced, DataTo, p
  <2>6. Balanced(p)'
    <3>1. PICK n \in Nat : AckCount(wire[p], n) /\ outstanding[p] = DataTo(e) + buffered[e] + held[e] + ackable[e] + n
      BY <2>1, BalancedFacts
    <3>2. outstanding[p] = DataTo(e) + 0 + held[e] + (ackable[e] + buffered[e]) + n
      BY <2>1, <3>1, NatFacts
    <3>3. DataTo(e)' = DataTo(e)
      BY DEF DataTo
    <3> QED
      BY <2>1, <2>2, <2>4, <3>1, <3>2, <3>3 DEF Balanced
  <2> QED
    BY <2>1, <2>2, <2>3, <2>5, <2>6
<1> QED
  BY <1>1, <1>2

(* A close() by the application or for a chanClose: nothing that e has     *)
(* announced or heard changes.                                             *)
LEMMA CallCloseKeeps ==
    ASSUME IInv, NEW e \in Ends, NEW d \in BOOLEAN, CallClose(e, d),
           UNCHANGED <<writeVars, outstanding, wire>>,
           closes' \in [Ends -> Nat], faults' \subseteq {"chanClose"},
           tccIn' \in [Ends -> Seq(TccMessages)],
           \A o \in Ends : /\ HasClosed(tccIn'[o]) <=> HasClosed(tccIn[o])
                           /\ OneClosed(tccIn[o]) => OneClosed(tccIn'[o])
    PROVE  IInv'
<1> DEFINE p == Peer(e)
<1>1. TypeOK /\ Accounts /\ Handshake /\ faults \subseteq {"chanClose"}
  BY DEF IInv, OnlyEchoIsLate
<1>2. p \in Ends /\ p # e /\ Peer(p) = e /\ \A o \in Ends : o = e \/ o = p
  BY PeerFacts
<1> HIDE DEF p
<1>f. /\ closing \in [Ends -> {"no", "sendClose", "beforeClosing", "drain", "sendClosed",
                              "closedSent", "returned", "failed"}]
      /\ state \in [Ends -> {"OPEN", "CLOSED", "DISCONNECTED"} \cup Closing]
      /\ tccOut \in [Ends -> Seq(TccMessages)] /\ tccIn \in [Ends -> Seq(TccMessages)]
  BY <1>1 DEF TypeOK
<1>3. DiscardExistingInput(e) \/ UNCHANGED readVars
  BY DEF CallClose
<1>4. /\ buffered' \in [Ends -> Nat] /\ held' = held /\ ackable' \in [Ends -> Nat]
      /\ \A o \in Ends : Balanced(o)'
  BY <1>1, <1>3, DiscardKeeps
<1>5. /\ tccOut' \in [Ends -> Seq(TccMessages)]
      /\ \A o \in Ends : /\ HasClosed(tccOut'[o]) <=> HasClosed(tccOut[o])
                         /\ OneClosed(tccOut[o]) => OneClosed(tccOut'[o])
  <2>1. CASE tccOut' = tccOut
    BY <1>f, <2>1
  <2>2. ASSUME NEW c \in BOOLEAN, tccOut' = [tccOut EXCEPT ![e] = Append(tccOut[e], ChanClose(c))]
        PROVE  <1>5!:
    <3> DEFINE m == ChanClose(c)
    <3>1. m \in TccMessages /\ ~IsClosed(m) /\ tccOut' = [tccOut EXCEPT ![e] = Append(tccOut[e], m)]
      BY <2>2, MessageFacts
    <3> HIDE DEF m
    <3>2. /\ tccOut' \in [Ends -> Seq(TccMessages)] /\ \A o \in Ends : o # e => tccOut'[o] = tccOut[o]
          /\ HasClosed(tccOut'[e]) <=> HasClosed(tccOut[e]) \/ IsClosed(m)
          /\ OneClosed(tccOut[e]) /\ ~(HasClosed(tccOut[e]) /\ IsClosed(m)) => OneClosed(tccOut'[e])
      <4>1. tccOut \in [Ends -> Seq(TccMessages)]
        BY <1>f
      <4>2. tccOut[e] \in Seq(TccMessages) /\ tccOut'[e] = Append(tccOut[e], m)
        BY <3>1, <4>1
      <4>3. Append(tccOut[e], m) \in Seq(TccMessages)
        BY <3>1, <4>2, AppendClosed
      <4>4. tccOut' \in [Ends -> Seq(TccMessages)] /\ \A o \in Ends : o # e => tccOut'[o] = tccOut[o]
        BY <3>1, <4>1, <4>3
      <4>5. HasClosed(tccOut'[e]) <=> HasClosed(tccOut[e]) \/ IsClosed(m)
        BY <3>1, <4>2, AppendClosed
      <4>6. OneClosed(tccOut[e]) /\ ~(HasClosed(tccOut[e]) /\ IsClosed(m)) => OneClosed(tccOut'[e])
        BY <3>1, <4>2, AppendClosed
      <4> QED
        BY <4>4, <4>5, <4>6
    <3> QED
      BY <3>1, <3>2
  <2> QED
    BY <2>1, <2>2 DEF CallClose
<1>6. \/ /\ state[e] = "OPEN" /\ state' = [state EXCEPT ![e] = "CLOSING"]
         /\ closing' = [closing EXCEPT ![e] = "sendClose"]
      \/ state' = state /\ closing' = closing
  BY DEF CallClose, closeVars
<1>7. /\ state' \in [Ends -> {"OPEN", "CLOSED", "DISCONNECTED"} \cup Closing]
      /\ closing' \in [Ends -> {"no", "sendClose", "beforeClosing", "drain", "sendClosed",
                                "closedSent", "returned", "failed"}]
  BY <1>6, <1>f DEF Closing
<1>8. discard' \in [Ends -> BOOLEAN] /\ switching' \in [Ends -> {"no", "sendClose", "discard"}] /\ nulled' = nulled
  <2>1. discard \in [Ends -> BOOLEAN] /\ switching \in [Ends -> {"no", "sendClose", "discard"}]
    BY <1>1 DEF TypeOK
  <2>2. nulled' = nulled
    BY DEF CallClose, closeVars
  <2>3. discard' = discard \/ discard' = [discard EXCEPT ![e] = d] \/ discard' = [discard EXCEPT ![e] = TRUE]
    BY DEF CallClose, closeVars
  <2>4. switching' = switching \/ switching' = [switching EXCEPT ![e] = "sendClose"]
    BY DEF CallClose, closeVars
  <2> QED
    BY <2>1, <2>2, <2>3, <2>4
<1>9. TypeOK'
  <2>1. nulled' \subseteq {o \in Ends : state'[o] = "CLOSED"}
    BY <1>1, <1>6, <1>8, <1>f DEF TypeOK
  <2> QED
    BY <1>1, <1>4, <1>5, <1>7, <1>8, <2>1 DEF TypeOK, writeVars
<1>10. /\ \A o \in Ends : o # e => state'[o] = state[o] /\ closing'[o] = closing[o]
       /\ \/ state[e] = "OPEN" /\ closing[e] = "no" /\ state'[e] = "CLOSING" /\ closing'[e] = "sendClose"
          \/ state'[e] = state[e] /\ closing'[e] = closing[e]
  BY <1>1, <1>6, <1>f DEF Handshake, OpenNotClosing
<1>11. \A o \in Ends : HasTask(o)' /\ Drained(o)'
  <2>1. \A o \in Ends : HasTask(o) /\ Drained(o)
    BY <1>1 DEF Accounts
  <2> QED
    BY <1>10, <2>1 DEF HasTask, Drained, writeVars
<1>12. Handshake'
  <2>1. \A o \in Ends : OpenNotClosing(o) /\ Announced(o) /\ Arriving(o) /\ Agreed(o)
    BY <1>1 DEF Handshake
  <2>2. \A o \in Ends : OpenNotClosing(o)' /\ Announced(o)'
    BY <1>5, <1>10, <2>1 DEF OpenNotClosing, Announced
  <2>3. \A o \in Ends : Finished(o)' <=> Finished(o)
    BY <1>10 DEF Finished
  <2>4. \A o \in Ends : Arriving(o)' /\ Agreed(o)'
    <3>1. \A o \in Ends : Peer(o) \in Ends
      BY PeerFacts
    <3>2. \A o \in Ends : Finished(Peer(o))' <=> Finished(Peer(o))
      BY <2>3, <3>1
    <3> QED
      BY <1>10, <2>1, <2>3, <3>2 DEF Arriving, Agreed
  <2> QED
    BY <2>2, <2>4 DEF Handshake
<1> QED
  BY <1>4, <1>9, <1>11, <1>12 DEF IInv, OnlyEchoIsLate, Accounts

LEMMA CloseKeeps == ASSUME IInv, NEW e \in Ends, NEW d \in BOOLEAN, Close(e, d) PROVE IInv'
<1>1. TypeOK /\ faults \subseteq {"chanClose"}
  BY DEF IInv, OnlyEchoIsLate
<1>2. /\ CallClose(e, d) /\ UNCHANGED <<writeVars, outstanding, wire>> /\ tccIn' = tccIn /\ faults' = faults
      /\ closes' \in [Ends -> Nat]
  BY <1>1 DEF Close, TypeOK
<1>3. tccIn \in [Ends -> Seq(TccMessages)]
  BY <1>1 DEF TypeOK
<1> QED
  BY <1>1, <1>2, <1>3, CallCloseKeeps

LEMMA HandleChanCloseKeeps == ASSUME IInv, NEW e \in Ends, HandleChanClose(e) PROVE IInv'
<1> DEFINE p == Peer(e)
<1>1. TypeOK /\ Accounts /\ Handshake /\ faults \subseteq {"chanClose"}
  BY DEF IInv, OnlyEchoIsLate
<1>2. p \in Ends /\ p # e /\ Peer(p) = e /\ \A o \in Ends : o = e \/ o = p
  BY PeerFacts
<1> HIDE DEF p
<1>f. /\ closing \in [Ends -> {"no", "sendClose", "beforeClosing", "drain", "sendClosed",
                              "closedSent", "returned", "failed"}]
      /\ state \in [Ends -> {"OPEN", "CLOSED", "DISCONNECTED"} \cup Closing]
      /\ tccOut \in [Ends -> Seq(TccMessages)] /\ tccIn \in [Ends -> Seq(TccMessages)]
  BY <1>1 DEF TypeOK
<1> DEFINE m == Head(tccIn[e])
<1>3. /\ tccIn[e] # <<>> /\ m.type = "chanClose" /\ tccIn' = [tccIn EXCEPT ![e] = Tail(tccIn[e])]
      /\ UNCHANGED <<closes, writeVars, outstanding, wire>>
  BY DEF HandleChanClose
<1>4. /\ tccIn' \in [Ends -> Seq(TccMessages)] /\ \A o \in Ends : o # e => tccIn'[o] = tccIn[o]
      /\ m \in TccMessages
      /\ HasClosed(tccIn[e]) <=> IsClosed(m) \/ HasClosed(tccIn'[e])
      /\ OneClosed(tccIn[e]) => OneClosed(tccIn'[e])
  BY <1>3, <1>f, QueueTail
<1>5. \A o \in Ends : /\ HasClosed(tccIn'[o]) <=> HasClosed(tccIn[o])
                      /\ OneClosed(tccIn[o]) => OneClosed(tccIn'[o])
  BY <1>3, <1>4 DEF IsClosed
<1>6. m.discard \in BOOLEAN
  BY <1>3, <1>4 DEF TccMessages
<1>7. closes' \in [Ends -> Nat]
  BY <1>1, <1>3 DEF TypeOK
<1>8. CASE e \in nulled
  <2>1. faults' = faults \cup {"chanClose"} /\ UNCHANGED <<closeVars, readVars, tccOut>>
    BY <1>8 DEF HandleChanClose
  <2>2. TypeOK'
    BY <1>1, <1>3, <1>4, <2>1 DEF TypeOK, closeVars, writeVars, readVars
  <2>3. \A o \in Ends : Balanced(o)'
    BY <1>1, <1>3, <2>1, SameBalance DEF readVars
  <2>4. Accounts'
    BY <1>1, <1>3, <2>1, <2>3 DEF Accounts, HasTask, Drained, closeVars, writeVars
  <2>5. Handshake'
    BY <1>1, <1>3, <1>5, <2>1 DEF Handshake, OpenNotClosing, Announced, Arriving, Agreed, Finished, closeVars
  <2> QED
    BY <1>1, <2>1, <2>2, <2>4, <2>5 DEF IInv, OnlyEchoIsLate
<1>9. CASE e \notin nulled
  <2>1. CallClose(e, m.discard) /\ faults' = faults
    BY <1>9 DEF HandleChanClose
  <2> HIDE DEF m
  <2> QED
    BY <1>1, <1>3, <1>4, <1>5, <1>6, <1>7, <2>1, CallCloseKeeps
<1> QED
  BY <1>8, <1>9

(* A message of the TCC is sent; with chanClosed the end has finished. *)
LEMMA TccSendKeeps == ASSUME IInv, NEW e \in Ends, TccSend(e) PROVE IInv'
<1> DEFINE p == Peer(e)
<1>1. TypeOK /\ Accounts /\ Handshake /\ faults \subseteq {"chanClose"}
  BY DEF IInv, OnlyEchoIsLate
<1>2. p \in Ends /\ p # e /\ Peer(p) = e /\ \A o \in Ends : o = e \/ o = p
  BY PeerFacts
<1> HIDE DEF p
<1>f. /\ closing \in [Ends -> {"no", "sendClose", "beforeClosing", "drain", "sendClosed",
                              "closedSent", "returned", "failed"}]
      /\ state \in [Ends -> {"OPEN", "CLOSED", "DISCONNECTED"} \cup Closing]
      /\ tccOut \in [Ends -> Seq(TccMessages)] /\ tccIn \in [Ends -> Seq(TccMessages)]
  BY <1>1 DEF TypeOK
<1>h. /\ OpenNotClosing(e) /\ Announced(e) /\ Arriving(e) /\ Agreed(e)
      /\ OpenNotClosing(p) /\ Announced(p) /\ Arriving(p) /\ Agreed(p)
  BY <1>1, <1>2 DEF Handshake
<1> DEFINE m == Head(tccOut[e])
<1>3. /\ tccOut[e] # <<>> /\ wire' = [wire EXCEPT ![p] = Append(@, m)]
      /\ tccOut' = [tccOut EXCEPT ![e] = Tail(tccOut[e])]
      /\ UNCHANGED <<state, discard, nulled, closes, writeVars, outstanding, readVars, tccIn, faults>>
  BY DEF TccSend, p
<1>4. \/ m.type = "chanClosed" /\ closing' = [closing EXCEPT ![e] = "closedSent"] /\ switching' = switching
      \/ m.type = "chanClose" /\ closing[e] = "sendClose" /\ closing' = [closing EXCEPT ![e] = "beforeClosing"]
         /\ switching' = switching
      \/ m.type = "chanClose" /\ closing' = closing /\ switching' = [switching EXCEPT ![e] = "discard"]
  BY DEF TccSend
<1>q. /\ tccOut' \in [Ends -> Seq(TccMessages)] /\ tccOut'[p] = tccOut[p] /\ m \in TccMessages
      /\ HasClosed(tccOut[e]) <=> IsClosed(m) \/ HasClosed(tccOut'[e])
      /\ OneClosed(tccOut[e]) => OneClosed(tccOut'[e]) /\ ~(IsClosed(m) /\ HasClosed(tccOut'[e]))
  <2>1. tccOut[e] \in Seq(TccMessages) /\ tccOut'[e] = Tail(tccOut[e]) /\ tccOut'[p] = tccOut[p]
    BY <1>2, <1>3, <1>f
  <2>2. m \in TccMessages /\ Tail(tccOut[e]) \in Seq(TccMessages)
    BY <1>3, <2>1, TailClosed
  <2>3. tccOut' \in [Ends -> Seq(TccMessages)]
    BY <1>3, <1>f, <2>2
  <2>4. HasClosed(tccOut[e]) <=> IsClosed(m) \/ HasClosed(tccOut'[e])
    BY <1>3, <2>1, TailClosed
  <2>5. OneClosed(tccOut[e]) => OneClosed(tccOut'[e]) /\ ~(IsClosed(m) /\ HasClosed(tccOut'[e]))
    BY <1>3, <2>1, TailClosed
  <2> QED
    BY <2>1, <2>2, <2>3, <2>4, <2>5
<1> HIDE DEF m
<1>5. m \in Messages /\ Acked(m) = 0 /\ m.type # "data" /\ (IsClosed(m) <=> m.type = "chanClosed")
  <2>1. m \in Messages /\ Acked(m) = 0 /\ m.type \in {"chanClose", "chanClosed"}
    BY <1>q, MessageFacts
  <2> QED
    BY <2>1 DEF IsClosed
<1>w. /\ wire' \in [Ends -> Seq(Messages)] /\ wire'[e] = wire[e] /\ DataTo(e)' = DataTo(e) /\ DataTo(p)' = DataTo(p)
      /\ \A n \in Nat : AckCount(wire[p], n) => AckCount(wire'[p], n)
      /\ HasClosed(wire'[p]) <=> HasClosed(wire[p]) \/ IsClosed(m)
      /\ OneClosed(wire[p]) /\ ~(HasClosed(wire[p]) /\ IsClosed(m)) => OneClosed(wire'[p])
  <2>1. DataTo(p)' = DataTo(p) + 0 /\ DataTo(p) \in Nat
    <3>1. DataTo(p)' = DataTo(p) + (IF m.type = "data" THEN 1 ELSE 0)
      BY <1>1, <1>2, <1>3, <1>5, WireAppend
    <3> QED
      BY <1>1, <1>2, <1>5, <3>1, NatFacts
  <2>2. wire' \in [Ends -> Seq(Messages)] /\ wire'[e] = wire[e] /\ DataTo(e)' = DataTo(e)
    BY <1>1, <1>2, <1>3, <1>5, WireAppend
  <2>3. \A n \in Nat : AckCount(wire[p], n) => AckCount(wire'[p], n + 0)
    BY <1>1, <1>2, <1>3, <1>5, WireAppend
  <2>4. \A n \in Nat : n + 0 = n
    OBVIOUS
  <2>5. /\ HasClosed(wire'[p]) <=> HasClosed(wire[p]) \/ IsClosed(m)
        /\ OneClosed(wire[p]) /\ ~(HasClosed(wire[p]) /\ IsClosed(m)) => OneClosed(wire'[p])
    BY <1>1, <1>2, <1>3, <1>5, WireAppend
  <2>6. DataTo(p)' = DataTo(p)
    BY <2>1
  <2> QED
    BY <2>2, <2>3, <2>4, <2>5, <2>6
<1>6. TypeOK'
  <2>1. /\ closing' \in [Ends -> {"no", "sendClose", "beforeClosing", "drain", "sendClosed",
                                  "closedSent", "returned", "failed"}]
        /\ switching' \in [Ends -> {"no", "sendClose", "discard"}]
    <3>1. switching \in [Ends -> {"no", "sendClose", "discard"}]
      BY <1>1 DEF TypeOK
    <3>2. /\ [closing EXCEPT ![e] = "closedSent"] \in [Ends -> {"no", "sendClose", "beforeClosing", "drain", "sendClosed",
                                                               "closedSent", "returned", "failed"}]
          /\ [closing EXCEPT ![e] = "beforeClosing"] \in [Ends -> {"no", "sendClose", "beforeClosing", "drain", "sendClosed",
                                                                  "closedSent", "returned", "failed"}]
      BY <1>f
    <3>3. [switching EXCEPT ![e] = "discard"] \in [Ends -> {"no", "sendClose", "discard"}]
      BY <3>1
    <3> HIDE DEF m
    <3> QED
      BY <1>4, <1>f, <3>1, <3>2, <3>3, Zenon
  <2> QED
    BY <1>1, <1>3, <1>q, <1>w, <2>1 DEF TypeOK, writeVars, readVars
<1>7. Balanced(e)'
  BY <1>1, <1>2, <1>3, <1>w DEF Accounts, Balanced, readVars, p
<1>8. Balanced(p)'
  <2>1. PICK n \in Nat : AckCount(wire[p], n) /\ outstanding[p] = DataTo(e) + buffered[e] + held[e] + ackable[e] + n
    BY <1>1, <1>2, BalancedFacts
  <2> QED
    BY <1>2, <1>3, <1>w, <2>1 DEF Balanced, readVars
<1>9. CASE m.type = "chanClosed"
  <2>1. IsClosed(m) /\ closing' = [closing EXCEPT ![e] = "closedSent"]
    BY <1>4, <1>5, <1>9
  <2>2. closing[e] = "sendClosed" /\ ~Finished(e) /\ ~HasClosed(tccOut'[e]) /\ OneClosed(tccOut'[e])
    BY <1>h, <1>q, <2>1 DEF Announced, Finished
  <2>3. closing'[e] = "closedSent" /\ closing'[p] = closing[p] /\ Finished(e)' /\ (Finished(p)' <=> Finished(p))
    BY <1>2, <1>f, <2>1 DEF Finished
  <2>4. ~HasClosed(wire[p]) /\ ~HasClosed(tccIn[p]) /\ state[p] \notin {"LOCAL_CLOSING", "CLOSED"}
    BY <1>2, <1>h, <2>2 DEF Arriving, Agreed
  <2>5. OpenNotClosing(e)' /\ Announced(e)' /\ Arriving(e)' /\ Agreed(e)'
    BY <1>3, <1>h, <1>w, <2>2, <2>3 DEF OpenNotClosing, Announced, Arriving, Agreed, p
  <2>6. OpenNotClosing(p)' /\ Announced(p)' /\ Arriving(p)' /\ Agreed(p)'
    BY <1>2, <1>3, <1>h, <1>q, <1>w, <2>3, <2>4 DEF OpenNotClosing, Announced, Arriving, Agreed
  <2>7. \A o \in Ends : HasTask(o)' /\ Drained(o)'
    BY <1>1, <1>2, <1>3, <2>2, <2>3 DEF Accounts, HasTask, Drained, writeVars
  <2> QED
    BY <1>1, <1>2, <1>3, <1>6, <1>7, <1>8, <2>5, <2>6, <2>7 DEF IInv, OnlyEchoIsLate, Accounts, Handshake
<1>10. CASE m.type # "chanClosed"
  <2>1. ~IsClosed(m)
    BY <1>5, <1>10
  <2>2. \/ closing[e] = "sendClose" /\ closing' = [closing EXCEPT ![e] = "beforeClosing"]
        \/ closing' = closing
    BY <1>4, <1>10
  <2>3. /\ closing'[p] = closing[p] /\ (Finished(e)' <=> Finished(e)) /\ (Finished(p)' <=> Finished(p))
        /\ closing'[e] = closing[e] \/ (closing[e] = "sendClose" /\ closing'[e] = "beforeClosing")
    BY <1>2, <1>f, <2>2 DEF Finished
  <2>4. OpenNotClosing(e)' /\ Announced(e)' /\ Arriving(e)' /\ Agreed(e)'
    BY <1>3, <1>h, <1>q, <1>w, <2>1, <2>3 DEF OpenNotClosing, Announced, Arriving, Agreed, p
  <2>5. OpenNotClosing(p)' /\ Announced(p)' /\ Arriving(p)' /\ Agreed(p)'
    BY <1>2, <1>3, <1>h, <1>q, <1>w, <2>1, <2>3 DEF OpenNotClosing, Announced, Arriving, Agreed
  <2>6. \A o \in Ends : HasTask(o)' /\ Drained(o)'
    BY <1>1, <1>2, <1>3, <2>3 DEF Accounts, HasTask, Drained, writeVars
  <2> QED
    BY <1>1, <1>2, <1>3, <1>6, <1>7, <1>8, <2>4, <2>5, <2>6 DEF IInv, OnlyEchoIsLate, Accounts, Handshake
<1> QED
  BY <1>9, <1>10

(* Steps of close() that only e itself sees *)
LEMMA InnerCloseKeeps ==
    ASSUME IInv, NEW e \in Ends, SwitchToDiscard(e) \/ BeforeClosingDone(e) \/ CloseFails(e) \/ NullChannel(e)
    PROVE  IInv'
<1> DEFINE p == Peer(e)
<1>1. TypeOK /\ Accounts /\ Handshake /\ faults \subseteq {"chanClose"}
  BY DEF IInv, OnlyEchoIsLate
<1>2. p \in Ends /\ p # e /\ Peer(p) = e /\ \A o \in Ends : o = e \/ o = p
  BY PeerFacts
<1> HIDE DEF p
<1>f. /\ closing \in [Ends -> {"no", "sendClose", "beforeClosing", "drain", "sendClosed",
                              "closedSent", "returned", "failed"}]
      /\ state \in [Ends -> {"OPEN", "CLOSED", "DISCONNECTED"} \cup Closing]
      /\ tccOut \in [Ends -> Seq(TccMessages)] /\ tccIn \in [Ends -> Seq(TccMessages)]
  BY <1>1 DEF TypeOK
<1>h. /\ OpenNotClosing(e) /\ Announced(e) /\ Arriving(e) /\ Agreed(e)
      /\ OpenNotClosing(p) /\ Announced(p) /\ Arriving(p) /\ Agreed(p)
  BY <1>1, <1>2 DEF Handshake
<1>3. /\ DiscardExistingInput(e) \/ UNCHANGED readVars
      /\ UNCHANGED <<state, discard, closes, writeVars, outstanding, tccOut, wire, tccIn, faults>>
  BY DEF SwitchToDiscard, BeforeClosingDone, CloseFails, NullChannel
<1>4. /\ buffered' \in [Ends -> Nat] /\ held' = held /\ ackable' \in [Ends -> Nat]
      /\ \A o \in Ends : Balanced(o)'
  BY <1>1, <1>3, DiscardKeeps
<1>5. \/ closing[e] = "beforeClosing" /\ closing' = [closing EXCEPT ![e] = "drain"]
      \/ closing[e] = "drain" /\ closing' = [closing EXCEPT ![e] = "failed"]
      \/ closing' = closing
  BY DEF SwitchToDiscard, BeforeClosingDone, CloseFails, NullChannel
<1>6. /\ closing' \in [Ends -> {"no", "sendClose", "beforeClosing", "drain", "sendClosed",
                                "closedSent", "returned", "failed"}]
      /\ switching' \in [Ends -> {"no", "sendClose", "discard"}]
      /\ nulled' \subseteq {o \in Ends : state[o] = "CLOSED"}
  <2>1. switching' = switching \/ switching' = [switching EXCEPT ![e] = "no"]
    BY DEF SwitchToDiscard, BeforeClosingDone, CloseFails, NullChannel
  <2>2. nulled' = nulled \/ (state[e] = "CLOSED" /\ nulled' = nulled \cup {e})
    BY DEF SwitchToDiscard, BeforeClosingDone, CloseFails, NullChannel
  <2>3. nulled' \subseteq {o \in Ends : state[o] = "CLOSED"}
    BY <1>1, <2>2 DEF TypeOK
  <2>4. switching' \in [Ends -> {"no", "sendClose", "discard"}]
    BY <1>1, <2>1 DEF TypeOK
  <2>5. closing' \in [Ends -> {"no", "sendClose", "beforeClosing", "drain", "sendClosed",
                               "closedSent", "returned", "failed"}]
    BY <1>5, <1>f
  <2> QED
    BY <2>3, <2>4, <2>5
<1>7. TypeOK'
  BY <1>1, <1>3, <1>4, <1>6 DEF TypeOK, writeVars
<1>8. /\ closing'[p] = closing[p]
      /\ \/ closing'[e] = closing[e]
         \/ closing[e] = "beforeClosing" /\ closing'[e] = "drain"
         \/ closing[e] = "drain" /\ closing'[e] = "failed"
  BY <1>2, <1>5, <1>f
<1>9. (Finished(e)' <=> Finished(e)) /\ (Finished(p)' <=> Finished(p))
  BY <1>8 DEF Finished
<1>10. OpenNotClosing(e)' /\ Announced(e)' /\ Arriving(e)' /\ Agreed(e)'
  BY <1>3, <1>8, <1>9, <1>h DEF OpenNotClosing, Announced, Arriving, Agreed, p
<1>11. OpenNotClosing(p)' /\ Announced(p)' /\ Arriving(p)' /\ Agreed(p)'
  BY <1>2, <1>3, <1>8, <1>9, <1>h DEF OpenNotClosing, Announced, Arriving, Agreed
<1>12. \A o \in Ends : HasTask(o)' /\ Drained(o)'
  BY <1>1, <1>2, <1>3, <1>8 DEF Accounts, HasTask, Drained, writeVars
<1> QED
  BY <1>1, <1>2, <1>3, <1>4, <1>7, <1>10, <1>11, <1>12 DEF IInv, OnlyEchoIsLate, Accounts, Handshake

LEMMA SendChanClosedKeeps == ASSUME IInv, NEW e \in Ends, SendChanClosed(e) PROVE IInv'
<1> DEFINE p == Peer(e)
<1>1. TypeOK /\ Accounts /\ Handshake /\ faults \subseteq {"chanClose"}
  BY DEF IInv, OnlyEchoIsLate
<1>2. p \in Ends /\ p # e /\ Peer(p) = e /\ \A o \in Ends : o = e \/ o = p
  BY PeerFacts
<1> HIDE DEF p
<1>f. /\ closing \in [Ends -> {"no", "sendClose", "beforeClosing", "drain", "sendClosed",
                              "closedSent", "returned", "failed"}]
      /\ state \in [Ends -> {"OPEN", "CLOSED", "DISCONNECTED"} \cup Closing]
      /\ tccOut \in [Ends -> Seq(TccMessages)] /\ tccIn \in [Ends -> Seq(TccMessages)]
  BY <1>1 DEF TypeOK
<1>h. /\ OpenNotClosing(e) /\ Announced(e) /\ Arriving(e) /\ Agreed(e)
      /\ OpenNotClosing(p) /\ Announced(p) /\ Arriving(p) /\ Agreed(p)
  BY <1>1, <1>2 DEF Handshake
<1> DEFINE m == Message("chanClosed")
<1>3. /\ closing[e] = "drain" /\ outstanding[e] = 0 /\ writes[e] = <<>>
      /\ closing' = [closing EXCEPT ![e] = "sendClosed"] /\ tccOut' = [tccOut EXCEPT ![e] = Append(tccOut[e], m)]
      /\ UNCHANGED <<state, discard, switching, nulled, closes, writeVars, outstanding, readVars, wire, tccIn, faults>>
  BY DEF SendChanClosed, AllWritesAcked
<1>4. m \in TccMessages /\ IsClosed(m)
  BY MessageFacts
<1> HIDE DEF m
<1>5. /\ tccOut' \in [Ends -> Seq(TccMessages)] /\ tccOut'[p] = tccOut[p]
      /\ OneClosed(tccOut'[e])
  <2>1. tccOut[e] \in Seq(TccMessages) /\ tccOut'[e] = Append(tccOut[e], m) /\ tccOut'[p] = tccOut[p]
    BY <1>2, <1>3, <1>f
  <2>2. Append(tccOut[e], m) \in Seq(TccMessages)
    BY <1>4, <2>1, AppendClosed
  <2>3. ~HasClosed(tccOut[e]) /\ OneClosed(tccOut[e])
    BY <1>3, <1>h DEF Announced
  <2>4. OneClosed(tccOut'[e])
    BY <1>4, <2>1, <2>3, AppendClosed
  <2>5. tccOut' \in [Ends -> Seq(TccMessages)]
    BY <1>3, <1>f, <2>2
  <2> QED
    BY <2>1, <2>4, <2>5
<1>6. /\ closing' \in [Ends -> {"no", "sendClose", "beforeClosing", "drain", "sendClosed",
                                "closedSent", "returned", "failed"}]
      /\ closing'[e] = "sendClosed" /\ closing'[p] = closing[p]
  BY <1>2, <1>3, <1>f
<1>7. TypeOK'
  BY <1>1, <1>3, <1>5, <1>6 DEF TypeOK, writeVars, readVars
<1>8. (Finished(e)' <=> Finished(e)) /\ (Finished(p)' <=> Finished(p))
  BY <1>3, <1>6 DEF Finished
<1>9. OpenNotClosing(e)' /\ Announced(e)' /\ Arriving(e)' /\ Agreed(e)'
  BY <1>3, <1>5, <1>6, <1>8, <1>h DEF OpenNotClosing, Announced, Arriving, Agreed, p
<1>10. OpenNotClosing(p)' /\ Announced(p)' /\ Arriving(p)' /\ Agreed(p)'
  BY <1>2, <1>3, <1>5, <1>6, <1>8, <1>h DEF OpenNotClosing, Announced, Arriving, Agreed
<1>11. \A o \in Ends : HasTask(o)' /\ Drained(o)'
  BY <1>1, <1>2, <1>3, <1>6 DEF Accounts, HasTask, Drained, writeVars
<1>12. \A o \in Ends : Balanced(o)'
  BY <1>1, <1>3, SameBalance DEF readVars
<1> QED
  BY <1>1, <1>2, <1>3, <1>7, <1>9, <1>10, <1>11, <1>12 DEF IInv, OnlyEchoIsLate, Accounts, Handshake

LEMMA CloseReturnsKeeps == ASSUME IInv, NEW e \in Ends, CloseReturns(e) PROVE IInv'
<1> DEFINE p == Peer(e)
<1>1. TypeOK /\ Accounts /\ Handshake /\ faults \subseteq {"chanClose"}
  BY DEF IInv, OnlyEchoIsLate
<1>2. p \in Ends /\ p # e /\ Peer(p) = e /\ \A o \in Ends : o = e \/ o = p
  BY PeerFacts
<1> HIDE DEF p
<1>f. /\ closing \in [Ends -> {"no", "sendClose", "beforeClosing", "drain", "sendClosed",
                              "closedSent", "returned", "failed"}]
      /\ state \in [Ends -> {"OPEN", "CLOSED", "DISCONNECTED"} \cup Closing]
      /\ tccOut \in [Ends -> Seq(TccMessages)] /\ tccIn \in [Ends -> Seq(TccMessages)]
  BY <1>1 DEF TypeOK
<1>h. /\ OpenNotClosing(e) /\ Announced(e) /\ Arriving(e) /\ Agreed(e)
      /\ OpenNotClosing(p) /\ Announced(p) /\ Arriving(p) /\ Agreed(p)
  BY <1>1, <1>2 DEF Handshake
<1>3. /\ closing[e] = "closedSent" /\ closing' = [closing EXCEPT ![e] = "returned"]
      /\ state' = [state EXCEPT ![e] = AfterChanClosedSent(state[e])]
      /\ UNCHANGED <<discard, switching, nulled, closes, writeVars, outstanding, readVars, tccOut, wire, tccIn, faults>>
  BY DEF CloseReturns
<1>4. /\ closing'[e] = "returned" /\ closing'[p] = closing[p] /\ state'[p] = state[p]
      /\ \/ state[e] = "CLOSING" /\ state'[e] = "REMOTE_CLOSING"
         \/ state[e] = "LOCAL_CLOSING" /\ state'[e] = "CLOSED"
         \/ state[e] \notin {"CLOSING", "LOCAL_CLOSING"} /\ state'[e] = state[e]
  BY <1>2, <1>3, <1>f DEF AfterChanClosedSent
<1>5. /\ closing' \in [Ends -> {"no", "sendClose", "beforeClosing", "drain", "sendClosed",
                                "closedSent", "returned", "failed"}]
      /\ state' \in [Ends -> {"OPEN", "CLOSED", "DISCONNECTED"} \cup Closing]
  <2>1. AfterChanClosedSent(state[e]) \in {"OPEN", "CLOSED", "DISCONNECTED"} \cup Closing
    BY <1>f DEF AfterChanClosedSent, Closing
  <2> QED
    BY <1>3, <1>f, <2>1
<1>6. TypeOK'
  <2>1. nulled' \subseteq {o \in Ends : state'[o] = "CLOSED"}
    BY <1>1, <1>2, <1>3, <1>4 DEF TypeOK
  <2> QED
    BY <1>1, <1>3, <1>5, <2>1 DEF TypeOK, writeVars, readVars
<1>7. Finished(e) /\ Finished(e)' /\ (Finished(p)' <=> Finished(p))
  BY <1>3, <1>4 DEF Finished
<1>8. OpenNotClosing(e)' /\ Announced(e)' /\ Arriving(e)' /\ Agreed(e)'
  BY <1>3, <1>4, <1>7, <1>h DEF OpenNotClosing, Announced, Arriving, Agreed, p
<1>9. OpenNotClosing(p)' /\ Announced(p)' /\ Arriving(p)' /\ Agreed(p)'
  BY <1>2, <1>3, <1>4, <1>7, <1>h DEF OpenNotClosing, Announced, Arriving, Agreed
<1>10. \A o \in Ends : HasTask(o)' /\ Drained(o)'
  BY <1>1, <1>2, <1>3, <1>4 DEF Accounts, HasTask, Drained, writeVars
<1>11. \A o \in Ends : Balanced(o)'
  BY <1>1, <1>3, SameBalance DEF readVars
<1> QED
  BY <1>1, <1>2, <1>3, <1>6, <1>8, <1>9, <1>10, <1>11 DEF IInv, OnlyEchoIsLate, Accounts, Handshake

(* chanClosed comes only once, and never to an end that is closed. *)
LEMMA HandleChanClosedKeeps == ASSUME IInv, NEW e \in Ends, HandleChanClosed(e) PROVE IInv' /\ e \notin nulled
<1> DEFINE p == Peer(e)
<1>1. TypeOK /\ Accounts /\ Handshake /\ faults \subseteq {"chanClose"}
  BY DEF IInv, OnlyEchoIsLate
<1>2. p \in Ends /\ p # e /\ Peer(p) = e /\ \A o \in Ends : o = e \/ o = p
  BY PeerFacts
<1> HIDE DEF p
<1>f. /\ closing \in [Ends -> {"no", "sendClose", "beforeClosing", "drain", "sendClosed",
                              "closedSent", "returned", "failed"}]
      /\ state \in [Ends -> {"OPEN", "CLOSED", "DISCONNECTED"} \cup Closing]
      /\ tccOut \in [Ends -> Seq(TccMessages)] /\ tccIn \in [Ends -> Seq(TccMessages)]
  BY <1>1 DEF TypeOK
<1>h. /\ OpenNotClosing(e) /\ Announced(e) /\ Arriving(e) /\ Agreed(e)
      /\ OpenNotClosing(p) /\ Announced(p) /\ Arriving(p) /\ Agreed(p)
  BY <1>1, <1>2 DEF Handshake
<1> DEFINE m == Head(tccIn[e])
<1>3. /\ tccIn[e] # <<>> /\ m.type = "chanClosed" /\ tccIn' = [tccIn EXCEPT ![e] = Tail(tccIn[e])]
      /\ UNCHANGED <<discard, closing, switching, nulled, closes, writeVars, outstanding, readVars, tccOut, wire>>
  BY DEF HandleChanClosed
<1>q. /\ tccIn' \in [Ends -> Seq(TccMessages)] /\ tccIn'[p] = tccIn[p] /\ m \in TccMessages
      /\ HasClosed(tccIn[e]) <=> IsClosed(m) \/ HasClosed(tccIn'[e])
      /\ OneClosed(tccIn[e]) => OneClosed(tccIn'[e]) /\ ~(IsClosed(m) /\ HasClosed(tccIn'[e]))
  <2>1. tccIn[e] \in Seq(TccMessages) /\ tccIn'[e] = Tail(tccIn[e]) /\ tccIn'[p] = tccIn[p]
    BY <1>2, <1>3, <1>f
  <2>2. m \in TccMessages /\ Tail(tccIn[e]) \in Seq(TccMessages)
    BY <1>3, <2>1, TailClosed
  <2>3. tccIn' \in [Ends -> Seq(TccMessages)]
    BY <1>3, <1>f, <2>2
  <2>4. HasClosed(tccIn[e]) <=> IsClosed(m) \/ HasClosed(tccIn'[e])
    BY <1>3, <2>1, TailClosed
  <2>5. OneClosed(tccIn[e]) => OneClosed(tccIn'[e]) /\ ~(IsClosed(m) /\ HasClosed(tccIn'[e]))
    BY <1>3, <2>1, TailClosed
  <2> QED
    BY <2>1, <2>2, <2>3, <2>4, <2>5
<1>4. HasClosed(tccIn[e]) /\ ~HasClosed(tccIn'[e]) /\ OneClosed(tccIn'[e])
  BY <1>3, <1>q, <1>h DEF Arriving, IsClosed
<1>5. Finished(p) /\ state[e] \notin {"LOCAL_CLOSING", "CLOSED"} /\ ~HasClosed(wire[e])
  BY <1>4, <1>h DEF Arriving, p
<1>6. e \notin nulled
  BY <1>1, <1>5 DEF TypeOK
<1>7. faults' = faults /\ state' = [state EXCEPT ![e] = AfterRemoteChanClosed(state[e])]
  BY <1>6 DEF HandleChanClosed
<1>8. /\ state'[p] = state[p]
      /\ \/ state[e] = "CLOSING" /\ state'[e] = "LOCAL_CLOSING"
         \/ state[e] = "REMOTE_CLOSING" /\ state'[e] = "CLOSED"
         \/ state[e] \notin {"CLOSING", "REMOTE_CLOSING"} /\ state'[e] = state[e]
  BY <1>2, <1>7, <1>f DEF AfterRemoteChanClosed
<1>9. state' \in [Ends -> {"OPEN", "CLOSED", "DISCONNECTED"} \cup Closing]
  <2>1. AfterRemoteChanClosed(state[e]) \in {"OPEN", "CLOSED", "DISCONNECTED"} \cup Closing
    BY <1>f DEF AfterRemoteChanClosed, Closing
  <2> QED
    BY <1>7, <1>f, <2>1
<1>10. TypeOK'
  <2>1. nulled' \subseteq {o \in Ends : state'[o] = "CLOSED"}
    BY <1>1, <1>2, <1>3, <1>8 DEF TypeOK
  <2> QED
    BY <1>1, <1>3, <1>9, <1>q, <2>1 DEF TypeOK, writeVars, readVars
<1>11. (Finished(e)' <=> Finished(e)) /\ (Finished(p)' <=> Finished(p))
  BY <1>3 DEF Finished
<1>12. OpenNotClosing(e)' /\ Announced(e)' /\ Arriving(e)' /\ Agreed(e)'
  <2>1. Arriving(e)'
    BY <1>3, <1>4, <1>5, <1>h DEF Arriving
  <2>2. Agreed(e)'
    <3>1. state[e] = "REMOTE_CLOSING" => Finished(e)
      BY <1>h DEF Agreed, Finished
    <3>2. Finished(Peer(e))'
      BY <1>5, <1>11 DEF p
    <3> QED
      BY <1>3, <1>5, <1>8, <1>11, <1>h, <3>1, <3>2 DEF Agreed
  <2> QED
    BY <1>3, <1>8, <1>h, <2>1, <2>2 DEF OpenNotClosing, Announced
<1>13. OpenNotClosing(p)' /\ Announced(p)' /\ Arriving(p)' /\ Agreed(p)'
  BY <1>2, <1>3, <1>8, <1>11, <1>q, <1>h DEF OpenNotClosing, Announced, Arriving, Agreed
<1>14. \A o \in Ends : HasTask(o)' /\ Drained(o)'
  BY <1>1, <1>2, <1>3, <1>8 DEF Accounts, HasTask, Drained, writeVars
<1>15. \A o \in Ends : Balanced(o)'
  BY <1>1, <1>3, SameBalance DEF readVars
<1> QED
  BY <1>1, <1>2, <1>6, <1>7, <1>10, <1>12, <1>13, <1>14, <1>15 DEF IInv, OnlyEchoIsLate, Accounts, Handshake

LEMMA DisconnectKeeps == ASSUME IInv, NEW e \in Ends, Disconnect(e) PROVE IInv'
<1> DEFINE p == Peer(e)
<1>1. TypeOK /\ Accounts /\ Handshake /\ faults \subseteq {"chanClose"}
  BY DEF IInv, OnlyEchoIsLate
<1>2. p \in Ends /\ p # e /\ Peer(p) = e /\ \A o \in Ends : o = e \/ o = p
  BY PeerFacts
<1> HIDE DEF p
<1>f. /\ closing \in [Ends -> {"no", "sendClose", "beforeClosing", "drain", "sendClosed",
                              "closedSent", "returned", "failed"}]
      /\ state \in [Ends -> {"OPEN", "CLOSED", "DISCONNECTED"} \cup Closing]
      /\ tccOut \in [Ends -> Seq(TccMessages)] /\ tccIn \in [Ends -> Seq(TccMessages)]
  BY <1>1 DEF TypeOK
<1>h. /\ OpenNotClosing(e) /\ Announced(e) /\ Arriving(e) /\ Agreed(e)
      /\ OpenNotClosing(p) /\ Announced(p) /\ Arriving(p) /\ Agreed(p)
  BY <1>1, <1>2 DEF Handshake
<1>3. /\ state[e] \notin {"CLOSED", "DISCONNECTED"} /\ state' = [state EXCEPT ![e] = "DISCONNECTED"]
      /\ tccOut' = [tccOut EXCEPT ![e] = <<>>] /\ switching' = [switching EXCEPT ![e] = "no"]
      /\ UNCHANGED <<discard, nulled, closes, written, sending, outstanding, readVars, wire, tccIn, faults>>
  BY DEF Disconnect
<1>4. PICK step \in AfterDisconnect(closing[e]) : closing' = [closing EXCEPT ![e] = step]
  BY DEF Disconnect
<1>5. PICK w \in {<<>>, writes[e]} : writes' = [writes EXCEPT ![e] = w]
  BY DEF Disconnect
<1>6. /\ closing'[p] = closing[p] /\ state'[p] = state[p] /\ state'[e] = "DISCONNECTED"
      /\ tccOut'[e] = <<>> /\ tccOut'[p] = tccOut[p]
      /\ closing'[e] = closing[e] \/ (closing[e] \notin {"closedSent", "returned"} /\ closing'[e] \in {"failed", "beforeClosing"})
  BY <1>2, <1>3, <1>4, <1>f DEF AfterDisconnect
<1>7. /\ closing' \in [Ends -> {"no", "sendClose", "beforeClosing", "drain", "sendClosed",
                                "closedSent", "returned", "failed"}]
      /\ state' \in [Ends -> {"OPEN", "CLOSED", "DISCONNECTED"} \cup Closing]
      /\ tccOut' \in [Ends -> Seq(TccMessages)] /\ writes' \in [Ends -> Seq(1 .. MessageChunks)]
  <2>1. step \in {"no", "sendClose", "beforeClosing", "drain", "sendClosed", "closedSent", "returned", "failed"}
    BY <1>4, <1>f DEF AfterDisconnect
  <2>2. writes \in [Ends -> Seq(1 .. MessageChunks)]
    BY <1>1 DEF TypeOK
  <2>3. w \in Seq(1 .. MessageChunks)
    <3>1. <<>> \in Seq(1 .. MessageChunks) /\ writes[e] \in Seq(1 .. MessageChunks)
      BY <2>2
    <3> QED
      BY <1>5, <3>1
  <2>4. writes' \in [Ends -> Seq(1 .. MessageChunks)]
    BY <1>5, <2>2, <2>3
  <2>5. tccOut' \in [Ends -> Seq(TccMessages)]
    <3>1. <<>> \in Seq(TccMessages)
      OBVIOUS
    <3> QED
      BY <1>3, <1>f, <3>1
  <2> QED
    BY <1>3, <1>4, <1>f, <2>1, <2>4, <2>5
<1>8. TypeOK'
  <2>1. nulled' \subseteq {o \in Ends : state'[o] = "CLOSED"}
    BY <1>1, <1>2, <1>3, <1>6 DEF TypeOK
  <2>2. switching' \in [Ends -> {"no", "sendClose", "discard"}]
    BY <1>1, <1>3 DEF TypeOK
  <2> QED
    BY <1>1, <1>3, <1>7, <2>1, <2>2 DEF TypeOK, readVars
<1>9. (Finished(e)' <=> Finished(e)) /\ (Finished(p)' <=> Finished(p))
  BY <1>6 DEF Finished
<1>10. OpenNotClosing(e)' /\ Announced(e)' /\ Arriving(e)' /\ Agreed(e)'
  <2>1. OneClosed(tccOut'[e]) /\ ~HasClosed(tccOut'[e])
    BY <1>6 DEF OneClosed, HasClosed
  <2> QED
    BY <1>3, <1>6, <1>9, <1>h, <2>1 DEF OpenNotClosing, Announced, Arriving, Agreed, p
<1>11. OpenNotClosing(p)' /\ Announced(p)' /\ Arriving(p)' /\ Agreed(p)'
  BY <1>2, <1>3, <1>6, <1>9, <1>h DEF OpenNotClosing, Announced, Arriving, Agreed
<1>12. \A o \in Ends : HasTask(o)' /\ Drained(o)'
  <2>1. writes \in [Ends -> Seq(1 .. MessageChunks)]
    BY <1>1 DEF TypeOK
  <2>2. writes'[p] = writes[p] /\ writes'[e] \in {<<>>, writes[e]}
    BY <1>2, <1>5, <2>1
  <2>3. HasTask(e)' /\ HasTask(p)'
    BY <1>1, <1>2, <1>3, <1>6, <2>2 DEF Accounts, HasTask
  <2>4. Drained(e)' /\ Drained(p)'
    BY <1>1, <1>2, <1>3, <1>6, <2>2 DEF Accounts, Drained
  <2> QED
    BY <1>2, <2>3, <2>4
<1>13. \A o \in Ends : Balanced(o)'
  BY <1>1, <1>3, SameBalance DEF readVars
<1> QED
  BY <1>1, <1>2, <1>3, <1>8, <1>10, <1>11, <1>12, <1>13 DEF IInv, OnlyEchoIsLate, Accounts, Handshake

LEMMA InvNext == IInv /\ [Next]_vars => IInv'
<1> SUFFICES ASSUME IInv, [Next]_vars PROVE IInv'
  OBVIOUS
<1>1. ASSUME NEW e \in Ends, Use(e) PROVE IInv'
  BY <1>1, WriteKeeps, ReadKeeps, CloseKeeps DEF Use
<1>2. ASSUME NEW e \in Ends, Progress(e) PROVE IInv'
  <2>1. CASE WriteStep(e) \/ Done(e) \/ SendAck(e)
    BY <2>1, NextChunkKeeps, SendChunkKeeps, ReadKeeps, SendAckKeeps DEF WriteStep
  <2>2. CASE ReceiveStep(e)
    BY <2>2, ReceiveDataKeeps, ReceiveAckKeeps, ReceiveTccKeeps DEF ReceiveStep
  <2>3. CASE CloseStep(e)
    BY <2>3, TccSendKeeps, InnerCloseKeeps, SendChanClosedKeeps, CloseReturnsKeeps DEF CloseStep
  <2>4. CASE TccReader(e)
    BY <2>4, HandleChanCloseKeeps, HandleChanClosedKeeps DEF TccReader
  <2> QED
    BY <1>2, <2>1, <2>2, <2>3, <2>4 DEF Progress
<1>3. ASSUME NEW e \in Ends, Disconnect(e) PROVE IInv'
  BY <1>3, DisconnectKeeps
<1>4. CASE UNCHANGED vars
  <2>1. TypeOK'
    BY <1>4 DEF IInv, OnlyEchoIsLate, TypeOK, vars, closeVars, writeVars, readVars
  <2>2. Accounts'
    BY <1>4, SameBalance DEF IInv, Accounts, HasTask, Drained, vars, closeVars, writeVars, readVars
  <2>3. Handshake'
    BY <1>4, SameHandshake DEF IInv, vars, closeVars
  <2> QED
    BY <1>4, <2>1, <2>2, <2>3 DEF IInv, OnlyEchoIsLate, vars
<1> QED
  BY <1>1, <1>2, <1>3, <1>4 DEF Next

(* However closes cross, nothing of a channel comes to an end that is      *)
(* already closed, but for the echo of a switch to discard mode            *)
(* (receiveMessage, #onChannelClosed).                                     *)
THEOREM NothingElseIsLate == Spec => []OnlyEchoIsLate
<1>1. IInv => OnlyEchoIsLate
  BY DEF IInv
<1> QED
  BY <1>1, InvInit, InvNext, PTL DEF Spec

----------------------------------------------------------------------------
(* The handshake implements Closure: every step is one of Closure, or none *)
(* at all.                                                                 *)

(* Chunks that are left to be sent *)
Left(w) == IF w = <<>> THEN 0 ELSE Head(w) + (Len(w) - 1) * MessageChunks

LEMMA Products == ASSUME NEW a \in Nat, NEW b \in Nat PROVE a * b \in Nat /\ (a + 1) * b = a * b + b
OBVIOUS

LEMMA LeftFacts ==
    ASSUME NEW w \in Seq(1 .. MessageChunks)
    PROVE  /\ Left(w) \in Nat
           /\ Left(Append(w, MessageChunks)) > Left(w)
           /\ w # <<>> => Left(Tail(w)) <= Left(w) /\ Left(OneChunkLess(w)) < Left(w)
<1> DEFINE M == MessageChunks
<1>m. M \in Nat /\ M > 0
  BY ChunksAssumption
<1>1. CASE w = <<>>
  <2>1. Append(w, M) # <<>> /\ Head(Append(w, M)) = M /\ Len(Append(w, M)) = 1 /\ Left(w) = 0
    BY <1>1, <1>m DEF Left
  <2>2. Left(Append(w, M)) = M + 0 * M
    BY <2>1 DEF Left
  <2> QED
    BY <1>1, <1>m, <2>1, <2>2
<1>2. CASE w # <<>>
  <2>1. /\ Head(w) = w[1] /\ w[1] \in 1 .. M /\ Len(w) \in Nat /\ Len(w) > 0
        /\ Tail(w) \in Seq(1 .. M) /\ w \in [1 .. Len(w) -> 1 .. M]
    BY <1>2, SeqFacts
  <2> DEFINE k == Len(w) - 1
  <2>2. k \in Nat /\ k * M \in Nat /\ (k + 1) * M = k * M + M /\ Left(w) = w[1] + k * M
    BY <1>2, <1>m, <2>1, Products DEF Left
  <2>3. Left(Append(w, M)) = w[1] + (k + 1) * M
    <3>1. Append(w, M) # <<>> /\ Head(Append(w, M)) = w[1] /\ Len(Append(w, M)) - 1 = k + 1
      BY <2>1
    <3> QED
      BY <3>1 DEF Left
  <2>4. Left(Tail(w)) <= k * M
    <3>1. CASE Tail(w) = <<>>
      BY <2>2, <3>1 DEF Left
    <3>2. CASE Tail(w) # <<>>
      <4>1. Head(Tail(w)) \in 1 .. M /\ Len(Tail(w)) = k /\ k > 0
        BY <2>1, <3>2
      <4> DEFINE j == k - 1
      <4>2. j \in Nat /\ j * M \in Nat /\ (j + 1) * M = j * M + M /\ j + 1 = k
        BY <1>m, <2>2, <4>1, Products
      <4>3. Left(Tail(w)) = Head(Tail(w)) + j * M
        BY <3>2, <4>1 DEF Left
      <4>4. Head(Tail(w)) \in Nat /\ Head(Tail(w)) <= M
        BY <1>m, <4>1
      <4>5. Head(Tail(w)) + j * M <= (j + 1) * M
        <5> HIDE DEF j, M
        <5>1. \A x \in Nat, h \in Nat, m \in Nat : h <= m => h + x <= x + m
          OBVIOUS
        <5> QED
          BY <1>m, <4>2, <4>4, <5>1
      <4>6. Left(Tail(w)) <= (j + 1) * M
        BY <4>3, <4>5, Zenon
      <4> HIDE DEF j, k, M
      <4> QED
        BY <4>2, <4>6, Zenon
    <3> QED
      BY <3>1, <3>2
  <2>5. Left(Tail(w)) < Left(w) /\ Left(Tail(w)) \in Int
    <3>1. Left(Tail(w)) \in Int
      <4>1. CASE Tail(w) = <<>>
        BY <4>1 DEF Left
      <4>2. CASE Tail(w) # <<>>
        <5>1. Head(Tail(w)) \in 1 .. M /\ Len(Tail(w)) - 1 \in Nat
          BY <2>1, <4>2
        <5> QED
          BY <1>m, <4>2, <5>1, Products DEF Left
      <4> QED
        BY <4>1, <4>2
    <3> HIDE DEF k
    <3> QED
      BY <2>1, <2>2, <2>4, <3>1
  <2>6. Left(OneChunkLess(w)) < Left(w)
    <3>1. CASE Head(w) = 1
      BY <2>5, <3>1 DEF OneChunkLess
    <3>2. CASE Head(w) # 1
      <4> DEFINE v == [w EXCEPT ![1] = @ - 1]
      <4>1. v # <<>> /\ Head(v) = w[1] - 1 /\ Len(v) - 1 = k
        BY <2>1
      <4>2. Left(v) = w[1] - 1 + k * M
        BY <4>1 DEF Left
      <4>3. OneChunkLess(w) = v
        BY <3>2 DEF OneChunkLess
      <4> HIDE DEF v, k
      <4> QED
        BY <2>1, <2>2, <4>2, <4>3
    <3> QED
      BY <3>1, <3>2
  <2> HIDE DEF k
  <2> QED
    BY <1>m, <2>1, <2>2, <2>3, <2>5, <2>6
<1> QED
  BY <1>1, <1>2

(* What Pending(e) adds up *)
PendingParts ==
    \A e \in Ends : /\ Pending(e) = Left(writes[e]) + DataTo(Peer(e)) + buffered[Peer(e)] + held[Peer(e)]
                    /\ Pending(e) \in Nat /\ Left(writes[e]) \in Nat /\ DataTo(e) \in Nat
                    /\ buffered[e] \in Nat /\ held[e] \in Nat

LEMMA PendingType == TypeOK => PendingParts
<1> SUFFICES ASSUME TypeOK, NEW e \in Ends
             PROVE  /\ Pending(e) = Left(writes[e]) + DataTo(Peer(e)) + buffered[Peer(e)] + held[Peer(e)]
                    /\ Pending(e) \in Nat /\ Left(writes[e]) \in Nat /\ DataTo(e) \in Nat
                    /\ buffered[e] \in Nat /\ held[e] \in Nat
  BY DEF PendingParts
<1>1. Left(writes[e]) \in Nat
  BY LeftFacts DEF TypeOK
<1>2. \A o \in Ends : DataTo(o) \in Nat /\ buffered[o] \in Nat /\ held[o] \in Nat
  BY NatFacts
<1>3. Pending(e) = Left(writes[e]) + DataTo(Peer(e)) + buffered[Peer(e)] + held[Peer(e)]
  BY DEF Pending, ToSend, Left
<1> QED
  BY <1>1, <1>2, <1>3, PeerFacts

LEMMA PendingTypeNext == TypeOK' => PendingParts'
BY PendingType, PTL

LEMMA SamePending ==
    ASSUME UNCHANGED <<writes, wire, buffered, held>>
    PROVE  \A o \in Ends : Pending(o)' = Pending(o)
BY DEF Pending, ToSend, DataTo

(* The steps of Closure, as an end of the channel takes them               *)
Ended == {e \in Ends : closing[e] \in {"closedSent", "returned"}}
SameStatus == Ended' = Ended /\ \A o \in Ends : Status(o)' = Status(o)

LEMMA ProcessRefines ==
    ASSUME TypeOK, TypeOK', NEW e \in Ends, Pending(e)' <= Pending(e), SameStatus,
           \A o \in Ends : o # e => Pending(o)' = Pending(o)
    PROVE  Promise!Next
<1>1. Pending(e) \in Nat /\ Pending(e)' \in Nat
  BY PendingType, PendingTypeNext DEF PendingParts
<1>2. Pending(e)' \in 0 .. Pending(e)
  BY <1>1
<1>3. Promise!Process(e)
  BY <1>2 DEF Promise!Process, Ended, SameStatus
<1> QED
  BY <1>3 DEF Promise!Next

LEMMA IdleRefines ==
    ASSUME TypeOK, TypeOK', SameStatus, \A o \in Ends : Pending(o)' = Pending(o)
    PROVE  Promise!Next
<1>1. PICK e \in Ends : TRUE
  BY DEF Ends
<1>2. Pending(e)' <= Pending(e)
  BY PendingType DEF PendingParts
<1> QED
  BY <1>1, <1>2, ProcessRefines

LEMMA CloseRefines ==
    ASSUME NEW e \in Ends, Status(e) = "closing", Status(e)' = "closed", Ended = Ends, Ended' = Ended,
           \A o \in Ends : Pending(o)' = Pending(o) /\ (o # e => Status(o)' = Status(o))
    PROVE  Promise!Next
<1>1. Promise!Close(e)
  BY DEF Promise!Close, Ended
<1> QED
  BY <1>1 DEF Promise!Next

(* Steps that change nothing but chunks *)
LEMMA SameClose == ASSUME UNCHANGED <<state, closing>> PROVE SameStatus
BY DEF SameStatus, Ended, Status

----------------------------------------------------------------------------
(* Every action is such a step.                                            *)

LEMMA WriteRefines == ASSUME TypeOK, TypeOK', NEW e \in Ends, Write(e) PROVE Promise!Next
<1>1. /\ state[e] = "OPEN" /\ writes' = [writes EXCEPT ![e] = Append(@, MessageChunks)]
      /\ UNCHANGED <<state, closing, wire, buffered, held>>
  BY DEF Write, closeVars, readVars
<1>2. writes[e] \in Seq(1 .. MessageChunks) /\ writes \in [Ends -> Seq(1 .. MessageChunks)]
  BY DEF TypeOK
<1>3. writes'[e] = Append(writes[e], MessageChunks) /\ \A o \in Ends : o # e => writes'[o] = writes[o]
  BY <1>1, <1>2
<1>4. Left(writes'[e]) > Left(writes[e])
  BY <1>2, <1>3, LeftFacts
<1>5. \A o \in Ends : DataTo(o)' = DataTo(o) /\ buffered'[o] = buffered[o] /\ held'[o] = held[o]
  BY <1>1 DEF DataTo
<1>6. PendingParts /\ PendingParts' /\ Peer(e) \in Ends
  BY PendingType, PendingTypeNext, PeerFacts
<1>7. \A o \in Ends : o # e => Pending(o)' = Pending(o)
  BY <1>3, <1>5, <1>6, PeerFacts DEF PendingParts
<1>8. Pending(e)' \in Nat /\ Pending(e)' > Pending(e)
  <2>1. /\ Pending(e) = Left(writes[e]) + DataTo(Peer(e)) + buffered[Peer(e)] + held[Peer(e)]
        /\ Left(writes[e]) \in Nat /\ DataTo(Peer(e)) \in Nat /\ buffered[Peer(e)] \in Nat /\ held[Peer(e)] \in Nat
    BY <1>6 DEF PendingParts
  <2>2. /\ Pending(e)' = Left(writes'[e]) + DataTo(Peer(e))' + buffered'[Peer(e)] + held'[Peer(e)]
        /\ Pending(e)' \in Nat /\ Left(writes'[e]) \in Nat
    BY <1>6 DEF PendingParts
  <2> QED
    BY <1>4, <1>5, <1>6, <2>1, <2>2
<1>9. SameStatus /\ Status(e) = "open"
  <2>1. Status(e) = "open"
    BY <1>1 DEF Status, Closing
  <2> QED
    BY <1>1, <2>1, SameClose
<1>10. Promise!Write(e)
  BY <1>7, <1>8, <1>9 DEF Promise!Write, SameStatus, Ended
<1> QED
  BY <1>10 DEF Promise!Next

LEMMA NextChunkRefines == ASSUME TypeOK, TypeOK', NEW e \in Ends, NextChunk(e) PROVE Promise!Next
<1>1. /\ writes[e] # <<>> /\ UNCHANGED <<state, closing, wire, buffered, held>>
      /\ writes' = [writes EXCEPT ![e] = Tail(@)] \/ writes' = writes
  BY DEF NextChunk, closeVars, readVars
<1>2. writes[e] \in Seq(1 .. MessageChunks) /\ writes \in [Ends -> Seq(1 .. MessageChunks)]
  BY DEF TypeOK
<1>3. writes'[e] \in {writes[e], Tail(writes[e])} /\ \A o \in Ends : o # e => writes'[o] = writes[o]
  BY <1>1, <1>2
<1>4. PendingParts /\ PendingParts' /\ Peer(e) \in Ends
  BY PendingType, PendingTypeNext, PeerFacts
<1>5. Left(writes'[e]) <= Left(writes[e])
  <2>1. Left(writes[e]) \in Nat
    BY <1>4 DEF PendingParts
  <2>2. CASE writes'[e] = writes[e]
    BY <2>1, <2>2
  <2>3. CASE writes'[e] = Tail(writes[e])
    BY <1>1, <1>2, <2>3, LeftFacts
  <2> QED
    BY <1>3, <2>2, <2>3
<1>6. \A o \in Ends : DataTo(o)' = DataTo(o) /\ buffered'[o] = buffered[o] /\ held'[o] = held[o]
  BY <1>1 DEF DataTo
<1>7. \A o \in Ends : o # e => Pending(o)' = Pending(o)
  BY <1>3, <1>4, <1>6, PeerFacts DEF PendingParts
<1>8. Pending(e)' <= Pending(e)
  <2>1. /\ Pending(e) = Left(writes[e]) + DataTo(Peer(e)) + buffered[Peer(e)] + held[Peer(e)]
        /\ Left(writes[e]) \in Nat /\ DataTo(Peer(e)) \in Nat /\ buffered[Peer(e)] \in Nat /\ held[Peer(e)] \in Nat
    BY <1>4 DEF PendingParts
  <2>2. /\ Pending(e)' = Left(writes'[e]) + DataTo(Peer(e))' + buffered'[Peer(e)] + held'[Peer(e)]
        /\ Left(writes'[e]) \in Nat
    BY <1>4 DEF PendingParts
  <2> QED
    BY <1>4, <1>5, <1>6, <2>1, <2>2
<1> QED
  BY <1>1, <1>7, <1>8, SameClose, ProcessRefines

LEMMA SendChunkRefines == ASSUME IInv, TypeOK', NEW e \in Ends, SendChunk(e) PROVE Promise!Next
<1>1. /\ TypeOK /\ writes' = [writes EXCEPT ![e] = OneChunkLess(@)] /\ e \in sending /\ state[e] # "DISCONNECTED"
      /\ wire' = [wire EXCEPT ![Peer(e)] = Append(@, Message("data"))]
      /\ UNCHANGED <<state, closing, buffered, held>>
  BY DEF IInv, OnlyEchoIsLate, SendChunk, closeVars, readVars
<1>2. /\ writes[e] \in Seq(1 .. MessageChunks) /\ writes \in [Ends -> Seq(1 .. MessageChunks)]
      /\ writes[e] # <<>>
  BY <1>1 DEF IInv, Accounts, HasTask, TypeOK
<1>3. writes'[e] = OneChunkLess(writes[e]) /\ \A o \in Ends : o # e => writes'[o] = writes[o]
  BY <1>1, <1>2
<1>4. PendingParts /\ PendingParts' /\ Peer(e) \in Ends
  BY <1>1, PendingType, PendingTypeNext, PeerFacts
<1>5. Left(writes'[e]) < Left(writes[e])
  BY <1>2, <1>3, LeftFacts
<1>6. DataTo(Peer(e))' = DataTo(Peer(e)) + 1 /\ \A o \in Ends : o # Peer(e) => DataTo(o)' = DataTo(o)
  BY <1>1, <1>4, MessageFacts, WireAppend
<1>7. \A o \in Ends : o # e => Pending(o)' = Pending(o)
  <2> SUFFICES ASSUME NEW o \in Ends, o # e PROVE Pending(o)' = Pending(o)
    OBVIOUS
  <2>1. Peer(o) = e /\ Peer(e) # e
    BY PeerFacts
  <2>2. Pending(o) = Left(writes[o]) + DataTo(e) + buffered[e] + held[e]
    BY <1>4, <2>1 DEF PendingParts
  <2>3. Pending(o)' = Left(writes'[o]) + DataTo(e)' + buffered'[e] + held'[e]
    BY <1>4, <2>1 DEF PendingParts
  <2> QED
    BY <1>1, <1>3, <1>6, <2>1, <2>2, <2>3
<1>8. Pending(e)' <= Pending(e)
  <2>1. /\ Pending(e) = Left(writes[e]) + DataTo(Peer(e)) + buffered[Peer(e)] + held[Peer(e)]
        /\ Left(writes[e]) \in Nat /\ DataTo(Peer(e)) \in Nat /\ buffered[Peer(e)] \in Nat /\ held[Peer(e)] \in Nat
    BY <1>4 DEF PendingParts
  <2>2. /\ Pending(e)' = Left(writes'[e]) + DataTo(Peer(e))' + buffered'[Peer(e)] + held'[Peer(e)]
        /\ Left(writes'[e]) \in Nat
    BY <1>4 DEF PendingParts
  <2> QED
    BY <1>1, <1>5, <1>6, <2>1, <2>2
<1> QED
  BY <1>1, <1>7, <1>8, SameClose, ProcessRefines

(* What happens at an end to the chunks of its peer *)
LEMMA PeerProcesses ==
    ASSUME TypeOK, TypeOK', NEW e \in Ends, writes' = writes, SameStatus,
           \A o \in Ends : o # e => DataTo(o)' = DataTo(o) /\ buffered'[o] = buffered[o] /\ held'[o] = held[o],
           DataTo(e)' + buffered'[e] + held'[e] <= DataTo(e) + buffered[e] + held[e]
    PROVE  Promise!Next
<1> DEFINE p == Peer(e)
<1>1. p \in Ends /\ Peer(p) = e /\ p # e /\ \A o \in Ends : o = e \/ o = p
  BY PeerFacts
<1>2. PendingParts /\ PendingParts'
  BY PendingType, PendingTypeNext
<1> HIDE DEF p
<1>3. /\ Pending(p) = Left(writes[p]) + DataTo(e) + buffered[e] + held[e]
      /\ Left(writes[p]) \in Nat /\ DataTo(e) \in Nat /\ buffered[e] \in Nat /\ held[e] \in Nat
  BY <1>1, <1>2 DEF PendingParts
<1>4. /\ Pending(p)' = Left(writes'[p]) + DataTo(e)' + buffered'[e] + held'[e]
      /\ Left(writes'[p]) \in Nat /\ DataTo(e)' \in Nat /\ buffered'[e] \in Nat /\ held'[e] \in Nat
  BY <1>1, <1>2 DEF PendingParts
<1>5. Pending(p)' <= Pending(p)
  BY <1>3, <1>4
<1>6. Peer(e) = p
  BY DEF p
<1>7. Pending(e)' = Pending(e)
  <2>1. Pending(e) = Left(writes[e]) + DataTo(p) + buffered[p] + held[p]
    BY <1>1, <1>2, <1>6 DEF PendingParts
  <2>2. Pending(e)' = Left(writes'[e]) + DataTo(p)' + buffered'[p] + held'[p]
    BY <1>1, <1>2, <1>6 DEF PendingParts
  <2> QED
    BY <1>1, <2>1, <2>2
<1> QED
  BY <1>1, <1>5, <1>7, ProcessRefines

LEMMA ReadRefines == ASSUME TypeOK, TypeOK', NEW e \in Ends, Read(e) \/ Done(e) PROVE Promise!Next
<1>1. /\ buffered \in [Ends -> Nat] /\ held \in [Ends -> Nat]
      /\ UNCHANGED <<state, closing, writes, wire>>
  BY DEF TypeOK, Read, Done, closeVars, writeVars
<1>2. \A o \in Ends : DataTo(o)' = DataTo(o) /\ DataTo(o) \in Nat
  BY <1>1, NatFacts DEF DataTo
<1>3. CASE Read(e)
  <2>1. /\ buffered'[e] = buffered[e] - 1 /\ held'[e] = held[e] + 1 /\ buffered[e] \in Nat /\ held[e] \in Nat
        /\ \A o \in Ends : o # e => buffered'[o] = buffered[o] /\ held'[o] = held[o]
    BY <1>1, <1>3 DEF Read
  <2>2. DataTo(e)' + buffered'[e] + held'[e] <= DataTo(e) + buffered[e] + held[e]
    BY <1>2, <2>1
  <2> QED
    BY <1>1, <1>2, <2>1, <2>2, SameClose, PeerProcesses
<1>4. CASE Done(e)
  <2>1. /\ buffered' = buffered /\ held'[e] = held[e] - 1 /\ buffered[e] \in Nat /\ held[e] \in Nat
        /\ \A o \in Ends : o # e => held'[o] = held[o]
    BY <1>1, <1>4 DEF Done
  <2>2. DataTo(e)' + buffered'[e] + held'[e] <= DataTo(e) + buffered[e] + held[e]
    BY <1>2, <2>1
  <2> QED
    BY <1>1, <1>2, <2>1, <2>2, SameClose, PeerProcesses
<1> QED
  BY <1>3, <1>4

LEMMA SendAckRefines == ASSUME TypeOK, TypeOK', NEW e \in Ends, SendAck(e) PROVE Promise!Next
<1>1. /\ ackable[e] \in Nat \ {0} /\ Peer(e) \in Ends
      /\ wire' = [wire EXCEPT ![Peer(e)] = Append(@, Ack(ackable[e]))]
      /\ UNCHANGED <<state, closing, writes, buffered, held>>
  BY PeerFacts, NatFacts DEF SendAck, closeVars, writeVars
<1>2. Ack(ackable[e]) \in Messages /\ Ack(ackable[e]).type = "ack"
  BY <1>1, MessageFacts
<1>3. \A o \in Ends : DataTo(o)' = DataTo(o)
  <2>1. DataTo(Peer(e))' = DataTo(Peer(e)) + 0 /\ DataTo(Peer(e)) \in Nat
    BY <1>1, <1>2, NatFacts, WireAppend
  <2>2. \A o \in Ends : o # Peer(e) => DataTo(o)' = DataTo(o)
    BY <1>1, <1>2, WireAppend
  <2> QED
    BY <2>1, <2>2
<1>4. \A o \in Ends : Pending(o)' = Pending(o)
  BY <1>1, <1>3, PeerFacts DEF Pending, ToSend
<1> QED
  BY <1>1, <1>4, SameClose, IdleRefines

LEMMA ReceiveDataRefines == ASSUME IInv, TypeOK', NEW e \in Ends, ReceiveData(e) PROVE Promise!Next
<1>1. /\ TypeOK /\ buffered \in [Ends -> Nat] /\ held \in [Ends -> Nat]
      /\ wire[e] # <<>> /\ Head(wire[e]).type = "data" /\ wire' = [wire EXCEPT ![e] = Tail(@)]
      /\ UNCHANGED <<state, closing, writes>>
  BY DEF IInv, OnlyEchoIsLate, TypeOK, ReceiveData, closeVars, writeVars
<1>2. DataTo(e) = DataTo(e)' + 1 /\ DataTo(e)' \in Nat /\ \A o \in Ends : o # e => DataTo(o)' = DataTo(o)
  BY <1>1, WireTail
<1>3. /\ held' = held /\ \A o \in Ends : o # e => buffered'[o] = buffered[o]
      /\ buffered'[e] \in {buffered[e], buffered[e] + 1} /\ buffered[e] \in Nat /\ held[e] \in Nat
  BY <1>1 DEF ReceiveData, readVars
<1>4. DataTo(e)' + buffered'[e] + held'[e] <= DataTo(e) + buffered[e] + held[e]
  BY <1>2, <1>3
<1> QED
  BY <1>1, <1>2, <1>3, <1>4, SameClose, PeerProcesses

LEMMA ReceiveOtherRefines ==
    ASSUME TypeOK, TypeOK', NEW e \in Ends, ReceiveAck(e) \/ ReceiveTcc(e) PROVE Promise!Next
<1>1. /\ wire[e] # <<>> /\ Head(wire[e]).type # "data" /\ wire' = [wire EXCEPT ![e] = Tail(@)]
      /\ UNCHANGED <<state, closing, writes, buffered, held>>
  BY DEF ReceiveAck, ReceiveTcc, closeVars, writeVars, readVars
<1>2. \A o \in Ends : DataTo(o)' = DataTo(o)
  <2>1. DataTo(e) = DataTo(e)' + 0 /\ DataTo(e)' \in Nat
    BY <1>1, WireTail
  <2>2. \A o \in Ends : o # e => DataTo(o)' = DataTo(o)
    BY <1>1, WireTail
  <2> QED
    BY <2>1, <2>2
<1>3. \A o \in Ends : Pending(o)' = Pending(o)
  BY <1>1, <1>2, PeerFacts DEF Pending, ToSend
<1> QED
  BY <1>1, <1>3, SameClose, IdleRefines

(* #discardExistingInput throws away what the peer wrote *)
LEMMA DiscardRefines ==
    ASSUME TypeOK, TypeOK', NEW e \in Ends, DiscardExistingInput(e), UNCHANGED <<writes, wire>>, SameStatus
    PROVE  Promise!Next
<1>1. /\ buffered \in [Ends -> Nat] /\ held \in [Ends -> Nat] /\ held' = held
      /\ buffered' = [buffered EXCEPT ![e] = 0]
  BY DEF TypeOK, DiscardExistingInput
<1>2. \A o \in Ends : DataTo(o)' = DataTo(o) /\ DataTo(o) \in Nat
  BY NatFacts DEF DataTo
<1>3. buffered'[e] = 0 /\ buffered[e] \in Nat /\ held[e] \in Nat /\ \A o \in Ends : o # e => buffered'[o] = buffered[o]
  BY <1>1
<1>4. DataTo(e)' + buffered'[e] + held'[e] <= DataTo(e) + buffered[e] + held[e]
  BY <1>1, <1>2, <1>3
<1> QED
  BY <1>1, <1>2, <1>3, <1>4, PeerProcesses

LEMMA CallCloseRefines ==
    ASSUME IInv, TypeOK', NEW e \in Ends, NEW d \in BOOLEAN, CallClose(e, d), UNCHANGED <<writes, wire>>
    PROVE  Promise!Next
<1>1. TypeOK /\ state \in [Ends -> {"OPEN", "CLOSED", "DISCONNECTED"} \cup Closing]
  BY DEF IInv, OnlyEchoIsLate, TypeOK
<1>2. CASE /\ state[e] = "OPEN" /\ state' = [state EXCEPT ![e] = "CLOSING"]
           /\ closing' = [closing EXCEPT ![e] = "sendClose"] /\ UNCHANGED <<buffered, held>>
  <2>1. closing[e] = "no" /\ closing \in [Ends -> {"no", "sendClose", "beforeClosing", "drain", "sendClosed",
                                                   "closedSent", "returned", "failed"}]
    BY <1>2 DEF IInv, Handshake, OpenNotClosing, OnlyEchoIsLate, TypeOK
  <2>2. Ended' = Ended
    BY <1>2, <2>1 DEF Ended
  <2>3. /\ Status(e) = "open" /\ Status(e)' = "closing" /\ \A o \in Ends : o # e => Status(o)' = Status(o)
    BY <1>1, <1>2 DEF Status, Closing
  <2>4. \A o \in Ends : Pending(o)' = Pending(o)
    BY <1>2, SamePending
  <2>5. Promise!StartClosing(e)
    BY <2>2, <2>3, <2>4 DEF Promise!StartClosing, Ended
  <2> QED
    BY <2>5 DEF Promise!Next
<1>3. CASE UNCHANGED <<state, closing>> /\ DiscardExistingInput(e)
  BY <1>1, <1>3, SameClose, DiscardRefines
<1>4. CASE UNCHANGED <<state, closing, buffered, held>>
  BY <1>1, <1>4, SameClose, SamePending, IdleRefines
<1> QED
  BY <1>2, <1>3, <1>4 DEF CallClose, closeVars, readVars

(* chanClosed goes out once what the end wrote is all processed. *)
LEMMA TccSendRefines == ASSUME IInv, TypeOK', NEW e \in Ends, TccSend(e) PROVE Promise!Next
<1> DEFINE m == Head(tccOut[e])
<1>1. /\ TypeOK /\ tccOut[e] # <<>> /\ tccOut[e] \in Seq(TccMessages) /\ state[e] # "DISCONNECTED"
      /\ closing \in [Ends -> {"no", "sendClose", "beforeClosing", "drain", "sendClosed",
                               "closedSent", "returned", "failed"}]
      /\ wire' = [wire EXCEPT ![Peer(e)] = Append(@, m)]
      /\ UNCHANGED <<state, writes, buffered, held>>
  BY DEF IInv, OnlyEchoIsLate, TypeOK, TccSend, writeVars, readVars
<1>2. m \in TccMessages /\ (HasClosed(tccOut[e]) <=> IsClosed(m) \/ HasClosed(Tail(tccOut[e])))
  BY <1>1, TailClosed
<1>3. m \in Messages /\ m.type # "data" /\ Peer(e) \in Ends
  BY <1>2, MessageFacts, PeerFacts
<1>4. \/ IsClosed(m) /\ closing' = [closing EXCEPT ![e] = "closedSent"]
      \/ ~IsClosed(m) /\ closing[e] = "sendClose" /\ closing' = [closing EXCEPT ![e] = "beforeClosing"]
      \/ ~IsClosed(m) /\ closing' = closing
  BY DEF TccSend, IsClosed
<1> HIDE DEF m
<1>5. \A o \in Ends : DataTo(o)' = DataTo(o)
  <2>1. DataTo(Peer(e))' = DataTo(Peer(e)) + 0 /\ DataTo(Peer(e)) \in Nat
    BY <1>1, <1>3, NatFacts, WireAppend
  <2>2. \A o \in Ends : o # Peer(e) => DataTo(o)' = DataTo(o)
    BY <1>1, <1>3, WireAppend
  <2> QED
    BY <2>1, <2>2
<1>6. \A o \in Ends : Pending(o)' = Pending(o)
  BY <1>1, <1>5, PeerFacts DEF Pending, ToSend
<1>7. \A o \in Ends : Status(o)' = Status(o)
  BY <1>1 DEF Status
<1>8. CASE IsClosed(m) /\ closing' = [closing EXCEPT ![e] = "closedSent"]
  <2>1. closing[e] = "sendClosed"
    BY <1>2, <1>8 DEF IInv, Handshake, Announced
  <2>2. outstanding[e] = 0 /\ writes[e] = <<>> /\ state[e] \notin {"OPEN", "CLOSED"}
    BY <2>1 DEF IInv, Accounts, Drained, Handshake, OpenNotClosing, Agreed, Finished
  <2>3. Pending(e) = 0
    <3>1. PICK n \in Nat : outstanding[e] =
             DataTo(Peer(e)) + buffered[Peer(e)] + held[Peer(e)] + ackable[Peer(e)] + n
      BY <1>1, <1>3, BalancedFacts, NatFacts DEF IInv, Accounts
    <3>2. /\ DataTo(Peer(e)) \in Nat /\ buffered[Peer(e)] \in Nat /\ held[Peer(e)] \in Nat
          /\ ackable[Peer(e)] \in Nat
      BY <1>1, <1>3, NatFacts
    <3>3. Pending(e) = DataTo(Peer(e)) + buffered[Peer(e)] + held[Peer(e)]
      BY <2>2, <3>2 DEF Pending, ToSend
    <3> QED
      BY <2>2, <3>1, <3>2, <3>3
  <2>4. Status(e) = "closing"
    BY <1>1, <2>2 DEF TypeOK, Status
  <2>5. Ended' = Ended \cup {e}
    BY <1>1, <1>8 DEF Ended
  <2>6. Promise!Finish(e)
    BY <1>6, <1>7, <2>3, <2>4, <2>5 DEF Promise!Finish, Ended
  <2> QED
    BY <2>6 DEF Promise!Next
<1>9. CASE closing[e] = "sendClose" /\ closing' = [closing EXCEPT ![e] = "beforeClosing"]
  <2>1. Ended' = Ended
    BY <1>1, <1>9 DEF Ended
  <2> QED
    BY <1>1, <1>6, <1>7, <2>1, IdleRefines DEF SameStatus
<1>10. CASE closing' = closing
  <2>1. Ended' = Ended
    BY <1>10 DEF Ended
  <2> QED
    BY <1>1, <1>6, <1>7, <2>1, IdleRefines DEF SameStatus
<1> QED
  BY <1>4, <1>8, <1>9, <1>10

LEMMA InnerCloseRefines ==
    ASSUME TypeOK, TypeOK', NEW e \in Ends,
           \/ SwitchToDiscard(e) \/ BeforeClosingDone(e) \/ SendChanClosed(e) \/ CloseFails(e) \/ NullChannel(e)
    PROVE  Promise!Next
<1>1. /\ UNCHANGED <<state, writes, wire>>
      /\ \/ closing' = closing
         \/ closing[e] \in {"beforeClosing", "drain"} /\ \E c \in {"drain", "sendClosed", "failed"} :
               closing' = [closing EXCEPT ![e] = c]
      /\ DiscardExistingInput(e) \/ UNCHANGED <<buffered, held>>
  BY DEF SwitchToDiscard, BeforeClosingDone, SendChanClosed, CloseFails, NullChannel, writeVars, readVars
<1>2. closing \in [Ends -> {"no", "sendClose", "beforeClosing", "drain", "sendClosed",
                           "closedSent", "returned", "failed"}]
  BY DEF TypeOK
<1>3. Ended' = Ended
  BY <1>1, <1>2 DEF Ended
<1>4. SameStatus
  BY <1>1, <1>3 DEF SameStatus, Status
<1>5. CASE DiscardExistingInput(e)
  BY <1>1, <1>4, <1>5, DiscardRefines
<1>6. CASE UNCHANGED <<buffered, held>>
  BY <1>1, <1>4, <1>6, SamePending, IdleRefines
<1> QED
  BY <1>1, <1>5, <1>6

(* An end is closed only when both chanClosed have been sent. *)
LEMMA CloseReturnsRefines == ASSUME IInv, TypeOK', NEW e \in Ends, CloseReturns(e) PROVE Promise!Next
<1>1. /\ TypeOK /\ closing[e] = "closedSent" /\ closing' = [closing EXCEPT ![e] = "returned"]
      /\ state' = [state EXCEPT ![e] = AfterChanClosedSent(@)]
      /\ UNCHANGED <<writes, wire, buffered, held>>
  BY DEF IInv, OnlyEchoIsLate, CloseReturns, writeVars, readVars
<1>2. /\ state \in [Ends -> {"OPEN", "CLOSED", "DISCONNECTED"} \cup Closing]
      /\ closing \in [Ends -> {"no", "sendClose", "beforeClosing", "drain", "sendClosed",
                               "closedSent", "returned", "failed"}]
  BY <1>1 DEF TypeOK
<1>3. Ended' = Ended
  BY <1>1, <1>2 DEF Ended
<1>4. \A o \in Ends : Pending(o)' = Pending(o)
  BY <1>1, SamePending
<1>5. state'[e] = AfterChanClosedSent(state[e]) /\ \A o \in Ends : o # e => state'[o] = state[o]
  BY <1>1, <1>2
<1>6. \A o \in Ends : o # e => Status(o)' = Status(o)
  BY <1>5 DEF Status
<1>7. CASE state[e] = "LOCAL_CLOSING"
  <2>1. Ended = Ends
    BY <1>1, <1>7, PeerFacts DEF IInv, Handshake, Agreed, Finished, Ended
  <2>2. state'[e] = "CLOSED"
    BY <1>5, <1>7 DEF AfterChanClosedSent
  <2>3. Status(e) = "closing" /\ Status(e)' = "closed"
    BY <1>7, <2>2 DEF Status, Closing
  <2> QED
    BY <1>3, <1>4, <1>6, <2>1, <2>3, CloseRefines
<1>8. CASE state[e] # "LOCAL_CLOSING"
  <2>1. state'[e] = state[e] \/ (state[e] = "CLOSING" /\ state'[e] = "REMOTE_CLOSING")
    BY <1>2, <1>5, <1>8 DEF AfterChanClosedSent
  <2>2. Status(e)' = Status(e)
    BY <2>1 DEF Status, Closing
  <2> QED
    BY <1>1, <1>3, <1>4, <1>6, <2>2, IdleRefines DEF SameStatus
<1> QED
  BY <1>7, <1>8

LEMMA HandleChanClosedRefines == ASSUME IInv, TypeOK', NEW e \in Ends, HandleChanClosed(e) PROVE Promise!Next
<1>1. /\ TypeOK /\ tccIn[e] # <<>> /\ tccIn[e] \in Seq(TccMessages) /\ IsClosed(Head(tccIn[e]))
      /\ state' = [state EXCEPT ![e] = AfterRemoteChanClosed(@)]
      /\ UNCHANGED <<closing, writes, wire, buffered, held>>
  BY HandleChanClosedKeeps DEF IInv, OnlyEchoIsLate, TypeOK, HandleChanClosed, IsClosed, writeVars, readVars
<1>2. state \in [Ends -> {"OPEN", "CLOSED", "DISCONNECTED"} \cup Closing]
  BY <1>1 DEF TypeOK
<1>3. Ended' = Ended
  BY <1>1 DEF Ended
<1>4. \A o \in Ends : Pending(o)' = Pending(o)
  BY <1>1, SamePending
<1>5. state'[e] = AfterRemoteChanClosed(state[e]) /\ \A o \in Ends : o # e => state'[o] = state[o]
  BY <1>1, <1>2
<1>6. \A o \in Ends : o # e => Status(o)' = Status(o)
  BY <1>5 DEF Status
<1>7. CASE state[e] = "REMOTE_CLOSING"
  <2>1. HasClosed(tccIn[e])
    BY <1>1, TailClosed
  <2>2. Ended = Ends
    BY <1>7, <2>1, PeerFacts DEF IInv, Handshake, Arriving, Agreed, Finished, Ended
  <2>3. state'[e] = "CLOSED"
    BY <1>5, <1>7 DEF AfterRemoteChanClosed
  <2>4. Status(e) = "closing" /\ Status(e)' = "closed"
    BY <1>7, <2>3 DEF Status, Closing
  <2> QED
    BY <1>3, <1>4, <1>6, <2>2, <2>4, CloseRefines
<1>8. CASE state[e] # "REMOTE_CLOSING"
  <2>1. state'[e] = state[e] \/ (state[e] = "CLOSING" /\ state'[e] = "LOCAL_CLOSING")
    BY <1>2, <1>5, <1>8 DEF AfterRemoteChanClosed
  <2>2. Status(e)' = Status(e)
    BY <2>1 DEF Status, Closing
  <2> QED
    BY <1>1, <1>3, <1>4, <1>6, <2>2, IdleRefines DEF SameStatus
<1> QED
  BY <1>7, <1>8

LEMMA DisconnectRefines == ASSUME TypeOK, TypeOK', NEW e \in Ends, Disconnect(e) PROVE Promise!Next
<1>1. /\ state[e] \notin {"CLOSED", "DISCONNECTED"} /\ state' = [state EXCEPT ![e] = "DISCONNECTED"]
      /\ \E step \in AfterDisconnect(closing[e]) : closing' = [closing EXCEPT ![e] = step]
      /\ \E w \in {<<>>, writes[e]} : writes' = [writes EXCEPT ![e] = w]
      /\ UNCHANGED <<wire, buffered, held>>
  BY DEF Disconnect, readVars
<1>2. /\ state \in [Ends -> {"OPEN", "CLOSED", "DISCONNECTED"} \cup Closing]
      /\ closing \in [Ends -> {"no", "sendClose", "beforeClosing", "drain", "sendClosed",
                               "closedSent", "returned", "failed"}]
      /\ writes \in [Ends -> Seq(1 .. MessageChunks)]
  BY DEF TypeOK
<1>3. Ended' = Ended
  <2>1. PICK step \in AfterDisconnect(closing[e]) : closing' = [closing EXCEPT ![e] = step]
    BY <1>1
  <2>2. step \in {"closedSent", "returned"} <=> closing[e] \in {"closedSent", "returned"}
    BY <1>2, <2>1 DEF AfterDisconnect
  <2> QED
    BY <1>2, <2>1, <2>2 DEF Ended
<1>4. Status(e) \in {"open", "closing"} /\ Status(e)' = "disconnected"
      /\ \A o \in Ends : o # e => Status(o)' = Status(o)
  BY <1>1, <1>2 DEF Status, Closing
<1>5. writes'[e] \in {<<>>, writes[e]} /\ \A o \in Ends : o # e => writes'[o] = writes[o]
  BY <1>1, <1>2
<1>6. PendingParts /\ PendingParts' /\ Peer(e) \in Ends
  BY PendingType, PendingTypeNext, PeerFacts
<1>7. \A o \in Ends : DataTo(o)' = DataTo(o)
  BY <1>1 DEF DataTo
<1>8. \A o \in Ends : o # e => Pending(o)' = Pending(o)
  <2> SUFFICES ASSUME NEW o \in Ends, o # e PROVE Pending(o)' = Pending(o)
    OBVIOUS
  <2>1. Peer(o) = e
    BY PeerFacts
  <2>2. Pending(o) = Left(writes[o]) + DataTo(e) + buffered[e] + held[e]
    BY <1>6, <2>1 DEF PendingParts
  <2>3. Pending(o)' = Left(writes'[o]) + DataTo(e)' + buffered'[e] + held'[e]
    BY <1>6, <2>1 DEF PendingParts
  <2> QED
    BY <1>1, <1>5, <1>7, <2>2, <2>3
<1>9. Pending(e)' \in 0 .. Pending(e)
  <2>1. /\ Pending(e) = Left(writes[e]) + DataTo(Peer(e)) + buffered[Peer(e)] + held[Peer(e)]
        /\ Left(writes[e]) \in Nat /\ DataTo(Peer(e)) \in Nat /\ buffered[Peer(e)] \in Nat /\ held[Peer(e)] \in Nat
    BY <1>6 DEF PendingParts
  <2>2. /\ Pending(e)' = Left(writes'[e]) + DataTo(Peer(e))' + buffered'[Peer(e)] + held'[Peer(e)]
        /\ Pending(e)' \in Nat /\ Left(writes'[e]) \in Nat
    BY <1>6 DEF PendingParts
  <2>3. Left(writes'[e]) <= Left(writes[e])
    BY <1>5, <2>1 DEF Left
  <2> QED
    BY <1>1, <1>6, <1>7, <2>1, <2>2, <2>3
<1>10. Promise!Disconnect(e)
  BY <1>3, <1>4, <1>8, <1>9 DEF Promise!Disconnect, Ended
<1> QED
  BY <1>10 DEF Promise!Next

----------------------------------------------------------------------------
LEMMA InitRefines == Init => Promise!Init
<1> SUFFICES ASSUME Init PROVE Promise!Init
  OBVIOUS
<1>1. ASSUME NEW e \in Ends PROVE Pending(e) = 0
  <2>1. Peer(e) \in Ends /\ wire[Peer(e)] = <<>>
    BY PeerFacts DEF Init
  <2>2. DataTo(Peer(e)) = 0
    <3>1. {i \in DOMAIN wire[Peer(e)] : wire[Peer(e)][i].type = "data"} = {}
      BY <2>1
    <3> QED
      BY <3>1, FS_EmptySet DEF DataTo
  <2> QED
    BY <2>1, <2>2 DEF Init, Pending, ToSend
<1>2. \A e \in Ends : Status(e) = "open" /\ closing[e] = "no"
  BY DEF Init, Status, Closing
<1> QED
  BY <1>1, <1>2 DEF Promise!Init

LEMMA NextRefines == IInv /\ [Next]_vars => [Promise!Next]_(Promise!vars)
<1> SUFFICES ASSUME IInv, [Next]_vars PROVE [Promise!Next]_(Promise!vars)
  OBVIOUS
<1>1. TypeOK /\ TypeOK'
  BY InvNext DEF IInv, OnlyEchoIsLate
<1>2. ASSUME NEW e \in Ends, Use(e) PROVE Promise!Next
  <2>1. CASE \E d \in BOOLEAN : Close(e, d)
    BY <1>1, <2>1, CallCloseRefines DEF Close, writeVars
  <2> QED
    BY <1>1, <1>2, <2>1, WriteRefines, ReadRefines DEF Use
<1>3. ASSUME NEW e \in Ends, Progress(e) PROVE Promise!Next
  <2>1. CASE WriteStep(e) \/ Done(e) \/ SendAck(e)
    BY <1>1, <2>1, NextChunkRefines, SendChunkRefines, ReadRefines, SendAckRefines DEF WriteStep
  <2>2. CASE ReceiveStep(e)
    BY <1>1, <2>2, ReceiveDataRefines, ReceiveOtherRefines DEF ReceiveStep
  <2>3. CASE CloseStep(e)
    BY <1>1, <2>3, TccSendRefines, InnerCloseRefines, CloseReturnsRefines DEF CloseStep
  <2>4. CASE HandleChanClose(e)
    <3>1. UNCHANGED <<writes, wire>>
      BY <2>4 DEF HandleChanClose, writeVars
    <3>2. CASE e \in nulled
      <4>1. UNCHANGED <<state, closing, buffered, held>>
        BY <2>4, <3>2 DEF HandleChanClose, closeVars, readVars
      <4> QED
        BY <1>1, <3>1, <4>1, SameClose, SamePending, IdleRefines
    <3>3. CASE e \notin nulled
      <4>1. /\ CallClose(e, Head(tccIn[e]).discard) /\ tccIn[e] # <<>> /\ Head(tccIn[e]).type = "chanClose"
            /\ tccIn[e] \in Seq(TccMessages)
        BY <1>1, <2>4, <3>3 DEF HandleChanClose, TypeOK
      <4>2. Head(tccIn[e]).discard \in BOOLEAN
        <5>1. Head(tccIn[e]) \in TccMessages
          BY <4>1, TailClosed
        <5> QED
          BY <4>1, <5>1 DEF TccMessages
      <4> QED
        BY <1>1, <3>1, <4>1, <4>2, CallCloseRefines
    <3> QED
      BY <3>2, <3>3
  <2>5. CASE HandleChanClosed(e)
    BY <1>1, <2>5, HandleChanClosedRefines
  <2> QED
    BY <1>3, <2>1, <2>2, <2>3, <2>4, <2>5 DEF Progress, TccReader
<1>4. ASSUME NEW e \in Ends, Disconnect(e) PROVE Promise!Next
  BY <1>1, <1>4, DisconnectRefines
<1>5. CASE UNCHANGED vars
  BY <1>1, <1>5, SameClose, SamePending, IdleRefines DEF vars, closeVars, writeVars, readVars
<1> QED
  BY <1>2, <1>3, <1>4, <1>5 DEF Next

(* The handshake of a channel, whatever crosses on its way, closes it as   *)
(* Closure says: an end is closed only when both have finished, and an end *)
(* has finished only when all it wrote is processed, or thrown away by a   *)
(* remote in discard mode (close, onRemoteChanClosed).                     *)
THEOREM Implements == Spec => ImplementsClosure
<1>1. Init => Promise!Init
  BY InitRefines
<1>2. IInv /\ [Next]_vars => [Promise!Next]_(Promise!vars)
  BY NextRefines
<1> QED
  BY <1>1, <1>2, InvInit, InvNext, PTL DEF Spec, ImplementsClosure, Promise!Spec

----------------------------------------------------------------------------
(* What the promise is worth.  It is inductive because an end which has    *)
(* finished has left "open" with nothing pending, and can neither write    *)
(* nor reopen; and a closed end needed both ends to be finished.           *)
statuses == [e \in Ends |-> Status(e)]
pendings == [e \in Ends |-> Pending(e)]
finished == {e \in Ends : closing[e] \in {"closedSent", "returned"}}
FinishedIsEmpty == \A e \in finished : statuses[e] # "open" /\ pendings[e] = 0
ClosedNeedsBoth == \A e \in Ends : statuses[e] = "closed" => finished = Ends
Kept == Promise!TypeOK /\ FinishedIsEmpty /\ ClosedNeedsBoth

(* The initial states of the promise satisfy it. *)
LEMMA InitKept == Promise!Init => Kept
BY DEF Promise!Init, Promise!TypeOK, Kept, FinishedIsEmpty, ClosedNeedsBoth, statuses, pendings, finished

(* Every step that the promise allows keeps it. *)
LEMMA StepKept == Kept /\ [Promise!Next]_(Promise!vars) => Kept'
<1> SUFFICES ASSUME Kept, [Promise!Next]_(Promise!vars) PROVE Kept'
  OBVIOUS
<1> DEFINE Types == /\ statuses \in [Ends -> {"open", "closing", "closed", "disconnected"}]
                    /\ pendings \in [Ends -> Nat] /\ finished \subseteq Ends
           Rest(n, e) == n \in 0 .. pendings[e] /\ pendings' = [pendings EXCEPT ![e] = n]
<1>0. Types /\ FinishedIsEmpty /\ ClosedNeedsBoth
  BY DEF Kept, Promise!TypeOK, statuses, pendings, finished
<1>1. ASSUME Types', FinishedIsEmpty', ClosedNeedsBoth' PROVE Kept'
  BY <1>1 DEF Kept, Promise!TypeOK, statuses, pendings, finished
<1>2. ASSUME NEW e \in Ends, Promise!Write(e) PROVE Kept'
  <2>1. /\ statuses[e] = "open" /\ pendings' = [pendings EXCEPT ![e] = pendings'[e]]
        /\ pendings'[e] \in Nat /\ statuses' = statuses /\ finished' = finished
    BY <1>2 DEF Promise!Write, statuses, pendings, finished
  <2>2. e \notin finished
    BY <1>0, <2>1 DEF FinishedIsEmpty
  <2> QED
    BY <1>0, <1>1, <2>1, <2>2 DEF FinishedIsEmpty, ClosedNeedsBoth
<1>3. ASSUME NEW e \in Ends, Promise!Process(e) PROVE Kept'
  <2>1. (\E n : Rest(n, e)) /\ statuses' = statuses /\ finished' = finished
    BY <1>3 DEF Promise!Process, statuses, pendings, finished
  <2>2. PICK n : Rest(n, e)
    BY <2>1
  <2>3. n \in Nat /\ (pendings[e] = 0 => n = 0)
    BY <1>0, <2>2
  <2> QED
    BY <1>0, <1>1, <2>1, <2>2, <2>3 DEF FinishedIsEmpty, ClosedNeedsBoth
<1>4. ASSUME NEW e \in Ends, Promise!StartClosing(e) PROVE Kept'
  <2>1. statuses[e] = "open" /\ statuses' = [statuses EXCEPT ![e] = "closing"] /\ pendings' = pendings /\ finished' = finished
    BY <1>4 DEF Promise!StartClosing, statuses, pendings, finished
  <2> QED
    BY <1>0, <1>1, <2>1 DEF FinishedIsEmpty, ClosedNeedsBoth
<1>5. ASSUME NEW e \in Ends, Promise!Finish(e) PROVE Kept'
  <2>1. /\ statuses[e] = "closing" /\ pendings[e] = 0 /\ finished' = finished \cup {e}
        /\ statuses' = statuses /\ pendings' = pendings
    BY <1>5 DEF Promise!Finish, statuses, pendings, finished
  <2> QED
    BY <1>0, <1>1, <2>1 DEF FinishedIsEmpty, ClosedNeedsBoth
<1>6. ASSUME NEW e \in Ends, Promise!Close(e) PROVE Kept'
  <2>1. /\ statuses[e] = "closing" /\ finished = Ends /\ statuses' = [statuses EXCEPT ![e] = "closed"]
        /\ pendings' = pendings /\ finished' = finished
    BY <1>6 DEF Promise!Close, statuses, pendings, finished
  <2> QED
    BY <1>0, <1>1, <2>1 DEF FinishedIsEmpty, ClosedNeedsBoth
<1>7. ASSUME NEW e \in Ends, Promise!Disconnect(e) PROVE Kept'
  <2>1. (\E n : Rest(n, e)) /\ statuses' = [statuses EXCEPT ![e] = "disconnected"] /\ finished' = finished
    BY <1>7 DEF Promise!Disconnect, statuses, pendings, finished
  <2>2. PICK n : Rest(n, e)
    BY <2>1
  <2>3. n \in Nat /\ (pendings[e] = 0 => n = 0)
    BY <1>0, <2>2
  <2> QED
    BY <1>0, <1>1, <2>1, <2>2, <2>3 DEF FinishedIsEmpty, ClosedNeedsBoth
<1>8. CASE UNCHANGED Promise!vars
  <2>1. statuses' = statuses /\ pendings' = pendings /\ finished' = finished
    BY <1>8 DEF Promise!vars, statuses, pendings, finished
  <2> QED
    BY <1>0, <1>1, <2>1 DEF FinishedIsEmpty, ClosedNeedsBoth
<1> QED
  BY <1>2, <1>3, <1>4, <1>5, <1>6, <1>7, <1>8 DEF Promise!Next

(* And it says that nothing is lost. *)
LEMMA KeptFact == Kept => Promise!NothingLostByClosing
<1> SUFFICES ASSUME Kept PROVE Promise!NothingLostByClosing
  OBVIOUS
<1>1. ASSUME NEW e \in Ends, statuses[e] = "closed", NEW o \in Ends PROVE statuses[o] # "open" /\ pendings[o] = 0
  BY <1>1 DEF Kept, FinishedIsEmpty, ClosedNeedsBoth
<1> QED
  BY <1>1 DEF Promise!NothingLostByClosing, statuses, pendings

(* Whatever keeps the promise of Closure loses nothing by closing.         *)
THEOREM ClosingLosesNothing == Promise!Spec => []Promise!NothingLostByClosing
BY InitKept, StepKept, KeptFact, PTL DEF Promise!Spec

(* So a channel loses nothing by closing: when an end is closed, neither   *)
(* end can write any more and all that either wrote has been processed.    *)
COROLLARY NothingLost == Spec => []Promise!NothingLostByClosing
BY Implements, ClosingLosesNothing, PTL DEF ImplementsClosure

=============================================================================
