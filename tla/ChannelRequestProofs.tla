------------------------ MODULE ChannelRequestProofs ------------------------
(***************************************************************************)
(* For any number of requests and of closes, and any limits: careful       *)
(* applications, whose requests, responses and closing may cross in any    *)
(* way, never get a message that names a channel they do not know or a     *)
(* response that is not expected; and when all is said, both ends have the *)
(* channel open or neither, under the same ids, and with limits that each  *)
(* end believes of the other as the other has them.                        *)
(***************************************************************************)
EXTENDS ChannelRequest, FiniteSetTheorems, SequenceTheorems, TLAPS

Absent == {"none", "nulled"}
Session == {"OPEN"} \cup Closing
States == {"none", "OPEN", "CLOSED", "nulled"} \cup Closing
Kinds == {"chanRequest", "chanAccepted", "chanRejected", "chanClose", "chanClosed"}
Answers == {"chanAccepted", "chanRejected"}

----------------------------------------------------------------------------
(* What both ends know of the channel, as far as it is about the kinds of  *)
(* messages on their way and the order of these.                           *)

Has(q, k) == \E i \in DOMAIN q : q[i] = k
Once(q, S) == \A i, j \in DOMAIN q : q[i] \in S /\ q[j] \in S => i = j
Ordered(q, k, l) == \A i, j \in DOMAIN q : q[i] = k /\ q[j] = l => i < j
OneRequest(q) == Once(q, {"chanRequest"})
OneAnswer(q) == Once(q, Answers)
OneClosed(q) == Once(q, {"chanClosed"})
HasAnswer(q) == Has(q, "chanAccepted") \/ Has(q, "chanRejected")
Nothing(q) == ~Has(q, "chanAccepted") /\ ~Has(q, "chanClose") /\ ~Has(q, "chanClosed")

(* What the messages from an end (q) say of its channel (c), and of the    *)
(* channel of the other end (d), which is to know what they are about.     *)
Tells(c, d, q) ==
    /\ Has(q, "chanAccepted") => c # "none" /\ (c = "nulled" => Has(q, "chanClosed"))
    /\ Has(q, "chanClose") => c \in Closing \/ (c = "nulled" /\ Has(q, "chanClosed"))
    /\ Has(q, "chanClosed") => c \in {"REMOTE_CLOSING", "nulled"}
    /\ Has(q, "chanClose") \/ Has(q, "chanClosed") =>
          d \in {"OPEN", "CLOSING", "REMOTE_CLOSING"} \/ (d \in Absent /\ Has(q, "chanAccepted"))
    /\ Ordered(q, "chanAccepted", "chanClose") /\ Ordered(q, "chanAccepted", "chanClosed")
    /\ Ordered(q, "chanClose", "chanClosed") /\ OneClosed(q)

(* What an end has sent is on its way until it has been received (r: the   *)
(* messages to it); and an end whose record is nulled before the other has *)
(* received its chanClosed is told nothing more of that channel.           *)
Delivers(c, d, q, r) ==
    /\ c \in Session /\ d \in Absent =>
          Has(q, "chanAccepted") \/ (d = "nulled" /\ c = "REMOTE_CLOSING" /\ Has(r, "chanClosed"))
    /\ c \in Closing /\ (d = "OPEN" \/ Has(q, "chanAccepted")) => Has(q, "chanClose")
    /\ c = "REMOTE_CLOSING" =>
          Has(q, "chanClosed") \/ d = "LOCAL_CLOSING" \/ (d = "nulled" /\ Has(r, "chanClosed"))
    /\ d = "LOCAL_CLOSING" => c = "REMOTE_CLOSING" /\ Nothing(q)
    /\ c = "nulled" /\ Has(q, "chanClosed") => d = "REMOTE_CLOSING" /\ Nothing(r)
    /\ c = "nulled" => d # "none"

(* A request of an end (in q, or y, the one the other end is handling) is  *)
(* under way once, while the entry (a) for it is there; its answer (in r)  *)
(* comes after it; and it comes to an end that has no channel, or will     *)
(* have none when it has received what comes before.                       *)
Asks(d, q, r, a, y) ==
    /\ a = {} => ~Has(q, "chanRequest") /\ y = {} /\ ~HasAnswer(r)
    /\ OneRequest(q) /\ OneAnswer(r)
    /\ Has(q, "chanRequest") => y = {}
    /\ Has(q, "chanRequest") \/ y # {} => ~HasAnswer(r) /\ ~Has(r, "chanClose") /\ ~Has(r, "chanClosed")
    /\ y # {} => d \in Absent
    /\ Has(q, "chanRequest") =>
          \/ d \in Absent /\ Ordered(q, "chanRequest", "chanAccepted")
          \/ d = "REMOTE_CLOSING" /\ Has(q, "chanClosed") /\ Ordered(q, "chanClosed", "chanRequest")

(* Both ends: their channels (c, d), the messages from the one to the      *)
(* other (q, r), the entries for requests (a, b), the requests that are    *)
(* handled (x, y).                                                         *)
Pair(c, d, q, r, a, b, x, y) ==
    /\ Tells(c, d, q) /\ Tells(d, c, r)
    /\ Delivers(c, d, q, r) /\ Delivers(d, c, r, q)
    /\ Asks(d, q, r, a, y) /\ Asks(c, r, q, b, x)

(* r is q and one more message, which is k; or q without its first.        *)
Adds(q, k, r) ==
    /\ \A l : Has(r, l) <=> Has(q, l) \/ l = k
    /\ \A l, m : l # m => (Ordered(r, l, m) <=> Ordered(q, l, m) /\ ~(k = l /\ Has(q, m)))
    /\ OneRequest(r) <=> OneRequest(q) /\ ~(k = "chanRequest" /\ Has(q, "chanRequest"))
    /\ OneAnswer(r) <=> OneAnswer(q) /\ ~(k \in Answers /\ HasAnswer(q))
    /\ OneClosed(r) <=> OneClosed(q) /\ ~(k = "chanClosed" /\ Has(q, "chanClosed"))
Drops(q, k, r) ==
    /\ \A l : Has(q, l) <=> Has(r, l) \/ l = k
    /\ \A l, m : l # m => (Ordered(q, l, m) <=> Ordered(r, l, m) /\ ~(k = m /\ Has(r, l)))
    /\ OneRequest(q) <=> OneRequest(r) /\ ~(k = "chanRequest" /\ Has(r, "chanRequest"))
    /\ OneAnswer(q) <=> OneAnswer(r) /\ ~(k \in Answers /\ HasAnswer(r))
    /\ OneClosed(q) <=> OneClosed(r) /\ ~(k = "chanClosed" /\ Has(r, "chanClosed"))

LEMMA Added ==
    ASSUME NEW T, NEW q \in Seq(T), NEW r \in Seq(T), NEW k, Len(r) = Len(q) + 1, r[Len(q) + 1] = k,
           \A i \in 1 .. Len(q) : r[i] = q[i]
    PROVE  Adds(q, k, r)
<1> DEFINE n == Len(q)
<1>1. n \in Nat /\ DOMAIN q = 1 .. n /\ DOMAIN r = 1 .. n + 1
  OBVIOUS
<1>2. /\ \A i \in DOMAIN q : i \in DOMAIN r /\ r[i] = q[i] /\ i < n + 1 /\ i # n + 1 /\ ~(n + 1 < i)
      /\ \A i \in DOMAIN r : i \in DOMAIN q \/ i = n + 1
      /\ n + 1 \in DOMAIN r /\ r[n + 1] = k /\ ~(n + 1 < n + 1)
  BY <1>1
<1> HIDE DEF n
<1>3. \A l : Has(r, l) <=> Has(q, l) \/ l = k
  BY <1>2 DEF Has
<1>4. ASSUME NEW l, NEW m, l # m PROVE Ordered(r, l, m) <=> Ordered(q, l, m) /\ ~(k = l /\ Has(q, m))
  BY <1>2, <1>4 DEF Ordered, Has
<1>5. ASSUME NEW S PROVE Once(r, S) <=> Once(q, S) /\ ~(k \in S /\ \E l \in S : Has(q, l))
  BY <1>2 DEF Once, Has
<1>6. OneRequest(r) <=> OneRequest(q) /\ ~(k = "chanRequest" /\ Has(q, "chanRequest"))
  BY <1>5 DEF OneRequest
<1>7. OneAnswer(r) <=> OneAnswer(q) /\ ~(k \in Answers /\ HasAnswer(q))
  BY <1>5 DEF OneAnswer, Answers, HasAnswer
<1>8. OneClosed(r) <=> OneClosed(q) /\ ~(k = "chanClosed" /\ Has(q, "chanClosed"))
  BY <1>5 DEF OneClosed
<1> QED
  BY <1>3, <1>4, <1>6, <1>7, <1>8 DEF Adds

LEMMA Dropped ==
    ASSUME NEW T, NEW q \in Seq(T), NEW r \in Seq(T), NEW k, Len(q) = Len(r) + 1, q[1] = k,
           \A i \in 1 .. Len(r) : r[i] = q[i + 1]
    PROVE  Drops(q, k, r)
<1> DEFINE n == Len(r)
           up(i) == i + 1
<1>1. n \in Nat /\ DOMAIN r = 1 .. n /\ DOMAIN q = 1 .. n + 1
  OBVIOUS
<1>2. /\ \A i \in DOMAIN r : up(i) \in DOMAIN q /\ r[i] = q[up(i)] /\ 1 < up(i) /\ up(i) # 1 /\ ~(up(i) < 1)
      /\ \A i \in DOMAIN q : i = 1 \/ \E j \in DOMAIN r : i = up(j)
      /\ \A i, j \in DOMAIN r : (up(i) < up(j) <=> i < j) /\ (up(i) = up(j) <=> i = j)
      /\ 1 \in DOMAIN q /\ q[1] = k /\ ~(1 < 1)
  <2>1. \A i \in 1 .. n + 1 : i = 1 \/ (i - 1 \in 1 .. n /\ i = (i - 1) + 1)
    BY <1>1
  <2>2. \A i \in 1 .. n + 1 : i = 1 \/ \E j \in 1 .. n : i = j + 1
    BY <2>1
  <2> QED
    BY <1>1, <2>2
<1> HIDE DEF n, up
<1>3. \A l : Has(q, l) <=> Has(r, l) \/ l = k
  BY <1>2 DEF Has
<1>4. ASSUME NEW l, NEW m, l # m PROVE Ordered(q, l, m) <=> Ordered(r, l, m) /\ ~(k = m /\ Has(r, l))
  BY <1>2, <1>4 DEF Ordered, Has
<1>5. ASSUME NEW S PROVE Once(q, S) <=> Once(r, S) /\ ~(k \in S /\ \E l \in S : Has(r, l))
  <2>1. ASSUME Once(q, S) PROVE Once(r, S) /\ ~(k \in S /\ \E l \in S : Has(r, l))
    BY <1>2, <2>1 DEF Once, Has
  <2>2. ASSUME Once(r, S), ~(k \in S /\ \E l \in S : Has(r, l)), NEW i \in DOMAIN q, NEW j \in DOMAIN q, q[i] \in S, q[j] \in S
        PROVE  i = j
    <3>1. CASE i = 1 \/ j = 1
      BY <1>2, <2>2, <3>1 DEF Has
    <3>2. CASE i # 1 /\ j # 1
      BY <1>2, <2>2, <3>2 DEF Once
    <3> QED
      BY <3>1, <3>2
  <2> QED
    BY <2>1, <2>2 DEF Once
<1>6. OneRequest(q) <=> OneRequest(r) /\ ~(k = "chanRequest" /\ Has(r, "chanRequest"))
  BY <1>5 DEF OneRequest
<1>7. OneAnswer(q) <=> OneAnswer(r) /\ ~(k \in Answers /\ HasAnswer(r))
  BY <1>5 DEF OneAnswer, Answers, HasAnswer
<1>8. OneClosed(q) <=> OneClosed(r) /\ ~(k = "chanClosed" /\ Has(r, "chanClosed"))
  BY <1>5 DEF OneClosed
<1> QED
  BY <1>3, <1>4, <1>6, <1>7, <1>8 DEF Drops

----------------------------------------------------------------------------
(* The steps of an end keep it. *)

LEMMA PairTurns ==
    ASSUME NEW c, NEW d, NEW q, NEW r, NEW a, NEW b, NEW x, NEW y, Pair(c, d, q, r, a, b, x, y)
    PROVE  Pair(d, c, r, q, b, a, y, x)
BY DEF Pair

LEMMA RequestKeeps ==
    ASSUME NEW c \in Absent, NEW d \in States, NEW q, NEW r, NEW a, NEW b, NEW x, NEW y, Pair(c, d, q, r, a, b, x, y),
           d # "CLOSED", a = {}, NEW s, Adds(q, "chanRequest", s), NEW a1, a1 # {}
    PROVE  Pair(c, d, s, r, a1, b, x, y)
<1>0. "chanRequest" \notin Answers /\ c \notin Session /\ c \notin Closing
  BY DEF Answers, Absent, Session, Closing
<1>1. Tells(c, d, s)
  BY DEF Pair, Tells, Adds
<1>2. Delivers(c, d, s, r)
  BY <1>0 DEF Pair, Delivers, Adds, Nothing
<1>3. Delivers(d, c, r, s)
  BY DEF Pair, Delivers, Adds, Nothing
<1>4. Asks(d, s, r, a1, y)
  <2>1. OneRequest(s) /\ y = {} /\ ~HasAnswer(r) /\ ~Has(q, "chanRequest")
    BY DEF Pair, Asks, Adds
  <2>2. ~Has(r, "chanClose") /\ ~Has(r, "chanClosed")
    BY <1>0, <2>1 DEF Pair, Tells, Delivers, Absent, HasAnswer
  <2>3. CASE d \in Absent
    <3>1. ~Has(q, "chanAccepted")
      BY <2>2, <2>3 DEF Pair, Tells, Delivers, Absent
    <3>2. \A i, j \in DOMAIN s : ~(s[i] = "chanRequest" /\ s[j] = "chanAccepted")
      BY <3>1 DEF Adds, Has
    <3> QED
      BY <2>1, <2>2, <2>3, <3>2 DEF Pair, Asks, Ordered
  <2>4. CASE d \notin Absent
    <3>1. d = "REMOTE_CLOSING" /\ Has(q, "chanClosed")
      BY <2>1, <2>4 DEF Pair, Delivers, States, Session, Absent, HasAnswer
    <3>2. Ordered(s, "chanClosed", "chanRequest") /\ Has(s, "chanClosed")
      <4>1. Ordered(q, "chanClosed", "chanRequest")
        BY <2>1 DEF Ordered, Has
      <4> QED
        BY <3>1, <4>1 DEF Adds
    <3> QED
      BY <2>1, <2>2, <3>1, <3>2 DEF Pair, Asks
  <2> QED
    BY <2>3, <2>4
<1>5. Asks(c, r, s, b, x)
  BY <1>0 DEF Pair, Asks, Adds, HasAnswer
<1> QED
  BY <1>1, <1>2, <1>3, <1>4, <1>5 DEF Pair

(* The handlers are asked, where there is no channel. *)
LEMMA AskedKeeps ==
    ASSUME NEW c \in States, NEW d, NEW q, NEW r, NEW a, NEW b, NEW x, NEW y, Pair(c, d, q, r, a, b, x, y),
           x = {}, NEW t, Drops(r, "chanRequest", t), NEW x1, x1 # {}
    PROVE  Pair(c, d, q, t, a, b, x1, y) /\ c \in Absent
<1>0. "chanRequest" \notin Answers /\ c \in Absent
  BY DEF Answers, Pair, Asks, Drops, Has
<1>1. Tells(d, c, t)
  BY DEF Pair, Tells, Drops
<1>2. Delivers(c, d, q, t) /\ Delivers(d, c, t, q)
  BY DEF Pair, Delivers, Drops, Nothing
<1>3. Asks(d, q, t, a, y)
  BY <1>0 DEF Pair, Asks, Drops, HasAnswer
<1>4. Asks(c, t, q, b, x1)
  BY <1>0 DEF Pair, Asks, Drops
<1> QED
  BY <1>0, <1>1, <1>2, <1>3, <1>4 DEF Pair

LEMMA AcceptKeeps ==
    ASSUME NEW c \in States, NEW d \in States, NEW q, NEW r, NEW a, NEW b, NEW x, NEW y, Pair(c, d, q, r, a, b, x, y),
           x # {}, NEW s, Adds(q, "chanAccepted", s), NEW x1, x1 = {}, NEW a1, a1 = {} <=> a = {}
    PROVE  Pair("OPEN", d, s, r, a1, b, x1, y) /\ c \in Absent
<1>0. "chanAccepted" \in Answers /\ c \in Absent
  BY DEF Answers, Pair, Asks
<1>1. Tells("OPEN", d, s)
  BY <1>0 DEF Pair, Tells, Adds, Asks
<1>2. Tells(d, "OPEN", r)
  BY <1>0 DEF Pair, Tells
<1>3. Delivers("OPEN", d, s, r)
  BY <1>0 DEF Pair, Delivers, Adds, Nothing, Session, Closing, Absent
<1>4. Delivers(d, "OPEN", r, s)
  BY <1>0 DEF Pair, Delivers, Asks, Adds, Nothing, Session, Closing, Absent, Tells
<1>5. Asks(d, s, r, a1, y)
  BY <1>0 DEF Pair, Asks, Adds, HasAnswer
<1>6. Asks("OPEN", r, s, b, x1)
  BY <1>0 DEF Pair, Asks, Adds, HasAnswer
<1> QED
  BY <1>0, <1>1, <1>2, <1>3, <1>4, <1>5, <1>6 DEF Pair

LEMMA RejectKeeps ==
    ASSUME NEW c \in States, NEW d \in States, NEW q, NEW r, NEW a, NEW b, NEW x, NEW y, Pair(c, d, q, r, a, b, x, y),
           x # {}, NEW s, Adds(q, "chanRejected", s), NEW x1, x1 = {}
    PROVE  Pair(c, d, s, r, a, b, x1, y)
<1>0. "chanRejected" \in Answers
  BY DEF Answers
<1>1. Tells(c, d, s)
  BY DEF Pair, Tells, Adds
<1>2. Delivers(c, d, s, r) /\ Delivers(d, c, r, s)
  BY DEF Pair, Delivers, Adds, Nothing
<1>3. Asks(d, s, r, a, y)
  BY DEF Pair, Asks, Adds
<1>4. Asks(c, r, s, b, x1)
  BY <1>0 DEF Pair, Asks, Adds, HasAnswer
<1> QED
  BY <1>1, <1>2, <1>3, <1>4 DEF Pair

(* An answer comes to who waits for it; an acceptance opens the channel of *)
(* an end that has none, or is for the one it has opened itself.           *)
LEMMA AnswerKeeps ==
    ASSUME NEW c \in States, NEW d \in States, NEW q, NEW r, NEW a, NEW b, NEW x, NEW y, Pair(c, d, q, r, a, b, x, y),
           d # "CLOSED", x = {}, NEW k \in Answers, NEW t, Drops(r, k, t), NEW a1, a1 = {},
           NEW c1, c1 = IF k = "chanAccepted" /\ c \in Absent THEN "OPEN" ELSE c
    PROVE  /\ Pair(c1, d, q, t, a1, b, x, y) /\ a # {} /\ ~HasAnswer(t)
           /\ k = "chanAccepted" /\ c \in Absent => d \in Session /\ ~Has(q, "chanAccepted")
<1>0. k \in {"chanAccepted", "chanRejected"}
  BY DEF Answers
<1>a. a # {} /\ y = {} /\ ~HasAnswer(t) /\ ~Has(q, "chanRequest")
  BY <1>0 DEF Pair, Asks, Drops, HasAnswer
<1>b. k = "chanAccepted" /\ c \in Absent => d \in Session /\ ~Has(q, "chanAccepted") /\ Nothing(q)
  <2> SUFFICES ASSUME k = "chanAccepted", c \in Absent PROVE d \in Session /\ Nothing(q)
    BY DEF Nothing
  <2>1. d \in Session
    BY DEF Pair, Tells, Delivers, Drops, Session, Absent, States, Closing
  <2>2. ~Has(q, "chanClosed")
    BY DEF Pair, Delivers, Drops, Nothing, Absent, Tells
  <2> QED
    BY <2>1, <2>2 DEF Pair, Tells, Nothing, Absent, Closing
<1>1. Tells(c1, d, q)
  BY <1>b DEF Pair, Tells, Nothing
<1>2. Tells(d, c1, t)
  BY <1>0, <1>a DEF Pair, Tells, Drops, HasAnswer, Absent
<1>3. Delivers(c1, d, q, t)
  BY <1>0, <1>b DEF Pair, Delivers, Drops, Nothing, Session, Closing, Absent
<1>4. Delivers(d, c1, t, q)
  BY <1>0, <1>a, <1>b DEF Pair, Delivers, Drops, Nothing, Session, Closing, Absent, HasAnswer
<1>5. Asks(d, q, t, a1, y)
  BY <1>0, <1>a DEF Pair, Asks, Drops
<1>6. Asks(c1, t, q, b, x)
  <2>1. c1 # c => ~Has(t, "chanRequest")
    BY DEF Pair, Asks, Drops, Absent
  <2>2. c1 # c => ~HasAnswer(q) \/ b # {}
    BY DEF Pair, Asks
  <2> QED
    BY <1>0, <2>1, <2>2 DEF Pair, Asks, Drops, HasAnswer
<1> QED
  BY <1>a, <1>b, <1>1, <1>2, <1>3, <1>4, <1>5, <1>6 DEF Pair

LEMMA AcceptanceKeeps ==
    ASSUME NEW c \in States, NEW d \in States, NEW q, NEW r, NEW a, NEW b, NEW x, NEW y, Pair(c, d, q, r, a, b, x, y),
           d # "CLOSED", x = {}, NEW t, Drops(r, "chanAccepted", t), NEW a1, a1 = {},
           NEW c1, c1 = IF c \in Absent THEN "OPEN" ELSE c
    PROVE  Pair(c1, d, q, t, a1, b, x, y) /\ a # {} /\ (c \in Absent => d \in Session /\ ~Has(q, "chanAccepted"))
<1>1. "chanAccepted" \in Answers
  BY DEF Answers
<1> QED
  BY <1>1, AnswerKeeps

LEMMA CloseKeeps ==
    ASSUME NEW d \in States, NEW q, NEW r, NEW a, NEW b, NEW x, NEW y, NEW c, c = "OPEN", Pair(c, d, q, r, a, b, x, y),
           d # "CLOSED", NEW s, Adds(q, "chanClose", s)
    PROVE  Pair("CLOSING", d, s, r, a, b, x, y)
<1>0. "chanClose" \notin Answers
  BY DEF Answers
<1>1. Tells("CLOSING", d, s)
  <2>1. d \in {"OPEN", "CLOSING", "REMOTE_CLOSING"} \/ (d \in Absent /\ Has(q, "chanAccepted"))
    BY DEF Pair, Delivers, States, Session, Closing, Absent
  <2> QED
    BY <2>1 DEF Pair, Tells, Adds, Closing
<1>2. Tells(d, "CLOSING", r)
  BY DEF Pair, Tells
<1>3. Delivers("CLOSING", d, s, r)
  BY DEF Pair, Delivers, Adds, Nothing, Closing, Session
<1>4. Delivers(d, "CLOSING", r, s)
  BY DEF Pair, Delivers, Adds, Nothing, Absent
<1>5. Asks(d, s, r, a, y)
  BY <1>0 DEF Pair, Asks, Adds
<1>6. Asks("CLOSING", r, s, b, x)
  BY <1>0 DEF Pair, Asks, Adds, HasAnswer, Absent
<1> QED
  BY <1>1, <1>2, <1>3, <1>4, <1>5, <1>6 DEF Pair

LEMMA ClosedKeeps ==
    ASSUME NEW c \in {"CLOSING", "LOCAL_CLOSING"}, NEW d \in States, NEW q, NEW r, NEW a, NEW b, NEW x, NEW y,
           Pair(c, d, q, r, a, b, x, y), d # "CLOSED", NEW s, Adds(q, "chanClosed", s),
           NEW c1, c1 = IF c = "CLOSING" THEN "REMOTE_CLOSING" ELSE "nulled"
    PROVE  /\ Pair(c1, d, s, r, a, b, x, y)
           /\ c = "LOCAL_CLOSING" => d = "REMOTE_CLOSING" /\ Nothing(r)
<1>0. "chanClosed" \notin Answers
  BY DEF Answers
<1>a. c = "LOCAL_CLOSING" => d = "REMOTE_CLOSING" /\ Nothing(r)
  BY DEF Pair, Delivers
<1>1. Tells(c1, d, s)
  <2>1. d \in {"OPEN", "CLOSING", "REMOTE_CLOSING"} \/ (d \in Absent /\ Has(q, "chanAccepted"))
    BY DEF Pair, Delivers, States, Session, Closing, Absent
  <2>2. ~Has(q, "chanClosed") /\ c1 \in {"REMOTE_CLOSING", "nulled"}
    BY DEF Pair, Tells
  <2> QED
    BY <2>1, <2>2 DEF Pair, Tells, Adds, Closing
<1>2. Tells(d, c1, r)
  BY <1>a DEF Pair, Tells, Nothing
<1>3. Delivers(c1, d, s, r)
  BY <1>a DEF Pair, Delivers, Adds, Nothing, Closing, Session
<1>4. Delivers(d, c1, r, s)
  BY <1>a DEF Pair, Delivers, Adds, Nothing, Closing, Session, Absent
<1>5. Asks(d, s, r, a, y)
  BY <1>0 DEF Pair, Asks, Adds, Tells
<1>6. Asks(c1, r, s, b, x)
  BY <1>0 DEF Pair, Asks, Adds, HasAnswer, Absent
<1> QED
  BY <1>a, <1>1, <1>2, <1>3, <1>4, <1>5, <1>6 DEF Pair

(* A chanClose or chanClosed that has come finds a channel, and all        *)
(* acceptances before it are taken.                                        *)
LEMMA OnCloseKeeps ==
    ASSUME NEW c \in States, NEW d \in States, NEW q, NEW r, NEW a, NEW b, NEW x, NEW y, Pair(c, d, q, r, a, b, x, y),
           d # "CLOSED", x = {}, NEW t, Drops(r, "chanClose", t), NEW s, IF c = "OPEN" THEN Adds(q, "chanClose", s) ELSE s = q,
           NEW c1, c1 = IF c = "OPEN" THEN "CLOSING" ELSE c
    PROVE  Pair(c1, d, s, t, a, b, x, y) /\ c \in {"OPEN", "CLOSING", "REMOTE_CLOSING"} /\ ~Has(r, "chanAccepted")
<1>0. "chanClose" \notin Answers
  BY DEF Answers
<1>a. ~Has(r, "chanAccepted") /\ c \in {"OPEN", "CLOSING", "REMOTE_CLOSING"}
  BY DEF Pair, Tells, Drops, Absent
<1>b. Pair(c, d, q, t, a, b, x, y) \/ c = "OPEN"
  <2> SUFFICES ASSUME c # "OPEN" PROVE Pair(c, d, q, t, a, b, x, y)
    OBVIOUS
  <2>1. Tells(c, d, q) /\ Tells(d, c, t)
    BY DEF Pair, Tells, Drops
  <2>2. Delivers(c, d, q, t) /\ Delivers(d, c, t, q)
    BY <1>a DEF Pair, Delivers, Drops, Nothing
  <2>3. Asks(d, q, t, a, y) /\ Asks(c, t, q, b, x)
    BY <1>0 DEF Pair, Asks, Drops, HasAnswer
  <2> QED
    BY <2>1, <2>2, <2>3 DEF Pair
<1>c. CASE c = "OPEN"
  <2>1. Tells("CLOSING", d, s)
    <3>1. d \in {"OPEN", "CLOSING", "REMOTE_CLOSING"} \/ (d \in Absent /\ Has(q, "chanAccepted"))
      BY <1>c DEF Pair, Delivers, States, Session, Closing, Absent
    <3> QED
      BY <1>c, <3>1 DEF Pair, Tells, Adds, Closing
  <2>2. Tells(d, "CLOSING", t)
    BY <1>c DEF Pair, Tells, Drops
  <2>3. Delivers("CLOSING", d, s, t)
    BY <1>c DEF Pair, Delivers, Adds, Drops, Nothing, Closing, Session
  <2>4. Delivers(d, "CLOSING", t, s)
    BY <1>c, <1>a DEF Pair, Delivers, Adds, Drops, Nothing, Absent
  <2>5. Asks(d, s, t, a, y)
    BY <1>0, <1>c DEF Pair, Asks, Adds, Drops, HasAnswer
  <2>6. Asks("CLOSING", t, s, b, x)
    BY <1>0, <1>c DEF Pair, Asks, Adds, Drops, HasAnswer, Absent
  <2> QED
    BY <1>a, <1>c, <2>1, <2>2, <2>3, <2>4, <2>5, <2>6 DEF Pair
<1> QED
  BY <1>a, <1>b, <1>c

LEMMA OnClosedKeeps ==
    ASSUME NEW c \in States, NEW d \in States, NEW q, NEW r, NEW a, NEW b, NEW x, NEW y, Pair(c, d, q, r, a, b, x, y),
           x = {}, NEW t, Drops(r, "chanClosed", t), NEW c1, c1 = IF c = "CLOSING" THEN "LOCAL_CLOSING" ELSE "nulled"
    PROVE  /\ Pair(c1, d, q, t, a, b, x, y) /\ c \in {"CLOSING", "REMOTE_CLOSING"} /\ Nothing(t) /\ ~Has(r, "chanAccepted")
           /\ c = "REMOTE_CLOSING" => Has(q, "chanClosed") \/ d = "nulled"
<1>0. "chanClosed" \notin Answers
  BY DEF Answers
<1>a. Nothing(t) /\ ~Has(r, "chanAccepted") /\ ~Has(r, "chanClose") /\ Has(r, "chanClosed") /\ d \in {"REMOTE_CLOSING", "nulled"}
  BY DEF Pair, Tells, Drops, Nothing
<1>b. c \in {"CLOSING", "REMOTE_CLOSING"} /\ (d = "nulled" => c = "REMOTE_CLOSING" /\ Nothing(q))
  BY <1>a DEF Pair, Tells, Delivers, Absent, Closing
<1>c. c = "REMOTE_CLOSING" => Has(q, "chanClosed") \/ d = "nulled"
  BY <1>a DEF Pair, Delivers
<1>1. Tells(c1, d, q)
  BY <1>a, <1>b, <1>c DEF Pair, Tells, Nothing, Closing
<1>2. Tells(d, c1, t)
  BY <1>a DEF Pair, Tells, Drops, Nothing
<1>3. Delivers(c1, d, q, t)
  BY <1>a, <1>b, <1>c DEF Pair, Delivers, Tells, Nothing, Closing, Session, Absent
<1>4. Delivers(d, c1, t, q)
  BY <1>a, <1>b, <1>c DEF Pair, Delivers, Tells, Drops, Nothing, Closing, Session, Absent
<1>5. Asks(d, q, t, a, y)
  BY <1>0 DEF Pair, Asks, Drops, HasAnswer
<1>6. Asks(c1, t, q, b, x)
  <2>1. Ordered(t, "chanRequest", "chanAccepted")
    BY <1>a DEF Ordered, Nothing, Has
  <2>2. Has(t, "chanRequest") => c1 \in Absent
    BY <1>b DEF Pair, Asks, Drops, Absent
  <2> QED
    BY <1>0, <1>b, <2>1, <2>2 DEF Pair, Asks, Drops, HasAnswer, Absent
<1> QED
  BY <1>a, <1>b, <1>c, <1>1, <1>2, <1>3, <1>4, <1>5, <1>6 DEF Pair


----------------------------------------------------------------------------
(* Types *)

IdLists == {<<>>, <<2>>, <<3>>, <<2, 3>>}
Requests == [limit : Limits, settled : BOOLEAN]
Messages ==
    [type : {"chanRequest"}, limit : Limits]
        \cup [type : {"chanResponse"}, accepted : {TRUE}, id : {2, 3}, limit : Limits]
        \cup [type : {"chanResponse"}, accepted : {FALSE}]
        \cup [type : {"chanClose", "chanClosed"}, id : {2, 3}]
AtMostOne(S, T) == S = {} \/ \E t \in T : S = {t}

(* Types, and what they take: a promise that is not settled is counted,    *)
(* and only a record that is there is nulled.                              *)
Typed(e) ==
    /\ channel[e] \in States /\ ids[e] \in IdLists /\ (channel[e] = "none" <=> ids[e] = <<>>)
    /\ AtMostOne(pending[e], Requests) /\ AtMostOne(handling[e], Limits)
    /\ unsettled[e] \in Nat /\ (Unsettled(e) => unsettled[e] > 0)
    /\ finalizing[e] \in Nat /\ (finalizing[e] > 0 => channel[e] # "none")
    /\ wire[e] \in Seq(Messages)
    /\ careful => finalizing[e] = 0 /\ channel[e] # "CLOSED"
Shapes ==
    /\ careful \in BOOLEAN
    /\ channel = [e \in Ends |-> channel[e]] /\ ids = [e \in Ends |-> ids[e]]
    /\ limits = [e \in Ends |-> limits[e]] /\ limits \in [Ends -> [local : Nat, remote : Nat]]
    /\ finalizing = [e \in Ends |-> finalizing[e]]
    /\ pending = [e \in Ends |-> pending[e]] /\ unsettled = [e \in Ends |-> unsettled[e]]
    /\ handling = [e \in Ends |-> handling[e]] /\ wire = [e \in Ends |-> wire[e]]
TInv == Shapes /\ \A e \in Ends : Typed(e)

LEMMA OtherIdFits ==
    ASSUME NEW l \in IdLists, l # <<>>, NEW id \in {2, 3}
    PROVE  MayAddRoleId(l, id)
<1>1. /\ DOMAIN <<2>> = {1} /\ DOMAIN <<3>> = {1} /\ DOMAIN <<2, 3>> = {1, 2}
      /\ Len(<<2>>) = 1 /\ Len(<<3>>) = 1
  OBVIOUS
<1>2. CASE l = <<2>>
  BY <1>1, <1>2 DEF MayAddRoleId, HasId
<1>3. CASE l = <<3>>
  BY <1>1, <1>3 DEF MayAddRoleId, HasId
<1>4. CASE l = <<2, 3>>
  BY <1>1, <1>4 DEF MayAddRoleId, HasId
<1> QED
  BY <1>2, <1>3, <1>4 DEF IdLists

LEMMA TwoEnds ==
    ASSUME NEW e \in Ends
    PROVE  /\ Peer(e) \in Ends /\ Peer(e) # e /\ Peer(Peer(e)) = e
           /\ \A f \in Ends : f = e \/ f = Peer(e)
<1>1. Peer("a") = "b" /\ Peer("b") = "a"
  BY DEF Ends, Peer
<1> QED
  BY <1>1 DEF Ends

LEMMA IdFacts ==
    ASSUME NEW l \in IdLists
    PROVE  /\ Range(l) \subseteq {2, 3} /\ Len(l) <= 2 /\ (Len(l) = 2 => l[1] < l[2])
           /\ l = <<>> <=> Range(l) = {}
           /\ l # <<>> => /\ Head(l) \in Range(l) /\ Head(l) \in {2, 3} /\ Head(l) = l[1] /\ <<Head(l)>> \in IdLists
                          /\ Head(l) = 2 <=> 2 \in Range(l)
           /\ \A id \in {2, 3} : /\ AddRoleId(l, id) \in IdLists \ {<<>>}
                                 /\ Range(AddRoleId(l, id)) = Range(l) \cup {id}
                                 /\ <<id>> \in IdLists /\ Range(<<id>>) = {id}
<1>0. /\ Range(<<>>) = {} /\ Range(<<2>>) = {2} /\ Range(<<3>>) = {3} /\ Range(<<2, 3>>) = {2, 3}
  <2>1. DOMAIN <<2>> = {1} /\ DOMAIN <<3>> = {1} /\ DOMAIN <<2, 3>> = {1, 2}
    OBVIOUS
  <2> QED
    BY <2>1 DEF Range
<1>1. /\ \A id : HasId(<<>>, id) <=> FALSE
      /\ \A id : HasId(<<2>>, id) <=> id = 2
      /\ \A id : HasId(<<3>>, id) <=> id = 3
      /\ \A id : HasId(<<2, 3>>, id) <=> id \in {2, 3}
  <2>1. DOMAIN <<2>> = {1} /\ DOMAIN <<3>> = {1} /\ DOMAIN <<2, 3>> = {1, 2}
    OBVIOUS
  <2> QED
    BY <2>1 DEF HasId
<1>2. /\ AddRoleId(<<>>, 2) = <<2>> /\ AddRoleId(<<>>, 3) = <<3>>
      /\ AddRoleId(<<2>>, 2) = <<2>> /\ AddRoleId(<<2>>, 3) = <<2, 3>>
      /\ AddRoleId(<<3>>, 2) = <<2, 3>> /\ AddRoleId(<<3>>, 3) = <<3>>
      /\ AddRoleId(<<2, 3>>, 2) = <<2, 3>> /\ AddRoleId(<<2, 3>>, 3) = <<2, 3>>
  <2>1. <<2>> \o <<3>> = <<2, 3>>
    <3>1. <<2>> \in Seq({2, 3}) /\ <<3>> \in Seq({2, 3}) /\ <<2, 3>> \in Seq({2, 3})
      OBVIOUS
    <3>2. <<2>> \o <<3>> \in Seq({2, 3}) /\ Len(<<2>> \o <<3>>) = 2
      BY <3>1
    <3>3. (<<2>> \o <<3>>)[1] = 2 /\ (<<2>> \o <<3>>)[2] = 3
      BY <3>1
    <3>4. Len(<<2, 3>>) = 2 /\ <<2, 3>>[1] = 2 /\ <<2, 3>>[2] = 3
      OBVIOUS
    <3> DEFINE u == <<2>> \o <<3>>
               v == <<2, 3>>
    <3>5. u \in Seq({2, 3}) /\ v \in Seq({2, 3}) /\ Len(u) = 2 /\ Len(v) = 2 /\ u[1] = v[1] /\ u[2] = v[2]
      BY <3>1, <3>2, <3>3, <3>4
    <3> HIDE DEF u, v
    <3>6. \A i \in 1 .. Len(u) : u[i] = v[i]
      BY <3>5
    <3>7. u = v
      BY <3>5, <3>6, SeqEqual
    <3> QED
      BY <3>7 DEF u, v
  <2>2. Append(<<2>>, 3) = <<2, 3>> /\ Append(<<>>, 2) = <<2>> /\ Append(<<>>, 3) = <<3>>
    <3>1. Append(<<2>>, 3) = <<2, 3>>
      <4> DEFINE u == Append(<<2>>, 3)
                 v == <<2, 3>>
      <4>1. u \in Seq({2, 3}) /\ Len(u) = 2
        OBVIOUS
      <4>2. v \in Seq({2, 3}) /\ Len(v) = 2
        OBVIOUS
      <4>3. u[1] = 2 /\ u[2] = 3
        OBVIOUS
      <4>4. v[1] = 2 /\ v[2] = 3
        OBVIOUS
      <4> HIDE DEF u, v
      <4>5. \A i \in 1 .. Len(u) : u[i] = v[i]
        BY <4>1, <4>3, <4>4
      <4>6. u = v
        BY <4>1, <4>2, <4>5, SeqEqual
      <4> QED
        BY <4>6 DEF u, v
    <3>2. Append(<<>>, 2) = <<2>>
      OBVIOUS
    <3>3. Append(<<>>, 3) = <<3>>
      OBVIOUS
    <3> QED
      BY <3>1, <3>2, <3>3
  <2>3. AddRoleId(<<>>, 2) = <<2>> /\ AddRoleId(<<>>, 3) = <<3>>
    BY <1>1, <2>2 DEF AddRoleId
  <2>4. AddRoleId(<<2>>, 2) = <<2>> /\ AddRoleId(<<3>>, 3) = <<3>>
    BY <1>1 DEF AddRoleId
  <2>5. AddRoleId(<<2, 3>>, 2) = <<2, 3>> /\ AddRoleId(<<2, 3>>, 3) = <<2, 3>>
    BY <1>1 DEF AddRoleId
  <2>6. AddRoleId(<<2>>, 3) = Append(<<2>>, 3)
    <3>1. ~HasId(<<2>>, 3) /\ ~(3 < <<2>>[1])
      BY <1>1
    <3> QED
      BY <3>1 DEF AddRoleId
  <2>7. AddRoleId(<<3>>, 2) = <<2>> \o <<3>>
    <3>1. ~HasId(<<3>>, 2) /\ 2 < <<3>>[1] /\ <<3>> # <<>>
      BY <1>1
    <3> QED
      BY <3>1 DEF AddRoleId
  <2> QED
    BY <2>1, <2>2, <2>3, <2>4, <2>5, <2>6, <2>7
<1>4. /\ Range(l) \subseteq {2, 3} /\ Len(l) <= 2 /\ (Len(l) = 2 => l[1] < l[2])
      /\ l = <<>> <=> Range(l) = {}
      /\ l # <<>> => /\ Head(l) \in Range(l) /\ Head(l) \in {2, 3} /\ Head(l) = l[1] /\ <<Head(l)>> \in IdLists
                     /\ Head(l) = 2 <=> 2 \in Range(l)
  <2>1. CASE l = <<>>
    BY <1>0, <2>1
  <2>2. CASE l = <<2>>
    BY <1>0, <2>2 DEF IdLists
  <2>3. CASE l = <<3>>
    BY <1>0, <2>3 DEF IdLists
  <2>4. CASE l = <<2, 3>>
    BY <1>0, <2>4 DEF IdLists
  <2> QED
    BY <2>1, <2>2, <2>3, <2>4 DEF IdLists
<1>5. \A id \in {2, 3} : /\ AddRoleId(l, id) \in IdLists \ {<<>>} /\ Range(AddRoleId(l, id)) = Range(l) \cup {id}
                         /\ <<id>> \in IdLists /\ Range(<<id>>) = {id}
  BY <1>0, <1>2 DEF IdLists
<1> QED
  BY <1>4, <1>5

Kind(m) == IF m.type = "chanResponse" THEN IF m.accepted THEN "chanAccepted" ELSE "chanRejected" ELSE m.type

LEMMA MessageFacts ==
    ASSUME NEW m \in Messages
    PROVE  /\ Kind(m) \in Kinds
           /\ m.type \in {"chanRequest", "chanResponse", "chanClose", "chanClosed"}
           /\ m.type = "chanResponse" <=> Kind(m) \in Answers
           /\ m.type = "chanResponse" => (m.accepted <=> Kind(m) = "chanAccepted")
           /\ m.type # "chanResponse" => Kind(m) = m.type
           /\ Kind(m) = "chanRequest" => m.limit \in Limits
           /\ Kind(m) = "chanAccepted" => m.id \in {2, 3} /\ m.limit \in Limits
           /\ Kind(m) \in {"chanClose", "chanClosed"} => m.id \in {2, 3}
<1>1. CASE m \in [type : {"chanRequest"}, limit : Limits]
  BY <1>1 DEF Kind, Kinds, Answers
<1>2. CASE m \in [type : {"chanResponse"}, accepted : {TRUE}, id : {2, 3}, limit : Limits]
  BY <1>2 DEF Kind, Kinds, Answers
<1>3. CASE m \in [type : {"chanResponse"}, accepted : {FALSE}]
  BY <1>3 DEF Kind, Kinds, Answers
<1>4. CASE m \in [type : {"chanClose", "chanClosed"}, id : {2, 3}]
  BY <1>4 DEF Kind, Kinds, Answers
<1> QED
  BY <1>1, <1>2, <1>3, <1>4 DEF Messages

LEMMA SendFacts ==
    ASSUME NEW l \in Limits, NEW id \in {2, 3}
    PROVE  /\ Request(l) \in Messages /\ Kind(Request(l)) = "chanRequest" /\ Request(l).limit = l
           /\ Acceptance(id, l) \in Messages /\ Kind(Acceptance(id, l)) = "chanAccepted"
           /\ Acceptance(id, l).id = id /\ Acceptance(id, l).limit = l
BY DEF Request, Acceptance, Messages, Kind

LEMMA ChanMessageFacts ==
    ASSUME NEW id \in {2, 3}, NEW k \in {"chanClose", "chanClosed"}
    PROVE  ChanMessage(k, id) \in Messages /\ Kind(ChanMessage(k, id)) = k /\ ChanMessage(k, id).id = id
BY DEF ChanMessage, Messages, Kind

LEMMA RejectionFacts == Rejection \in Messages /\ Kind(Rejection) = "chanRejected"
BY DEF Rejection, Messages, Kind

(* What an end does to the queues. *)
LEMMA Sent ==
    ASSUME TInv, NEW e \in Ends, NEW m \in Messages, Send(e, m)
    PROVE  /\ wire' = [f \in Ends |-> wire'[f]] /\ wire'[e] = wire[e] /\ wire'[Peer(e)] = Append(wire[Peer(e)], m)
           /\ wire'[e] \in Seq(Messages) /\ wire'[Peer(e)] \in Seq(Messages)
<1>1. wire[e] \in Seq(Messages) /\ wire[Peer(e)] \in Seq(Messages) /\ Peer(e) \in Ends /\ Peer(e) # e
  BY TwoEnds DEF TInv, Typed
<1>2. Append(wire[Peer(e)], m) \in Seq(Messages)
  BY <1>1
<1> QED
  BY <1>1, <1>2 DEF Send, TInv, Shapes

LEMMA TakenFacts ==
    ASSUME TInv, NEW e \in Ends, wire[e] # <<>>, Taken(e)
    PROVE  /\ wire' = [f \in Ends |-> wire'[f]] /\ wire'[e] = Tail(wire[e]) /\ wire'[Peer(e)] = wire[Peer(e)]
           /\ wire'[e] \in Seq(Messages) /\ wire'[Peer(e)] \in Seq(Messages) /\ Head(wire[e]) \in Messages
<1>1. wire[e] \in Seq(Messages) /\ wire[Peer(e)] \in Seq(Messages) /\ Peer(e) \in Ends /\ Peer(e) # e
  BY TwoEnds DEF TInv, Typed
<1>2. Tail(wire[e]) \in Seq(Messages) /\ Head(wire[e]) \in Messages
  BY <1>1
<1> QED
  BY <1>1, <1>2 DEF Taken, TInv, Shapes

LEMMA RepliedFacts ==
    ASSUME TInv, NEW e \in Ends, wire[e] # <<>>, NEW m \in Messages, Replies(e, m)
    PROVE  /\ wire' = [f \in Ends |-> wire'[f]] /\ wire'[e] = Tail(wire[e]) /\ wire'[Peer(e)] = Append(wire[Peer(e)], m)
           /\ wire'[e] \in Seq(Messages) /\ wire'[Peer(e)] \in Seq(Messages) /\ Head(wire[e]) \in Messages
<1>1. wire[e] \in Seq(Messages) /\ wire[Peer(e)] \in Seq(Messages) /\ Peer(e) \in Ends /\ Peer(e) # e
  BY TwoEnds DEF TInv, Typed
<1>2. Tail(wire[e]) \in Seq(Messages) /\ Head(wire[e]) \in Messages /\ Append(wire[Peer(e)], m) \in Seq(Messages)
  BY <1>1
<1> QED
  BY <1>1, <1>2 DEF Replies, TInv, Shapes

Step(e) == Use(e) \/ Progress(e)

(* What a step of an end leaves alone at the other. *)
Same(p) ==
    /\ careful' = careful
    /\ channel'[p] = channel[p] /\ ids'[p] = ids[p] /\ limits'[p] = limits[p] /\ finalizing'[p] = finalizing[p]
    /\ pending'[p] = pending[p] /\ unsettled'[p] = unsettled[p] /\ handling'[p] = handling[p]

LEMMA Created ==
    ASSUME TInv, NEW e \in Ends, NEW id \in {2, 3}, NEW l \in Limits, NEW m \in Limits, CreateChannel(e, id, l, m)
    PROVE  /\ channel' = [f \in Ends |-> channel'[f]] /\ ids' = [f \in Ends |-> ids'[f]]
           /\ limits' \in [Ends -> [local : Nat, remote : Nat]] /\ limits' = [f \in Ends |-> limits'[f]]
           /\ finalizing' = finalizing /\ channel'[e] = "OPEN" /\ limits'[e].local = l /\ limits'[e].remote = m
           /\ ids'[e] = IF channel[e] = "none" THEN <<id>> ELSE <<Head(ids[e])>>
           /\ ids'[e] \in IdLists /\ ids'[e] # <<>> /\ Head(ids'[e]) \in {2, 3}
           /\ \A f \in Ends : f # e => channel'[f] = channel[f] /\ ids'[f] = ids[f] /\ limits'[f] = limits[f]
<1>1. l \in Nat /\ m \in Nat
  BY LimitsAssumption
<1>2. [local |-> l, remote |-> m] \in [local : Nat, remote : Nat]
  BY <1>1
<1>3. /\ channel' = [f \in Ends |-> IF f = e THEN "OPEN" ELSE channel[f]] /\ finalizing' = finalizing
      /\ ids' = [f \in Ends |-> IF f = e THEN IF channel[e] = "none" THEN <<id>> ELSE <<Head(ids[e])>> ELSE ids[f]]
      /\ limits' = [f \in Ends |-> IF f = e THEN [local |-> l, remote |-> m] ELSE limits[f]]
  BY DEF CreateChannel, TInv, Shapes
<1>4. limits' \in [Ends -> [local : Nat, remote : Nat]]
  BY <1>2, <1>3 DEF TInv, Shapes
<1>5. ids'[e] \in IdLists /\ ids'[e] # <<>> /\ Head(ids'[e]) \in {2, 3}
  <2>1. ids[e] \in IdLists /\ (channel[e] = "none" <=> ids[e] = <<>>)
    BY DEF TInv, Typed
  <2>2. CASE channel[e] = "none"
    BY <1>3, <2>2 DEF IdLists
  <2>3. CASE channel[e] # "none"
    <3>1. Head(ids[e]) \in {2, 3}
      BY <2>1, <2>3, IdFacts
    <3> QED
      BY <1>3, <2>3, <3>1 DEF IdLists
  <2> QED
    BY <2>2, <2>3
<1> QED
  BY <1>3, <1>4, <1>5

LEMMA OneFacts ==
    ASSUME NEW S, NEW T, AtMostOne(S, T)
    PROVE  /\ S \subseteq T /\ \A s, t \in S : s = t
           /\ S # {} => (CHOOSE s \in S : TRUE) \in S
BY DEF AtMostOne

LEMMA OtherEnd ==
    ASSUME TInv, NEW e \in Ends, Step(e)
    PROVE  /\ Same(Peer(e)) /\ Shapes'
           /\ wire'[e] \in Seq(Messages) /\ wire'[Peer(e)] \in Seq(Messages)
<1> DEFINE p == Peer(e)
<1>a. p \in Ends /\ p # e /\ Typed(e) /\ Typed(p)
  BY TwoEnds DEF TInv
<1>b. wire[e] \in Seq(Messages) /\ wire[p] \in Seq(Messages) /\ wire = [f \in Ends |-> wire[f]]
  BY <1>a DEF Typed, TInv, Shapes
<1>c. ASSUME NEW k \in {"chanClose", "chanClosed"}, channel[e] # "none" PROVE ChanMessage(k, Head(ids[e])) \in Messages
  <2>1. ids[e] \in IdLists /\ ids[e] # <<>>
    BY <1>a, <1>c DEF Typed
  <2>2. Head(ids[e]) \in {2, 3}
    BY <2>1, IdFacts
  <2> QED
    BY <2>2 DEF ChanMessage, Messages
<1> HIDE DEF p
<1>1. ASSUME NEW limit \in Limits, RequestChannel(e, limit)
      PROVE  Same(p) /\ Shapes' /\ wire'[e] \in Seq(Messages) /\ wire'[p] \in Seq(Messages)
  <2>1. wire' = [f \in Ends |-> wire'[f]] /\ wire'[e] \in Seq(Messages) /\ wire'[p] \in Seq(Messages)
    BY <1>1, Sent, SendFacts DEF RequestChannel, p
  <2> QED
    BY <1>1, <1>a, <2>1 DEF RequestChannel, channelVars, TInv, Shapes, Same
<1>2. ASSUME Close(e)
      PROVE  Same(p) /\ Shapes' /\ wire'[e] \in Seq(Messages) /\ wire'[p] \in Seq(Messages)
  <2>1. wire' = [f \in Ends |-> wire'[f]] /\ wire'[e] \in Seq(Messages) /\ wire'[p] \in Seq(Messages)
    BY <1>2, <1>c, Sent DEF Close, p
  <2> QED
    BY <1>2, <1>a, <2>1 DEF Close, StartClosing, requestVars, TInv, Shapes, Same
<1>3. ASSUME NEW limit \in Limits, Accept(e, limit)
      PROVE  Same(p) /\ Shapes' /\ wire'[e] \in Seq(Messages) /\ wire'[p] \in Seq(Messages)
  <2>1. (CHOOSE r \in handling[e] : TRUE) \in Limits /\ nextChannelId[e] \in {2, 3}
    BY <1>3, <1>a, OneFacts DEF Accept, Typed, nextChannelId, Ends
  <2>2. /\ channel' = [f \in Ends |-> channel'[f]] /\ ids' = [f \in Ends |-> ids'[f]] /\ finalizing' = finalizing
        /\ limits' \in [Ends -> [local : Nat, remote : Nat]] /\ limits' = [f \in Ends |-> limits'[f]]
        /\ channel'[p] = channel[p] /\ ids'[p] = ids[p] /\ limits'[p] = limits[p]
        /\ Head(ids'[e]) \in {2, 3}
    <3>1. CASE channel[e] \in {"none", "CLOSED", "nulled"}
      <4>1. CreateChannel(e, nextChannelId[e], limit, CHOOSE r \in handling[e] : TRUE)
        BY <1>3, <3>1 DEF Accept
      <4> QED
        BY <1>a, <2>1, <4>1, Created
    <3>2. CASE channel[e] \notin {"none", "CLOSED", "nulled"}
      <4>1. UNCHANGED channelVars
        BY <1>3, <3>2 DEF Accept
      <4>2. Head(ids[e]) \in {2, 3}
        BY <1>a, <3>2, IdFacts DEF Typed
      <4> QED
        BY <4>1, <4>2 DEF channelVars, TInv, Shapes
    <3> QED
      BY <3>1, <3>2
  <2>3. wire' = [f \in Ends |-> wire'[f]] /\ wire'[e] \in Seq(Messages) /\ wire'[p] \in Seq(Messages)
    BY <1>3, <2>2, Sent, SendFacts DEF Accept, p
  <2> QED
    BY <1>3, <1>a, <2>2, <2>3 DEF Accept, Settle, TInv, Shapes, Same
<1>4. ASSUME Reject(e)
      PROVE  Same(p) /\ Shapes' /\ wire'[e] \in Seq(Messages) /\ wire'[p] \in Seq(Messages)
  <2>1. wire' = [f \in Ends |-> wire'[f]] /\ wire'[e] \in Seq(Messages) /\ wire'[p] \in Seq(Messages)
    BY <1>4, Sent, RejectionFacts DEF Reject, p
  <2> QED
    BY <1>4, <1>a, <2>1 DEF Reject, channelVars, requestVars, TInv, Shapes, Same
<1>5. ASSUME OnChannelRequest(e)
      PROVE  Same(p) /\ Shapes' /\ wire'[e] \in Seq(Messages) /\ wire'[p] \in Seq(Messages)
  <2>1. wire[e] # <<>> /\ (Replies(e, Rejection) \/ Taken(e))
    BY <1>5 DEF OnChannelRequest, TakesNext
  <2>2. wire' = [f \in Ends |-> wire'[f]] /\ wire'[e] \in Seq(Messages) /\ wire'[p] \in Seq(Messages)
    BY <2>1, TakenFacts, RepliedFacts, RejectionFacts DEF p
  <2> QED
    BY <1>5, <1>a, <2>2 DEF OnChannelRequest, channelVars, requestVars, TInv, Shapes, Same
<1>6. ASSUME OnChannelResponse(e)
      PROVE  Same(p) /\ Shapes' /\ wire'[e] \in Seq(Messages) /\ wire'[p] \in Seq(Messages)
  <2> DEFINE m == Head(wire[e])
  <2>1. wire[e] # <<>> /\ Taken(e) /\ m.type = "chanResponse"
    BY <1>6 DEF OnChannelResponse, TakesNext
  <2>2. /\ wire' = [f \in Ends |-> wire'[f]] /\ wire'[e] \in Seq(Messages) /\ wire'[p] \in Seq(Messages)
        /\ m \in Messages
    BY <2>1, TakenFacts DEF p
  <2>3. (m.accepted => m.id \in {2, 3} /\ m.limit \in Limits) /\ careful' = careful /\ handling' = handling
    BY <1>6, <2>1, <2>2, MessageFacts DEF OnChannelResponse
  <2> DEFINE Kept == /\ channel' = [f \in Ends |-> channel'[f]] /\ ids' = [f \in Ends |-> ids'[f]]
                     /\ finalizing' = finalizing
                     /\ limits' \in [Ends -> [local : Nat, remote : Nat]] /\ limits' = [f \in Ends |-> limits'[f]]
                     /\ channel'[p] = channel[p] /\ ids'[p] = ids[p] /\ limits'[p] = limits[p]
                     /\ unsettled' = [f \in Ends |-> unsettled'[f]] /\ unsettled'[p] = unsettled[p]
  <2>4. CASE UNCHANGED channelVars /\ (UNCHANGED unsettled \/ Settle(e))
    <3>1. Kept
      BY <1>a, <2>4 DEF channelVars, Settle, TInv, Shapes
    <3> QED
      BY <1>6, <1>a, <2>2, <2>3, <3>1 DEF OnChannelResponse, TInv, Shapes, Same
  <2>5. CASE UNCHANGED <<channel, limits, finalizing, unsettled>> /\ ids' = [ids EXCEPT ![e] = AddRoleId(@, m.id)]
    <3>1. Kept
      BY <1>a, <2>5 DEF TInv, Shapes
    <3> QED
      BY <1>6, <1>a, <2>2, <2>3, <3>1 DEF OnChannelResponse, TInv, Shapes, Same
  <2>6. ASSUME NEW id \in {2, 3}, NEW l \in Limits, NEW k \in Limits, CreateChannel(e, id, l, k), Settle(e)
        PROVE  Same(p) /\ Shapes' /\ wire'[e] \in Seq(Messages) /\ wire'[p] \in Seq(Messages)
    <3>1. CreateChannel(e, id, l, k)
      BY <2>6
    <3>2. /\ channel' = [f \in Ends |-> channel'[f]] /\ ids' = [f \in Ends |-> ids'[f]]
          /\ finalizing' = finalizing
          /\ limits' \in [Ends -> [local : Nat, remote : Nat]] /\ limits' = [f \in Ends |-> limits'[f]]
          /\ channel'[p] = channel[p] /\ ids'[p] = ids[p] /\ limits'[p] = limits[p]
      <4> HIDE DEF m, Kept
      <4>0. TInv /\ e \in Ends /\ id \in {2, 3} /\ l \in Limits /\ k \in Limits /\ p \in Ends /\ p # e
        BY <1>a
      <4>1. channel' = [f \in Ends |-> channel'[f]] /\ ids' = [f \in Ends |-> ids'[f]] /\ finalizing' = finalizing
        BY <3>1, <4>0, Created
      <4>2. limits' \in [Ends -> [local : Nat, remote : Nat]] /\ limits' = [f \in Ends |-> limits'[f]]
        BY <3>1, <4>0, Created
      <4>3. channel'[p] = channel[p] /\ ids'[p] = ids[p] /\ limits'[p] = limits[p]
        BY <3>1, <4>0 DEF CreateChannel, TInv, Shapes
      <4> QED
        BY <4>1, <4>2, <4>3
    <3>3. Kept
      BY <1>a, <2>6, <3>2 DEF Settle, TInv, Shapes
    <3> QED
      BY <1>6, <1>a, <2>2, <2>3, <3>3 DEF OnChannelResponse, TInv, Shapes, Same
  <2>7. \/ UNCHANGED channelVars /\ (UNCHANGED unsettled \/ Settle(e))
        \/ UNCHANGED <<channel, limits, finalizing, unsettled>> /\ ids' = [ids EXCEPT ![e] = AddRoleId(@, m.id)]
        \/ m.accepted /\ Settle(e) /\ \E r \in pending[e] : CreateChannel(e, m.id, r.limit, m.limit)
    BY <1>6 DEF OnChannelResponse, OnAcceptance, OnRejection, RequesterLimits, channelVars
  <2>8. \A r \in pending[e] : r.limit \in Limits
    <3>1. pending[e] \subseteq Requests
      BY <1>a, OneFacts DEF Typed
    <3> QED
      BY <3>1 DEF Requests
  <2>9. m.accepted => m.id \in {2, 3} /\ m.limit \in Limits
    BY <2>3
  <2> HIDE DEF m
  <2> QED
    BY <2>4, <2>5, <2>6, <2>7, <2>8, <2>9
<1>7. ASSUME NullChannel(e)
      PROVE  Same(p) /\ Shapes' /\ wire'[e] \in Seq(Messages) /\ wire'[p] \in Seq(Messages)
  BY <1>7, <1>a, <1>b DEF NullChannel, Nulled, requestVars, TInv, Shapes, Same
<1>8. ASSUME FinalizeClosure(e)
      PROVE  /\ channel' = [f \in Ends |-> channel'[f]] /\ ids' = [f \in Ends |-> ids'[f]]
             /\ finalizing' = [f \in Ends |-> finalizing'[f]]
             /\ channel'[p] = channel[p] /\ ids'[p] = ids[p] /\ finalizing'[p] = finalizing[p]
  BY <1>8, <1>a DEF FinalizeClosure, Nulled, TInv, Shapes
<1>9. ASSUME SendChanClosed(e)
      PROVE  Same(p) /\ Shapes' /\ wire'[e] \in Seq(Messages) /\ wire'[p] \in Seq(Messages)
  <2>1. wire' = [f \in Ends |-> wire'[f]] /\ wire'[e] \in Seq(Messages) /\ wire'[p] \in Seq(Messages)
    BY <1>9, <1>c, Sent DEF SendChanClosed, p
  <2>2. /\ channel' = [f \in Ends |-> channel'[f]] /\ ids' = [f \in Ends |-> ids'[f]]
        /\ finalizing' = [f \in Ends |-> finalizing'[f]]
        /\ channel'[p] = channel[p] /\ ids'[p] = ids[p] /\ finalizing'[p] = finalizing[p]
    BY <1>8, <1>9, <1>a DEF SendChanClosed, TInv, Shapes
  <2> QED
    BY <1>9, <1>a, <2>1, <2>2 DEF SendChanClosed, requestVars, TInv, Shapes, Same
<1>10. ASSUME OnChannelClose(e)
       PROVE  Same(p) /\ Shapes' /\ wire'[e] \in Seq(Messages) /\ wire'[p] \in Seq(Messages)
  <2>1. /\ wire[e] # <<>> /\ careful' = careful
        /\ UNCHANGED channel \/ StartClosing(e)
        /\ Taken(e) \/ (channel[e] = "OPEN" /\ Replies(e, ChanMessage("chanClose", Head(ids[e]))))
    BY <1>10 DEF OnChannelClose, TakesNext
  <2>2. wire' = [f \in Ends |-> wire'[f]] /\ wire'[e] \in Seq(Messages) /\ wire'[p] \in Seq(Messages)
    BY <1>c, <2>1, TakenFacts, RepliedFacts DEF p
  <2>3. channel' = [f \in Ends |-> channel'[f]] /\ channel'[p] = channel[p]
    BY <1>a, <2>1 DEF StartClosing, TInv, Shapes
  <2> QED
    BY <1>10, <1>a, <2>2, <2>3 DEF OnChannelClose, requestVars, TInv, Shapes, Same
<1>11. ASSUME OnChannelClosed(e)
       PROVE  Same(p) /\ Shapes' /\ wire'[e] \in Seq(Messages) /\ wire'[p] \in Seq(Messages)
  <2>1. wire[e] # <<>> /\ Taken(e)
    BY <1>11 DEF OnChannelClosed, TakesNext
  <2>2. wire' = [f \in Ends |-> wire'[f]] /\ wire'[e] \in Seq(Messages) /\ wire'[p] \in Seq(Messages)
    BY <2>1, TakenFacts DEF p
  <2>3. /\ channel' = [f \in Ends |-> channel'[f]] /\ ids' = [f \in Ends |-> ids'[f]]
        /\ finalizing' = [f \in Ends |-> finalizing'[f]]
        /\ channel'[p] = channel[p] /\ ids'[p] = ids[p] /\ finalizing'[p] = finalizing[p]
    BY <1>8, <1>11, <1>a DEF OnChannelClosed, TInv, Shapes
  <2> QED
    BY <1>11, <1>a, <2>2, <2>3 DEF OnChannelClosed, requestVars, TInv, Shapes, Same
<1> QED
  BY <1>1, <1>2, <1>3, <1>4, <1>5, <1>6, <1>7, <1>9, <1>10, <1>11
  DEF Step, Use, Progress, Handlers, TccReader, p


----------------------------------------------------------------------------
(* The ids.  What an end knows are the ids of its channel (I) and of the   *)
(* acceptances on their way to it (B); messages that are about closing (D) *)
(* come with one of these.                                                 *)
Knows(c, I, B, D) ==
    /\ I \subseteq {2, 3} /\ B \subseteq {2, 3} /\ (I = {} <=> c = "none")
    /\ c = "nulled" => \E i \in I : I \cup B = {i}
    /\ D \subseteq I \cup B

(* Both ends know the same, but for one whose record is nulled, and keeps  *)
(* one id, before the other has received its chanClosed.                   *)
Named(c, d, q, r, I, J, A, B, C, D) ==
    /\ Knows(c, I, B, D) /\ Knows(d, J, A, C)
    /\ \/ I \cup B = J \cup A
       \/ c = "nulled" /\ Has(q, "chanClosed")
       \/ d = "nulled" /\ Has(r, "chanClosed")
    /\ 2 \in I \cup B <=> 2 \in J \cup A
    /\ I \cup B = {} <=> J \cup A = {}

(* The ids of the acceptances (A) and of what is about closing (C) in q. *)
Fits(q, A, C) ==
    /\ A = {} <=> ~Has(q, "chanAccepted")
    /\ C = {} <=> ~Has(q, "chanClose") /\ ~Has(q, "chanClosed")

LEMMA NamedTurns ==
    ASSUME NEW c, NEW d, NEW q, NEW r, NEW I, NEW J, NEW A, NEW B, NEW C, NEW D, Named(c, d, q, r, I, J, A, B, C, D)
    PROVE  Named(d, c, r, q, J, I, B, A, D, C)
BY DEF Named

(* Messages that are about neither. *)
LEMMA NamedAlike ==
    ASSUME NEW c, NEW d, NEW q, NEW r, NEW I, NEW J, NEW A, NEW B, NEW C, NEW D, Named(c, d, q, r, I, J, A, B, C, D),
           NEW s, Has(q, "chanClosed") <=> Has(s, "chanClosed"), NEW t, Has(r, "chanClosed") <=> Has(t, "chanClosed")
    PROVE  Named(c, d, s, t, I, J, A, B, C, D)
BY DEF Named

LEMMA AcceptNames ==
    ASSUME NEW c \in States, NEW d \in States, NEW q, NEW r, NEW a, NEW b, NEW x, NEW y, Pair(c, d, q, r, a, b, x, y),
           NEW I, NEW J, NEW A, NEW B, NEW C, NEW D, Named(c, d, q, r, I, J, A, B, C, D), Fits(q, A, C), Fits(r, B, D),
           x # {}, NEW s, Adds(q, "chanAccepted", s), NEW h \in {2, 3}, c # "none" => h \in I
    PROVE  Named("OPEN", d, s, r, {h}, J, A \cup {h}, B, C, D)
<1>1. c \in Absent /\ ~Has(q, "chanClosed") /\ ~(d = "nulled" /\ Has(r, "chanClosed"))
  BY DEF Pair, Asks, Absent, Delivers
<1>2. I \cup B = J \cup A
  BY <1>1 DEF Named
<1>3. {h} \cup B = J \cup A \cup {h}
  <2>1. CASE c = "none"
    BY <1>2, <2>1 DEF Named, Knows
  <2>2. CASE c = "nulled"
    <3>1. I \cup B = {h}
      BY <2>2 DEF Named, Knows
    <3> QED
      BY <1>2, <3>1
  <2> QED
    BY <1>1, <2>1, <2>2 DEF Absent
<1>4. Knows("OPEN", {h}, B, D)
  <2>1. D \subseteq {h} \cup B
    BY <1>2, <1>3 DEF Named, Knows
  <2> QED
    BY <2>1 DEF Named, Knows
<1>5. Knows(d, J, A \cup {h}, C)
  <2>1. d = "nulled" => c # "none"
    BY DEF Pair, Delivers
  <2>2. c # "none" => h \in J \cup A
    BY <1>2
  <2>3. d = "nulled" => A \cup {h} \cup J = J \cup A
    BY <2>1, <2>2
  <2>4. d = "nulled" => J \cup (A \cup {h}) = J \cup A
    BY <2>3
  <2> QED
    BY <2>4 DEF Named, Knows
<1>6. {h} \cup B = J \cup (A \cup {h})
  BY <1>3
<1> QED
  BY <1>4, <1>5, <1>6 DEF Named

(* An acceptance has come. *)
LEMMA AcceptanceNames ==
    ASSUME NEW c \in States, NEW d \in States, NEW q, NEW r, NEW a, NEW b, NEW x, NEW y, Pair(c, d, q, r, a, b, x, y),
           NEW I, NEW J, NEW A, NEW B, NEW C, NEW D, Named(c, d, q, r, I, J, A, B, C, D), Fits(q, A, C), Fits(r, B, D),
           c # "CLOSED", d # "CLOSED", NEW t, Drops(r, "chanAccepted", t), NEW id, NEW B1, B = B1 \cup {id},
           NEW c1, c1 = IF c \in Absent THEN "OPEN" ELSE c,
           NEW I1, c = "none" => I1 = {id}, c = "nulled" => \E h \in I : I1 = {h}, c \notin Absent => I1 = I \cup {id}
    PROVE  Named(c1, d, q, t, I1, J, A, B1, C, D)
<1>1. Has(r, "chanAccepted") /\ (Has(t, "chanClosed") <=> Has(r, "chanClosed")) /\ c1 # "nulled" /\ c1 # "none"
  BY DEF Drops, Absent
<1>2. ~(c = "nulled" /\ Has(q, "chanClosed"))
  BY <1>1 DEF Pair, Delivers, Nothing
<1>3. I1 \cup B1 = I \cup B
  <2>1. CASE c = "none"
    BY <2>1 DEF Named, Knows
  <2>2. CASE c = "nulled"
    <3>1. PICK h \in I : I1 = {h}
      BY <2>2
    <3>2. I \cup B = {h}
      BY <2>2 DEF Named, Knows
    <3> QED
      BY <3>1, <3>2
  <2>3. CASE c \notin Absent
    BY <2>3
  <2> QED
    BY <2>1, <2>2, <2>3 DEF Absent
<1>4. Knows(c1, I1, B1, D)
  <2>1. I1 \subseteq {2, 3} /\ B1 \subseteq {2, 3} /\ D \subseteq I1 \cup B1
    BY <1>3 DEF Named, Knows
  <2>2. I1 # {}
    <3>1. CASE c = "none"
      BY <3>1
    <3>2. CASE c = "nulled"
      BY <3>2
    <3>3. CASE c \notin Absent
      BY <3>3
    <3> QED
      BY <3>1, <3>2, <3>3 DEF Absent
  <2> QED
    BY <1>1, <2>1, <2>2 DEF Knows
<1> QED
  BY <1>1, <1>2, <1>3, <1>4 DEF Named

LEMMA CloseNames ==
    ASSUME NEW c, c = "OPEN", NEW d \in States, NEW q, NEW r, NEW a, NEW b, NEW x, NEW y, Pair(c, d, q, r, a, b, x, y),
           NEW I, NEW J, NEW A, NEW B, NEW C, NEW D, Named(c, d, q, r, I, J, A, B, C, D),
           NEW s, Adds(q, "chanClose", s), NEW h \in I
    PROVE  Named("CLOSING", d, s, r, I, J, A, B, C \cup {h}, D)
<1>1. Has(s, "chanClosed") <=> Has(q, "chanClosed")
  BY DEF Adds
<1>2. ~(d = "nulled" /\ Has(r, "chanClosed"))
  BY DEF Pair, Delivers
<1>3. h \in J \cup A
  BY <1>2 DEF Named
<1> QED
  BY <1>1, <1>2, <1>3 DEF Named, Knows

LEMMA ClosedNames ==
    ASSUME NEW c \in {"CLOSING", "LOCAL_CLOSING"}, NEW d \in States, NEW q, NEW r, NEW a, NEW b, NEW x, NEW y,
           Pair(c, d, q, r, a, b, x, y),
           NEW I, NEW J, NEW A, NEW B, NEW C, NEW D, Named(c, d, q, r, I, J, A, B, C, D), Fits(q, A, C), Fits(r, B, D),
           NEW s, Adds(q, "chanClosed", s), NEW h \in I, h = 2 <=> 2 \in I,
           NEW c1, c1 = IF c = "CLOSING" THEN "REMOTE_CLOSING" ELSE "nulled", NEW I1, I1 = IF c = "CLOSING" THEN I ELSE {h}
    PROVE  Named(c1, d, s, r, I1, J, A, B, C \cup {h}, D)
<1>1. Has(s, "chanClosed") /\ ~(d = "nulled" /\ Has(r, "chanClosed"))
  BY DEF Adds, Pair, Delivers
<1>2. I \cup B = J \cup A /\ h \in J \cup A
  BY <1>1 DEF Named
<1>3. Knows(d, J, A, C \cup {h})
  BY <1>2 DEF Named, Knows
<1>4. CASE c = "CLOSING"
  BY <1>2, <1>3, <1>4 DEF Named, Knows
<1>5. CASE c = "LOCAL_CLOSING"
  <2>1. B = {} /\ D = {}
    BY <1>5 DEF Pair, Delivers, Nothing, Fits
  <2>2. Knows(c1, I1, B, D)
    BY <1>5, <2>1 DEF Named, Knows
  <2>3. 2 \in I1 \cup B <=> 2 \in J \cup A
    BY <1>2, <1>5, <2>1
  <2>4. I1 \cup B # {} /\ J \cup A # {}
    BY <1>2, <1>5
  <2> QED
    BY <1>1, <1>3, <1>5, <2>2, <2>3, <2>4 DEF Named
<1> QED
  BY <1>4, <1>5

LEMMA OnCloseNames ==
    ASSUME NEW c \in States, NEW d \in States, NEW q, NEW r, NEW a, NEW b, NEW x, NEW y, Pair(c, d, q, r, a, b, x, y),
           NEW I, NEW J, NEW A, NEW B, NEW C, NEW D, Named(c, d, q, r, I, J, A, B, C, D), Fits(q, A, C), Fits(r, B, D),
           NEW t, Drops(r, "chanClose", t), NEW D1, D1 \subseteq D,
           NEW s, IF c = "OPEN" THEN Adds(q, "chanClose", s) ELSE s = q, NEW c1, c1 = IF c = "OPEN" THEN "CLOSING" ELSE c,
           NEW C1, C1 \subseteq C \cup I, c # "OPEN" => C1 = C
    PROVE  Named(c1, d, s, t, I, J, A, B, C1, D1)
<1>1. /\ Has(s, "chanClosed") <=> Has(q, "chanClosed")
      /\ Has(t, "chanClosed") <=> Has(r, "chanClosed")
  BY DEF Adds, Drops
<1>2. c = "OPEN" => ~(d = "nulled" /\ Has(r, "chanClosed"))
  BY DEF Pair, Delivers
<1>3. c = "OPEN" => I \subseteq J \cup A
  BY <1>2 DEF Named
<1>4. Knows(d, J, A, C1)
  BY <1>3 DEF Named, Knows
<1>5. Knows(c1, I, B, D1)
  BY DEF Named, Knows
<1> QED
  BY <1>1, <1>2, <1>4, <1>5 DEF Named

LEMMA OnClosedNames ==
    ASSUME NEW c \in States, NEW d \in States, NEW q, NEW r, NEW a, NEW b, NEW x, NEW y, Pair(c, d, q, r, a, b, x, y),
           NEW I, NEW J, NEW A, NEW B, NEW C, NEW D, Named(c, d, q, r, I, J, A, B, C, D), Fits(q, A, C), Fits(r, B, D),
           c \in {"CLOSING", "REMOTE_CLOSING"}, ~Has(r, "chanAccepted"),
           c = "REMOTE_CLOSING" => Has(q, "chanClosed") \/ d = "nulled",
           NEW t, Nothing(t),
           NEW c1, c1 = IF c = "CLOSING" THEN "LOCAL_CLOSING" ELSE "nulled",
           NEW I1, c = "CLOSING" => I1 = I, c # "CLOSING" => \E h \in I : (h = 2 <=> 2 \in I) /\ I1 = {h}
    PROVE  Named(c1, d, q, t, I1, J, A, B, C, {})
<1>1. B = {}
  BY DEF Fits
<1>2. CASE c = "CLOSING"
  <2>1. ~(d = "nulled" /\ Has(r, "chanClosed"))
    BY <1>2 DEF Pair, Delivers
  <2>2. Knows(c1, I1, B, {})
    BY <1>2 DEF Named, Knows
  <2> QED
    BY <1>2, <2>1, <2>2 DEF Named
<1>3. CASE c = "REMOTE_CLOSING"
  <2>1. PICK h \in I : (h = 2 <=> 2 \in I) /\ I1 = {h}
    BY <1>3
  <2>2. Knows(c1, I1, B, {})
    BY <1>1, <1>3, <2>1 DEF Named, Knows
  <2>3. 2 \in I1 \cup B <=> 2 \in J \cup A
    BY <1>1, <2>1 DEF Named
  <2>4. I1 \cup B # {} /\ J \cup A # {}
    BY <2>1 DEF Named
  <2>5. d = "nulled" => I1 \cup B = J \cup A
    <3> SUFFICES ASSUME d = "nulled" PROVE {h} = J \cup A
      BY <1>1, <2>1
    <3>1. PICK j \in J : J \cup A = {j}
      BY DEF Named, Knows
    <3>2. j \in {2, 3} /\ h \in {2, 3} /\ (h = 2 <=> j = 2)
      BY <1>1, <2>1, <2>3, <3>1 DEF Named, Knows
    <3> QED
      BY <3>1, <3>2
  <2> QED
    BY <1>3, <2>2, <2>3, <2>4, <2>5 DEF Named
<1> QED
  BY <1>2, <1>3

----------------------------------------------------------------------------
(* The limits.  What an end asked for (P: the limits of its entry), asks   *)
(* or is asked for (R: the limits of its requests, on their way or         *)
(* handled) and allows by an acceptance (L) are the limits it gave (i, for *)
(* itself), and believes the other to have given (j).                      *)
Grants(c, d, i, j, k, P, Q, R, L) ==
    /\ \A l \in R, m \in P : l = m
    /\ c \in Session => \A m \in P : i = m
    /\ \A l \in L : i = l /\ \A m \in Q : j = m
    /\ c \in Session /\ d \in Session => j = k

(* Both ends: theirs (i, k), and what they take the other's for (j, l). *)
Granted(c, d, i, j, k, l, P, Q, R, S, L, M) ==
    Grants(c, d, i, j, k, P, Q, R, L) /\ Grants(d, c, k, l, i, Q, P, S, M)

(* The entry (a) and its limits (P), the request handled (y) and those of  *)
(* the requests (R), the acceptances in q and theirs (L).                  *)
Shows(q, a, y, P, R, L) ==
    /\ P = {} <=> a = {}
    /\ R = {} <=> ~Has(q, "chanRequest") /\ y = {}
    /\ L = {} <=> ~Has(q, "chanAccepted")

LEMMA GrantedTurns ==
    ASSUME NEW c, NEW d, NEW i, NEW j, NEW k, NEW l, NEW P, NEW Q, NEW R, NEW S, NEW L, NEW M,
           Granted(c, d, i, j, k, l, P, Q, R, S, L, M)
    PROVE  Granted(d, c, k, l, i, j, Q, P, S, R, M, L)
BY DEF Granted

(* Requests and acceptances that have come or are refused, and channels    *)
(* that close, take nothing back.                                          *)
LEMMA GrantedLess ==
    ASSUME NEW c, NEW d, NEW i, NEW j, NEW k, NEW l, NEW P, NEW Q, NEW R, NEW S, NEW L, NEW M,
           Granted(c, d, i, j, k, l, P, Q, R, S, L, M),
           NEW c1, c1 \in Session => c \in Session, NEW P1, P1 \subseteq P, NEW S1, S1 \subseteq S, NEW M1, M1 \subseteq M
    PROVE  Granted(c1, d, i, j, k, l, P1, Q, R, S1, L, M1)
<1>1. Grants(c1, d, i, j, k, P1, Q, R, L)
  BY DEF Granted, Grants
<1>2. Grants(d, c1, k, l, i, Q, P1, S1, M1)
  BY DEF Granted, Grants
<1> QED
  BY <1>1, <1>2 DEF Granted

LEMMA RequestGrants ==
    ASSUME NEW c \in Absent, NEW d \in States, NEW q, NEW r, NEW a, NEW b, NEW x, NEW y, Pair(c, d, q, r, a, b, x, y), a = {},
           NEW i, NEW j, NEW k, NEW l, NEW P, NEW Q, NEW R, NEW S, NEW L, NEW M,
           Granted(c, d, i, j, k, l, P, Q, R, S, L, M), Shows(q, a, y, P, R, L), Shows(r, b, x, Q, S, M), NEW n
    PROVE  Granted(c, d, i, j, k, l, {n}, Q, R \cup {n}, S, L, M)
<1>1. R = {} /\ M = {} /\ c \notin Session
  BY DEF Pair, Asks, Shows, HasAnswer, Absent, Session, Closing
<1>2. Grants(c, d, i, j, k, {n}, Q, R \cup {n}, L)
  BY <1>1 DEF Granted, Grants
<1>3. Grants(d, c, k, l, i, Q, {n}, S, M)
  BY <1>1 DEF Granted, Grants
<1> QED
  BY <1>2, <1>3 DEF Granted

(* An end accepts: with the limit it asked for itself, if it did. *)
LEMMA AcceptGrants ==
    ASSUME NEW c \in States, NEW d \in States, NEW q, NEW r, NEW a, NEW b, NEW x, NEW y, Pair(c, d, q, r, a, b, x, y), x # {},
           NEW i, NEW j, NEW k, NEW l, NEW P, NEW Q, NEW R, NEW S, NEW L, NEW M,
           Granted(c, d, i, j, k, l, P, Q, R, S, L, M), Shows(q, a, y, P, R, L), Shows(r, b, x, Q, S, M),
           NEW n, \A m \in P : m = n, NEW o \in S, NEW S1, S1 \subseteq S
    PROVE  Granted("OPEN", d, n, o, k, l, P, Q, R, S1, L \cup {n}, M)
<1>1. c \in Absent /\ c \notin Session /\ L = {} /\ b # {} /\ Q # {}
  BY DEF Pair, Asks, Shows, HasAnswer, Absent, Session, Closing
<1>2. \A m \in Q : o = m
  BY DEF Granted, Grants
<1>3. d \in Session => o = k
  BY <1>1, <1>2 DEF Granted, Grants
<1>4. d \in Session => l = n
  <2> SUFFICES ASSUME d \in Session PROVE l = n
    OBVIOUS
  <2>1. Has(r, "chanAccepted")
    BY <1>1 DEF Pair, Delivers, Asks
  <2>2. M # {} /\ P # {}
    BY <2>1 DEF Shows, Pair, Asks, HasAnswer
  <2> QED
    BY <2>2 DEF Granted, Grants
<1>5. Grants("OPEN", d, n, o, k, P, Q, R, L \cup {n})
  BY <1>1, <1>2, <1>3 DEF Granted, Grants
<1>6. Grants(d, "OPEN", k, l, n, Q, P, S1, M)
  BY <1>4 DEF Granted, Grants
<1> QED
  BY <1>5, <1>6 DEF Granted

(* An acceptance opens the channel of who asked. *)
LEMMA AcceptanceGrants ==
    ASSUME NEW c \in Absent, NEW d \in Session, NEW q, NEW r, NEW a, NEW b, NEW x, NEW y, ~Has(q, "chanAccepted"),
           NEW i, NEW j, NEW k, NEW l, NEW P, NEW Q, NEW R, NEW S, NEW L, NEW M,
           Granted(c, d, i, j, k, l, P, Q, R, S, L, M), Shows(q, a, y, P, R, L), Shows(r, b, x, Q, S, M),
           NEW n \in P, NEW o \in M, NEW M1, M1 \subseteq M
    PROVE  Granted("OPEN", d, n, o, k, l, {}, Q, R, S, L, M1)
<1>1. L = {} /\ o = k /\ l = n
  BY DEF Granted, Grants, Shows
<1>2. Grants("OPEN", d, n, o, k, {}, Q, R, L)
  BY <1>1 DEF Granted, Grants
<1>3. Grants(d, "OPEN", k, l, n, Q, {}, S, M1)
  BY <1>1 DEF Granted, Grants
<1> QED
  BY <1>2, <1>3 DEF Granted


----------------------------------------------------------------------------
(* What the queues hold. *)

KindsOf(q) == [i \in DOMAIN q |-> Kind(q[i])]
Those(q, K) == {q[i] : i \in {j \in DOMAIN q : Kind(q[j]) \in K}}
AcceptedIds(q) == {m.id : m \in Those(q, {"chanAccepted"})}
ClosingIds(q) == {m.id : m \in Those(q, {"chanClose", "chanClosed"})}
AcceptedLimits(q) == {m.limit : m \in Those(q, {"chanAccepted"})}
AskedLimits(q) == {m.limit : m \in Those(q, {"chanRequest"})}

(* s is q with m as well. *)
WithMessage(q, m, s) ==
    /\ AcceptedIds(s) = AcceptedIds(q) \cup IF Kind(m) = "chanAccepted" THEN {m.id} ELSE {}
    /\ ClosingIds(s) = ClosingIds(q) \cup IF Kind(m) \in {"chanClose", "chanClosed"} THEN {m.id} ELSE {}
    /\ AcceptedLimits(s) = AcceptedLimits(q) \cup IF Kind(m) = "chanAccepted" THEN {m.limit} ELSE {}
    /\ AskedLimits(s) = AskedLimits(q) \cup IF Kind(m) = "chanRequest" THEN {m.limit} ELSE {}

LEMMA WithFacts ==
    ASSUME NEW q, NEW m, NEW s, \A K : Those(s, K) = Those(q, K) \cup IF Kind(m) \in K THEN {m} ELSE {}
    PROVE  WithMessage(q, m, s)
<1>1. AcceptedIds(s) = AcceptedIds(q) \cup IF Kind(m) = "chanAccepted" THEN {m.id} ELSE {}
  <2>1. Those(s, {"chanAccepted"}) = Those(q, {"chanAccepted"}) \cup IF Kind(m) = "chanAccepted" THEN {m} ELSE {}
    OBVIOUS
  <2> QED
    BY <2>1 DEF AcceptedIds
<1>2. ClosingIds(s) = ClosingIds(q) \cup IF Kind(m) \in {"chanClose", "chanClosed"} THEN {m.id} ELSE {}
  BY DEF ClosingIds
<1>3. AcceptedLimits(s) = AcceptedLimits(q) \cup IF Kind(m) = "chanAccepted" THEN {m.limit} ELSE {}
  <2>1. Those(s, {"chanAccepted"}) = Those(q, {"chanAccepted"}) \cup IF Kind(m) = "chanAccepted" THEN {m} ELSE {}
    OBVIOUS
  <2> QED
    BY <2>1 DEF AcceptedLimits
<1>4. AskedLimits(s) = AskedLimits(q) \cup IF Kind(m) = "chanRequest" THEN {m.limit} ELSE {}
  <2>1. Those(s, {"chanRequest"}) = Those(q, {"chanRequest"}) \cup IF Kind(m) = "chanRequest" THEN {m} ELSE {}
    OBVIOUS
  <2> QED
    BY <2>1 DEF AskedLimits
<1> QED
  BY <1>1, <1>2, <1>3, <1>4 DEF WithMessage

LEMMA WireAdds ==
    ASSUME NEW q \in Seq(Messages), NEW m \in Messages, NEW s \in Seq(Messages), s = Append(q, m)
    PROVE  Adds(KindsOf(q), Kind(m), KindsOf(s)) /\ WithMessage(q, m, s)
<1> DEFINE n == Len(q)
<1>1. n \in Nat /\ DOMAIN q = 1 .. n /\ DOMAIN s = 1 .. n + 1 /\ Len(s) = n + 1
  OBVIOUS
<1>2. s[n + 1] = m /\ \A i \in 1 .. n : s[i] = q[i]
  OBVIOUS
<1>3. KindsOf(q) \in Seq(Kinds) /\ Len(KindsOf(q)) = n
  BY <1>1, MessageFacts DEF KindsOf
<1>4. KindsOf(s) \in Seq(Kinds) /\ Len(KindsOf(s)) = n + 1
  BY <1>1, MessageFacts DEF KindsOf
<1>5. KindsOf(s)[n + 1] = Kind(m) /\ \A i \in 1 .. n : KindsOf(s)[i] = KindsOf(q)[i]
  BY <1>1, <1>2 DEF KindsOf
<1>6. ASSUME NEW K PROVE Those(s, K) = Those(q, K) \cup IF Kind(m) \in K THEN {m} ELSE {}
  <2>1. n + 1 \in DOMAIN s /\ (\A i \in DOMAIN q : i \in DOMAIN s) /\ \A i \in DOMAIN s : i \in DOMAIN q \/ i = n + 1
    BY <1>1
  <2>2. \A i \in DOMAIN q : s[i] = q[i]
    BY <1>1, <1>2
  <2> HIDE DEF n
  <2> QED
    BY <1>2, <2>1, <2>2 DEF Those
<1>7. WithMessage(q, m, s)
  BY <1>6, WithFacts
<1> DEFINE u == KindsOf(q)
           v == KindsOf(s)
           k == Kind(m)
<1>8. u \in Seq(Kinds) /\ v \in Seq(Kinds) /\ Len(v) = Len(u) + 1 /\ v[Len(u) + 1] = k /\ \A i \in 1 .. Len(u) : v[i] = u[i]
  BY <1>3, <1>4, <1>5
<1> HIDE DEF u, v, k
<1>9. Adds(u, k, v)
  BY <1>8, Added
<1> QED
  BY <1>7, <1>9 DEF u, v, k

LEMMA WireDrops ==
    ASSUME NEW q \in Seq(Messages), q # <<>>, NEW t \in Seq(Messages), t = Tail(q)
    PROVE  Drops(KindsOf(q), Kind(Head(q)), KindsOf(t)) /\ WithMessage(t, Head(q), q)
<1> DEFINE n == Len(t)
           m == Head(q)
<1>1. n \in Nat /\ DOMAIN t = 1 .. n /\ DOMAIN q = 1 .. n + 1 /\ Len(q) = n + 1
  OBVIOUS
<1>2. q[1] = m /\ \A i \in 1 .. n : t[i] = q[i + 1]
  OBVIOUS
<1>3. KindsOf(q) \in Seq(Kinds) /\ Len(KindsOf(q)) = n + 1
  BY <1>1, MessageFacts DEF KindsOf
<1>4. KindsOf(t) \in Seq(Kinds) /\ Len(KindsOf(t)) = n
  BY <1>1, MessageFacts DEF KindsOf
<1>5. KindsOf(q)[1] = Kind(m) /\ \A i \in 1 .. n : KindsOf(t)[i] = KindsOf(q)[i + 1]
  BY <1>1, <1>2 DEF KindsOf
<1>6. ASSUME NEW K PROVE Those(q, K) = Those(t, K) \cup IF Kind(m) \in K THEN {m} ELSE {}
  <2> DEFINE up(i) == i + 1
  <2>1. 1 \in DOMAIN q /\ (\A i \in DOMAIN t : up(i) \in DOMAIN q) /\ \A i \in DOMAIN q : i = 1 \/ \E j \in DOMAIN t : i = up(j)
    <3>1. \A i \in 1 .. n + 1 : i = 1 \/ (i - 1 \in 1 .. n /\ i = (i - 1) + 1)
      BY <1>1
    <3>2. \A i \in 1 .. n + 1 : i = 1 \/ \E j \in 1 .. n : i = j + 1
      BY <3>1
    <3>3. 1 \in 1 .. n + 1 /\ \A i \in 1 .. n : i + 1 \in 1 .. n + 1
      BY <1>1
    <3> HIDE DEF n
    <3> QED
      BY <1>1, <3>2, <3>3
  <2>2. \A i \in DOMAIN t : t[i] = q[up(i)]
    BY <1>1, <1>2
  <2> HIDE DEF n, up
  <2> QED
    BY <1>2, <2>1, <2>2 DEF Those
<1>7. WithMessage(t, m, q)
  BY <1>6, WithFacts
<1> DEFINE u == KindsOf(q)
           v == KindsOf(t)
           k == Kind(m)
<1>8. u \in Seq(Kinds) /\ v \in Seq(Kinds) /\ Len(u) = Len(v) + 1 /\ u[1] = k /\ \A i \in 1 .. Len(v) : v[i] = u[i + 1]
  BY <1>3, <1>4, <1>5
<1> HIDE DEF u, v, k
<1>9. Drops(u, k, v)
  BY <1>8, Dropped
<1> QED
  BY <1>7, <1>9 DEF u, v, k

LEMMA WireFacts ==
    ASSUME NEW q \in Seq(Messages)
    PROVE  /\ Fits(KindsOf(q), AcceptedIds(q), ClosingIds(q))
           /\ AcceptedLimits(q) = {} <=> ~Has(KindsOf(q), "chanAccepted")
           /\ AskedLimits(q) = {} <=> ~Has(KindsOf(q), "chanRequest")
           /\ AcceptedIds(q) \subseteq {2, 3}
<1>1. \A K : Those(q, K) = {} <=> \A k \in K : ~Has(KindsOf(q), k)
  BY DEF Those, Has, KindsOf
<1>2. Those(q, {"chanAccepted"}) = {} <=> ~Has(KindsOf(q), "chanAccepted")
  BY <1>1
<1>3. Those(q, {"chanRequest"}) = {} <=> ~Has(KindsOf(q), "chanRequest")
  BY <1>1
<1>4. Those(q, {"chanClose", "chanClosed"}) = {} <=> ~Has(KindsOf(q), "chanClose") /\ ~Has(KindsOf(q), "chanClosed")
  BY <1>1
<1>5. \A m \in Those(q, {"chanAccepted"}) : m \in Messages /\ Kind(m) = "chanAccepted"
  BY DEF Those
<1>6. \A m \in Those(q, {"chanAccepted"}) : m.id \in {2, 3}
  BY <1>5, MessageFacts
<1> QED
  BY <1>2, <1>3, <1>4, <1>6 DEF Fits, AcceptedIds, ClosingIds, AcceptedLimits, AskedLimits


----------------------------------------------------------------------------
(* Types are kept. *)

LEMMA Answered ==
    ASSUME NEW S, AtMostOne(S, Requests)
    PROVE  LET T == {[r EXCEPT !.settled = TRUE] : r \in S}
           IN  /\ AtMostOne(T, Requests) /\ (T = {} <=> S = {}) /\ (\A r \in T : r.settled)
               /\ {r.limit : r \in T} = {r.limit : r \in S}
<1> DEFINE T == {[r EXCEPT !.settled = TRUE] : r \in S}
<1>1. CASE S = {}
  BY <1>1 DEF AtMostOne
<1>2. ASSUME NEW t \in Requests, S = {t} PROVE AtMostOne(T, Requests) /\ T # {} /\ (\A r \in T : r.settled)
                                               /\ {r.limit : r \in T} = {r.limit : r \in S}
  <2> DEFINE u == [t EXCEPT !.settled = TRUE]
  <2>1. u \in Requests /\ u.settled /\ u.limit = t.limit
    BY DEF Requests
  <2>2. T = {u}
    BY <1>2
  <2> HIDE DEF T, u
  <2> QED
    BY <1>2, <2>1, <2>2 DEF AtMostOne
<1> QED
  BY <1>1, <1>2 DEF AtMostOne

LEMMA SettleFacts ==
    ASSUME TInv, NEW e \in Ends, Settle(e)
    PROVE  unsettled'[e] \in Nat
<1>1. unsettled[e] \in Nat /\ (Unsettled(e) => unsettled[e] > 0) /\ unsettled = [f \in Ends |-> unsettled[f]]
  BY DEF TInv, Typed, Shapes
<1>2. unsettled'[e] = IF Unsettled(e) THEN unsettled[e] - 1 ELSE unsettled[e]
  BY <1>1 DEF Settle
<1> QED
  BY <1>1, <1>2

LEMMA FinalizeFacts ==
    ASSUME TInv, NEW e \in Ends, FinalizeClosure(e), channel[e] # "none", careful' = careful
    PROVE  /\ channel'[e] \in States \ {"none"} /\ ids'[e] \in IdLists \ {<<>>}
           /\ finalizing'[e] \in Nat /\ (careful => finalizing'[e] = 0 /\ channel'[e] # "CLOSED")
           /\ careful => channel'[e] = "nulled" /\ ids'[e] = <<Head(ids[e])>>
<1>1. ids[e] \in IdLists \ {<<>>} /\ finalizing[e] \in Nat /\ (careful => finalizing[e] = 0)
  BY DEF TInv, Typed
<1>2. <<Head(ids[e])>> \in IdLists \ {<<>>}
  <2>1. Head(ids[e]) \in {2, 3}
    BY <1>1, IdFacts
  <2> QED
    BY <2>1 DEF IdLists
<1>3. CASE careful
  <2>1. channel'[e] = "nulled" /\ ids'[e] = <<Head(ids[e])>> /\ finalizing' = finalizing
    BY <1>3 DEF FinalizeClosure, Nulled, TInv, Shapes
  <2> QED
    BY <1>1, <1>2, <2>1 DEF States
<1>4. CASE ~careful
  <2>1. channel'[e] = "CLOSED" /\ ids' = ids /\ finalizing'[e] = finalizing[e] + 1
    BY <1>4 DEF FinalizeClosure, TInv, Shapes
  <2> QED
    BY <1>1, <1>4, <2>1 DEF States
<1> QED
  BY <1>3, <1>4

LEMMA TypeStep ==
    ASSUME TInv, NEW e \in Ends, Step(e)
    PROVE  TInv'
<1> DEFINE p == Peer(e)
           Mine == /\ channel'[e] \in States /\ ids'[e] \in IdLists /\ (channel'[e] = "none" <=> ids'[e] = <<>>)
                   /\ finalizing'[e] \in Nat /\ (finalizing'[e] > 0 => channel'[e] # "none")
                   /\ careful' => finalizing'[e] = 0 /\ channel'[e] # "CLOSED"
           Ours == /\ AtMostOne(pending'[e], Requests) /\ AtMostOne(handling'[e], Limits)
                   /\ unsettled'[e] \in Nat /\ ((\E r \in pending'[e] : ~r.settled) => unsettled'[e] > 0)
<1>a. p \in Ends /\ p # e /\ Typed(e) /\ Typed(p) /\ \A f \in Ends : f = e \/ f = p
  BY TwoEnds DEF TInv
<1>b. Same(p) /\ Shapes' /\ wire'[e] \in Seq(Messages) /\ wire'[p] \in Seq(Messages)
  BY OtherEnd
<1>c. careful' = careful
  BY <1>b DEF Same
<1>d. /\ channel[e] \in States /\ ids[e] \in IdLists /\ (channel[e] = "none" <=> ids[e] = <<>>)
      /\ finalizing[e] \in Nat /\ (finalizing[e] > 0 => channel[e] # "none")
      /\ careful => finalizing[e] = 0 /\ channel[e] # "CLOSED"
      /\ AtMostOne(pending[e], Requests) /\ AtMostOne(handling[e], Limits)
      /\ unsettled[e] \in Nat /\ ((\E r \in pending[e] : ~r.settled) => unsettled[e] > 0)
  BY <1>a DEF Typed, Unsettled
<1>s. "CLOSING" \in States /\ "OPEN" \in States /\ "LOCAL_CLOSING" \in States /\ "REMOTE_CLOSING" \in States /\ "nulled" \in States
  BY DEF States, Closing
<1>m. UNCHANGED <<channel, ids, finalizing>> => Mine
  BY <1>c, <1>d
<1>o. UNCHANGED <<pending, handling, unsettled>> => Ours
  BY <1>d
<1>z. AtMostOne({}, Requests) /\ AtMostOne({}, Limits)
  BY DEF AtMostOne
<1>1. ASSUME NEW limit \in Limits, RequestChannel(e, limit) PROVE Mine /\ Ours
  <2>1. UNCHANGED <<channel, ids, finalizing, handling>> /\ pending'[e] = {[limit |-> limit, settled |-> FALSE]}
        /\ unsettled'[e] = unsettled[e] + 1
    BY <1>1 DEF RequestChannel, channelVars, TInv, Shapes
  <2>2. [limit |-> limit, settled |-> FALSE] \in Requests
    BY DEF Requests
  <2>3. AtMostOne(pending'[e], Requests)
    BY <2>1, <2>2 DEF AtMostOne
  <2> QED
    BY <1>d, <1>m, <2>1, <2>3
<1>2. ASSUME Close(e) PROVE Mine /\ Ours
  <2>1. channel[e] = "OPEN" /\ channel'[e] = "CLOSING" /\ UNCHANGED <<ids, finalizing, pending, unsettled, handling>>
    BY <1>2 DEF Close, StartClosing, requestVars, TInv, Shapes
  <2> QED
    BY <1>c, <1>d, <1>o, <1>s, <2>1
<1>3. ASSUME NEW limit \in Limits, Accept(e, limit) PROVE Mine /\ Ours
  <2>1. Mine
    <3>1. CASE channel[e] \in {"none", "CLOSED", "nulled"}
      <4>1. CreateChannel(e, nextChannelId[e], limit, CHOOSE r \in handling[e] : TRUE)
        BY <1>3, <3>1 DEF Accept
      <4>2. (CHOOSE r \in handling[e] : TRUE) \in Limits /\ nextChannelId[e] \in {2, 3}
        BY <1>3, <1>d, OneFacts DEF Accept, nextChannelId, Ends
      <4>3. channel'[e] = "OPEN" /\ ids'[e] \in IdLists /\ ids'[e] # <<>> /\ finalizing' = finalizing
        BY <4>1, <4>2, Created
      <4> QED
        BY <1>c, <1>d, <1>s, <4>3
    <3>2. CASE channel[e] \notin {"none", "CLOSED", "nulled"}
      BY <1>3, <1>m, <3>2 DEF Accept, channelVars
    <3> QED
      BY <3>1, <3>2
  <2>2. unsettled'[e] \in Nat
    BY <1>3, SettleFacts DEF Accept
  <2>3. pending'[e] = {[r EXCEPT !.settled = TRUE] : r \in pending[e]} /\ handling'[e] = {}
    BY <1>3 DEF Accept, AfterAccept, TInv, Shapes
  <2>4. AtMostOne(pending'[e], Requests) /\ \A r \in pending'[e] : r.settled
    BY <1>d, <2>3, Answered
  <2> QED
    BY <1>z, <2>1, <2>2, <2>3, <2>4
<1>4. ASSUME Reject(e) PROVE Mine /\ Ours
  <2>1. UNCHANGED <<channel, ids, finalizing, pending, unsettled>> /\ handling'[e] = {}
    BY <1>4 DEF Reject, channelVars, requestVars, TInv, Shapes
  <2> QED
    BY <1>d, <1>m, <1>z, <2>1
<1>5. ASSUME OnChannelRequest(e) PROVE Mine /\ Ours
  <2>1. UNCHANGED <<channel, ids, finalizing, pending, unsettled>> /\ wire[e] # <<>> /\ Head(wire[e]).type = "chanRequest"
        /\ (handling' = handling \/ handling'[e] = {Head(wire[e]).limit})
    BY <1>5 DEF OnChannelRequest, TakesNext, channelVars, requestVars, TInv, Shapes
  <2>2. Head(wire[e]) \in Messages
    BY <1>a, <2>1 DEF Typed
  <2>3. Head(wire[e]).limit \in Limits
    BY <2>1, <2>2, MessageFacts
  <2>4. AtMostOne(handling'[e], Limits)
    BY <1>d, <2>1, <2>3 DEF AtMostOne
  <2> QED
    BY <1>d, <1>m, <2>1, <2>4
<1>6. ASSUME OnChannelResponse(e) PROVE Mine /\ Ours
  <2> DEFINE m == Head(wire[e])
  <2>1. pending'[e] = {} /\ handling' = handling /\ wire[e] # <<>> /\ m.type = "chanResponse"
    BY <1>6 DEF OnChannelResponse, TakesNext, TInv, Shapes
  <2>2. m \in Messages
    BY <1>a, <2>1 DEF Typed
  <2>3. m.accepted => m.id \in {2, 3} /\ m.limit \in Limits
    BY <2>1, <2>2, MessageFacts
  <2>4. \A r \in pending[e] : r.limit \in Limits
    <3>1. pending[e] \subseteq Requests
      BY <1>d, OneFacts
    <3> QED
      BY <3>1 DEF Requests
  <2>5. \/ UNCHANGED channelVars /\ (UNCHANGED unsettled \/ Settle(e))
        \/ m.accepted /\ channel[e] # "none" /\ UNCHANGED <<channel, limits, finalizing, unsettled>>
              /\ ids' = [ids EXCEPT ![e] = AddRoleId(@, m.id)]
        \/ m.accepted /\ Settle(e) /\ \E r \in pending[e] : CreateChannel(e, m.id, r.limit, m.limit)
    BY <1>6 DEF OnChannelResponse, OnAcceptance, OnRejection, RequesterLimits, channelVars, Closing
  <2>6. Ours
    <3>1. unsettled' = unsettled \/ Settle(e)
      BY <2>5
    <3>2. unsettled'[e] \in Nat
      BY <1>d, <3>1, SettleFacts
    <3> QED
      BY <1>d, <1>z, <2>1, <3>2
  <2>7. CASE UNCHANGED channelVars
    BY <1>m, <2>6, <2>7 DEF channelVars
  <2>8. ASSUME NEW id \in {2, 3}, channel[e] # "none", UNCHANGED <<channel, limits, finalizing>>, ids' = [ids EXCEPT ![e] = AddRoleId(@, id)]
        PROVE  Mine
    <3>1. ids'[e] = AddRoleId(ids[e], id)
      BY <2>8 DEF TInv, Shapes
    <3>2. ids'[e] \in IdLists \ {<<>>}
      <4> DEFINE i == ids[e]
      <4>1. i \in IdLists
        BY <1>d
      <4> HIDE DEF i, Mine, Ours, m
      <4>2. AddRoleId(i, id) \in IdLists \ {<<>>}
        BY <4>1, IdFacts
      <4> QED
        BY <3>1, <4>2 DEF i
    <3> QED
      BY <1>c, <1>d, <2>8, <3>2
  <2>9. ASSUME NEW id \in {2, 3}, NEW l \in Limits, NEW k \in Limits, CreateChannel(e, id, l, k)
        PROVE  Mine
    <3>1. channel'[e] = "OPEN" /\ ids'[e] \in IdLists /\ ids'[e] # <<>> /\ finalizing' = finalizing
      <4> HIDE DEF m, p, Mine, Ours
      <4>1. CreateChannel(e, id, l, k)
        BY <2>9
      <4> QED
        BY <4>1, Created
    <3> QED
      BY <1>c, <1>d, <1>s, <3>1
  <2> HIDE DEF m, Mine, Ours
  <2> QED
    BY <2>3, <2>4, <2>5, <2>6, <2>7, <2>8, <2>9
<1>7. ASSUME NullChannel(e) PROVE Mine /\ Ours
  <2>1. finalizing[e] > 0 /\ finalizing'[e] = finalizing[e] - 1 /\ channel'[e] = "nulled" /\ ids'[e] = <<Head(ids[e])>>
        /\ UNCHANGED <<pending, unsettled, handling>>
    BY <1>7 DEF NullChannel, Nulled, requestVars, TInv, Shapes
  <2>2. Head(ids[e]) \in {2, 3}
    BY <1>d, <2>1, IdFacts
  <2>3. <<Head(ids[e])>> \in IdLists \ {<<>>}
    BY <2>2 DEF IdLists
  <2> QED
    BY <1>c, <1>d, <1>o, <1>s, <2>1, <2>3
<1>8. ASSUME SendChanClosed(e) PROVE Mine /\ Ours
  <2>1. UNCHANGED <<pending, unsettled, handling>> /\ channel[e] # "none"
    BY <1>8 DEF SendChanClosed, requestVars
  <2>2. CASE channel[e] = "LOCAL_CLOSING"
    <3>1. FinalizeClosure(e)
      BY <1>8, <2>2 DEF SendChanClosed
    <3> QED
      BY <1>c, <1>o, <2>1, <3>1, FinalizeFacts
  <2>3. CASE channel[e] # "LOCAL_CLOSING"
    <3>1. channel'[e] = "REMOTE_CLOSING" /\ UNCHANGED <<ids, finalizing>>
      BY <1>8, <2>3 DEF SendChanClosed, TInv, Shapes
    <3> QED
      BY <1>c, <1>d, <1>o, <1>s, <2>1, <3>1
  <2> QED
    BY <2>2, <2>3
<1>9. ASSUME OnChannelClose(e) PROVE Mine /\ Ours
  <2>1. UNCHANGED <<ids, finalizing, pending, unsettled, handling>>
        /\ (channel' = channel \/ (channel[e] # "none" /\ channel'[e] = "CLOSING"))
    BY <1>9 DEF OnChannelClose, StartClosing, requestVars, TInv, Shapes
  <2> QED
    BY <1>c, <1>d, <1>o, <1>s, <2>1
<1>10. ASSUME OnChannelClosed(e) PROVE Mine /\ Ours
  <2>1. UNCHANGED <<pending, unsettled, handling>>
    BY <1>10 DEF OnChannelClosed, requestVars
  <2>2. \/ UNCHANGED <<channel, ids, finalizing>>
        \/ channel[e] # "none" /\ channel'[e] = "LOCAL_CLOSING" /\ UNCHANGED <<ids, finalizing>>
        \/ channel[e] # "none" /\ FinalizeClosure(e)
    BY <1>10 DEF OnChannelClosed, TInv, Shapes
  <2> QED
    BY <1>c, <1>d, <1>m, <1>o, <1>s, <2>1, <2>2, FinalizeFacts
<1>11. Mine /\ Ours
  BY <1>1, <1>2, <1>3, <1>4, <1>5, <1>6, <1>7, <1>8, <1>9, <1>10
  DEF Step, Use, Progress, Handlers, TccReader
<1>12. Typed(e)' /\ Typed(p)'
  BY <1>a, <1>b, <1>11 DEF Typed, Unsettled, Same
<1> QED
  BY <1>a, <1>b, <1>12 DEF TInv


----------------------------------------------------------------------------
(* All three, of two ends: their channels (c, d), the messages from the    *)
(* one (w) and the other (v), their entries (a, b), the requests they      *)
(* handle (x, y), their ids (g, h) and limits (m, n).                      *)

LimitsOf(S) == {r.limit : r \in S}
Both(c, d, w, v, a, b, x, y, g, h, m, n) ==
    /\ Pair(c, d, KindsOf(w), KindsOf(v), a, b, x, y)
    /\ Named(c, d, KindsOf(w), KindsOf(v), Range(g), Range(h), AcceptedIds(w), AcceptedIds(v), ClosingIds(w), ClosingIds(v))
    /\ Granted(c, d, m.local, m.remote, n.local, n.remote, LimitsOf(a), LimitsOf(b),
               AskedLimits(w) \cup y, AskedLimits(v) \cup x, AcceptedLimits(w), AcceptedLimits(v))
Sound(c, d, w, v) ==
    c \in States /\ d \in States /\ c # "CLOSED" /\ d # "CLOSED" /\ w \in Seq(Messages) /\ v \in Seq(Messages)

LEMMA BothTurns ==
    ASSUME NEW c, NEW d, NEW w, NEW v, NEW a, NEW b, NEW x, NEW y, NEW g, NEW h, NEW m, NEW n,
           Both(c, d, w, v, a, b, x, y, g, h, m, n)
    PROVE  Both(d, c, v, w, b, a, y, x, h, g, n, m)
BY PairTurns, NamedTurns, GrantedTurns DEF Both

LEMMA BothFacts ==
    ASSUME NEW c, NEW d, NEW w, NEW v, NEW a, NEW b, NEW x, NEW y, NEW g, NEW h, NEW m, NEW n,
           Both(c, d, w, v, a, b, x, y, g, h, m, n), Sound(c, d, w, v)
    PROVE  /\ Fits(KindsOf(w), AcceptedIds(w), ClosingIds(w)) /\ Fits(KindsOf(v), AcceptedIds(v), ClosingIds(v))
           /\ Shows(KindsOf(w), a, y, LimitsOf(a), AskedLimits(w) \cup y, AcceptedLimits(w))
           /\ Shows(KindsOf(v), b, x, LimitsOf(b), AskedLimits(v) \cup x, AcceptedLimits(v))
<1>1. /\ LimitsOf(a) = {} <=> a = {}
      /\ LimitsOf(b) = {} <=> b = {}
  BY DEF LimitsOf
<1>2. w \in Seq(Messages) /\ v \in Seq(Messages)
  BY DEF Sound
<1>3. /\ AcceptedLimits(w) = {} <=> ~Has(KindsOf(w), "chanAccepted")
      /\ AskedLimits(w) = {} <=> ~Has(KindsOf(w), "chanRequest")
      /\ Fits(KindsOf(w), AcceptedIds(w), ClosingIds(w))
  BY <1>2, WireFacts
<1>4. /\ AcceptedLimits(v) = {} <=> ~Has(KindsOf(v), "chanAccepted")
      /\ AskedLimits(v) = {} <=> ~Has(KindsOf(v), "chanRequest")
      /\ Fits(KindsOf(v), AcceptedIds(v), ClosingIds(v))
  BY <1>2, WireFacts
<1> QED
  BY <1>1, <1>3, <1>4 DEF Shows

LEMMA RequestStep ==
    ASSUME NEW c, NEW d, NEW w, NEW v, NEW a, NEW b, NEW x, NEW y, NEW g, NEW h, NEW m, NEW n,
           Both(c, d, w, v, a, b, x, y, g, h, m, n), Sound(c, d, w, v),
           c \in Absent, a = {}, NEW limit \in Limits, NEW w1 \in Seq(Messages), w1 = Append(w, Request(limit)),
           NEW a1, LimitsOf(a1) = {limit}
    PROVE  Both(c, d, w1, v, a1, b, x, y, g, h, m, n)
<1> DEFINE q == KindsOf(w)
           r == KindsOf(v)
           s == KindsOf(w1)
<1>1. Sound(c, d, w, v) /\ Both(c, d, w, v, a, b, x, y, g, h, m, n)
  OBVIOUS
<1>2. d \in States /\ d # "CLOSED" /\ w \in Seq(Messages) /\ Request(limit) \in Messages /\ Kind(Request(limit)) = "chanRequest"
      /\ Request(limit).limit = limit
  BY SendFacts DEF Sound
<1>3. Adds(q, "chanRequest", s) /\ WithMessage(w, Request(limit), w1)
  BY <1>2, WireAdds
<1>4. /\ AcceptedIds(w1) = AcceptedIds(w) /\ ClosingIds(w1) = ClosingIds(w) /\ AcceptedLimits(w1) = AcceptedLimits(w)
      /\ AskedLimits(w1) = AskedLimits(w) \cup {limit}
  BY <1>2, <1>3 DEF WithMessage
<1>5. Shows(q, a, y, LimitsOf(a), AskedLimits(w) \cup y, AcceptedLimits(w)) /\ Shows(r, b, x, LimitsOf(b), AskedLimits(v) \cup x, AcceptedLimits(v))
  BY <1>1, BothFacts
<1>6. /\ Pair(c, d, q, r, a, b, x, y)
      /\ Named(c, d, q, r, Range(g), Range(h), AcceptedIds(w), AcceptedIds(v), ClosingIds(w), ClosingIds(v))
      /\ Granted(c, d, m.local, m.remote, n.local, n.remote, LimitsOf(a), LimitsOf(b),
               AskedLimits(w) \cup y, AskedLimits(v) \cup x, AcceptedLimits(w), AcceptedLimits(v))
  BY DEF Both
<1>7. a1 # {} /\ AskedLimits(w1) \cup y = (AskedLimits(w) \cup y) \cup {limit}
  BY <1>4 DEF LimitsOf
<1> HIDE DEF q, r, s
<1>8. Pair(c, d, s, r, a1, b, x, y)
  BY <1>2, <1>3, <1>6, <1>7, RequestKeeps
<1>9. Has(q, "chanClosed") <=> Has(s, "chanClosed")
  BY <1>3 DEF Adds
<1>10. Named(c, d, s, r, Range(g), Range(h), AcceptedIds(w1), AcceptedIds(v), ClosingIds(w1), ClosingIds(v))
  BY <1>4, <1>6, <1>9, NamedAlike
<1>11. Granted(c, d, m.local, m.remote, n.local, n.remote, {limit}, LimitsOf(b),
               (AskedLimits(w) \cup y) \cup {limit}, AskedLimits(v) \cup x, AcceptedLimits(w), AcceptedLimits(v))
  BY <1>2, <1>5, <1>6, RequestGrants
<1> QED
  BY <1>4, <1>7, <1>8, <1>10, <1>11 DEF Both, q, r, s

(* The request's handlers are asked (it has come: v1 is what is left). *)
LEMMA AskedStep ==
    ASSUME NEW c, NEW d, NEW w, NEW v, NEW a, NEW b, NEW x, NEW y, NEW g, NEW h, NEW m, NEW n,
           Both(c, d, w, v, a, b, x, y, g, h, m, n), Sound(c, d, w, v),
           x = {}, v # <<>>, Kind(Head(v)) = "chanRequest", NEW v1 \in Seq(Messages), v1 = Tail(v), NEW x1, x1 = {Head(v).limit}
    PROVE  Both(c, d, w, v1, a, b, x1, y, g, h, m, n) /\ c \in Absent
<1> DEFINE q == KindsOf(w)
           r == KindsOf(v)
           t == KindsOf(v1)
<1>1. c \in States /\ v \in Seq(Messages)
  BY DEF Sound
<1>2. Drops(r, "chanRequest", t) /\ WithMessage(v1, Head(v), v)
  BY <1>1, WireDrops
<1>3. /\ AcceptedIds(v1) = AcceptedIds(v) /\ ClosingIds(v1) = ClosingIds(v) /\ AcceptedLimits(v1) = AcceptedLimits(v)
      /\ AskedLimits(v) = AskedLimits(v1) \cup x1
  BY <1>2 DEF WithMessage
<1>4. /\ Pair(c, d, q, r, a, b, x, y)
      /\ Named(c, d, q, r, Range(g), Range(h), AcceptedIds(w), AcceptedIds(v), ClosingIds(w), ClosingIds(v))
      /\ Granted(c, d, m.local, m.remote, n.local, n.remote, LimitsOf(a), LimitsOf(b),
               AskedLimits(w) \cup y, AskedLimits(v) \cup x, AcceptedLimits(w), AcceptedLimits(v))
  BY DEF Both
<1>5. x1 # {} /\ AskedLimits(v) \cup x = AskedLimits(v1) \cup x1
  BY <1>3
<1> HIDE DEF q, r, t
<1>6. Pair(c, d, q, t, a, b, x1, y) /\ c \in Absent
  BY <1>1, <1>2, <1>4, <1>5, AskedKeeps
<1>7. Has(r, "chanClosed") <=> Has(t, "chanClosed")
  BY <1>2 DEF Drops
<1>8. Named(c, d, q, t, Range(g), Range(h), AcceptedIds(w), AcceptedIds(v1), ClosingIds(w), ClosingIds(v1))
  BY <1>3, <1>4, <1>7, NamedAlike
<1> QED
  BY <1>3, <1>4, <1>5, <1>6, <1>8 DEF Both, q, r, t


LEMMA RejectStep ==
    ASSUME NEW c, NEW d, NEW w, NEW v, NEW a, NEW b, NEW x, NEW y, NEW g, NEW h, NEW m, NEW n,
           Both(c, d, w, v, a, b, x, y, g, h, m, n), Sound(c, d, w, v),
           x # {}, NEW w1 \in Seq(Messages), w1 = Append(w, Rejection), NEW x1, x1 = {}
    PROVE  Both(c, d, w1, v, a, b, x1, y, g, h, m, n)
<1> DEFINE q == KindsOf(w)
           r == KindsOf(v)
           s == KindsOf(w1)
<1>1. c \in States /\ d \in States /\ w \in Seq(Messages) /\ Rejection \in Messages /\ Kind(Rejection) = "chanRejected"
  BY RejectionFacts DEF Sound
<1>2. Adds(q, "chanRejected", s) /\ WithMessage(w, Rejection, w1)
  BY <1>1, WireAdds
<1>3. /\ AcceptedIds(w1) = AcceptedIds(w) /\ ClosingIds(w1) = ClosingIds(w) /\ AcceptedLimits(w1) = AcceptedLimits(w)
      /\ AskedLimits(w1) = AskedLimits(w)
  BY <1>1, <1>2 DEF WithMessage
<1>4. /\ Pair(c, d, q, r, a, b, x, y)
      /\ Named(c, d, q, r, Range(g), Range(h), AcceptedIds(w), AcceptedIds(v), ClosingIds(w), ClosingIds(v))
      /\ Granted(c, d, m.local, m.remote, n.local, n.remote, LimitsOf(a), LimitsOf(b),
               AskedLimits(w) \cup y, AskedLimits(v) \cup x, AcceptedLimits(w), AcceptedLimits(v))
  BY DEF Both
<1>5. AskedLimits(v) \cup x1 \subseteq AskedLimits(v) \cup x
  OBVIOUS
<1> HIDE DEF q, r, s
<1>6. Pair(c, d, s, r, a, b, x1, y)
  BY <1>1, <1>2, <1>4, RejectKeeps
<1>7. Has(q, "chanClosed") <=> Has(s, "chanClosed")
  BY <1>2 DEF Adds
<1>8. Named(c, d, s, r, Range(g), Range(h), AcceptedIds(w1), AcceptedIds(v), ClosingIds(w1), ClosingIds(v))
  BY <1>3, <1>4, <1>7, NamedAlike
<1>9. Granted(c, d, m.local, m.remote, n.local, n.remote, LimitsOf(a), LimitsOf(b),
              AskedLimits(w) \cup y, AskedLimits(v) \cup x1, AcceptedLimits(w), AcceptedLimits(v))
  BY <1>4, <1>5, GrantedLess
<1> QED
  BY <1>3, <1>6, <1>8, <1>9 DEF Both, q, r, s

(* accept(): with the limit it asked for itself, if it did, and the id it   *)
(* takes, i; what becomes of w, a, x, g and of the limits.                 *)
Accepts(c, w, a, x, g, limit, i, w1, a1, x1, g1, m1) ==
    /\ limit \in Limits /\ (\A l \in LimitsOf(a) : l = limit) /\ i \in {2, 3} /\ (c # "none" => i \in Range(g))
    /\ w1 \in Seq(Messages) /\ w1 = Append(w, Acceptance(i, limit)) /\ x1 = {}
    /\ a1 = {} <=> a = {}
    /\ LimitsOf(a1) = LimitsOf(a) /\ Range(g1) = {i} /\ m1.local = limit /\ m1.remote \in x

LEMMA AcceptStep ==
    ASSUME NEW c, NEW d, NEW w, NEW v, NEW a, NEW b, NEW x, NEW y, NEW g, NEW h, NEW m, NEW n,
           Both(c, d, w, v, a, b, x, y, g, h, m, n), Sound(c, d, w, v),
           NEW limit, NEW i, NEW w1, NEW a1, NEW x1, NEW g1, NEW m1, Accepts(c, w, a, x, g, limit, i, w1, a1, x1, g1, m1)
    PROVE  Both("OPEN", d, w1, v, a1, b, x1, y, g1, h, m1, n)
<1>0. /\ limit \in Limits /\ (\A l \in LimitsOf(a) : l = limit) /\ i \in {2, 3} /\ (c # "none" => i \in Range(g))
      /\ w1 \in Seq(Messages) /\ w1 = Append(w, Acceptance(i, limit)) /\ x1 = {}
      /\ a1 = {} <=> a = {}
      /\ LimitsOf(a1) = LimitsOf(a) /\ Range(g1) = {i} /\ m1.local = limit /\ m1.remote \in x
  BY DEF Accepts
<1> DEFINE q == KindsOf(w)
           r == KindsOf(v)
           s == KindsOf(w1)
           k == Acceptance(i, limit)
<1> DEFINE o == m1.remote
<1>1. c \in States /\ d \in States /\ w \in Seq(Messages) /\ k \in Messages /\ Kind(k) = "chanAccepted"
      /\ k.id = i /\ k.limit = limit
  BY <1>0, SendFacts DEF Sound
<1>2. Adds(q, "chanAccepted", s) /\ WithMessage(w, k, w1)
  BY <1>0, <1>1, WireAdds
<1>3. /\ AcceptedIds(w1) = AcceptedIds(w) \cup {i} /\ ClosingIds(w1) = ClosingIds(w)
      /\ AcceptedLimits(w1) = AcceptedLimits(w) \cup {limit} /\ AskedLimits(w1) = AskedLimits(w)
  BY <1>1, <1>2 DEF WithMessage
<1>4. /\ Pair(c, d, q, r, a, b, x, y)
      /\ Named(c, d, q, r, Range(g), Range(h), AcceptedIds(w), AcceptedIds(v), ClosingIds(w), ClosingIds(v))
      /\ Granted(c, d, m.local, m.remote, n.local, n.remote, LimitsOf(a), LimitsOf(b),
               AskedLimits(w) \cup y, AskedLimits(v) \cup x, AcceptedLimits(w), AcceptedLimits(v))
  BY DEF Both
<1>5. /\ Fits(q, AcceptedIds(w), ClosingIds(w)) /\ Fits(r, AcceptedIds(v), ClosingIds(v))
      /\ Shows(q, a, y, LimitsOf(a), AskedLimits(w) \cup y, AcceptedLimits(w))
      /\ Shows(r, b, x, LimitsOf(b), AskedLimits(v) \cup x, AcceptedLimits(v))
  BY BothFacts
<1>6. x # {} /\ o \in AskedLimits(v) \cup x /\ AskedLimits(v) \cup x1 \subseteq AskedLimits(v) \cup x
  BY <1>0
<1> HIDE DEF q, r, s, k, o
<1>7. Pair("OPEN", d, s, r, a1, b, x1, y) /\ c \in Absent
  BY <1>0, <1>1, <1>2, <1>4, <1>6, AcceptKeeps
<1>8. Named("OPEN", d, s, r, {i}, Range(h), AcceptedIds(w) \cup {i}, AcceptedIds(v), ClosingIds(w), ClosingIds(v))
  <2> DEFINE I == Range(g)
             J == Range(h)
             A == AcceptedIds(w)
             B == AcceptedIds(v)
             C == ClosingIds(w)
             D == ClosingIds(v)
  <2>1. Named(c, d, q, r, I, J, A, B, C, D) /\ Fits(q, A, C) /\ Fits(r, B, D) /\ (c # "none" => i \in I)
    BY <1>0, <1>4, <1>5
  <2> HIDE DEF I, J, A, B, C, D
  <2>2. Named("OPEN", d, s, r, {i}, J, A \cup {i}, B, C, D)
    BY <1>0, <1>1, <1>2, <1>4, <1>6, <2>1, AcceptNames
  <2> QED
    BY <2>2 DEF I, J, A, B, C, D
<1>9. Granted("OPEN", d, limit, o, n.local, n.remote, LimitsOf(a), LimitsOf(b),
              AskedLimits(w) \cup y, AskedLimits(v) \cup x1, AcceptedLimits(w) \cup {limit}, AcceptedLimits(v))
  BY <1>0, <1>1, <1>4, <1>5, <1>6, AcceptGrants
<1> QED
  BY <1>0, <1>3, <1>7, <1>8, <1>9 DEF Both, q, r, s, o

(* A response has come: a rejection, *)
LEMMA RejectionStep ==
    ASSUME NEW c, NEW d, NEW w, NEW v, NEW a, NEW b, NEW x, NEW y, NEW g, NEW h, NEW m, NEW n,
           Both(c, d, w, v, a, b, x, y, g, h, m, n), Sound(c, d, w, v),
           x = {}, v # <<>>, Kind(Head(v)) = "chanRejected", NEW v1 \in Seq(Messages), v1 = Tail(v), NEW a1, a1 = {}
    PROVE  Both(c, d, w, v1, a1, b, x, y, g, h, m, n) /\ a # {}
<1> DEFINE q == KindsOf(w)
           r == KindsOf(v)
           t == KindsOf(v1)
<1>1. c \in States /\ d \in States /\ d # "CLOSED" /\ v \in Seq(Messages) /\ "chanRejected" \in Answers
  BY DEF Sound, Answers
<1>2. Drops(r, "chanRejected", t) /\ WithMessage(v1, Head(v), v)
  BY <1>1, WireDrops
<1>3. /\ AcceptedIds(v1) = AcceptedIds(v) /\ ClosingIds(v1) = ClosingIds(v) /\ AcceptedLimits(v1) = AcceptedLimits(v)
      /\ AskedLimits(v1) = AskedLimits(v)
  BY <1>2 DEF WithMessage
<1>4. /\ Pair(c, d, q, r, a, b, x, y)
      /\ Named(c, d, q, r, Range(g), Range(h), AcceptedIds(w), AcceptedIds(v), ClosingIds(w), ClosingIds(v))
      /\ Granted(c, d, m.local, m.remote, n.local, n.remote, LimitsOf(a), LimitsOf(b),
               AskedLimits(w) \cup y, AskedLimits(v) \cup x, AcceptedLimits(w), AcceptedLimits(v))
  BY DEF Both
<1>5. LimitsOf(a1) \subseteq LimitsOf(a)
  BY DEF LimitsOf
<1> HIDE DEF q, r, t
<1>6. Pair(c, d, q, t, a1, b, x, y) /\ a # {}
  BY <1>1, <1>2, <1>4, AnswerKeeps
<1>7. Has(r, "chanClosed") <=> Has(t, "chanClosed")
  BY <1>2 DEF Drops
<1>8. Named(c, d, q, t, Range(g), Range(h), AcceptedIds(w), AcceptedIds(v1), ClosingIds(w), ClosingIds(v1))
  BY <1>3, <1>4, <1>7, NamedAlike
<1>9. Granted(c, d, m.local, m.remote, n.local, n.remote, LimitsOf(a1), LimitsOf(b),
              AskedLimits(w) \cup y, AskedLimits(v) \cup x, AcceptedLimits(w), AcceptedLimits(v))
  BY <1>4, <1>5, GrantedLess
<1> QED
  BY <1>3, <1>6, <1>8, <1>9 DEF Both, q, r, t

(* or an acceptance, which opens a channel or is for the one there is. *)
LEMMA AcceptanceStep ==
    ASSUME NEW c, NEW d, NEW w, NEW v, NEW a, NEW b, NEW x, NEW y, NEW g, NEW h, NEW m, NEW n,
           Both(c, d, w, v, a, b, x, y, g, h, m, n), Sound(c, d, w, v),
           x = {}, v # <<>>, Kind(Head(v)) = "chanAccepted", NEW v1 \in Seq(Messages), v1 = Tail(v), NEW a1, a1 = {},
           NEW c1, c1 = IF c \in Absent THEN "OPEN" ELSE c, NEW i, c # "none" => i \in Range(g),
           NEW g1, Range(g1) = IF c = "none" THEN {Head(v).id} ELSE IF c = "nulled" THEN {i} ELSE Range(g) \cup {Head(v).id},
           NEW m1, IF c \in Absent THEN m1.local \in LimitsOf(a) /\ m1.remote = Head(v).limit ELSE m1 = m
    PROVE  Both(c1, d, w, v1, a1, b, x, y, g1, h, m1, n) /\ a # {}
<1> DEFINE q == KindsOf(w)
           r == KindsOf(v)
           t == KindsOf(v1)
           k == Head(v)
<1>1. c \in States /\ d \in States /\ c # "CLOSED" /\ d # "CLOSED" /\ v \in Seq(Messages) /\ "chanAccepted" \in Answers
  BY DEF Sound, Answers
<1>2. Drops(r, "chanAccepted", t) /\ WithMessage(v1, k, v)
  BY <1>1, WireDrops
<1>3. /\ AcceptedIds(v) = AcceptedIds(v1) \cup {k.id} /\ ClosingIds(v1) = ClosingIds(v)
      /\ AcceptedLimits(v) = AcceptedLimits(v1) \cup {k.limit} /\ AskedLimits(v1) = AskedLimits(v)
  BY <1>2 DEF WithMessage
<1>4. /\ Pair(c, d, q, r, a, b, x, y)
      /\ Named(c, d, q, r, Range(g), Range(h), AcceptedIds(w), AcceptedIds(v), ClosingIds(w), ClosingIds(v))
      /\ Granted(c, d, m.local, m.remote, n.local, n.remote, LimitsOf(a), LimitsOf(b),
               AskedLimits(w) \cup y, AskedLimits(v) \cup x, AcceptedLimits(w), AcceptedLimits(v))
  BY DEF Both
<1>5. /\ Fits(q, AcceptedIds(w), ClosingIds(w)) /\ Fits(r, AcceptedIds(v), ClosingIds(v))
      /\ Shows(q, a, y, LimitsOf(a), AskedLimits(w) \cup y, AcceptedLimits(w))
      /\ Shows(r, b, x, LimitsOf(b), AskedLimits(v) \cup x, AcceptedLimits(v))
  BY BothFacts
<1>6. LimitsOf(a1) = {} /\ {} \subseteq LimitsOf(a) /\ AcceptedLimits(v1) \subseteq AcceptedLimits(v) /\ k.limit \in AcceptedLimits(v)
  BY <1>3 DEF LimitsOf
<1>k. Range(g1) = IF c = "none" THEN {k.id} ELSE IF c = "nulled" THEN {i} ELSE Range(g) \cup {k.id}
  OBVIOUS
<1>l. c \in Absent => m1.local \in LimitsOf(a) /\ m1.remote = k.limit
  OBVIOUS
<1> HIDE DEF q, r, t, k
<1>7. Pair(c1, d, q, t, a1, b, x, y)
  BY <1>1, <1>2, <1>4, AcceptanceKeeps
<1>p. a # {} /\ (c \in Absent => d \in Session /\ ~Has(q, "chanAccepted"))
  <2>1. Pair(c, d, q, r, a, b, x, y) /\ Drops(r, "chanAccepted", t) /\ Pair(c1, d, q, t, a1, b, x, y)
    BY <1>2, <1>4, <1>7
  <2>2. a # {}
    BY <2>1 DEF Pair, Asks, Drops, HasAnswer
  <2>3. c \in Absent => d \in Session /\ ~Has(q, "chanAccepted")
    <3> SUFFICES ASSUME c \in Absent PROVE d \in Session /\ ~Has(q, "chanAccepted")
      OBVIOUS
    <3>1. c1 = "OPEN"
      OBVIOUS
    <3> QED
      BY <1>1, <2>1, <3>1, AcceptanceKeeps
  <2> QED
    BY <2>2, <2>3
<1>8. Named(c1, d, q, t, Range(g1), Range(h), AcceptedIds(w), AcceptedIds(v1), ClosingIds(w), ClosingIds(v))
  <2> DEFINE I == Range(g)
             I1 == Range(g1)
             J == Range(h)
             A == AcceptedIds(w)
             B == AcceptedIds(v)
             B1 == AcceptedIds(v1)
             C == ClosingIds(w)
             D == ClosingIds(v)
             id == k.id
  <2>1. Named(c, d, q, r, I, J, A, B, C, D) /\ Fits(q, A, C) /\ Fits(r, B, D)
    BY <1>4, <1>5
  <2>2. B = B1 \cup {id} /\ (c = "none" => I1 = {id}) /\ (c = "nulled" => \E o \in I : I1 = {o})
        /\ (c \notin Absent => I1 = I \cup {id})
    BY <1>3, <1>k DEF Absent
  <2>3. Pair(c, d, q, r, a, b, x, y) /\ Drops(r, "chanAccepted", t) /\ c1 = IF c \in Absent THEN "OPEN" ELSE c
    BY <1>2, <1>4
  <2> HIDE DEF I, I1, J, A, B, B1, C, D, id
  <2>4. Named(c1, d, q, t, I1, J, A, B1, C, D)
    BY <1>1, <2>1, <2>2, <2>3, AcceptanceNames
  <2> QED
    BY <2>4 DEF I, I1, J, A, B, B1, C, D
<1>9. Granted(c1, d, m1.local, m1.remote, n.local, n.remote, {}, LimitsOf(b),
              AskedLimits(w) \cup y, AskedLimits(v) \cup x, AcceptedLimits(w), AcceptedLimits(v1))
  <2>1. CASE c \in Absent
    BY <1>4, <1>5, <1>6, <1>7, <1>p, <1>l, <2>1, AcceptanceGrants
  <2>2. CASE c \notin Absent
    BY <1>4, <1>6, <2>2, GrantedLess
  <2> QED
    BY <2>1, <2>2
<1> QED
  BY <1>3, <1>6, <1>7, <1>p, <1>8, <1>9 DEF Both, q, r, t


LEMMA CloseStep ==
    ASSUME NEW c, NEW d, NEW w, NEW v, NEW a, NEW b, NEW x, NEW y, NEW g, NEW h, NEW m, NEW n,
           Both(c, d, w, v, a, b, x, y, g, h, m, n), Sound(c, d, w, v),
           c = "OPEN", NEW i \in Range(g), i \in {2, 3},
           NEW w1 \in Seq(Messages), w1 = Append(w, ChanMessage("chanClose", i))
    PROVE  Both("CLOSING", d, w1, v, a, b, x, y, g, h, m, n)
<1> DEFINE q == KindsOf(w)
           r == KindsOf(v)
           s == KindsOf(w1)
           k == ChanMessage("chanClose", i)
<1>1. c = "OPEN" /\ d \in States /\ d # "CLOSED" /\ w \in Seq(Messages) /\ k \in Messages /\ Kind(k) = "chanClose" /\ k.id = i
  BY ChanMessageFacts DEF Sound
<1>2. Adds(q, "chanClose", s) /\ WithMessage(w, k, w1)
  BY <1>1, WireAdds
<1>3. /\ AcceptedIds(w1) = AcceptedIds(w) /\ ClosingIds(w1) = ClosingIds(w) \cup {i}
      /\ AcceptedLimits(w1) = AcceptedLimits(w) /\ AskedLimits(w1) = AskedLimits(w)
  BY <1>1, <1>2 DEF WithMessage
<1>4. /\ Pair(c, d, q, r, a, b, x, y)
      /\ Named(c, d, q, r, Range(g), Range(h), AcceptedIds(w), AcceptedIds(v), ClosingIds(w), ClosingIds(v))
      /\ Granted(c, d, m.local, m.remote, n.local, n.remote, LimitsOf(a), LimitsOf(b),
               AskedLimits(w) \cup y, AskedLimits(v) \cup x, AcceptedLimits(w), AcceptedLimits(v))
  BY DEF Both
<1> HIDE DEF q, r, s, k
<1>5. Pair("CLOSING", d, s, r, a, b, x, y)
  BY <1>1, <1>2, <1>4, CloseKeeps
<1>6. Named("CLOSING", d, s, r, Range(g), Range(h), AcceptedIds(w), AcceptedIds(v), ClosingIds(w) \cup {i}, ClosingIds(v))
  BY <1>1, <1>2, <1>4, CloseNames
<1>7. Granted("CLOSING", d, m.local, m.remote, n.local, n.remote, LimitsOf(a), LimitsOf(b),
              AskedLimits(w) \cup y, AskedLimits(v) \cup x, AcceptedLimits(w), AcceptedLimits(v))
  <2>1. c \in Session
    BY DEF Session
  <2> QED
    BY <1>4, <2>1, GrantedLess
<1> QED
  BY <1>3, <1>5, <1>6, <1>7 DEF Both, q, r, s

LEMMA ClosedStep ==
    ASSUME NEW c, NEW d, NEW w, NEW v, NEW a, NEW b, NEW x, NEW y, NEW g, NEW h, NEW m, NEW n,
           Both(c, d, w, v, a, b, x, y, g, h, m, n), Sound(c, d, w, v),
           c \in {"CLOSING", "LOCAL_CLOSING"}, NEW i \in Range(g), i \in {2, 3}, i = 2 <=> 2 \in Range(g),
           NEW w1 \in Seq(Messages), w1 = Append(w, ChanMessage("chanClosed", i)),
           NEW c1, c1 = IF c = "CLOSING" THEN "REMOTE_CLOSING" ELSE "nulled",
           NEW g1, Range(g1) = IF c = "CLOSING" THEN Range(g) ELSE {i}
    PROVE  Both(c1, d, w1, v, a, b, x, y, g1, h, m, n)
<1> DEFINE q == KindsOf(w)
           r == KindsOf(v)
           s == KindsOf(w1)
           k == ChanMessage("chanClosed", i)
<1>1. c \in {"CLOSING", "LOCAL_CLOSING"} /\ d \in States /\ d # "CLOSED" /\ w \in Seq(Messages)
      /\ k \in Messages /\ Kind(k) = "chanClosed" /\ k.id = i
  BY ChanMessageFacts DEF Sound
<1>2. Adds(q, "chanClosed", s) /\ WithMessage(w, k, w1)
  BY <1>1, WireAdds
<1>3. /\ AcceptedIds(w1) = AcceptedIds(w) /\ ClosingIds(w1) = ClosingIds(w) \cup {i}
      /\ AcceptedLimits(w1) = AcceptedLimits(w) /\ AskedLimits(w1) = AskedLimits(w)
  BY <1>1, <1>2 DEF WithMessage
<1>4. /\ Pair(c, d, q, r, a, b, x, y)
      /\ Named(c, d, q, r, Range(g), Range(h), AcceptedIds(w), AcceptedIds(v), ClosingIds(w), ClosingIds(v))
      /\ Granted(c, d, m.local, m.remote, n.local, n.remote, LimitsOf(a), LimitsOf(b),
               AskedLimits(w) \cup y, AskedLimits(v) \cup x, AcceptedLimits(w), AcceptedLimits(v))
  BY DEF Both
<1>5. Fits(q, AcceptedIds(w), ClosingIds(w)) /\ Fits(r, AcceptedIds(v), ClosingIds(v))
  BY BothFacts
<1> HIDE DEF q, r, s, k
<1>6. Pair(c1, d, s, r, a, b, x, y)
  BY <1>1, <1>2, <1>4, ClosedKeeps
<1>7. Named(c1, d, s, r, Range(g1), Range(h), AcceptedIds(w), AcceptedIds(v), ClosingIds(w) \cup {i}, ClosingIds(v))
  <2> DEFINE I == Range(g)
             I1 == Range(g1)
             J == Range(h)
             A == AcceptedIds(w)
             B == AcceptedIds(v)
             C == ClosingIds(w)
             D == ClosingIds(v)
  <2>1. Named(c, d, q, r, I, J, A, B, C, D) /\ Fits(q, A, C) /\ Fits(r, B, D) /\ i \in I /\ (i = 2 <=> 2 \in I)
        /\ I1 = IF c = "CLOSING" THEN I ELSE {i}
    BY <1>4, <1>5
  <2> HIDE DEF I, I1, J, A, B, C, D
  <2>2. Named(c1, d, s, r, I1, J, A, B, C \cup {i}, D)
    BY <1>1, <1>2, <1>4, <2>1, ClosedNames
  <2> QED
    BY <2>2 DEF I1, J, A, B, C, D
<1>8. Granted(c1, d, m.local, m.remote, n.local, n.remote, LimitsOf(a), LimitsOf(b),
              AskedLimits(w) \cup y, AskedLimits(v) \cup x, AcceptedLimits(w), AcceptedLimits(v))
  <2>1. c \in Session
    BY DEF Session, Closing
  <2> QED
    BY <1>4, <2>1, GrantedLess
<1> QED
  BY <1>3, <1>6, <1>7, <1>8 DEF Both, q, r, s

(* chanClose has come, and is echoed when it is the first that is heard of *)
(* closing.                                                                *)
LEMMA OnCloseStep ==
    ASSUME NEW c, NEW d, NEW w, NEW v, NEW a, NEW b, NEW x, NEW y, NEW g, NEW h, NEW m, NEW n,
           Both(c, d, w, v, a, b, x, y, g, h, m, n), Sound(c, d, w, v),
           x = {}, v # <<>>, Kind(Head(v)) = "chanClose", NEW v1 \in Seq(Messages), v1 = Tail(v),
           c # "none" => \E i \in Range(g) : i \in {2, 3}
    PROVE  /\ c \in {"OPEN", "CLOSING", "REMOTE_CLOSING"} /\ Head(v).id \in Range(g)
           /\ c # "OPEN" => Both(c, d, w, v1, a, b, x, y, g, h, m, n)
           /\ c = "OPEN" => \A i \in Range(g), w1 \in Seq(Messages) :
                 i \in {2, 3} /\ w1 = Append(w, ChanMessage("chanClose", i)) => Both("CLOSING", d, w1, v1, a, b, x, y, g, h, m, n)
<1> DEFINE q == KindsOf(w)
           r == KindsOf(v)
           t == KindsOf(v1)
           k == Head(v)
           c1 == IF c = "OPEN" THEN "CLOSING" ELSE c
           id == k.id
           I == Range(g)
           J == Range(h)
           A == AcceptedIds(w)
           B == AcceptedIds(v)
           C == ClosingIds(w)
           D == ClosingIds(v)
           D1 == ClosingIds(v1)
<1>1. c \in States /\ d \in States /\ d # "CLOSED" /\ v \in Seq(Messages) /\ w \in Seq(Messages) /\ x = {}
  BY DEF Sound
<1>2. Drops(r, "chanClose", t) /\ WithMessage(v1, k, v)
  BY <1>1, WireDrops
<1>3. AcceptedIds(v1) = B /\ D = D1 \cup {id} /\ AcceptedLimits(v1) = AcceptedLimits(v) /\ AskedLimits(v1) = AskedLimits(v)
  BY <1>2 DEF WithMessage
<1>4. /\ Pair(c, d, q, r, a, b, x, y) /\ Named(c, d, q, r, I, J, A, B, C, D)
      /\ Granted(c, d, m.local, m.remote, n.local, n.remote, LimitsOf(a), LimitsOf(b),
               AskedLimits(w) \cup y, AskedLimits(v) \cup x, AcceptedLimits(w), AcceptedLimits(v))
  BY DEF Both
<1>5. Fits(q, A, C) /\ Fits(r, B, D)
  BY BothFacts
<1>6. c \in {"OPEN", "CLOSING", "REMOTE_CLOSING"} /\ ~Has(r, "chanAccepted")
  BY <1>2, <1>4 DEF Pair, Tells, Drops, Absent
<1>7. id \in I
  BY <1>3, <1>4, <1>5, <1>6 DEF Named, Knows, Fits
<1> HIDE DEF q, r, t, k, c1, id, I, J, A, B, C, D, D1
<1>8. ASSUME NEW w1 \in Seq(Messages), NEW s, s = KindsOf(w1), IF c = "OPEN" THEN Adds(q, "chanClose", s) ELSE s = q,
             NEW i \in I, AcceptedIds(w1) = A, ClosingIds(w1) = IF c = "OPEN" THEN C \cup {i} ELSE C,
             AcceptedLimits(w1) = AcceptedLimits(w), AskedLimits(w1) = AskedLimits(w)
      PROVE  Both(c1, d, w1, v1, a, b, x, y, g, h, m, n)
  <2> DEFINE C1 == ClosingIds(w1)
  <2>1. c1 = (IF c = "OPEN" THEN "CLOSING" ELSE c) /\ C1 = IF c = "OPEN" THEN C \cup {i} ELSE C
    BY <1>8 DEF c1
  <2>2. IF c = "OPEN" THEN Adds(q, "chanClose", s) ELSE s = q
    BY <1>8
  <2> HIDE DEF C1
  <2>3. Pair(c1, d, s, t, a, b, x, y)
    BY <1>1, <1>2, <1>4, <2>1, <2>2, OnCloseKeeps
  <2>4. Named(c1, d, s, t, I, J, A, B, C1, D1)
    <3>1. c \in States /\ d \in States /\ i \in I /\ Pair(c, d, q, r, a, b, x, y) /\ Named(c, d, q, r, I, J, A, B, C, D)
          /\ Fits(q, A, C) /\ Fits(r, B, D) /\ Drops(r, "chanClose", t) /\ D1 \subseteq D
          /\ C1 \subseteq C \cup I /\ (c # "OPEN" => C1 = C)
      BY <1>1, <1>2, <1>3, <1>4, <1>5, <2>1
    <3> QED
      BY ONLY <2>1, <2>2, <3>1, OnCloseNames
  <2>5. Granted(c1, d, m.local, m.remote, n.local, n.remote, LimitsOf(a), LimitsOf(b),
                AskedLimits(w) \cup y, AskedLimits(v) \cup x, AcceptedLimits(w), AcceptedLimits(v))
    <3>1. c \in Session
      BY <1>6 DEF Session, Closing
    <3> QED
      BY <1>4, <3>1, GrantedLess
  <2> QED
    BY <1>3, <1>8, <2>3, <2>4, <2>5 DEF Both, q, t, I, J, A, B, C1, D1
<1>9. CASE c # "OPEN"
  <2>1. PICK i \in I : i \in {2, 3}
    BY <1>6 DEF I
  <2>2. Both(c1, d, w, v1, a, b, x, y, g, h, m, n)
    BY <1>1, <1>8, <1>9, <2>1 DEF q, A, C
  <2> QED
    BY <1>6, <1>7, <1>9, <2>2 DEF c1, id, I, k
<1>10. CASE c = "OPEN"
  <2>1. ASSUME NEW i \in I, NEW w1 \in Seq(Messages), i \in {2, 3}, w1 = Append(w, ChanMessage("chanClose", i))
        PROVE  Both("CLOSING", d, w1, v1, a, b, x, y, g, h, m, n)
    <3> DEFINE s == KindsOf(w1)
               u == ChanMessage("chanClose", i)
    <3>1. u \in Messages /\ Kind(u) = "chanClose" /\ u.id = i
      BY <2>1, ChanMessageFacts
    <3>2. Adds(q, "chanClose", s) /\ WithMessage(w, u, w1)
      BY <1>1, <2>1, <3>1, WireAdds DEF q
    <3>3. AcceptedIds(w1) = A /\ ClosingIds(w1) = C \cup {i} /\ AcceptedLimits(w1) = AcceptedLimits(w) /\ AskedLimits(w1) = AskedLimits(w)
      BY <3>1, <3>2 DEF WithMessage, A, C
    <3> QED
      BY <1>8, <1>10, <3>2, <3>3 DEF c1
  <2> QED
    BY <1>6, <1>7, <1>10, <2>1 DEF id, I, k
<1> QED
  BY <1>9, <1>10

LEMMA OnClosedStep ==
    ASSUME NEW c, NEW d, NEW w, NEW v, NEW a, NEW b, NEW x, NEW y, NEW g, NEW h, NEW m, NEW n,
           Both(c, d, w, v, a, b, x, y, g, h, m, n), Sound(c, d, w, v),
           x = {}, v # <<>>, Kind(Head(v)) = "chanClosed", NEW v1 \in Seq(Messages), v1 = Tail(v),
           NEW i, c # "none" => i \in Range(g) /\ (i = 2 <=> 2 \in Range(g)),
           NEW c1, c1 = IF c = "CLOSING" THEN "LOCAL_CLOSING" ELSE "nulled",
           NEW g1, Range(g1) = IF c = "CLOSING" THEN Range(g) ELSE {i}
    PROVE  /\ c \in {"CLOSING", "REMOTE_CLOSING"} /\ Head(v).id \in Range(g)
           /\ Both(c1, d, w, v1, a, b, x, y, g1, h, m, n)
<1> DEFINE q == KindsOf(w)
           r == KindsOf(v)
           t == KindsOf(v1)
           k == Head(v)
           id == k.id
           I == Range(g)
           I1 == Range(g1)
           J == Range(h)
           A == AcceptedIds(w)
           B == AcceptedIds(v)
           C == ClosingIds(w)
           D == ClosingIds(v)
           D1 == ClosingIds(v1)
<1>1. c \in States /\ d \in States /\ v \in Seq(Messages) /\ x = {}
  BY DEF Sound
<1>2. Drops(r, "chanClosed", t) /\ WithMessage(v1, k, v)
  BY <1>1, WireDrops
<1>3. AcceptedIds(v1) = B /\ D = D1 \cup {id} /\ AcceptedLimits(v1) = AcceptedLimits(v) /\ AskedLimits(v1) = AskedLimits(v)
  BY <1>2 DEF WithMessage
<1>4. /\ Pair(c, d, q, r, a, b, x, y) /\ Named(c, d, q, r, I, J, A, B, C, D)
      /\ Granted(c, d, m.local, m.remote, n.local, n.remote, LimitsOf(a), LimitsOf(b),
               AskedLimits(w) \cup y, AskedLimits(v) \cup x, AcceptedLimits(w), AcceptedLimits(v))
  BY DEF Both
<1>5. Fits(q, A, C) /\ Fits(r, B, D)
  BY BothFacts
<1>t. Fits(t, AcceptedIds(v1), D1)
  BY WireFacts
<1>i. I1 = IF c = "CLOSING" THEN I ELSE {i}
  OBVIOUS
<1> HIDE DEF q, r, t, k, id, I, I1, J, A, B, C, D, D1
<1>6. Pair(c1, d, q, t, a, b, x, y)
  BY <1>1, <1>2, <1>4, OnClosedKeeps
<1>7. c \in {"CLOSING", "REMOTE_CLOSING"} /\ Nothing(t) /\ ~Has(r, "chanAccepted")
  <2>1. Nothing(t) /\ ~Has(r, "chanAccepted")
    BY <1>2, <1>4 DEF Pair, Tells, Drops, Nothing
  <2>2. Has(r, "chanClosed")
    BY <1>2 DEF Drops
  <2>3. ~Has(r, "chanClose")
    BY <1>2, <2>1 DEF Drops, Nothing
  <2> QED
    BY <1>4, <2>1, <2>2, <2>3 DEF Pair, Tells, Delivers, Absent, Closing
<1>8. c = "REMOTE_CLOSING" => Has(q, "chanClosed") \/ d = "nulled"
  <2>1. Has(r, "chanClosed")
    BY <1>2 DEF Drops
  <2> QED
    BY <1>4, <2>1 DEF Pair, Tells, Delivers
<1>9. D1 = {} /\ i \in I /\ (i = 2 <=> 2 \in I)
  BY <1>7, <1>t DEF Fits, Nothing, I
<1>10. Named(c1, d, q, t, I1, J, A, B, C, D1) /\ id \in I
  <2>1. id \in I
    BY <1>3, <1>4, <1>5, <1>7 DEF Named, Knows, Fits
  <2>2. Named(c1, d, q, t, I1, J, A, B, C, {})
    <3>1. c \in States /\ d \in States /\ Pair(c, d, q, r, a, b, x, y) /\ Named(c, d, q, r, I, J, A, B, C, D)
          /\ Fits(q, A, C) /\ Fits(r, B, D)
      BY <1>1, <1>4, <1>5
    <3>2. c1 = (IF c = "CLOSING" THEN "LOCAL_CLOSING" ELSE "nulled") /\ (c = "CLOSING" => I1 = I)
          /\ (c # "CLOSING" => \E o \in I : (o = 2 <=> 2 \in I) /\ I1 = {o})
      BY <1>9, <1>i
    <3> QED
      BY ONLY <1>7, <1>8, <3>1, <3>2, OnClosedNames
  <2> QED
    BY <1>9, <2>1, <2>2
<1>11. Granted(c1, d, m.local, m.remote, n.local, n.remote, LimitsOf(a), LimitsOf(b),
               AskedLimits(w) \cup y, AskedLimits(v) \cup x, AcceptedLimits(w), AcceptedLimits(v))
  <2>1. c \in Session
    BY <1>7 DEF Session, Closing
  <2> QED
    BY <1>4, <2>1, GrantedLess
<1> QED
  BY <1>3, <1>6, <1>7, <1>10, <1>11 DEF Both, q, t, k, id, I, I1, J, A, B, C, D1


----------------------------------------------------------------------------
(* The invariant. *)

View(e) ==
    Both(channel[e], channel[Peer(e)], wire[Peer(e)], wire[e], pending[e], pending[Peer(e)], handling[e], handling[Peer(e)],
         ids[e], ids[Peer(e)], limits[e], limits[Peer(e)])
IInv == TInv /\ (careful => faults = {} /\ \A e \in Ends : View(e))

LEMMA ViewStep ==
    ASSUME TInv, NEW e \in Ends, Step(e), careful, faults = {}, View(e)
    PROVE  View(e)' /\ faults' = {}
<1> DEFINE p == Peer(e)
           c == channel[e]
           d == channel[p]
           w == wire[p]
           v == wire[e]
           a == pending[e]
           b == pending[p]
           x == handling[e]
           y == handling[p]
           g == ids[e]
           h == ids[p]
           m == limits[e]
           n == limits[p]
           Goal == /\ Both(channel'[e], d, wire'[p], wire'[e], pending'[e], b, handling'[e], y, ids'[e], h, limits'[e], n)
                   /\ faults' = {}
<1>a. p \in Ends /\ p # e /\ Typed(e) /\ Typed(p)
  BY TwoEnds DEF TInv
<1>b. Same(p) /\ wire'[e] \in Seq(Messages) /\ wire'[p] \in Seq(Messages)
  BY OtherEnd
<1>c. Sound(c, d, w, v) /\ Both(c, d, w, v, a, b, x, y, g, h, m, n)
  BY <1>a DEF Typed, Sound, View
<1>d. g \in IdLists /\ (c = "none" <=> g = <<>>) /\ c \in States /\ c # "CLOSED" /\ AtMostOne(a, Requests) /\ AtMostOne(x, Limits)
  BY <1>a DEF Typed
<1>i. c # "none" => Head(g) \in Range(g) /\ Head(g) \in {2, 3} /\ (Head(g) = 2 <=> 2 \in Range(g)) /\ Range(<<Head(g)>>) = {Head(g)}
  BY <1>d, IdFacts
<1>w. /\ channel = [f \in Ends |-> channel[f]] /\ ids = [f \in Ends |-> ids[f]] /\ pending = [f \in Ends |-> pending[f]]
      /\ handling = [f \in Ends |-> handling[f]] /\ wire = [f \in Ends |-> wire[f]] /\ limits = [f \in Ends |-> limits[f]]
  BY DEF TInv, Shapes
<1>x. v # <<>> => Head(v) \in Messages /\ (\A k \in {"chanRequest", "chanClose", "chanClosed"} : Head(v).type = k => Kind(Head(v)) = k)
  <2> SUFFICES ASSUME v # <<>> PROVE Head(v) \in Messages /\ (\A k \in {"chanRequest", "chanClose", "chanClosed"} : Head(v).type = k => Kind(Head(v)) = k)
    OBVIOUS
  <2>1. Head(v) \in Messages
    BY <1>c DEF Sound
  <2> QED
    BY <2>1 DEF Kind
<1>1. ASSUME NEW limit \in Limits, RequestChannel(e, limit) PROVE Goal
  <2>1. c \in Absent /\ a = {} /\ pending'[e] = {[limit |-> limit, settled |-> FALSE]} /\ Send(e, Request(limit))
        /\ UNCHANGED <<channel, ids, limits, handling, faults>>
    BY <1>1, <1>w DEF RequestChannel, channelVars, Absent
  <2>2. wire'[e] = v /\ wire'[p] = Append(w, Request(limit))
    BY <2>1, Sent, SendFacts
  <2>3. LimitsOf(pending'[e]) = {limit}
    BY <2>1 DEF LimitsOf
  <2> HIDE DEF p, c, d, w, v, a, b, x, y, g, h, m, n
  <2>4. Both(c, d, wire'[p], v, pending'[e], b, x, y, g, h, m, n)
    BY <1>b, <1>c, <2>1, <2>2, <2>3, RequestStep
  <2> QED
    BY <2>1, <2>2, <2>4 DEF c, x, g, m
<1>2. ASSUME Close(e) PROVE Goal
  <2>1. c = "OPEN" /\ channel'[e] = "CLOSING" /\ Send(e, ChanMessage("chanClose", Head(g)))
        /\ UNCHANGED <<ids, limits, pending, handling, faults>>
    BY <1>2, <1>w DEF Close, StartClosing, requestVars
  <2>2. wire'[e] = v /\ wire'[p] = Append(w, ChanMessage("chanClose", Head(g)))
    <3>1. ChanMessage("chanClose", Head(g)) \in Messages
      BY <1>i, <2>1, ChanMessageFacts
    <3> QED
      BY <2>1, <3>1, Sent
  <2> DEFINE i == Head(g)
  <2>3. i \in Range(g) /\ i \in {2, 3} /\ wire'[p] = Append(w, ChanMessage("chanClose", i))
    BY <1>i, <2>1, <2>2
  <2> HIDE DEF p, c, d, w, v, a, b, x, y, g, h, m, n, i
  <2>4. Both("CLOSING", d, wire'[p], v, a, b, x, y, g, h, m, n)
    BY <1>b, <1>c, <2>1, <2>3, CloseStep
  <2> QED
    BY <2>1, <2>2, <2>4 DEF a, x, g, m
<1>3. ASSUME NEW limit \in Limits, Accept(e, limit) PROVE Goal
  <2> DEFINE o == CHOOSE r \in x : TRUE
  <2>1. /\ x # {} /\ (\A r \in a : r.limit = limit) /\ handling'[e] = {} /\ UNCHANGED faults
        /\ pending'[e] = {[r EXCEPT !.settled = TRUE] : r \in a} /\ Send(e, Acceptance(Head(ids'[e]), limit))
    BY <1>3, <1>w DEF Accept, AfterAccept
  <2>2. o \in x /\ o \in Limits
    BY <1>d, <2>1, OneFacts
  <2>3. (pending'[e] = {} <=> a = {}) /\ LimitsOf(pending'[e]) = LimitsOf(a)
    BY <1>d, <2>1, Answered DEF LimitsOf
  <2>4. \A l \in LimitsOf(a) : l = limit
    BY <2>1 DEF LimitsOf
  <2>5. c \in Absent
    <3>1. Pair(c, d, KindsOf(w), KindsOf(v), a, b, x, y)
      BY <1>c DEF Both
    <3> QED
      BY <2>1, <3>1 DEF Pair, Asks
  <2>6. CreateChannel(e, nextChannelId[e], limit, o)
    BY <1>3, <2>5 DEF Accept, Absent
  <2>7. nextChannelId[e] \in {2, 3}
    BY DEF nextChannelId, Ends
  <2> DEFINE i == Head(ids'[e])
  <2>8. /\ channel'[e] = "OPEN" /\ limits'[e].local = limit /\ limits'[e].remote = o /\ i \in {2, 3}
        /\ ids'[e] = IF c = "none" THEN <<nextChannelId[e]>> ELSE <<Head(g)>>
    <3> DEFINE s == nextChannelId[e]
    <3>1. s \in {2, 3} /\ limit \in Limits /\ o \in Limits /\ CreateChannel(e, s, limit, o)
      BY <2>2, <2>6, <2>7
    <3> HIDE DEF s, o
    <3>2. channel'[e] = "OPEN" /\ limits'[e].local = limit /\ limits'[e].remote = o
      BY <1>w, <3>1 DEF CreateChannel
    <3>4. i \in {2, 3}
      BY <3>1, Created
    <3>5. ids'[e] = IF c = "none" THEN <<s>> ELSE <<Head(g)>>
      BY <1>w, <3>1 DEF CreateChannel
    <3> QED
      BY <3>2, <3>4, <3>5 DEF s
  <2>9. ids'[e] = <<i>> /\ (c # "none" => i = Head(g))
    BY <2>8
  <2>10. Range(ids'[e]) = {i} /\ (c # "none" => i \in Range(g))
    BY <1>i, <2>8, <2>9, IdFacts, <1>d
  <2>11. wire'[e] = v /\ wire'[p] = Append(w, Acceptance(i, limit))
    BY <2>1, <2>8, Sent, SendFacts
  <2> HIDE DEF p, c, d, w, v, a, b, x, y, g, h, m, n, i, o
  <2>12. Both("OPEN", d, wire'[p], v, pending'[e], b, handling'[e], y, ids'[e], h, limits'[e], n)
    <3> DEFINE w1 == wire'[p]
               a1 == pending'[e]
               x1 == handling'[e]
               g1 == ids'[e]
               m1 == limits'[e]
    <3>1. Accepts(c, w, a, x, g, limit, i, w1, a1, x1, g1, m1)
      BY <1>b, <2>1, <2>2, <2>3, <2>4, <2>8, <2>10, <2>11 DEF Accepts
    <3> HIDE DEF w1, a1, x1, g1, m1
    <3>2. Both("OPEN", d, w1, v, a1, b, x1, y, g1, h, m1, n)
      BY <1>c, <3>1, AcceptStep
    <3> QED
      BY <3>2 DEF w1, a1, x1, g1, m1
  <2> QED
    BY <2>1, <2>8, <2>11, <2>12
<1>4. ASSUME Reject(e) PROVE Goal
  <2>1. x # {} /\ handling'[e] = {} /\ Send(e, Rejection) /\ UNCHANGED <<channel, ids, limits, pending, faults>>
    BY <1>4, <1>w DEF Reject, channelVars, requestVars
  <2>2. wire'[e] = v /\ wire'[p] = Append(w, Rejection)
    BY <2>1, Sent, RejectionFacts
  <2> HIDE DEF p, c, d, w, v, a, b, x, y, g, h, m, n
  <2>3. Both(c, d, wire'[p], v, a, b, handling'[e], y, g, h, m, n)
    BY <1>b, <1>c, <2>1, <2>2, RejectStep
  <2> QED
    BY <2>1, <2>2, <2>3 DEF c, a, g, m
<1>5. ASSUME OnChannelRequest(e) PROVE Goal
  <2>1. x = {} /\ v # <<>> /\ Head(v).type = "chanRequest" /\ UNCHANGED <<channel, ids, limits, pending, faults>>
        /\ (c # "OPEN" => Taken(e) /\ handling'[e] = {Head(v).limit})
    BY <1>5, <1>w DEF OnChannelRequest, TakesNext, channelVars, requestVars
  <2>2. Kind(Head(v)) = "chanRequest"
    BY <1>x, <2>1
  <2> DEFINE v1 == Tail(v)
             x1 == {Head(v).limit}
  <2>3. v1 \in Seq(Messages) /\ x = {} /\ v # <<>> /\ v1 = Tail(v) /\ x1 = {Head(v).limit}
    BY <1>c, <2>1 DEF Sound
  <2>4. Both(c, d, w, v1, a, b, x1, y, g, h, m, n) /\ c \in Absent
    <3> HIDE DEF p, c, d, w, v, a, b, x, y, g, h, m, n, v1, x1
    <3>1. Both(c, d, w, v1, a, b, x1, y, g, h, m, n)
      BY <1>c, <2>2, <2>3, AskedStep
    <3>2. c \in Absent
      BY <1>c, <2>2, <2>3, <3>1, AskedStep
    <3> QED
      BY <3>1, <3>2
  <2>5. wire'[e] = v1 /\ wire'[p] = w /\ handling'[e] = x1
    BY <2>1, <2>4, TakenFacts DEF Absent
  <2> HIDE DEF v1, x1
  <2> QED
    BY <2>1, <2>4, <2>5
<1>6. ASSUME OnChannelResponse(e) PROVE Goal
  <2>1. /\ x = {} /\ v # <<>> /\ Head(v).type = "chanResponse" /\ Taken(e) /\ pending'[e] = {} /\ UNCHANGED handling
    BY <1>6, <1>w DEF OnChannelResponse, TakesNext
  <2>2. wire'[e] = Tail(v) /\ wire'[p] = w
    BY <2>1, TakenFacts
  <2>3. Head(v) \in Messages
    BY <1>x, <2>1
  <2> DEFINE k == Head(v)
             v1 == Tail(v)
             a1 == pending'[e]
  <2>a. a # {} => CASE k.accepted -> OnAcceptance(e, k) /\ UNCHANGED faults
                    [] ~k.accepted -> UNCHANGED <<channelVars, faults>>
    BY <1>6 DEF OnChannelResponse
  <2>4. v1 \in Seq(Messages) /\ v1 = Tail(v) /\ x = {} /\ v # <<>> /\ a1 = {}
    BY <1>c, <2>1 DEF Sound
  <2>5. CASE ~k.accepted
    <3>1. Kind(Head(v)) = "chanRejected"
      BY <2>1, <2>5 DEF Kind
    <3>2. Both(c, d, w, v1, a1, b, x, y, g, h, m, n) /\ a # {}
      <4> HIDE DEF p, c, d, w, v, a, b, x, y, g, h, m, n, v1, a1, k
      <4>1. Both(c, d, w, v1, a1, b, x, y, g, h, m, n)
        BY <1>c, <2>4, <3>1, RejectionStep
      <4>2. a # {}
        BY <1>c, <2>4, <3>1, <4>1, RejectionStep
      <4> QED
        BY <4>1, <4>2
    <3>3. UNCHANGED <<channel, ids, limits, faults>>
      BY <2>5, <2>a, <3>2 DEF channelVars
    <3> QED
      BY <2>1, <2>2, <3>2, <3>3
  <2>6. CASE k.accepted
    <3>1. Kind(Head(v)) = "chanAccepted" /\ k.id \in {2, 3} /\ k.limit \in Limits
      <4>1. Kind(k) = "chanAccepted"
        BY <2>1, <2>6 DEF Kind
      <4> QED
        BY <2>3, <4>1, MessageFacts
    <3>2. a # {}
      <4>1. Has(KindsOf(v), "chanAccepted")
        BY <2>4, <3>1, <1>c DEF Has, KindsOf, Sound
      <4>2. Pair(c, d, KindsOf(w), KindsOf(v), a, b, x, y)
        BY <1>c DEF Both
      <4> QED
        BY <4>1, <4>2 DEF Pair, Asks, HasAnswer
    <3>3. OnAcceptance(e, k) /\ faults' = {}
      BY <2>6, <2>a, <3>2
    <3>4. /\ channel'[e] = IF c \in Absent THEN "OPEN" ELSE c
          /\ Range(ids'[e]) = IF c = "none" THEN {k.id} ELSE IF c = "nulled" THEN {Head(g)} ELSE Range(g) \cup {k.id}
          /\ IF c \in Absent THEN limits'[e].local \in LimitsOf(a) /\ limits'[e].remote = k.limit ELSE limits'[e] = m
      <4>1. CASE c \in Absent
        <5>1. PICK r \in a : CreateChannel(e, k.id, r.limit, k.limit)
          BY <3>3, <4>1 DEF OnAcceptance, RequesterLimits, Absent, Closing
        <5>2. r.limit \in Limits /\ r.limit \in LimitsOf(a)
          <6>1. a \subseteq Requests
            BY <1>d, OneFacts
          <6> QED
            BY <5>1, <6>1 DEF Requests, LimitsOf
        <5>3. channel'[e] = "OPEN" /\ limits'[e].local = r.limit /\ limits'[e].remote = k.limit
              /\ ids'[e] = IF c = "none" THEN <<k.id>> ELSE <<Head(g)>>
          <6> DEFINE s == k.id
                     t == k.limit
                     l == r.limit
          <6>1. CreateChannel(e, s, l, t) /\ s \in {2, 3} /\ t \in Limits /\ l \in Limits
            BY <3>1, <5>1, <5>2
          <6> HIDE DEF s, t, l, k
          <6>2. channel'[e] = "OPEN" /\ limits'[e].local = l /\ limits'[e].remote = t
            BY <1>w, <6>1 DEF CreateChannel
          <6>3. ids'[e] = IF c = "none" THEN <<s>> ELSE <<Head(g)>>
            BY <1>w, <6>1 DEF CreateChannel
          <6> QED
            BY <6>2, <6>3 DEF s, t, l
        <5>4. Range(<<k.id>>) = {k.id}
          BY <1>d, <3>1, IdFacts
        <5>5. Range(ids'[e]) = IF c = "none" THEN {k.id} ELSE {Head(g)}
          BY <1>i, <5>3, <5>4
        <5>6. limits'[e].local = r.limit /\ limits'[e].remote = k.limit
          BY <5>3
        <5> HIDE DEF k, g, a, c
        <5> QED
          BY <4>1, <5>2, <5>3, <5>5, <5>6 DEF Absent
      <4>2. CASE c \notin Absent
        <5>1. MayAddRoleId(g, k.id) /\ Range(AddRoleId(g, k.id)) = Range(g) \cup {k.id}
          <6>1. g # <<>>
            BY <1>d, <4>2 DEF Absent
          <6> DEFINE s == k.id
          <6>2. s \in {2, 3} /\ g \in IdLists
            BY <1>d, <3>1
          <6> HIDE DEF s, k, g
          <6>3. MayAddRoleId(g, s)
            BY <6>1, <6>2, OtherIdFits
          <6>4. Range(AddRoleId(g, s)) = Range(g) \cup {s}
            BY <6>2, IdFacts
          <6> QED
            BY <6>3, <6>4 DEF s
        <5>2. ids'[e] = AddRoleId(g, k.id) /\ UNCHANGED <<channel, limits>>
          BY <1>d, <1>w, <3>3, <4>2, <5>1 DEF OnAcceptance, Absent, States
        <5> QED
          BY <4>2, <5>1, <5>2 DEF Absent
      <4> QED
        BY <4>1, <4>2
    <3> DEFINE i == Head(g)
    <3>5. c # "none" => i \in Range(g)
      BY <1>i
    <3>6. Range(ids'[e]) = IF c = "none" THEN {Head(v).id} ELSE IF c = "nulled" THEN {i} ELSE Range(g) \cup {Head(v).id}
      BY <3>4
    <3>7. IF c \in Absent THEN limits'[e].local \in LimitsOf(a) /\ limits'[e].remote = Head(v).limit ELSE limits'[e] = m
      BY <3>4
    <3> HIDE DEF p, c, d, w, v, a, b, x, y, g, h, m, n, v1, a1, k, i
    <3>8. Both(channel'[e], d, w, v1, a1, b, x, y, ids'[e], h, limits'[e], n)
      BY <1>c, <2>4, <3>1, <3>4, <3>5, <3>6, <3>7, AcceptanceStep
    <3> QED
      BY <2>1, <2>2, <3>3, <3>8 DEF x, a1, v1
  <2> QED
    BY <2>5, <2>6
<1>7. ~NullChannel(e)
  <2>1. finalizing[e] = 0
    BY <1>a DEF Typed
  <2> QED
    BY <2>1 DEF NullChannel

<1>8. ASSUME SendChanClosed(e) PROVE Goal
  <2> DEFINE i == Head(g)
  <2>1. c \in {"CLOSING", "LOCAL_CLOSING"} /\ Send(e, ChanMessage("chanClosed", i)) /\ UNCHANGED <<limits, pending, handling, faults>>
    BY <1>8 DEF SendChanClosed, requestVars
  <2>2. i \in Range(g) /\ i \in {2, 3} /\ (i = 2 <=> 2 \in Range(g)) /\ Range(<<i>>) = {i}
    BY <1>i, <2>1
  <2>3. channel'[e] = (IF c = "CLOSING" THEN "REMOTE_CLOSING" ELSE "nulled") /\ Range(ids'[e]) = IF c = "CLOSING" THEN Range(g) ELSE {i}
    <3>1. CASE c = "CLOSING"
      BY <1>8, <1>w, <3>1 DEF SendChanClosed
    <3>2. CASE c # "CLOSING"
      <4>1. FinalizeClosure(e)
        BY <1>8, <2>1, <3>2 DEF SendChanClosed
      <4>2. channel'[e] = "nulled" /\ ids'[e] = <<i>>
        BY <1>w, <4>1 DEF FinalizeClosure, Nulled
      <4> QED
        BY <2>2, <3>2, <4>2
    <3> QED
      BY <3>1, <3>2
  <2>4. wire'[e] = v /\ wire'[p] = Append(w, ChanMessage("chanClosed", i))
    <3>1. ChanMessage("chanClosed", i) \in Messages
      BY <2>2, ChanMessageFacts
    <3> QED
      BY <2>1, <3>1, Sent
  <2> HIDE DEF p, c, d, w, v, a, b, x, y, g, h, m, n, i
  <2>5. Both(channel'[e], d, wire'[p], v, a, b, x, y, ids'[e], h, m, n)
    BY <1>b, <1>c, <2>1, <2>2, <2>3, <2>4, ClosedStep
  <2> QED
    BY <2>1, <2>4, <2>5 DEF a, x, m
<1>9. ASSUME OnChannelClose(e) PROVE Goal
  <2> DEFINE v1 == Tail(v)
             i == Head(g)
  <2>1. x = {} /\ v # <<>> /\ Head(v).type = "chanClose" /\ UNCHANGED <<ids, limits, pending, handling>>
    BY <1>9 DEF OnChannelClose, TakesNext, requestVars
  <2>2. Kind(Head(v)) = "chanClose" /\ v1 \in Seq(Messages) /\ v1 = Tail(v) /\ x = {} /\ v # <<>>
    BY <1>c, <1>x, <2>1 DEF Sound
  <2>3. c # "none" => \E j \in Range(g) : j \in {2, 3}
    BY <1>i
  <2>4. c \in {"OPEN", "CLOSING", "REMOTE_CLOSING"} /\ Head(v).id \in Range(g)
    <3> HIDE DEF p, c, d, w, v, a, b, x, y, g, h, m, n, v1, i
    <3>1. c \in {"OPEN", "CLOSING", "REMOTE_CLOSING"}
      BY <1>c, <2>2, <2>3, OnCloseStep
    <3>2. Head(v).id \in Range(g)
      BY <1>c, <2>2, <2>3, OnCloseStep
    <3> QED
      BY <3>1, <3>2
  <2>5. Known(e, Head(v).id)
    BY <2>4 DEF Known
  <2>6. CASE c = "OPEN"
    <3>1. channel'[e] = "CLOSING" /\ Replies(e, ChanMessage("chanClose", i)) /\ UNCHANGED faults
      BY <1>9, <1>w, <2>5, <2>6 DEF OnChannelClose, StartClosing
    <3>2. i \in Range(g) /\ i \in {2, 3}
      BY <1>i, <2>6
    <3>3. ChanMessage("chanClose", i) \in Messages
      BY <3>2, ChanMessageFacts
    <3>4. wire'[e] = v1 /\ wire'[p] = Append(w, ChanMessage("chanClose", i))
      BY <2>1, <3>1, <3>3, RepliedFacts
    <3>5. Both("CLOSING", d, wire'[p], v1, a, b, x, y, g, h, m, n)
      <4> HIDE DEF p, c, d, w, v, a, b, x, y, g, h, m, n, v1, i
      <4>1. \A j \in Range(g), w1 \in Seq(Messages) :
              j \in {2, 3} /\ w1 = Append(w, ChanMessage("chanClose", j)) => Both("CLOSING", d, w1, v1, a, b, x, y, g, h, m, n)
        BY <1>c, <2>2, <2>3, <2>6, OnCloseStep
      <4> QED
        BY <1>b, <3>2, <3>4, <4>1
    <3> QED
      BY <2>1, <3>1, <3>4, <3>5
  <2>7. CASE c # "OPEN"
    <3>1. Taken(e) /\ UNCHANGED <<channel, faults>>
      BY <1>9, <2>5, <2>7 DEF OnChannelClose
    <3>2. wire'[e] = v1 /\ wire'[p] = w
      BY <2>1, <3>1, TakenFacts
    <3>3. Both(c, d, w, v1, a, b, x, y, g, h, m, n)
      <4> HIDE DEF p, c, d, w, v, a, b, x, y, g, h, m, n, v1, i
      <4> QED
        BY <1>c, <2>2, <2>3, <2>7, OnCloseStep
    <3> QED
      BY <2>1, <3>1, <3>2, <3>3
  <2> QED
    BY <2>6, <2>7
<1>10. ASSUME OnChannelClosed(e) PROVE Goal
  <2> DEFINE v1 == Tail(v)
             i == Head(g)
             c1 == IF c = "CLOSING" THEN "LOCAL_CLOSING" ELSE "nulled"
             g1 == IF c = "CLOSING" THEN g ELSE <<i>>
  <2>1. x = {} /\ v # <<>> /\ Head(v).type = "chanClosed" /\ Taken(e) /\ UNCHANGED <<limits, pending, handling>>
    BY <1>10 DEF OnChannelClosed, TakesNext, requestVars
  <2>2. Kind(Head(v)) = "chanClosed" /\ v1 \in Seq(Messages) /\ v1 = Tail(v) /\ x = {} /\ v # <<>>
    BY <1>c, <1>x, <2>1 DEF Sound
  <2>3. wire'[e] = v1 /\ wire'[p] = w
    BY <2>1, TakenFacts
  <2>4. /\ c # "none" => i \in Range(g) /\ (i = 2 <=> 2 \in Range(g))
        /\ c1 = IF c = "CLOSING" THEN "LOCAL_CLOSING" ELSE "nulled"
    BY <1>i
  <2>5. Range(g1) = IF c = "CLOSING" THEN Range(g) ELSE {i}
    <3>1. Range(<<i>>) = {i}
      BY DEF Range
    <3> QED
      BY <3>1
  <2>7. c \in {"CLOSING", "REMOTE_CLOSING"} /\ Head(v).id \in Range(g) /\ Both(c1, d, w, v1, a, b, x, y, g1, h, m, n)
    <3> HIDE DEF p, c, d, w, v, a, b, x, y, g, h, m, n, v1, i, c1, g1
    <3>1. Both(c1, d, w, v1, a, b, x, y, g1, h, m, n)
      BY <1>c, <2>2, <2>4, <2>5, OnClosedStep
    <3>2. c \in {"CLOSING", "REMOTE_CLOSING"}
      BY <1>c, <2>2, <2>4, <2>5, <3>1, OnClosedStep
    <3>3. Head(v).id \in Range(g)
      BY <1>c, <2>2, <2>4, <2>5, <3>1, OnClosedStep
    <3> QED
      BY <3>1, <3>2, <3>3
  <2>8. Known(e, Head(v).id)
    BY <2>7 DEF Known
  <2>9. channel'[e] = c1 /\ ids'[e] = g1 /\ UNCHANGED faults
    <3>1. CASE c = "CLOSING"
      BY <1>10, <1>w, <2>8, <3>1 DEF OnChannelClosed
    <3>2. CASE c # "CLOSING"
      <4>1. FinalizeClosure(e) /\ UNCHANGED faults
        BY <1>10, <2>7, <2>8, <3>2 DEF OnChannelClosed
      <4> QED
        BY <1>w, <3>2, <4>1 DEF FinalizeClosure, Nulled
    <3> QED
      BY <3>1, <3>2
  <2> HIDE DEF c1, g1, v1
  <2> QED
    BY <2>1, <2>3, <2>7, <2>9
<1>11. Goal
  BY <1>1, <1>2, <1>3, <1>4, <1>5, <1>6, <1>7, <1>8, <1>9, <1>10
  DEF Step, Use, Progress, Handlers, TccReader
<1> QED
  BY <1>b, <1>11 DEF View, Same

LEMMA Initially == Init => IInv
<1> SUFFICES ASSUME Init PROVE IInv
  OBVIOUS
<1> DEFINE z == [local |-> 0, remote |-> 0]
           o == <<>>
<1>1. ASSUME NEW e \in Ends
      PROVE  /\ channel[e] = "none" /\ ids[e] = o /\ limits[e] = z /\ finalizing[e] = 0
             /\ pending[e] = {} /\ unsettled[e] = 0 /\ handling[e] = {} /\ wire[e] = o
  BY DEF Init
<1>2. TInv
  <2>1. Shapes
    <3>1. z \in [local : Nat, remote : Nat]
      OBVIOUS
    <3> QED
      BY <3>1 DEF Init, Shapes
  <2>2. o \in Seq(Messages)
    OBVIOUS
  <2>3. ASSUME NEW e \in Ends PROVE Typed(e)
    <3>1. channel[e] \in States /\ ids[e] \in IdLists /\ (channel[e] = "none" <=> ids[e] = <<>>)
      BY <1>1 DEF States, IdLists
    <3>2. AtMostOne(pending[e], Requests) /\ AtMostOne(handling[e], Limits)
      BY <1>1 DEF AtMostOne
    <3>3. unsettled[e] \in Nat /\ ~Unsettled(e) /\ finalizing[e] = 0
      BY <1>1 DEF Unsettled
    <3>4. wire[e] \in Seq(Messages) /\ channel[e] # "CLOSED"
      BY <1>1, <2>2
    <3> HIDE DEF o, z
    <3> QED
      BY <3>1, <3>2, <3>3, <3>4 DEF Typed
  <2> QED
    BY <2>1, <2>3 DEF TInv
<1>3. ASSUME NEW e \in Ends PROVE View(e)
  <2>1. Peer(e) \in Ends
    BY TwoEnds
  <2>2. /\ \A k : ~Has(KindsOf(o), k)
        /\ \A S : Once(KindsOf(o), S)
        /\ \A k, l : Ordered(KindsOf(o), k, l)
    BY DEF Has, Once, Ordered, KindsOf
  <2>3. Those(o, {"chanAccepted"}) = {} /\ Those(o, {"chanRequest"}) = {} /\ Those(o, {"chanClose", "chanClosed"}) = {}
    BY DEF Those
  <2>4. AcceptedIds(o) = {} /\ ClosingIds(o) = {} /\ AcceptedLimits(o) = {} /\ AskedLimits(o) = {} /\ Range(o) = {} /\ LimitsOf({}) = {}
    BY <2>3 DEF AcceptedIds, ClosingIds, AcceptedLimits, AskedLimits, Range, LimitsOf
  <2> DEFINE q == KindsOf(o)
  <2>5. Pair("none", "none", q, q, {}, {}, {}, {})
    <3> HIDE DEF q
    <3>1. (\A k : ~Has(q, k)) /\ (\A S : Once(q, S)) /\ \A k, l : Ordered(q, k, l)
      BY <2>2 DEF q
    <3>2. Tells("none", "none", q)
      BY <3>1 DEF Tells, OneClosed
    <3>3. Delivers("none", "none", q, q)
      BY <3>1 DEF Delivers, Session, Closing
    <3>4. Asks("none", q, q, {}, {})
      BY <3>1 DEF Asks, OneRequest, OneAnswer, HasAnswer
    <3> QED
      BY <3>2, <3>3, <3>4 DEF Pair
  <2>6. Named("none", "none", q, q, {}, {}, {}, {}, {}, {})
    BY DEF Named, Knows
  <2>7. Granted("none", "none", 0, 0, 0, 0, {}, {}, {}, {}, {}, {})
    BY DEF Granted, Grants, Session, Closing
  <2>8. Both("none", "none", o, o, {}, {}, {}, {}, o, o, z, z)
    BY <2>4, <2>5, <2>6, <2>7 DEF Both
  <2> QED
    BY <1>1, <2>1, <2>8 DEF View
<1> QED
  BY <1>2, <1>3 DEF IInv, Init

LEMMA Inductive == IInv /\ [Next]_vars => IInv'
<1> SUFFICES ASSUME IInv, [Next]_vars PROVE IInv'
  OBVIOUS
<1>1. CASE UNCHANGED vars
  BY <1>1 DEF vars, channelVars, requestVars, IInv, TInv, Shapes, Typed, View, Unsettled
<1>2. ASSUME NEW e \in Ends, Step(e) PROVE IInv'
  <2>1. TInv' /\ careful' = careful
    BY <1>2, TypeStep, OtherEnd DEF IInv, Same
  <2>2. careful => View(e)' /\ faults' = {}
    BY <1>2, ViewStep DEF IInv
  <2>3. careful => View(Peer(e))'
    <3>1. Peer(Peer(e)) = e
      BY TwoEnds
    <3> QED
      BY <2>2, <3>1, BothTurns DEF View
  <2> QED
    BY <2>1, <2>2, <2>3, TwoEnds DEF IInv
<1> QED
  BY <1>1, <1>2 DEF Next, Step

LEMMA Implies == IInv => NothingUnexpected /\ OpenTogether
<1> SUFFICES ASSUME IInv PROVE NothingUnexpected /\ OpenTogether
  OBVIOUS
<1>1. TypeOK
  <2>1. ASSUME NEW e \in Ends
        PROVE  /\ Range(ids[e]) \subseteq {2, 3} /\ Len(ids[e]) <= 2
               /\ Len(ids[e]) = 2 => ids[e][1] < ids[e][2]
               /\ channel[e] = "none" <=> ids[e] = <<>>
    BY IdFacts DEF IInv, TInv, Typed
  <2>2. ASSUME NEW S, NEW T, AtMostOne(S, T) PROVE Cardinality(S) <= 1
    <3>1. CASE S = {}
      BY <3>1, FS_EmptySet
    <3>2. ASSUME NEW t, S = {t} PROVE Cardinality(S) <= 1
      <4>1. Cardinality({t}) = 1
        BY FS_Singleton
      <4> QED
        BY <3>2, <4>1
    <3> QED
      BY <2>2, <3>1, <3>2 DEF AtMostOne
  <2>3. ASSUME NEW e \in Ends PROVE Cardinality(pending[e]) <= 1 /\ Cardinality(handling[e]) <= 1
    BY <2>2 DEF IInv, TInv, Typed
  <2>4. careful \in BOOLEAN /\ channel \in [Ends -> States] /\ finalizing \in [Ends -> Nat] /\ unsettled \in [Ends -> Nat]
    BY DEF IInv, TInv, Shapes, Typed
  <2> QED
    BY <2>1, <2>3, <2>4 DEF TypeOK, States
<1>2. OpenTogether
  <2> SUFFICES ASSUME careful, Quiet
               PROVE  /\ channel["a"] = "OPEN" <=> channel["b"] = "OPEN"
                      /\ channel["a"] = "OPEN" => ids["a"] = ids["b"] /\ \A e \in Ends : limits[e].remote = limits[Peer(e)].local
    BY DEF OpenTogether
  <2> DEFINE o == <<>>
  <2>1. ASSUME NEW e \in Ends
        PROVE  /\ Pair(channel[e], channel[Peer(e)], KindsOf(o), KindsOf(o), {}, {}, {}, {})
               /\ Named(channel[e], channel[Peer(e)], KindsOf(o), KindsOf(o), Range(ids[e]), Range(ids[Peer(e)]),
                        AcceptedIds(o), AcceptedIds(o), ClosingIds(o), ClosingIds(o))
               /\ Granted(channel[e], channel[Peer(e)], limits[e].local, limits[e].remote, limits[Peer(e)].local, limits[Peer(e)].remote,
                          LimitsOf({}), LimitsOf({}), AskedLimits(o) \cup {}, AskedLimits(o) \cup {}, AcceptedLimits(o), AcceptedLimits(o))
    <3>1. Peer(e) \in Ends /\ View(e)
      BY TwoEnds DEF IInv
    <3>2. wire[e] = o /\ wire[Peer(e)] = o /\ handling[e] = {} /\ handling[Peer(e)] = {} /\ pending[e] = {} /\ pending[Peer(e)] = {}
      BY <3>1 DEF Quiet
    <3> QED
      BY <3>1, <3>2 DEF View, Both
  <2>2. (\A k : ~Has(KindsOf(o), k)) /\ AcceptedIds(o) = {}
    <3>1. Those(o, {"chanAccepted"}) = {}
      BY DEF Those
    <3> QED
      BY <3>1 DEF Has, KindsOf, AcceptedIds
  <2>3. ASSUME NEW e \in Ends, channel[e] = "OPEN" PROVE channel[Peer(e)] = "OPEN"
    <3>1. channel[Peer(e)] \in States /\ channel[Peer(e)] # "CLOSED"
      BY TwoEnds DEF IInv, TInv, Typed
    <3>2. Delivers(channel[e], channel[Peer(e)], KindsOf(o), KindsOf(o)) /\ Delivers(channel[Peer(e)], channel[e], KindsOf(o), KindsOf(o))
      BY <2>1 DEF Pair
    <3> HIDE DEF o
    <3> QED
      BY <2>2, <2>3, <3>1, <3>2 DEF Delivers, States, Session, Absent
  <2>4. Peer("a") = "b" /\ Peer("b") = "a" /\ "a" \in Ends /\ "b" \in Ends
    BY DEF Ends, Peer
  <2>5. channel["a"] = "OPEN" <=> channel["b"] = "OPEN"
    BY <2>3, <2>4
  <2>6. ASSUME channel["a"] = "OPEN" PROVE ids["a"] = ids["b"]
    <3>1. ids["a"] \in IdLists /\ ids["b"] \in IdLists
      BY <2>4 DEF IInv, TInv, Typed
    <3>2. Range(ids["a"]) = Range(ids["b"])
      BY <2>1, <2>2, <2>4, <2>5, <2>6 DEF Named
    <3>3. ASSUME NEW l \in IdLists
          PROVE  l = IF 2 \in Range(l) THEN IF 3 \in Range(l) THEN <<2, 3>> ELSE <<2>>
                     ELSE IF 3 \in Range(l) THEN <<3>> ELSE <<>>
      <4>1. Range(<<>>) = {} /\ Range(<<2>>) = {2} /\ Range(<<3>>) = {3} /\ Range(<<2, 3>>) = {2, 3}
        <5>1. DOMAIN <<2>> = {1} /\ DOMAIN <<3>> = {1} /\ DOMAIN <<2, 3>> = {1, 2}
          OBVIOUS
        <5> QED
          BY <5>1 DEF Range
      <4>2. CASE l = <<>>
        BY <4>1, <4>2
      <4>3. CASE l = <<2>>
        BY <4>1, <4>3
      <4>4. CASE l = <<3>>
        BY <4>1, <4>4
      <4>5. CASE l = <<2, 3>>
        BY <4>1, <4>5
      <4> QED
        BY <4>2, <4>3, <4>4, <4>5 DEF IdLists
    <3> QED
      BY <3>1, <3>2, <3>3
  <2>7. ASSUME channel["a"] = "OPEN", NEW e \in Ends PROVE limits[e].remote = limits[Peer(e)].local
    <3>1. channel[e] = "OPEN" /\ channel[Peer(e)] = "OPEN"
      BY <2>3, <2>4, <2>7 DEF Ends
    <3> QED
      BY <2>1, <3>1 DEF Granted, Grants, Session
  <2> QED
    BY <2>5, <2>6, <2>7
<1> QED
  BY <1>1, <1>2 DEF NothingUnexpected, IInv

(* However requests, responses and closing cross, no message of careful    *)
(* applications names a channel its receiver does not know, and no         *)
(* response is unexpected (#onChannelResponse, #onChannelClose,            *)
(* #onChannelClosed: each would stop the transport).                       *)
THEOREM NeverUnexpected == Spec => []NothingUnexpected
<1>1. Init /\ [][Next]_vars => []IInv
  BY Initially, Inductive, PTL
<1> QED
  BY <1>1, Implies, PTL DEF Spec

(* When nothing is on its way, handled or pending, either both ends have   *)
(* the channel open or neither, under the same ids in the same order, and  *)
(* each with the limits the other believes it to have (#createChannel in   *)
(* accept and in #onChannelResponse).                                      *)
THEOREM OpensTogether == Spec => []OpenTogether
<1>1. Init /\ [][Next]_vars => []IInv
  BY Initially, Inductive, PTL
<1> QED
  BY <1>1, Implies, PTL DEF Spec

=============================================================================
