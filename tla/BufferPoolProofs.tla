--------------------------- MODULE BufferPoolProofs ---------------------------
(***************************************************************************)
(* For every set of size classes and any water marks: management of the    *)
(* buffer pool never runs twice at once, and never after stop(); and no    *)
(* buffer is in two places, or reaches a user with old data in it.         *)
(***************************************************************************)
EXTENDS BufferPool, FiniteSetTheorems, WellFoundedInduction, TLAPS

(* While a run awaits its turn #timer holds the timer that started it, and *)
(* a stopped pool has none that is pending.                                *)
IInv ==
    /\ managing => timer = "fired"
    /\ stopped => timer # "set"

(* A new pool has no manager. *)
LEMMA InvInit == Init => IInv
BY DEF Init, IInv

(* What a run leaves behind, wherever it started *)
LEMMA ManageKeeps == ASSUME IInv, ManageFirst PROVE IInv'
<1>1. managing' => timer' = "fired"
  BY DEF ManageFirst
<1>2. stopped' => timer' # "set"
  BY DEF ManageFirst, Again
<1> QED
  BY <1>1, <1>2 DEF IInv

(* Every step keeps the invariant. *)
LEMMA InvNext == IInv /\ [Next]_vars => IInv'
<1> SUFFICES ASSUME IInv, [Next]_vars PROVE IInv'
  OBVIOUS
<1>1. CASE \E request \in Requests : Acquire(request)
  BY <1>1 DEF Acquire, Scheduled, IInv
<1>2. CASE \E s \in Sizes : Release(s)
  BY <1>2 DEF Release, Scheduled, IInv
<1>3. CASE TimerFires
  <2>1. CASE manageSizes # <<>>
    BY <1>3, <2>1, ManageKeeps DEF TimerFires
  <2>2. CASE manageSizes = <<>>
    BY <1>3, <2>2 DEF TimerFires, IInv
  <2> QED
    BY <2>1, <2>2
<1>4. CASE GoOn
  BY <1>4, ManageKeeps DEF GoOn
<1>5. CASE Stop
  BY <1>5 DEF Stop, IInv
<1>6. CASE UNCHANGED vars
  BY <1>6 DEF vars, IInv
<1> QED
  BY <1>1, <1>2, <1>3, <1>4, <1>5, <1>6 DEF Next

(* Management of the pool never runs twice at once (#manageLevels yields   *)
(* between sizes and #timer keeps others from scheduling it), and after    *)
(* stop() no timer is pending.                                             *)
THEOREM NeverTwice == Spec => []OneManager
<1>1. IInv => OneManager
  BY DEF IInv, OneManager
<1> QED
  BY <1>1, InvInit, InvNext, PTL DEF Spec

----------------------------------------------------------------------------
(* No buffer is in two places, and none reaches a user with old data.      *)

(* A set of numbers has a least one. *)
LEMMA MinFacts ==
    ASSUME NEW S \in SUBSET Nat, S # {}
    PROVE  Min(S) \in S /\ \A y \in S : Min(S) <= y
<1> DEFINE Upto(x) == {y \in S : y <= x}
           U == {Upto(x) : x \in S}
<1>1. U \subseteq FiniteSubsetsOf(S) /\ U # {}
  <2>1. ASSUME NEW x \in S PROVE Upto(x) \subseteq S /\ IsFiniteSet(Upto(x))
    <3>1. Upto(x) \in SUBSET Nat /\ \A s \in Upto(x) : s <= x
      OBVIOUS
    <3> HIDE DEF Upto
    <3>2. IsFiniteSet(Upto(x))
      BY <3>1, FS_BoundedSetOfNaturals
    <3> QED
      BY <3>2 DEF Upto
  <2> QED
    BY <2>1 DEF FiniteSubsetsOf
<1>2. PICK u \in U : \A v \in U : ~(<<v, u>> \in StrictSubsetOrdering(S))
  <2> HIDE DEF U
  <2> QED
    BY <1>1, WFMin, FS_StrictSubsetOrderingWellFounded
<1>3. PICK x \in S : u = Upto(x)
  OBVIOUS
<1>4. ASSUME NEW y \in S PROVE x <= y
  <2>1. SUFFICES ASSUME y < x PROVE FALSE
    OBVIOUS
  <2>2. Upto(y) \subseteq Upto(x) /\ x \in Upto(x) /\ x \notin Upto(y) /\ Upto(y) \in U
    <3>1. \A z \in Nat : z <= y => z <= x
      BY <2>1
    <3>2. ~(x <= y) /\ x <= x
      BY <2>1
    <3>3. Upto(y) \in U
      OBVIOUS
    <3> QED
      BY <3>1, <3>2, <3>3, Zenon
  <2> QED
    BY <1>2, <1>3, <2>2 DEF StrictSubsetOrdering
<1> QED
  BY <1>4 DEF Min

(* Every request is served from sizes of the pool. *)
LEMMA SizeFacts ==
    ASSUME NEW request \in Nat
    PROVE  /\ Sizes \subseteq Nat \ {0} /\ Biggest \in Sizes /\ Rest(request) \in Nat
           /\ Rest(request) > 0 => SizeClass(Rest(request)) \in Sizes
<1>1. Sizes \subseteq Nat \ {0}
  BY PoolAssumption DEF Sizes, Range
<1>2. Len(SizeClasses) \in DOMAIN SizeClasses
  BY PoolAssumption
<1>3. Biggest \in Sizes
  BY <1>2 DEF Biggest, Last, Sizes, Range
<1>4. Rest(request) \in Nat /\ Rest(request) < Biggest
  <2>1. Biggest \in Nat /\ Biggest > 0
    BY <1>1, <1>3
  <2> HIDE DEF Biggest
  <2> QED
    BY <2>1 DEF Rest
<1>5. ASSUME Rest(request) > 0 PROVE SizeClass(Rest(request)) \in Sizes
  <2> DEFINE Fit == {s \in Sizes : s >= Rest(request)}
  <2>1. Biggest \in Nat /\ Biggest >= Rest(request)
    BY <1>1, <1>3, <1>4
  <2>3. Fit \in SUBSET Nat /\ Biggest \in Fit
    BY <1>1, <1>3, <2>1, Zenon
  <2>2. Min(Fit) \in Fit
    <3> HIDE DEF Fit
    <3> QED
      BY <2>3, MinFacts
  <2> QED
    BY <2>2 DEF SizeClass
<1> QED
  BY <1>1, <1>3, <1>4, <1>5

(* Marking a size that is marked changes nothing. *)
LEMMA MarkedFacts ==
    ASSUME NEW m \in Seq(Sizes), IsInjective(m), NEW s \in Sizes
    PROVE  Marked(m, s) \in Seq(Sizes) /\ IsInjective(Marked(m, s)) /\ Marked(m, s) # <<>>
<1>1. CASE s \in Range(m)
  BY <1>1 DEF Marked, Range
<1>2. CASE s \notin Range(m)
  <2>1. Marked(m, s) = Append(m, s)
    BY <1>2 DEF Marked
  <2>2. \A i \in 1 .. Len(m) : m[i] # s
    BY <1>2 DEF Range
  <2>3. \A i, j \in 1 .. Len(m) : m[i] = m[j] => i = j
    BY DEF IsInjective
  <2>4. \A i, j \in 1 .. Len(m) + 1 : Append(m, s)[i] = Append(m, s)[j] => i = j
    BY <2>2, <2>3
  <2>5. Append(m, s) \in Seq(Sizes) /\ Len(Append(m, s)) = Len(m) + 1 /\ DOMAIN Append(m, s) = 1 .. Len(m) + 1
    OBVIOUS
  <2> QED
    BY <2>1, <2>4, <2>5 DEF IsInjective
<1> QED
  BY <1>1, <1>2

(* What one size may hold: a buffer is in one place, and only dirty ones   *)
(* have data in them.                                                      *)
GroupOK(g) ==
    /\ g \in [clean : SUBSET Ids, dirty : SUBSET Ids, held : SUBSET Ids, written : SUBSET Ids]
    /\ g.clean \cap g.dirty = {} /\ g.held \cap (g.clean \cup g.dirty) = {}
    /\ g.written \subseteq g.dirty

LEMMA TakenOK == ASSUME NEW g, GroupOK(g), NEW n PROVE GroupOK(Taken(g, n))
BY DEF GroupOK, Taken, Zeroed, Some, Unused

LEMMA EnsureMinimumOK == ASSUME NEW g, GroupOK(g) PROVE GroupOK(EnsureMinimum(g)) /\ EnsureMinimum(g).held = g.held
BY DEF GroupOK, EnsureMinimum, Cleaned, Zeroed, Some, Unused

LEMMA ReleaseExcessOK == ASSUME NEW g, GroupOK(g) PROVE GroupOK(ReleaseExcess(g)) /\ ReleaseExcess(g).held = g.held
BY DEF GroupOK, ReleaseExcess, Cleaned, Zeroed, Some

(* The invariant: what every size holds, and what is marked.  A run that   *)
(* awaits its turn has a size to go on with.                               *)
Marks ==
    /\ manageSizes \in Seq(Sizes) /\ IsInjective(manageSizes)
    /\ managing => manageSizes # <<>>
    /\ timer \in {"null", "set", "fired"} /\ managing \in BOOLEAN /\ stopped \in BOOLEAN
Stores ==
    /\ groups \in [Sizes -> [clean : SUBSET Ids, dirty : SUBSET Ids]]
    /\ held \in [Sizes -> SUBSET Ids] /\ written \in [Sizes -> SUBSET Ids]
    /\ \A s \in Sizes : GroupOK(Group(s))
PInv == Stores /\ Marks

LEMMA PInvImplies == PInv => NoLeftovers
<1> SUFFICES ASSUME PInv PROVE NoLeftovers
  OBVIOUS
<1>1. ASSUME NEW s \in Sizes
      PROVE  /\ groups[s].clean \cap groups[s].dirty = {}
             /\ held[s] \cap (groups[s].clean \cup groups[s].dirty) = {}
             /\ written[s] \subseteq groups[s].dirty
  BY DEF PInv, Stores, GroupOK, Group
<1> QED
  BY <1>1 DEF PInv, Stores, Marks, NoLeftovers, TypeOK

LEMMA PInvInit == Init => PInv
<1> SUFFICES ASSUME Init PROVE PInv
  OBVIOUS
<1>1. 1 .. Low \subseteq Ids
  BY PoolAssumption DEF Ids
<1>2. Stores
  BY <1>1 DEF Init, Stores, GroupOK, Group
<1>3. Marks
  <2>1. <<>> \in Seq(Sizes) /\ DOMAIN <<>> = {}
    OBVIOUS
  <2>2. IsInjective(<<>>)
    BY <2>1 DEF IsInjective
  <2> QED
    BY <2>1, <2>2 DEF Init, Marks
<1> QED
  BY <1>2, <1>3 DEF PInv

LEMMA AcquireKeeps == ASSUME PInv, NEW request \in Requests, Acquire(request) PROVE PInv'
<1> DEFINE G == [s \in Sizes |-> Taken(Group(s), Times(s, request))]
           big == IF request >= Biggest THEN Marked(manageSizes, Biggest) ELSE manageSizes
<1>1. /\ groups' = [s \in Sizes |-> [clean |-> G[s].clean, dirty |-> G[s].dirty]]
      /\ held' = [s \in Sizes |-> G[s].held] /\ written' = [s \in Sizes |-> G[s].written]
      /\ manageSizes' = IF Rest(request) > 0 THEN Marked(big, SizeClass(Rest(request))) ELSE big
      /\ timer' = Scheduled /\ UNCHANGED <<managing, stopped>>
  BY DEF Acquire
<1>2. \A s \in Sizes : GroupOK(G[s])
  BY TakenOK DEF PInv, Stores
<1>3. Stores'
  <2> HIDE DEF G
  <2> QED
    BY <1>1, <1>2 DEF Stores, GroupOK, Group
<1>4. Marks'
  <2>1. request \in Nat
    BY PoolAssumption
  <2>2. manageSizes \in Seq(Sizes) /\ IsInjective(manageSizes) /\ (managing => manageSizes # <<>>)
    BY DEF PInv, Marks
  <2>3. big \in Seq(Sizes) /\ IsInjective(big) /\ (managing => big # <<>>)
    BY <2>1, <2>2, SizeFacts, MarkedFacts
  <2> HIDE DEF big
  <2>4. manageSizes' \in Seq(Sizes) /\ IsInjective(manageSizes)' /\ (managing => manageSizes' # <<>>)
    BY <1>1, <2>1, <2>3, SizeFacts, MarkedFacts
  <2> QED
    BY <1>1, <2>4 DEF PInv, Marks, Scheduled
<1> QED
  BY <1>3, <1>4 DEF PInv

LEMMA ReleaseKeeps == ASSUME PInv, NEW s \in Sizes, Release(s) PROVE PInv'
<1> DEFINE b == Min(held[s])
<1>1. b \in held[s]
  <2>1. held[s] \in SUBSET Nat /\ held[s] # {}
    BY DEF PInv, Stores, Release, Ids
  <2> QED
    BY <2>1, MinFacts
<1>2. /\ held' = [held EXCEPT ![s] = @ \ {b}] /\ groups' = [groups EXCEPT ![s].dirty = @ \cup {b}]
      /\ written' = [written EXCEPT ![s] = @ \cup {b}] /\ manageSizes' = Marked(manageSizes, s)
      /\ timer' = Scheduled /\ UNCHANGED <<managing, stopped>>
  BY DEF Release
<1> HIDE DEF b
<1>3. Stores'
  BY <1>1, <1>2 DEF PInv, Stores, GroupOK, Group
<1>4. Marks'
  BY <1>2, MarkedFacts DEF PInv, Marks, Scheduled
<1> QED
  BY <1>3, <1>4 DEF PInv

LEMMA ManageFirstKeeps == ASSUME PInv, ManageFirst, manageSizes # <<>> PROVE PInv'
<1>1. /\ Head(manageSizes) \in Sizes /\ Tail(manageSizes) \in Seq(Sizes)
      /\ IsInjective(Tail(manageSizes))
  <2>1. manageSizes \in Seq(Sizes) /\ IsInjective(manageSizes)
    BY DEF PInv, Marks
  <2>2. DOMAIN Tail(manageSizes) = 1 .. Len(manageSizes) - 1
    BY <2>1
  <2>3. \A i \in 1 .. Len(manageSizes) - 1 : Tail(manageSizes)[i] = manageSizes[i + 1]
    BY <2>1
  <2> QED
    BY <2>1, <2>2, <2>3 DEF IsInjective
<1>2. PICK s \in {Head(manageSizes)} : \E enough \in {EnsureMinimum(Group(s))} : \E g \in {ReleaseExcess(enough)} :
        /\ groups' = [groups EXCEPT ![s] = [clean |-> g.clean, dirty |-> g.dirty]]
        /\ written' = [written EXCEPT ![s] = g.written]
  BY DEF ManageFirst
<1> DEFINE g == ReleaseExcess(EnsureMinimum(Group(s)))
<1>3. s \in Sizes /\ GroupOK(g) /\ g.held = held[s]
  <2>1. s \in Sizes /\ GroupOK(Group(s)) /\ Group(s).held = held[s]
    BY <1>1, <1>2 DEF PInv, Stores, Group
  <2> QED
    BY <2>1, EnsureMinimumOK, ReleaseExcessOK
<1>4. /\ groups' = [groups EXCEPT ![s] = [clean |-> g.clean, dirty |-> g.dirty]]
      /\ written' = [written EXCEPT ![s] = g.written] /\ held' = held
  BY <1>2 DEF ManageFirst
<1> HIDE DEF g
<1>5. Stores'
  BY <1>3, <1>4 DEF PInv, Stores, GroupOK, Group
<1>6. Marks'
  BY <1>1 DEF PInv, Marks, ManageFirst, Again
<1> QED
  BY <1>5, <1>6 DEF PInv

LEMMA PInvNext == PInv /\ [Next]_vars => PInv'
<1> SUFFICES ASSUME PInv, [Next]_vars PROVE PInv'
  OBVIOUS
<1>1. CASE \E request \in Requests : Acquire(request)
  BY <1>1, AcquireKeeps
<1>2. CASE \E s \in Sizes : Release(s)
  BY <1>2, ReleaseKeeps
<1>3. CASE TimerFires
  <2>1. CASE manageSizes # <<>>
    BY <1>3, <2>1, ManageFirstKeeps DEF TimerFires
  <2>2. CASE manageSizes = <<>>
    BY <1>3, <2>2 DEF TimerFires, PInv, Stores, Marks, Group
  <2> QED
    BY <2>1, <2>2
<1>4. CASE GoOn
  BY <1>4, ManageFirstKeeps DEF GoOn, PInv, Marks
<1>5. CASE Stop
  BY <1>5 DEF Stop, PInv, Stores, Marks, Group
<1>6. CASE UNCHANGED vars
  BY <1>6 DEF vars, PInv, Stores, Marks, Group
<1> QED
  BY <1>1, <1>2, <1>3, <1>4, <1>5, <1>6 DEF Next

(* Whatever is asked of the pool and given back, in whatever order with    *)
(* management: a buffer is in one place, and only one that is still dirty  *)
(* has a user's data in it (acquire, #ensureMinimum, #releaseExcess and    *)
(* their calls of #zeroBuffer).                                            *)
THEOREM NeverLeftovers == Spec => []NoLeftovers
<1> QED
  BY PInvImplies, PInvInit, PInvNext, PTL DEF Spec
=============================================================================
