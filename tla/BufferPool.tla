----------------------------- MODULE BufferPool -----------------------------
(***************************************************************************)
(* The pool of byte buffers (src/buffer-pool.esm.js).  Every size has      *)
(* clean buffers, ready for use, and dirty ones that users gave back.      *)
(* acquire() and release() only mark the size; what brings the levels back *)
(* between the marks is #manageLevels, which runs by a timer and lets      *)
(* others run between one size and the next.                               *)
(*                                                                         *)
(* Buffers of a size are numbered; which of a pool is taken, or given      *)
(* back, is all the same.  A user has written into what it gives back.     *)
(***************************************************************************)
EXTENDS Integers, Sequences, FiniteSets, FiniteSetsExt, SequencesExt

CONSTANTS
    SizeClasses,   \* a sequence, in ascending order
    Low, High,     \* water marks
    Requests,      \* what users ask for
    MaxHeld        \* bound: buffers of a size in the hands of users

ASSUME PoolAssumption ==
    /\ SizeClasses \in Seq(Nat \ {0}) /\ SizeClasses # <<>>
    /\ \A i, j \in DOMAIN SizeClasses : i < j => SizeClasses[i] < SizeClasses[j]
    /\ Low \in Nat /\ High \in Nat /\ Low <= High
    /\ Requests \subseteq Nat \ {0} /\ MaxHeld \in Nat

Sizes == Range(SizeClasses)
Ids == 1 .. MaxHeld + High

VARIABLES
    groups,        \* per size: the clean and the dirty pool
    held,          \* per size: buffers in the hands of users
    written,       \* per size: pooled buffers with a user's data in them
    manageSizes,   \* sizes to be managed, in order
    timer,         \* #timer: "null", "set", or "fired" and not reset
    managing,      \* #manageLevels awaits between two sizes
    stopped
vars == <<groups, held, written, manageSizes, timer, managing, stopped>>

(* What acquire, release and management work on, for one size *)
Group(s) == [clean |-> groups[s].clean, dirty |-> groups[s].dirty, held |-> held[s], written |-> written[s]]
Unused(g) == Ids \ (g.clean \cup g.dirty \cup g.held)
Some(S, n) == {b \in S : Cardinality({c \in S : c < b}) < n}
AtLeast0(n) == IF n > 0 THEN n ELSE 0

----------------------------------------------------------------------------
(* Taking and giving back *)

(* #zeroBuffer *)
MutLeavesData(g, buffers) == g
Zeroed(g, buffers) == [g EXCEPT !.written = @ \ buffers]

(* acquire(), n times: clean buffers, then dirty ones, then new ones *)
Taken(g, n) ==
    LET clean == Some(g.clean, n)
        dirty == Some(g.dirty, n - Cardinality(clean))
        new == Some(Unused(g), n - Cardinality(clean \cup dirty))
    IN  Zeroed([g EXCEPT !.clean = @ \ clean, !.dirty = @ \ dirty, !.held = @ \cup clean \cup dirty \cup new], dirty)

(* #getSizeClass: the first that holds the request *)
SizeClass(request) == Min({s \in Sizes : s >= request})

(* acquireSet(): the biggest size as long as it fits, then one for the rest *)
Biggest == Last(SizeClasses)
Rest(request) == request % Biggest
Times(s, request) ==
    (IF s = Biggest THEN request \div Biggest ELSE 0)
    + (IF Rest(request) > 0 /\ s = SizeClass(Rest(request)) THEN 1 ELSE 0)

(* The size is marked, and the timer set unless it is or management runs *)
Marked(marked, s) == IF s \in Range(marked) THEN marked ELSE Append(marked, s)
MutSchedulesAnyway == IF stopped THEN timer ELSE "set"
Scheduled == IF timer = "null" /\ ~stopped THEN "set" ELSE timer

Acquire(request) ==
    LET g == [s \in Sizes |-> Taken(Group(s), Times(s, request))]
        big == IF request >= Biggest THEN Marked(manageSizes, Biggest) ELSE manageSizes
    IN  /\ \A s \in Sizes : Cardinality(g[s].held) <= MaxHeld
        /\ groups' = [s \in Sizes |-> [clean |-> g[s].clean, dirty |-> g[s].dirty]]
        /\ held' = [s \in Sizes |-> g[s].held]
        /\ written' = [s \in Sizes |-> g[s].written]
        /\ manageSizes' = IF Rest(request) > 0 THEN Marked(big, SizeClass(Rest(request))) ELSE big
        /\ timer' = Scheduled
        /\ UNCHANGED <<managing, stopped>>

Release(s) ==
    /\ held[s] # {}
    /\ LET b == Min(held[s]) IN
       /\ held' = [held EXCEPT ![s] = @ \ {b}]
       /\ groups' = [groups EXCEPT ![s].dirty = @ \cup {b}]
       /\ written' = [written EXCEPT ![s] = @ \cup {b}]
    /\ manageSizes' = Marked(manageSizes, s)
    /\ timer' = Scheduled
    /\ UNCHANGED <<managing, stopped>>

----------------------------------------------------------------------------
(* Management *)

(* #ensureMinimum: dirty buffers are cleaned, and new ones made, up to the *)
(* low mark.                                                               *)
Cleaned(g, dirty) == Zeroed([g EXCEPT !.dirty = @ \ dirty, !.clean = @ \cup dirty], dirty)
EnsureMinimum(g) ==
    LET needed == AtLeast0(Low - Cardinality(g.clean))
        dirty == Some(g.dirty, needed)
        new == Some(Unused(g), needed - Cardinality(dirty))
    IN  Cleaned([g EXCEPT !.clean = @ \cup new], dirty)

(* #releaseExcess: dirty buffers are cleaned up to the high mark, and the  *)
(* rest of them is let go, like clean ones above it.                       *)
MutKeepsExcess(g) == g
ReleaseExcess(g) ==
    LET full == Cleaned(g, Some(g.dirty, AtLeast0(High - Cardinality(g.clean))))
    IN  [full EXCEPT !.dirty = {}, !.written = @ \ full.dirty, !.clean = Some(@, High)]

(* One size is managed.  If there are more, others run before the next;    *)
(* else management is to run once more, until it finds none.               *)
Again == IF stopped THEN "null" ELSE "set"
ManageFirst ==
    /\ manageSizes' = Tail(manageSizes)
    /\ \E s \in {Head(manageSizes)} : \E enough \in {EnsureMinimum(Group(s))} : \E g \in {ReleaseExcess(enough)} :
        /\ groups' = [groups EXCEPT ![s] = [clean |-> g.clean, dirty |-> g.dirty]]
        /\ written' = [written EXCEPT ![s] = g.written]
    /\ managing' = (manageSizes' # <<>> /\ ~stopped)
    /\ timer' = IF managing' THEN "fired" ELSE Again
    /\ UNCHANGED <<held, stopped>>

TimerFires ==
    /\ timer = "set"
    /\ IF manageSizes # <<>> THEN ManageFirst
       ELSE timer' = "null" /\ UNCHANGED <<groups, held, written, manageSizes, managing, stopped>>

(* After the await, the size is managed even if stop() came meanwhile. *)
GoOn == managing /\ ManageFirst

Stop ==
    /\ ~stopped /\ stopped' = TRUE
    /\ timer' = IF timer = "set" THEN "fired" ELSE timer
    /\ UNCHANGED <<groups, held, written, manageSizes, managing>>

----------------------------------------------------------------------------
Init ==
    /\ groups = [s \in Sizes |-> [clean |-> 1 .. Low, dirty |-> {}]]
    /\ held = [s \in Sizes |-> {}] /\ written = [s \in Sizes |-> {}]
    /\ manageSizes = <<>> /\ timer = "null" /\ managing = FALSE /\ stopped = FALSE

Next ==
    \/ \E request \in Requests : Acquire(request)
    \/ \E s \in Sizes : Release(s)
    \/ TimerFires \/ GoOn \/ Stop

(* Timers fire, and the event loop comes back to who awaits one. *)
Spec == Init /\ [][Next]_vars /\ WF_vars(TimerFires) /\ WF_vars(GoOn)

----------------------------------------------------------------------------
(* Types; a buffer is in one place only, a size is marked once. *)
TypeOK ==
    /\ groups \in [Sizes -> [clean : SUBSET Ids, dirty : SUBSET Ids]]
    /\ held \in [Sizes -> SUBSET Ids] /\ written \in [Sizes -> SUBSET Ids]
    /\ \A s \in Sizes :
        /\ groups[s].clean \cap groups[s].dirty = {}
        /\ held[s] \cap (groups[s].clean \cup groups[s].dirty) = {}
    /\ manageSizes \in Seq(Sizes) /\ IsInjective(manageSizes)
    /\ timer \in {"null", "set", "fired"} /\ managing \in BOOLEAN /\ stopped \in BOOLEAN

(* A user never gets a buffer with the data of another in it, whichever    *)
(* pool it comes from and whenever management runs (#zeroBuffer); and no   *)
(* buffer is in two places.                                                *)
NoLeftovers == TypeOK /\ \A s \in Sizes : written[s] \subseteq groups[s].dirty

(* #timer guards management as well: while one run awaits its turn, no     *)
(* other is scheduled.  And stop() is final, also when it comes while      *)
(* management awaits: no timer keeps the program alive after it.           *)
OneManager == managing \/ stopped => timer # "set"

(* Whatever users do while management runs, every size comes back between  *)
(* its marks, with nothing dirty left.                                     *)
InLevels(s) == groups[s].dirty = {} /\ Cardinality(groups[s].clean) \in Low .. High
LevelsRestored == \A s \in Sizes : ~InLevels(s) ~> (stopped \/ InLevels(s))
=============================================================================
