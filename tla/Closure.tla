------------------------------ MODULE Closure ------------------------------
(***************************************************************************)
(* What closing a channel promises: either end may close it at any time;   *)
(* an end is finished once it is closing and nothing it wrote is left to   *)
(* be processed; and an end is closed only when both are finished.  Module *)
(* ChannelClose implements it with messages.                               *)
(***************************************************************************)
EXTENDS Naturals

CONSTANT Ends

VARIABLES
    status,     \* status[e]: "open", "closing", "closed" or "disconnected"
    pending,    \* pending[e]: chunks e has written that are yet to be processed
    finished    \* ends that are through with their own writes

vars == <<status, pending, finished>>

Init ==
    /\ status = [e \in Ends |-> "open"]
    /\ pending = [e \in Ends |-> 0]
    /\ finished = {}

Write(e) ==
    /\ status[e] = "open"
    /\ pending' = [pending EXCEPT ![e] = pending'[e]]
    /\ pending'[e] \in Nat /\ pending'[e] > pending[e]
    /\ UNCHANGED <<status, finished>>

(* Some of what e wrote is processed, or thrown away by a discard. *)
Process(e) ==
    /\ \E n \in 0 .. pending[e] : pending' = [pending EXCEPT ![e] = n]
    /\ UNCHANGED <<status, finished>>

StartClosing(e) ==
    /\ status[e] = "open"
    /\ status' = [status EXCEPT ![e] = "closing"]
    /\ UNCHANGED <<pending, finished>>

Finish(e) ==
    /\ status[e] = "closing" /\ pending[e] = 0
    /\ finished' = finished \cup {e}
    /\ UNCHANGED <<status, pending>>

Close(e) ==
    /\ status[e] = "closing" /\ finished = Ends
    /\ status' = [status EXCEPT ![e] = "closed"]
    /\ UNCHANGED <<pending, finished>>

(* A disconnect loses what is not sent yet. *)
Disconnect(e) ==
    /\ status[e] \in {"open", "closing"}
    /\ status' = [status EXCEPT ![e] = "disconnected"]
    /\ \E n \in 0 .. pending[e] : pending' = [pending EXCEPT ![e] = n]
    /\ UNCHANGED finished

Next == \E e \in Ends : \/ Write(e) \/ Process(e)
                        \/ StartClosing(e) \/ Finish(e) \/ Close(e) \/ Disconnect(e)
Spec == Init /\ [][Next]_vars

----------------------------------------------------------------------------
TypeOK ==
    /\ status \in [Ends -> {"open", "closing", "closed", "disconnected"}]
    /\ pending \in [Ends -> Nat]
    /\ finished \subseteq Ends

(* A closed channel is closed for good reasons: whatever either end wrote  *)
(* before it was processed, and neither end can write any more.            *)
NothingLostByClosing ==
    \A e \in Ends : status[e] = "closed" =>
        \A o \in Ends : status[o] # "open" /\ pending[o] = 0
============================================================================
