--------------------------- MODULE MessageStream ---------------------------
(***************************************************************************)
(* What the byte transports keep of a promise to the transport above them: *)
(* each message comes out at the other end once, in the order in which     *)
(* they were committed, as long as it was and with its own header, up to   *)
(* where a connection ends.  It comes out whole, but for text: that may    *)
(* have a gap of less than a character, before which and behind which      *)
(* nothing is missing, and then ends as much too early.                    *)
(***************************************************************************)
EXTENDS Naturals, Sequences

CONSTANT Messages   \* [header, data, char]: bytes of each, and of its longest character

VARIABLES sent, delivered
vars == <<sent, delivered>>

Init == sent = <<>> /\ delivered = <<>>

Commit == /\ \E m \in Messages : sent' = Append(sent, m)
          /\ UNCHANGED delivered

(* A byte is numbered by its message and its place there, 0 for none. *)
Whole(i, m) == [k \in 1 .. m.header + m.data |-> <<i, k>>]
Torn(i, m, at, gap) ==
    [k \in 1 .. m.header + m.data |->
        IF k <= at THEN <<i, k>> ELSE IF k <= at + gap THEN <<i, 0>> ELSE <<i, k - gap>>]
Tears(m) == {g \in (m.header .. m.header + m.data) \X (1 .. m.char - 1) : g[1] + g[2] < m.header + m.data}
Deliver == LET i == Len(delivered) + 1 IN
           /\ i <= Len(sent)
           /\ \/ delivered' = Append(delivered, Whole(i, sent[i]))
              \/ \E g \in Tears(sent[i]) : delivered' = Append(delivered, Torn(i, sent[i], g[1], g[2]))
           /\ UNCHANGED sent

Next == Commit \/ Deliver
Spec == Init /\ [][Next]_vars
=============================================================================
