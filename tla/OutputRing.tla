----------------------------- MODULE OutputRing -----------------------------
(***************************************************************************)
(* The ring of bytes that are to be sent (src/output-ring-buffer.esm.js).  *)
(* Its operations as operators on a record: what is written at the write   *)
(* head wraps around the end of the buffer, is read at the read head in    *)
(* the order it was written, and is zeroed when it is released.            *)
(*                                                                         *)
(* Between reserve() and commit() nothing is awaited, so a reservation is  *)
(* made and filled in one step; it may be shortened, down to nothing.      *)
(*                                                                         *)
(* What is kept in the ring are the places of a message; what a place      *)
(* carries is another matter, when the message is text (see Encoded).      *)
(***************************************************************************)
EXTENDS Integers, Sequences

CONSTANTS Size, Zero   \* the number of bytes, and the byte that was released

ASSUME SizeAssumption == Size \in Nat \ {0}

Positions == 0 .. Size - 1
Wrap(n) == n % Size

EmptyRing == [cells |-> [i \in Positions |-> Zero], writeHead |-> 0, readHead |-> 0, committed |-> 0]

Available(ring) == Size - ring.committed

(* reserve(): the places from the write head on, past the end of the       *)
(* buffer to its start.  `bytes` are at most as many as are available.     *)
Reserved(ring, bytes) ==
    [i \in Positions |-> LET n == Wrap(i - ring.writeHead) IN
                          IF n < Len(bytes) THEN bytes[n + 1] ELSE ring.cells[i]]

(* commit() *)
Commit(ring, bytes) ==
    [cells |-> Reserved(ring, bytes),
     writeHead |-> Wrap(ring.writeHead + Len(bytes)),
     readHead |-> ring.readHead,
     committed |-> ring.committed + Len(bytes)]

(* encodeFrom(): text is put into the segments of a reservation one after  *)
(* the other.  The last character before the end of the buffer may not     *)
(* fit there: then it starts the other segment, and the gap it leaves is   *)
(* not counted as written.  What was counted is what shrink() leaves, so   *)
(* that the message loses as many bytes at its end.  A message m has text  *)
(* of m.data bytes behind its header, in characters of at most m.char.     *)
Before(ring, m) == Size - ring.writeHead - m.header   \* places of the text in the first segment
Gaps(ring, m) ==
    IF Before(ring, m) \in 1 .. m.data - 1 THEN {g \in 0 .. m.char - 1 : g <= Before(ring, m)} ELSE {0}
Nothing == 0
Encoded(m, before, gap) ==
    [k \in 1 .. m.header + m.data |->
        IF gap = 0 \/ k <= m.header + before - gap THEN k
        ELSE IF k <= m.header + before THEN Nothing ELSE k - gap]

(* getBuffers(): the views of the first n bytes, two of them if they wrap *)
Views(ring, n) ==
    LET toEnd == Size - ring.readHead IN
    IF toEnd >= n THEN <<[at |-> ring.readHead, length |-> n]>>
    ELSE <<[at |-> ring.readHead, length |-> toEnd], [at |-> 0, length |-> n - toEnd]>>
BytesOf(ring, view) == [i \in 1 .. view.length |-> ring.cells[view.at + i - 1]]

(* release(): the first n bytes are zeroed and free *)
Release(ring, n) ==
    [cells |-> [i \in Positions |-> IF Wrap(i - ring.readHead) < n THEN Zero ELSE ring.cells[i]],
     writeHead |-> ring.writeHead,
     readHead |-> Wrap(ring.readHead + n),
     committed |-> ring.committed - n]
=============================================================================
