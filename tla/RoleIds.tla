------------------------------ MODULE RoleIds ------------------------------
(***************************************************************************)
(* The ids of a channel or of a message type (src/protocol.esm.js:         *)
(* addRoleId): one assigned by each end at most, told apart by parity, the *)
(* smaller first and in use.                                               *)
(***************************************************************************)
EXTENDS Integers, Sequences

MutAppendsRoleId(ids, id) == IF \E i \in DOMAIN ids : ids[i] = id THEN ids ELSE Append(ids, id)

HasId(ids, id) == \E i \in DOMAIN ids : ids[i] = id

(* Whether addRoleId succeeds. *)
MayAddRoleId(ids, id) ==
    \/ ids = <<>> \/ HasId(ids, id)
    \/ Len(ids) = 1 /\ id % 2 # ids[1] % 2

AddRoleId(ids, id) ==
    CASE HasId(ids, id) -> ids
      [] ~HasId(ids, id) /\ ids # <<>> /\ id < ids[1] -> <<id>> \o ids
      [] OTHER -> Append(ids, id)
=============================================================================
