--------------------------- MODULE MCRoomSockets ---------------------------
(* One page of each of two accounts, or two pages of one account. *)
EXTENDS RoomSockets

CONSTANTS u1, u2, s1, s2, t1, t2

TwoAccounts == [s \in Session |-> IF s = s1 THEN u1 ELSE u2]
OneAccount == [s \in Session |-> u1]
OneEach == [t \in Tab |-> IF t = t1 THEN s1 ELSE s2]
=============================================================================
