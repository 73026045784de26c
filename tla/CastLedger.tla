----------------------------- MODULE CastLedger -----------------------------
(***************************************************************************)
(* What combat promises about damage: an accepted cast is never lost and   *)
(* never counted twice, casts land a window at a time, and a match is      *)
(* settled once, after everything accepted has landed.                     *)
(***************************************************************************)
EXTENDS Naturals

CONSTANT Player

VARIABLES
  accepted,   \* per player: casts the server has accepted
  landed,     \* per player: casts whose damage has been applied
  settled     \* the result of the match is written

ledger == <<accepted, landed, settled>>

LedgerInit ==
  /\ accepted = [p \in Player |-> 0]
  /\ landed = [p \in Player |-> 0]
  /\ settled = FALSE

Accept(p) ==
  /\ ~settled
  /\ accepted' = [accepted EXCEPT ![p] = @ + 1]
  /\ UNCHANGED <<landed, settled>>

\* Everything that is pending lands together, and may decide the match.
Land ==
  /\ ~settled
  /\ landed # accepted
  /\ landed' = accepted
  /\ settled' \in BOOLEAN
  /\ UNCHANGED accepted

Settle ==
  /\ ~settled
  /\ landed = accepted
  /\ settled' = TRUE
  /\ UNCHANGED <<accepted, landed>>

LedgerNext == (\E p \in Player : Accept(p)) \/ Land \/ Settle

LedgerSpec == LedgerInit /\ [][LedgerNext]_ledger
=============================================================================
