---------------------------- MODULE DrainBarrier ----------------------------
(***************************************************************************)
(* What maintenance and runtime ownership promise to whoever replaces the  *)
(* application: a gate that can be open, closed or certified, the set of   *)
(* things that still block a replacement, and the generation of the        *)
(* runtime that wrote last.  A certified gate has nothing behind it and    *)
(* stays so until somebody reopens it; a superseded generation never       *)
(* writes again.  The detailed behaviour is in RuntimeControl, which       *)
(* implements this module.                                                 *)
(***************************************************************************)
EXTENDS Naturals

CONSTANT Item          \* whatever can block a drain: rooms and queued users

VARIABLES
  gate,                \* "open" | "closed" | "certified"
  busy,                \* the items that block a drain
  generation,          \* the runtime generation in force
  writer               \* the generation of the last committed write

absVars == <<gate, busy, generation, writer>>

AbsInit ==
  /\ gate \in {"open", "closed"}
  /\ busy = {}
  /\ generation = 0
  /\ writer = 0

\* A new runtime takes over.
Succeed ==
  /\ generation' = generation + 1
  /\ UNCHANGED <<gate, busy, writer>>

\* The current runtime writes; behind a closed gate it can only finish work.
Write ==
  /\ busy' \subseteq Item
  /\ gate # "open" => busy' \subseteq busy
  /\ writer' = generation
  /\ UNCHANGED <<gate, generation>>

\* A reservation lapses by itself.
Lapse ==
  /\ busy' \subseteq busy
  /\ UNCHANGED <<gate, generation, writer>>

\* Closing throws the waiting queue away.
Close ==
  /\ gate = "open"
  /\ gate' = "closed"
  /\ busy' \subseteq busy
  /\ UNCHANGED <<generation, writer>>

\* Certification never happens in front of unfinished work.
Certify ==
  /\ gate = "closed"
  /\ busy = {}
  /\ gate' = "certified"
  /\ UNCHANGED <<busy, generation, writer>>

\* Somebody reads the barrier again and forgets the certificate.
Forget ==
  /\ gate = "certified"
  /\ gate' = "closed"
  /\ UNCHANGED <<busy, generation, writer>>

Reopen ==
  /\ gate \in {"closed", "certified"}
  /\ gate' = "open"
  /\ UNCHANGED <<busy, generation, writer>>

AbsNext ==
  \/ Succeed \/ Write \/ Lapse \/ Close \/ Certify \/ Forget \/ Reopen

AbsSpec == AbsInit /\ [][AbsNext]_absVars
=============================================================================
