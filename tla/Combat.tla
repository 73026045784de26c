------------------------------- MODULE Combat -------------------------------
(***************************************************************************)
(* One match of a room, from its opening countdown to its settlement: the  *)
(* typing adjudication, the 100 ms damage windows, the scripted opponent,  *)
(* leaving, and the result.                                                *)
(*                                                                         *)
(* A room's engine runs one task at a time, so tasks do not overlap; what  *)
(* interleaves with their transactions is the clock, the loss of the       *)
(* process between two transactions, and the order in which frames, timers *)
(* and leave requests reach the queue.  A task of several transactions, or *)
(* one that keeps a clock reading, is the value of job; the others are one *)
(* action.  Timers may be late by any amount.  Time is counted in ticks,   *)
(* health in units of one HealthScale-th of a point.                       *)
(***************************************************************************)
EXTENDS Integers, FiniteSets, Sequences

CONSTANTS
  Player,       \* seats locked into the match
  Scripted,     \* the seat a ghost or bot plays; none in a human match
  Book,         \* damage of each spell of the shared book, in points
  Health,       \* INITIAL_HEALTH, in points
  Batch,        \* COMBAT_BATCH_MS in ticks
  Opening,      \* the deadline of the countdown
  Duration,     \* MATCH_DURATION_MS in ticks
  CastTicks,    \* ticks the input policy demands for a spell
  Enforce,      \* input_policy_mode is "enforce" (else "observe")
  BotIdle,      \* BOT_IDLE_MS in ticks
  MaxDelay,     \* bound: ticks between two scripted actions
  MaxClock,     \* bound: the last clock reading
  MaxTyped,     \* bound: completions a player sends
  MaxCrashes    \* bound: losses of the process in the middle of a task

ASSUME SeatAssumption ==
  /\ IsFiniteSet(Player) /\ Scripted \subseteq Player
  /\ Scripted # {} => Cardinality(Player) = 2
\* MAX_PRIVATE_PLAYERS: the scale of the health is chosen for rooms of at most four.
ASSUME RoomAssumption == Cardinality(Player) <= 4
ASSUME BookAssumption == Book \in Seq(Nat \ {0}) /\ Book # <<>>
ASSUME TimeAssumption ==
  /\ Batch \in Nat \ {0} /\ Duration \in Nat \ {0} /\ Opening \in Nat
  /\ CastTicks \in Nat \ {0} /\ BotIdle \in Nat \ {0} /\ MaxDelay \in Nat
ASSUME ValueAssumption == Health \in Nat \ {0} /\ Enforce \in BOOLEAN
ASSUME BoundAssumption == MaxClock \in Nat /\ MaxTyped \in Nat /\ MaxCrashes \in Nat

VARIABLES
  clock,        \* Date.now()
  opponent,     \* opponent_kind of the room
  phase,        \* of the room
  seat,         \* per player: health, elimination, cursor, input gate
  volley,       \* the open damage window, or NoVolley
  nextAction,   \* opponent_next_at
  departed,     \* players with a departure that names this match
  result,       \* what finishMatchTx wrote
  net,          \* per player: completions typed, each deliverable at any time, repeatedly
  job,          \* the task between two of its transactions
  crashes,      \* losses of the process so far
  landed,       \* history: per player, casts whose window was resolved
  thrown        \* history: a settlement threw room:unsettled_volley

vars == <<clock, opponent, phase, seat, volley, nextAction, departed, result, net, job,
          crashes, landed, thrown>>
match == <<phase, seat, volley, nextAction, departed, result, landed, thrown>>

-----------------------------------------------------------------------------
(* Values *)

Deadline == Opening + Duration
None == -1
Human == Player \ Scripted
OpponentKind == IF Scripted = {} THEN {"human"} ELSE {"ghost", "bot"}
Phase == {"countdown", "playing", "finished"}

\* Mutant: health is kept in whole points.
HealthScale_Points == 1

HealthScale == 6

\* damageOf(spellAt(book, i)): the book is practised round and round.
Power(i) == Book[(i % Len(Book)) + 1]

NoVolley == [endsAt |-> None, roster |-> {}, total |-> 0,
             power |-> [p \in Player |-> 0], casts |-> [p \in Player |-> 0], at |-> {}]

NoResult == [at |-> None, reason |-> "none", rank |-> [p \in Human |-> 0]]

Idle == [kind |-> "idle", who |-> {}, now |-> 0]

Lower(a, b) == IF a <= b THEN a ELSE b

Standing(f) == {p \in Player : f[p].out = None}

-----------------------------------------------------------------------------
(* Settlement *)

\* survivalRanks: one more than the number of seats that did strictly better.
Better(f, q, p) ==
  \/ f[q].out = None /\ f[p].out # None
  \/ f[q].out = None /\ f[p].out = None /\ f[q].hp > f[p].hp
  \/ f[q].out # None /\ f[p].out # None /\ f[q].out > f[p].out

\* matchRanks: a bot match that timed out is decided by its reason alone.
Ranks(f, reason) ==
  [p \in Human |->
     CASE reason = "bot_concession" -> 1
       [] reason = "inactivity" -> 2
       [] OTHER -> 1 + Cardinality({q \in Player : Better(f, q, p)})]

\* terminalReason
TerminalReason(f, reason, at) ==
  IF reason # "timeout" \/ opponent # "bot" THEN reason
  ELSE CASE \E p \in Human : f[p].out # None -> "elimination"
         [] \A p \in Human : f[p].idx > 0 /\ at - f[p].opened < BotIdle -> "bot_concession"
         [] OTHER -> "inactivity"

\* finishMatchTx, inside a transaction that has already determined seat' and volley'.
\* The throw rolls the transaction back; NeverUnsettled shows that it does not happen.
Finish(reason, at) ==
  IF volley' # NoVolley
  THEN thrown' = TRUE /\ UNCHANGED <<phase, result, nextAction>>
  ELSE /\ phase' = "finished"
       /\ nextAction' = None
       /\ LET final == TerminalReason(seat', reason, at) IN
            result' = [at |-> at, reason |-> final, rank |-> Ranks(seat', final)]
       /\ UNCHANGED thrown

PlayOn == UNCHANGED <<phase, result, nextAction, thrown>>

-----------------------------------------------------------------------------
Init ==
  /\ clock = 0
  /\ opponent \in OpponentKind
  /\ phase = "countdown"
  /\ seat = [p \in Player |-> [hp |-> Health * HealthScale, out |-> None, idx |-> 0,
                               opened |-> None, draft |-> 0, recoveries |-> 0]]
  /\ volley = NoVolley
  /\ nextAction = None
  /\ departed = {}
  /\ result = NoResult
  /\ net = [p \in Player |-> {}]
  /\ job = Idle
  /\ crashes = 0
  /\ landed = [p \in Player |-> 0]
  /\ thrown = FALSE

-----------------------------------------------------------------------------
(* Casting *)

WindowStart(at) == Opening + ((at - Opening) \div Batch) * Batch

\* The window of a cast that finds none open.
OpenWindow(at) ==
  [NoVolley EXCEPT
     !.endsAt = Lower(Deadline, WindowStart(at) + Batch),
     !.roster = {p \in Player : seat[p].out = None \/ seat[p].out > WindowStart(at)}]

\* Mutant: the queued cast replaces the casts of its window.
CommitCast_Overwrite(p, at) ==
  LET units == Power(seat[p].idx) * HealthScale
      window == IF volley = NoVolley THEN OpenWindow(at) ELSE volley
  IN /\ volley' = [window EXCEPT !.total = units, !.at = {at},
                                 !.power = [NoVolley.power EXCEPT ![p] = units],
                                 !.casts = [NoVolley.casts EXCEPT ![p] = 1]]
     /\ seat' = [seat EXCEPT ![p].idx = @ + 1, ![p].opened = at, ![p].draft = 0]

\* commitCastTx: the intent joins the window and the cursor moves on, together.  Of the
\* casts the window keeps what its resolution reads: their total and each caster's share.
CommitCast(p, at) ==
  LET units == Power(seat[p].idx) * HealthScale
      window == IF volley = NoVolley THEN OpenWindow(at) ELSE volley
  IN /\ volley' = [window EXCEPT !.total = @ + units, !.power[p] = @ + units,
                                 !.casts[p] = @ + 1, !.at = @ \cup {at}]
     /\ seat' = [seat EXCEPT ![p].idx = @ + 1, ![p].opened = at, ![p].draft = 0]

-----------------------------------------------------------------------------
(* Due work *)

VolleyDue(now) == volley # NoVolley /\ volley.endsAt <= now

OpponentDue(now) == nextAction # None /\ nextAction < Deadline /\ nextAction <= now

\* The early return of advanceCombat.
Due(now) == phase = "playing" /\ (VolleyDue(now) \/ OpponentDue(now) \/ now >= Deadline)

\* A scripted action inside the window comes before the window's landing.
OpponentFirst(now) ==
  OpponentDue(now) /\ (volley = NoVolley \/ nextAction < volley.endsAt)

\* advanceOpponentTx.  When the ghost's recording or the bot's pace puts the next action,
\* and when the bot holds back, are left open.
OpponentAct(o) ==
  LET at == nextAction IN
  IF Standing(seat) # Player
  THEN nextAction' = None /\ UNCHANGED <<seat, volley>>
  ELSE \/ /\ CommitCast(o, at)
          /\ \E delay \in 1..MaxDelay :
               nextAction' = IF at + delay < Deadline THEN at + delay ELSE None
       \/ /\ opponent = "ghost"
          /\ CommitCast(o, at)
          /\ nextAction' = None
       \/ /\ opponent = "bot"
          /\ nextAction' = Lower(Deadline, at + MaxDelay)
          /\ UNCHANGED <<seat, volley>>

Incoming(p) == (volley.total - volley.power[p]) \div (Cardinality(volley.roster) - 1)

\* resolveDueVolleyTx on a due window: every seat takes the casts of the others at once.
Land ==
  /\ seat' = [p \in Player |->
       IF p \in volley.roster /\ seat[p].out = None /\ Incoming(p) # 0
       THEN [seat[p] EXCEPT !.hp = @ - Lower(@, Incoming(p)),
                            !.out = IF seat[p].hp <= Incoming(p) THEN volley.endsAt ELSE None]
       ELSE seat[p]]
  /\ landed' = [p \in Player |-> landed[p] + volley.casts[p]]
  /\ volley' = NoVolley

Decided == Cardinality(Standing(seat')) <= 1

\* Mutant: the deadline is looked at before the window.
Settlement_ClockFirst(now) ==
  \/ /\ now >= Deadline
     /\ UNCHANGED <<seat, volley, landed>>
     /\ Finish("timeout", Deadline)
  \/ /\ now < Deadline
     /\ VolleyDue(now)
     /\ Land
     /\ \/ Decided /\ Finish("elimination", volley.endsAt)
        \/ ~Decided /\ PlayOn

\* Mutant: a match that timed out ends when its timer runs.
Settlement_TimerClock(now) ==
  \/ /\ VolleyDue(now)
     /\ Land
     /\ \/ Decided /\ Finish("elimination", volley.endsAt)
        \/ ~Decided /\ OpponentDue(now) /\ PlayOn
        \/ ~Decided /\ ~OpponentDue(now) /\ now >= Deadline /\ Finish("timeout", now)
        \/ ~Decided /\ ~OpponentDue(now) /\ now < Deadline /\ PlayOn
  \/ /\ ~VolleyDue(now)
     /\ UNCHANGED <<seat, volley, landed>>
     /\ \/ volley = NoVolley /\ Decided /\ Finish("elimination", now)
        \/ ~(volley = NoVolley /\ Decided) /\ now >= Deadline /\ Finish("timeout", now)

\* The rest of advanceCombat's transaction: land what is due, then look whether the match
\* is decided or its time is up.
Settlement(now) ==
  \/ /\ VolleyDue(now)
     /\ Land
     /\ \/ Decided /\ Finish("elimination", volley.endsAt)
        \/ ~Decided /\ OpponentDue(now) /\ PlayOn
        \/ ~Decided /\ ~OpponentDue(now) /\ now >= Deadline /\ Finish("timeout", Deadline)
        \/ ~Decided /\ ~OpponentDue(now) /\ now < Deadline /\ PlayOn
  \/ /\ ~VolleyDue(now)
     /\ UNCHANGED <<seat, volley, landed>>
     /\ \/ volley = NoVolley /\ Decided /\ Finish("elimination", Lower(now, Deadline))
        \/ ~(volley = NoVolley /\ Decided) /\ now >= Deadline /\ Finish("timeout", Deadline)

\* advanceCombat
AdvanceCombat(now) ==
  /\ Due(now)
  /\ \/ /\ OpponentFirst(now)
        /\ \E o \in Scripted : OpponentAct(o)
        /\ UNCHANGED <<phase, result, landed, thrown>>
     \/ ~OpponentFirst(now) /\ Settlement(now)
  /\ UNCHANGED departed

-----------------------------------------------------------------------------
(* Tasks of the room engine *)

Tick ==
  /\ clock < MaxClock
  /\ clock' = clock + 1
  /\ UNCHANGED <<match, opponent, net, job, crashes>>

\* The process is lost between two transactions of a task; what was committed stays.
Crash ==
  /\ job # Idle
  /\ crashes < MaxCrashes
  /\ crashes' = crashes + 1
  /\ job' = Idle
  /\ UNCHANGED <<clock, opponent, match, net>>

\* advanceOnce for a due countdown: combat opens, on the countdown's own clock.
OpenFight ==
  /\ job = Idle
  /\ phase = "countdown"
  /\ clock >= Opening
  /\ phase' = "playing"
  /\ seat' = [p \in Player |->
       IF seat[p].out = None THEN [seat[p] EXCEPT !.opened = clock] ELSE seat[p]]
  /\ IF Scripted = {} THEN UNCHANGED nextAction
     ELSE \E delay \in 1..MaxDelay : nextAction' = Opening + delay
  /\ job' = [Idle EXCEPT !.kind = "opened"]
  /\ UNCHANGED <<clock, opponent, volley, departed, result, net, crashes, landed, thrown>>

\* The second transaction of the same step: a match that opened too late, or with nobody
\* left to fight, ends here.
CheckOpening ==
  /\ job.kind = "opened"
  /\ job' = Idle
  /\ UNCHANGED <<seat, volley>>
  /\ \/ clock >= Deadline /\ Finish("timeout", Deadline)
     \/ clock < Deadline /\ Decided /\ Finish("elimination", Opening)
     \/ clock < Deadline /\ ~Decided /\ PlayOn
  /\ UNCHANGED <<clock, opponent, departed, net, crashes, landed>>

\* A timer, the sweep or an input frame drains one piece of due work.
Advance ==
  /\ job = Idle
  /\ AdvanceCombat(clock)
  /\ UNCHANGED <<clock, opponent, net, job, crashes>>

\* A client completes the spell and the draft its snapshot shows, and sends that.
Type(p) ==
  /\ phase = "playing"
  /\ p \in Human
  /\ Cardinality(net[p]) < MaxTyped
  /\ net' = [net EXCEPT ![p] = @ \cup {<<seat[p].idx, seat[p].draft>>}]
  /\ UNCHANGED <<clock, opponent, match, job, crashes>>

\* Mutant: the scripted opponent's own deadline is not looked at.
Retry_WindowOnly == clock >= Deadline \/ VolleyDue(clock)

\* What judge answers "retry" to: something is due at its own reading of the clock.
Retry == clock >= Deadline \/ VolleyDue(clock) \/ (nextAction # None /\ nextAction <= clock)

TooEarly(p) == Enforce /\ clock < seat[p].opened + CastTicks

\* Mutant: the cursor is not compared.
Current_AnyIndex(p, m) == seat[p].out = None /\ m[2] = seat[p].draft

\* The frame names the spell and the draft generation its player is at.
Current(p, m) == seat[p].out = None /\ m[1] = seat[p].idx /\ m[2] = seat[p].draft

\* The early completion is refused and its draft generation with it.
RejectEarly(p) ==
  /\ seat' = [seat EXCEPT ![p].draft = @ + 1, ![p].recoveries = @ + 1]
  /\ UNCHANGED <<volley, phase, result, nextAction, thrown>>

\* judge: a completion frame, possibly an old or a repeated one, is adjudicated.
Judge(p, m) ==
  /\ job = Idle
  /\ phase = "playing"
  /\ ~Retry
  /\ Current(p, m)
  /\ \/ /\ Standing(seat) = {p}
        /\ volley = NoVolley
        /\ UNCHANGED <<seat, volley>>
        /\ Finish("elimination", Lower(clock, Deadline))
     \/ /\ Standing(seat) # {p}
        /\ TooEarly(p)
        /\ RejectEarly(p)
     \/ /\ Standing(seat) # {p}
        /\ ~TooEarly(p)
        /\ CommitCast(p, clock)
        /\ PlayOn
  /\ UNCHANGED <<clock, opponent, departed, net, job, crashes, landed>>

\* manualLeave starts and keeps this reading of the clock.
BeginLeave(p) ==
  /\ job = Idle
  /\ p \in Human \ departed
  /\ job' = [kind |-> "leave", who |-> {p}, now |-> clock]
  /\ UNCHANGED <<clock, opponent, match, net, crashes>>

\* The drain loop of manualLeave.
DrainForLeave ==
  /\ job.kind = "leave"
  /\ AdvanceCombat(job.now)
  /\ UNCHANGED <<clock, opponent, net, job, crashes>>

\* Mutant: the seat stays in the fight until its next landing.
Forfeit_Standing(p) ==
  /\ departed' = departed \cup {p}
  /\ UNCHANGED <<seat, volley>>
  /\ PlayOn

\* Mutant: the fight's end is left to the timer.
Forfeit_NoSettlement(p) ==
  /\ departed' = departed \cup {p}
  /\ seat' = [seat EXCEPT ![p] =
       IF @.out = None THEN [seat[p] EXCEPT !.hp = 0, !.out = job.now] ELSE @]
  /\ UNCHANGED volley
  /\ PlayOn

\* Mutant: an open window does not hold the settlement back.
Forfeit_OverWindow(p) ==
  /\ departed' = departed \cup {p}
  /\ seat' = [seat EXCEPT ![p] =
       IF @.out = None THEN [seat[p] EXCEPT !.hp = 0, !.out = job.now] ELSE @]
  /\ UNCHANGED volley
  /\ IF phase = "playing" /\ Decided THEN Finish("elimination", job.now) ELSE PlayOn

\* forfeit: mark, leave combat and, when that decides the match, settle: one transaction.
Forfeit(p) ==
  /\ departed' = departed \cup {p}
  /\ seat' = [seat EXCEPT ![p] =
       IF @.out = None THEN [seat[p] EXCEPT !.hp = 0, !.out = job.now] ELSE @]
  /\ UNCHANGED volley
  /\ \/ phase = "playing" /\ Decided /\ volley = NoVolley /\ Finish("elimination", job.now)
     \/ ~(phase = "playing" /\ Decided /\ volley = NoVolley) /\ PlayOn

\* finishedLeave
LeaveFinished(p) ==
  /\ departed' = departed \cup {p}
  /\ UNCHANGED <<seat, volley>>
  /\ PlayOn

\* Mutant: the leave does not wait for what was due before it.
EndLeave_Undrained(p) ==
  /\ job.kind = "leave" /\ job.who = {p}
  /\ job' = Idle
  /\ \/ phase = "finished" /\ LeaveFinished(p)
     \/ phase # "finished" /\ Forfeit(p)
  /\ UNCHANGED <<clock, opponent, net, crashes, landed>>

\* Mutant: the room read before the drain decides which kind of leave it is.
EndLeave_StaleRoom(p) ==
  /\ job.kind = "leave" /\ job.who = {p}
  /\ ~Due(job.now)
  /\ job' = Idle
  /\ Forfeit(p)
  /\ UNCHANGED <<clock, opponent, net, crashes, landed>>

\* manualLeave once nothing is due any more: the room is read again.
EndLeave(p) ==
  /\ job.kind = "leave" /\ job.who = {p}
  /\ ~Due(job.now)
  /\ job' = Idle
  /\ \/ phase = "finished" /\ LeaveFinished(p)
     \/ phase # "finished" /\ Forfeit(p)
  /\ UNCHANGED <<clock, opponent, net, crashes, landed>>

Next ==
  \/ Tick \/ Crash \/ OpenFight \/ CheckOpening \/ Advance \/ DrainForLeave
  \/ \E p \in Player :
       \/ Type(p) \/ BeginLeave(p) \/ EndLeave(p)
       \/ \E m \in net[p] : Judge(p, m)

Spec == Init /\ [][Next]_vars

\* The clock advances, a started task goes on, and timers, or after a restart the
\* recovery of the new owner, come back to a room that has something due.
Fairness ==
  /\ WF_vars(Tick) /\ WF_vars(OpenFight) /\ WF_vars(CheckOpening) /\ WF_vars(DrainForLeave)
  /\ \A p \in Player : WF_vars(EndLeave(p))
  /\ SF_vars(Advance)

FairSpec == Spec /\ Fairness

-----------------------------------------------------------------------------
(* Properties *)

\* The shape of every variable.
TypeOK ==
  /\ clock \in Nat
  /\ opponent \in OpponentKind
  /\ phase \in Phase
  /\ seat \in [Player -> [hp : Int, out : Int, idx : Nat, opened : Int, draft : Nat,
                          recoveries : Nat]]
  /\ volley \in [endsAt : Int, roster : SUBSET Player, total : Nat, power : [Player -> Nat],
                 casts : [Player -> Nat], at : SUBSET Int]
  /\ nextAction \in Int
  /\ departed \subseteq Human
  /\ DOMAIN result.rank = Human
  /\ net \in [Player -> SUBSET (Nat \X Nat)]
  /\ job \in [kind : {"idle", "opened", "leave"}, who : SUBSET Human, now : Nat]
  /\ crashes \in Nat
  /\ landed \in [Player -> Nat]
  /\ thrown \in BOOLEAN

\* An accepted cast is in the open window or has landed, never both and never neither,
\* whatever timer, leave or crash comes between (volleys.ts, casts.ts).
CastsAccounted == \A p \in Player : seat[p].idx = landed[p] + volley.casts[p]

\* Each completion a client typed is consumed once at most, as a cast or as a refusal,
\* although frames are repeated, late and replayed by other tabs (combat.ts judge).
CompletionsConsumedOnce ==
  \A p \in Human : seat[p].idx + seat[p].recoveries <= Cardinality(net[p])

\* Every cast of a window was accepted inside it, the window aims at every seat that
\* still stands, and there is somebody to share its damage with.
WindowIsCoherent ==
  volley # NoVolley =>
    /\ \A t \in volley.at : WindowStart(t) < volley.endsAt /\ t < volley.endsAt
                            /\ volley.endsAt <= Lower(Deadline, WindowStart(t) + Batch)
    /\ Standing(seat) \subseteq volley.roster
    /\ \A p \in Player : volley.casts[p] > 0 => p \in volley.roster
    /\ Cardinality(volley.roster) >= 2

\* The damage of a window always divides evenly among those it is shared by, so health
\* never drifts from an exact number of units.
SharesAreExact ==
  volley # NoVolley =>
    \A p \in Player : (volley.total - volley.power[p]) % (Cardinality(volley.roster) - 1) = 0

\* A settlement is never attempted while an accepted window is unresolved: finishMatchTx
\* never throws room:unsettled_volley.
NeverUnsettled == thrown = FALSE

\* Within a match health only falls, and who is out stays out, at the same instant.
NoResurrection ==
  [][\A p \in Player :
       /\ seat'[p].hp <= seat[p].hp
       /\ seat[p].out # None => seat'[p] = seat[p]]_vars

\* Who falls later by the room's order of events never gets an earlier instant than who
\* fell before: a window that was due first decides first, however late it is processed.
FallsInOrder ==
  [][\A p, q \in Player :
       seat[p].out # None /\ seat[q].out = None /\ seat'[q].out # None
         => seat'[q].out >= seat[p].out]_vars

\* A settled match never changes again: no late timer, frame, leave or crash rewrites the
\* result, the room or a seat.
SettledForever == [][phase = "finished" => UNCHANGED <<phase, seat, volley, result>>]_vars

\* A result says when the match ended: inside the match's own time, and not before any
\* seat fell in combat, even when the timer that wrote it came much later.
EndsInItsTime ==
  phase = "finished" =>
    /\ Opening <= result.at /\ result.at <= Deadline
    /\ \A p \in Player \ departed : seat[p].out <= result.at

\* Once a leave is committed the account has no part in the match any more.
LeaverIsOut ==
  [][\A p \in departed : phase # "finished" => seat[p].out # None /\ seat'[p].idx = seat[p].idx]_vars

\* An engine that has nothing left to do never leaves a fight that is already decided
\* running until its clock: the survivor does not have to wait (transitions.ts, leave.ts).
NoIdleDuel ==
  phase = "playing" /\ job = Idle /\ ~Due(clock) /\ volley = NoVolley /\ nextAction = None
    => Cardinality(Standing(seat)) > 1

Ledger == INSTANCE CastLedger WITH
  accepted <- [p \in Player |-> seat[p].idx],
  settled <- phase = "finished"

\* Combat implements the ledger of casts: nothing is lost or counted twice, and the
\* result is written once everything accepted has landed.
ImplementsLedger == Ledger!LedgerSpec

\* Every match comes to its settlement, however the process is lost on the way.
MatchEnds == <>(phase = "finished")
=============================================================================
