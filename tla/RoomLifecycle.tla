--------------------------- MODULE RoomLifecycle ---------------------------
(* One room from its opening to its last match: the reservation of a quick pairing, the
   start, the spell book that is paid for outside the command queue, the countdown, the
   combat as one long phase, the end and the rematch; the timer that carries all of it
   on, the sweep that makes up for a forgotten timer, and restarts of the process.

   Commands of the engine run one at a time.  A catch-up is a loop of steps, each with its
   own reading and its own transaction, and opening a combat and ending a reservation take
   two each: busy says where such a command is.  The generation and the matchmaker run beside them.
   Who is present is taken from RoomSockets: here people come and go. *)
EXTENDS Integers, FiniteSets

CONSTANTS
  Person,
  Creator,        \* who opens a private room, or is paired with a scripted opponent
  MaxMatches,     \* bound: starts in this room
  MaxTroubles     \* bound: restarts, failed transactions, lost generations

ASSUME LifecycleAssumption ==
  /\ IsFiniteSet(Person) /\ Creator \in Person
  /\ MaxMatches \in Nat /\ MaxTroubles \in Nat

VARIABLES
  kind,           \* "private", "quick", or a quick room against a "bot" or a "ghost"
  phase,
  res,            \* reservation_state
  seq,            \* generation_seq: also the name of the match and of its token
  token, claim,   \* generation_token, generation_claim: 0 for null
  book,           \* the match the spell book of the room was written for; 0: none
  due,            \* the deadline of the phase, or of the reservation, has passed
  rows, seated,   \* seats, and those whose player has been here
  online,         \* players with a live connection
  out,            \* players who gave this match up
  mode,           \* maintenance: "open" or "draining"
  known,          \* this process has an engine for the room
  busy,           \* "idle", "catchup", "opened", "expire", "cancel", "seats"
  timer,          \* the engine's timer is set
  inFlight,       \* inFlightGeneration
  attempt,        \* [token, st]: the generation that runs; st "none" when none does
  calls,          \* history: how often the provider was asked for a match
  stranded,       \* history: a pairing was ended and its seats could not be removed
  troubles        \* how much of MaxTroubles is spent

match == <<phase, seq, token, claim, book, out>>
people == <<rows, seated, online>>
engine == <<known, busy, timer>>
history == <<calls, stranded>>
generation == <<inFlight, attempt, history>>
vars == <<kind, match, res, due, people, mode, engine, generation, troubles>>

Scripted == kind \in {"bot", "ghost"}
Quick == kind # "private"
NoAttempt == [token |-> 0, st |-> "none"]

\* A private room is opened and adopted; a pairing is only written down.
Init ==
  /\ kind \in {"private", "quick", "bot", "ghost"}
  /\ phase = "lobby" /\ seq = 0 /\ token = 0 /\ claim = 0 /\ book = 0
  /\ res = IF Quick THEN "reserved" ELSE "none"
  /\ due = FALSE
  /\ rows \in IF kind = "quick" THEN {r \in SUBSET Person : Creator \in r /\ Cardinality(r) = 2}
             ELSE {{Creator}}
  /\ seated = {} /\ online = {} /\ out = {}
  /\ mode = "open"
  /\ known = ~Quick /\ timer = ~Quick /\ busy = "idle"
  /\ inFlight = 0 /\ attempt = NoAttempt /\ calls = [n \in 1..MaxMatches |-> 0]
  /\ stranded = FALSE
  /\ troubles = 0

------------------------------------------------------------------------------
(* Timers *)

\* computeNextAlarm finds something to wake up for.
Alarm(ph, tk, fl, rs, r, on) ==
  \/ ph = "generating" /\ tk # fl
  \/ ph \in {"countdown", "playing"}
  \/ rs = "reserved"
  \/ ph = "lobby" /\ r \ on # {}

\* arm, at the end of a command.
Arm == known' = TRUE /\ timer' = Alarm(phase', token', inFlight', res', rows', online')

Trouble == troubles < MaxTroubles /\ troubles' = troubles + 1

\* The room as it is between two commands.
Idle == busy = "idle"

------------------------------------------------------------------------------
(* Matches *)

Players(r) == Cardinality(r) + IF Scripted THEN 1 ELSE 0

\* What startMatchTx asks before it changes anything.
Startable(r) == mode = "open" /\ seq < MaxMatches /\ Players(r) >= 2

\* startMatchTx: seats nobody came to are dropped, everything of the last match is reset;
\* a ghost brings its book along.
StartMatch(r) ==
  /\ Startable(r)
  /\ seq' = seq + 1 /\ out' = {} /\ claim' = 0 /\ due' = FALSE /\ res' = "locked"
  /\ rows' = r /\ seated' = r
  /\ IF kind = "ghost"
       THEN phase' = "countdown" /\ token' = 0 /\ book' = seq + 1
       ELSE phase' = "generating" /\ token' = seq + 1 /\ book' = 0

\* abortMatchInTx: back to an open lobby, without a reservation.
Abort ==
  /\ phase' = "lobby" /\ token' = 0 /\ claim' = 0 /\ book' = 0
  /\ res' = "none" /\ due' = FALSE
  /\ UNCHANGED <<seq, out>>

\* finishMatchTx.
Finish ==
  /\ phase' = "finished" /\ res' = "none" /\ due' = FALSE
  /\ UNCHANGED <<seq, token, claim, book>>

\* hostStartTx, for whoever is the host: everybody who sat down is present.  The frame
\* sends snapshots and sets no timer.
HostStart(p) ==
  /\ Idle /\ p \in online /\ phase = "lobby" /\ res # "reserved"
  /\ seated \subseteq online /\ StartMatch(seated)
  /\ UNCHANGED <<kind, online, mode, engine, generation, troubles>>

\* rematchTx: no timer either.
Rematch(p) ==
  /\ Idle /\ p \in online /\ phase = "finished" /\ mode = "open"
  /\ phase' = "lobby" /\ token' = 0 /\ claim' = 0 /\ book' = 0
  /\ UNCHANGED <<kind, seq, out, res, due, people, mode, engine, generation, troubles>>

------------------------------------------------------------------------------
(* People *)

\* reservationIsGone.
Gone == Quick /\ (res \in {"cancelled", "expired"} \/ (res = "reserved" /\ due))

\* join, admitted: seated and bound; a complete quick room starts on its own.
Join(p) ==
  /\ Idle /\ ~Gone /\ p \notin online
  /\ phase # "lobby" => p \notin out
  /\ p \in rows \/ (kind = "private" /\ phase = "lobby")
  /\ online' = online \cup {p}
  /\ LET r == rows \cup {p}
         complete == Quick /\ phase = "lobby" /\ res = "reserved" /\ ~due /\ r \subseteq online'
     IN \/ complete /\ StartMatch(r)
        \/ /\ ~(complete /\ Startable(r))
           /\ rows' = r /\ seated' = seated \cup {p}
           /\ UNCHANGED <<match, res, due>>
  /\ UNCHANGED <<kind, mode, busy, generation, troubles>>
  /\ Arm

\* disconnect.
Disconnect(p) ==
  /\ Idle /\ p \in online /\ online' = online \ {p}
  /\ UNCHANGED <<kind, match, res, due, rows, seated, mode, busy, generation, troubles>>
  /\ Arm

\* A leave over HTTP arms the timer when it is done, a leave by a frame of a socket does not.
ArmAfterLeave(p) == Arm \/ (p \in online /\ UNCHANGED <<known, timer>>)

\* manualLeave before a match: a reserved pairing is cancelled, an open lobby loses a seat.
LeaveLobby(p) ==
  /\ Idle /\ p \in rows /\ phase = "lobby"
  /\ UNCHANGED <<kind, match, res, due, mode, generation, troubles>>
  /\ IF res = "reserved"
       THEN busy' = "cancel" /\ known' = TRUE /\ UNCHANGED <<people, timer>>
       ELSE /\ rows' = rows \ {p} /\ seated' = seated \ {p} /\ online' = online \ {p}
            /\ UNCHANGED busy /\ ArmAfterLeave(p)

\* forfeit: out of this match; a decided combat ends in the same transaction.
Forfeit(p) ==
  /\ Idle /\ p \in rows \ out /\ phase \in {"generating", "countdown", "playing"}
  /\ out' = out \cup {p} /\ online' = online \ {p}
  /\ IF phase = "playing" /\ Players(rows \ out') <= 1
       THEN Finish ELSE UNCHANGED <<phase, seq, token, claim, book, res, due>>
  /\ UNCHANGED <<kind, rows, seated, mode, busy, generation, troubles>>
  /\ ArmAfterLeave(p)

\* cancelReservedPairing: the matchmaker's own transaction.
SchedulerCancel ==
  /\ Quick /\ phase = "lobby" /\ res = "reserved"
  /\ res' = (IF due THEN "expired" ELSE "cancelled") /\ due' = FALSE
  /\ rows' = {} /\ seated' = {}
  /\ UNCHANGED <<kind, match, online, mode, engine, generation, troubles>>

------------------------------------------------------------------------------
(* The engine *)

\* refresh, from the sweep or after a matchmaker's change: an ended pairing is closed, an
\* overdue one is ended, anything else gets its timer.
Refresh ==
  /\ Idle
  /\ UNCHANGED <<kind, match, res, due, rows, seated, mode, generation, troubles>>
  /\ IF Quick /\ res = "reserved" /\ due
       THEN busy' = "expire" /\ known' = TRUE /\ UNCHANGED <<online, timer>>
       ELSE /\ online' = IF Quick /\ res \in {"cancelled", "expired"} THEN {} ELSE online
            /\ UNCHANGED busy /\ Arm

\* Mutant: what was read before the transaction is not read again.
EndReservation_NoReread(state) ==
  /\ res' = state /\ due' = FALSE /\ busy' = "seats"
  /\ UNCHANGED <<kind, match, people, mode, known, timer, generation, troubles>>

\* endReservation, first transaction: only a pairing that is still reserved is ended.
EndReservation(state) ==
  /\ UNCHANGED <<kind, match, people, mode, generation, troubles>>
  /\ IF phase = "lobby" /\ res = "reserved"
       THEN res' = state /\ due' = FALSE /\ busy' = "seats" /\ UNCHANGED <<known, timer>>
       ELSE busy' = "idle" /\ UNCHANGED <<res, due>> /\ Arm

End ==
  \/ busy = "expire" /\ EndReservation("expired")
  \/ busy = "cancel" /\ EndReservation("cancelled")

\* endReservation, second transaction: the seats go and the sockets are closed.
DropSeats ==
  /\ busy = "seats" /\ busy' = "idle"
  /\ rows' = {} /\ seated' = {} /\ online' = {}
  /\ UNCHANGED <<kind, match, res, due, mode, generation, troubles>>
  /\ Arm

\* The timer fires: a catch-up begins.
Fire ==
  /\ Idle /\ timer /\ timer' = FALSE /\ busy' = "catchup"
  /\ UNCHANGED <<kind, match, res, due, people, mode, known, generation, troubles>>

Generating == phase = "generating" /\ token # 0
CatchingUp == busy = "catchup"

\* Mutant: the attempt is marked as this process's own only once it has read the room.
Claim_Unmarked ==
  /\ CatchingUp /\ Generating /\ claim # token
  /\ claim' = token
  /\ attempt' = [token |-> token, st |-> "reading"]
  /\ busy' = "idle"
  /\ UNCHANGED <<kind, phase, seq, token, book, out, res, due, people, mode, inFlight,
                 history, troubles>>
  /\ Arm

\* advanceOnce claims the generation, runGeneration marks it before anything else runs.
Claim ==
  /\ CatchingUp /\ Generating /\ claim # token
  /\ claim' = token
  /\ inFlight' = token /\ attempt' = [token |-> token, st |-> "reading"]
  /\ busy' = "idle"
  /\ UNCHANGED <<kind, phase, seq, token, book, out, res, due, people, mode, history, troubles>>
  /\ Arm

\* Mutant: an interrupted generation is asked for again.
Interrupted_AskAgain ==
  /\ CatchingUp /\ Generating /\ claim = token /\ inFlight # token
  /\ inFlight' = token /\ attempt' = [token |-> token, st |-> "reading"]
  /\ busy' = "idle"
  /\ UNCHANGED <<kind, match, res, due, people, mode, history, troubles>>
  /\ Arm

\* A claim nobody works on: the match is given up, the provider is not asked again.
Interrupted ==
  /\ CatchingUp /\ Generating /\ claim = token /\ inFlight # token
  /\ Abort
  /\ UNCHANGED <<kind, people, mode, engine, generation, troubles>>

\* The countdown is over: combat.
OpenCombat ==
  /\ CatchingUp /\ phase = "countdown" /\ due
  /\ phase' = "playing" /\ due' = FALSE /\ busy' = "opened"
  /\ UNCHANGED <<kind, seq, token, claim, book, out, res, people, mode, known, timer,
                 generation, troubles>>

\* A transaction of its own ends it at once when its time is over too or at most one is left.
CheckSurvivors ==
  /\ busy = "opened" /\ busy' = "catchup"
  /\ IF phase = "playing" /\ (due \/ Players(rows \ out) <= 1)
       THEN Finish ELSE UNCHANGED <<phase, seq, token, claim, book, res, due>>
  /\ UNCHANGED <<kind, out, people, mode, known, timer, generation, troubles>>

\* The clock of the match is over (every way combat can end before is in Combat).
Settle ==
  /\ CatchingUp /\ phase = "playing" /\ due
  /\ Finish
  /\ UNCHANGED <<kind, out, people, mode, engine, generation, troubles>>

Overdue ==
  /\ CatchingUp /\ Quick /\ phase = "lobby" /\ res = "reserved" /\ due
  /\ busy' = "expire"
  /\ UNCHANGED <<kind, match, res, due, people, mode, known, timer, generation, troubles>>

\* expireSeats: in an open lobby an empty seat is given up in the end.
ExpireSeats ==
  /\ CatchingUp /\ phase = "lobby" /\ ~(res = "reserved" /\ due)
  /\ \E gone \in (SUBSET (rows \ online)) \ {{}} :
       rows' = rows \ gone /\ seated' = seated \ gone
  /\ UNCHANGED <<kind, match, res, due, online, mode, engine, generation, troubles>>

\* Nothing is due: the loop ends and the timer is set again.
CaughtUp ==
  /\ CatchingUp
  /\ Generating => claim = token /\ inFlight = token
  /\ phase \in {"countdown", "playing"} \/ res = "reserved" => ~due
  /\ busy' = "idle"
  /\ UNCHANGED <<kind, match, res, due, people, mode, generation, troubles>>
  /\ Arm

\* A transaction of a command fails, and with it the command; a catch-up is tried again,
\* so is one that was ending a pairing.  What is committed stays, seats and sockets of an
\* ended pairing included.
CommandFails ==
  /\ ~Idle /\ Trouble
  /\ busy' = "idle" /\ timer' \in IF busy \in {"catchup", "opened"} THEN {TRUE} ELSE {timer, TRUE}
  /\ stranded' = (stranded \/ busy = "seats")
  /\ UNCHANGED <<kind, match, res, due, people, mode, known, inFlight, attempt, calls>>

------------------------------------------------------------------------------
(* runGeneration, beside the queue *)

\* The room is read; the provider is asked if it still waits for this token.
Ask ==
  /\ attempt.st = "reading"
  /\ IF Generating /\ token = attempt.token
       THEN /\ attempt' = [attempt EXCEPT !.st = "asked"]
            /\ calls' = [calls EXCEPT ![token] = @ + 1]
            /\ UNCHANGED inFlight
       ELSE attempt' = NoAttempt /\ inFlight' = 0 /\ UNCHANGED calls
  /\ UNCHANGED <<kind, match, res, due, people, mode, engine, stranded, troubles>>

\* The attempt throws: it is no longer in flight, at once.
AskFails ==
  /\ attempt.st \in {"reading", "asked"} /\ Trouble
  /\ attempt' = [attempt EXCEPT !.st = "failed"] /\ inFlight' = 0
  /\ UNCHANGED <<kind, match, res, due, people, mode, engine, history>>

\* A command of its own then sets the timer, to find the claim.
RetryFailed ==
  /\ Idle /\ attempt.st = "failed"
  /\ attempt' = NoAttempt /\ timer' = TRUE
  /\ UNCHANGED <<kind, match, res, due, people, mode, known, busy, inFlight, history, troubles>>

\* applyGenerationOutcome, as a command: the token is compared again.
Apply(ok) ==
  /\ Idle /\ attempt.st = "asked"
  /\ attempt' = NoAttempt /\ inFlight' = 0
  /\ IF phase = "generating" /\ token = attempt.token
       THEN \/ /\ ok /\ phase' = "countdown" /\ book' = token /\ token' = 0 /\ claim' = 0
               /\ due' = FALSE /\ UNCHANGED <<seq, out, res>>
            \/ ~ok /\ Abort
       ELSE UNCHANGED <<match, res, due>>
  /\ UNCHANGED <<kind, people, mode, busy, history, troubles>>
  /\ Arm

\* The transaction of the outcome fails: the paid book is lost.
ApplyFails ==
  /\ Idle /\ attempt.st = "asked" /\ Trouble
  /\ attempt' = NoAttempt /\ inFlight' = 0 /\ timer' = TRUE
  /\ UNCHANGED <<kind, match, res, due, people, mode, known, busy, history>>

------------------------------------------------------------------------------
(* Time, maintenance, restarts *)

ClockPasses ==
  /\ ~due /\ (phase \in {"countdown", "playing"} \/ res = "reserved")
  /\ due' = TRUE
  /\ UNCHANGED <<kind, match, res, people, mode, engine, generation, troubles>>

SwitchMode ==
  /\ mode' = (IF mode = "open" THEN "draining" ELSE "open")
  /\ UNCHANGED <<kind, match, res, due, people, engine, generation, troubles>>

\* Mutant: rooms that wait for their spell book are forgotten.
Recovered_NotGenerating == phase \in {"lobby", "countdown", "playing"} \/ res = "reserved"

\* recover: the rooms a new process adopts at once.
Recovered == phase \in {"lobby", "generating", "countdown", "playing"} \/ res = "reserved"

Restart ==
  /\ Trouble
  /\ online' = {} /\ timer' = FALSE /\ inFlight' = 0 /\ attempt' = NoAttempt
  /\ known' = Recovered /\ busy' = IF Recovered THEN "catchup" ELSE "idle"
  /\ UNCHANGED <<kind, match, res, due, rows, seated, mode, history>>

CatchUp ==
  Claim \/ Interrupted \/ OpenCombat \/ CheckSurvivors \/ Settle \/ Overdue \/ ExpireSeats
  \/ CaughtUp

Next ==
  \/ \E p \in Person : \/ HostStart(p) \/ Rematch(p) \/ Join(p) \/ Disconnect(p)
                       \/ LeaveLobby(p) \/ Forfeit(p)
  \/ SchedulerCancel \/ Refresh \/ End \/ DropSeats
  \/ Fire \/ CatchUp \/ CommandFails
  \/ Ask \/ AskFails \/ RetryFailed \/ (\E ok \in BOOLEAN : Apply(ok)) \/ ApplyFails
  \/ ClockPasses \/ SwitchMode \/ Restart

Spec == Init /\ [][Next]_vars

\* A command that waits gets its turn in the queue; the provider answers; time passes.
Fairness ==
  /\ WF_vars(End) /\ WF_vars(DropSeats) /\ WF_vars(CatchUp)
  /\ WF_vars(ClockPasses) /\ WF_vars(Ask)
  /\ SF_vars(Fire) /\ SF_vars(known /\ Refresh) /\ SF_vars(\E ok \in BOOLEAN : Apply(ok))
  /\ SF_vars(RetryFailed)

FairSpec == Spec /\ Fairness

------------------------------------------------------------------------------
(* Properties *)

\* Every variable stays within its declared values.
TypeOK ==
  /\ kind \in {"private", "quick", "bot", "ghost"} /\ mode \in {"open", "draining"}
  /\ phase \in {"lobby", "generating", "countdown", "playing", "finished"}
  /\ res \in {"none", "reserved", "locked", "cancelled", "expired"}
  /\ {seq, token, claim, book, inFlight, attempt.token} \subseteq 0..MaxMatches
  /\ due \in BOOLEAN /\ known \in BOOLEAN /\ timer \in BOOLEAN
  /\ online \cup seated \cup rows \cup out \subseteq Person
  /\ busy \in {"idle", "catchup", "opened", "expire", "cancel", "seats"}
  /\ attempt.st \in {"none", "reading", "asked", "failed"}
  /\ troubles \in 0..MaxTroubles

\* The provider is asked at most once for a match, however often the process is lost or
\* fails while it waits (transitions.ts 52, spellbook.ts 59).
PaidOnce == \A n \in 1..MaxMatches : calls[n] <= 1

\* While an attempt runs its match waits for it: neither a catch-up nor anybody leaving
\* gives the match up meanwhile, and no second match begins (engine.ts 568).
AttemptIsAwaited ==
  attempt.st \in {"reading", "asked"} =>
    phase = "generating" /\ token = attempt.token /\ claim = attempt.token

\* A pairing ends once: what ended it is not overwritten by a late timer or a late leave,
\* and an ended or overdue pairing starts no match (reservation.ts 31, rules.ts 60), unless
\* the transaction that removes its seats has failed.
PairingEndsOnce ==
  [][~stranded' => /\ res \in {"cancelled", "expired"} => res' = res
                   /\ Gone => phase' = "lobby"]_vars

\* A room that an engine has adopted goes on: the book comes or the match is given up, the
\* countdown and the combat end, and so does the reservation.
RoomGoesOn ==
  /\ \A p \in {"generating", "countdown", "playing"} : phase = p ~> phase # p
  /\ res = "reserved" /\ known ~> res # "reserved"
=============================================================================
