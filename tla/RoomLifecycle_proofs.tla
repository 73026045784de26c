------------------------ MODULE RoomLifecycle_proofs ------------------------
(* For any number of people, matches and failures: a match is paid for once, what runs for
   it is awaited, and a pairing ends once; a match is played with its own book, by those
   who were seated when it began.

   The claim is the key to the first two.  It is set together with the mark of the running
   attempt, so a match whose claim is not its token has not been asked for, and one whose
   attempt still runs cannot be given up by a catch-up.  The third rests on ended pairings
   keeping an empty room: nobody seated, or nobody connected. *)
EXTENDS RoomLifecycle, FiniteSetTheorems, TLAPS

\* What the proofs need to know of the values.
Types ==
  /\ seq \in 0..MaxMatches /\ token \in 0..MaxMatches
  /\ attempt \in [token : 0..MaxMatches, st : {"none", "reading", "asked", "failed"}]
  /\ calls \in [1..MaxMatches -> Nat]

\* A token stands for the match that is being generated, and for no other.
TokenIsCurrent ==
  /\ token # 0 => phase = "generating" /\ token = seq
  /\ phase = "generating" => token = seq /\ seq # 0

\* Nobody has asked for a match that is still to come, or that nobody has claimed.
UnclaimedIsUnpaid ==
  \A n \in 1..MaxMatches : n > seq \/ (n = token /\ claim # token) => calls[n] = 0

\* The attempt that runs is the one this process knows to be in flight.
AttemptIsMarked ==
  attempt.st \in {"reading", "asked"} =>
    /\ phase = "generating" /\ token = attempt.token
    /\ claim = attempt.token /\ inFlight = attempt.token

\* Before it has read the room it has not asked.
ReadingIsUnpaid == attempt.st = "reading" => calls[attempt.token] = 0

PaidInv ==
  /\ Types /\ TokenIsCurrent /\ UnclaimedIsUnpaid
  /\ AttemptIsMarked /\ ReadingIsUnpaid /\ PaidOnce

payment == <<phase, seq, token, claim, inFlight, attempt, calls>>

------------------------------------------------------------------------------
(* Payment *)

LEMMA PaidKept ==
  ASSUME PaidInv, UNCHANGED payment
  PROVE  PaidInv'
  BY DEF payment, PaidInv, Types, TokenIsCurrent, UnclaimedIsUnpaid, AttemptIsMarked,
         ReadingIsUnpaid, PaidOnce

\* A match begins from a lobby, where no attempt runs, under a number nobody has used.
LEMMA StartKeeps ==
  ASSUME PaidInv, NEW r, phase = "lobby", StartMatch(r), UNCHANGED <<inFlight, attempt, calls>>
  PROVE  PaidInv'
  <1>1. seq' = seq + 1 /\ seq < MaxMatches /\ seq' \in 1..MaxMatches /\ claim' = 0
    BY LifecycleAssumption DEF StartMatch, Startable, PaidInv, Types
  <1>2. \/ phase' = "countdown" /\ token' = 0
        \/ phase' = "generating" /\ token' = seq + 1
    BY DEF StartMatch
  <1>3. attempt.st \notin {"reading", "asked"}
    BY DEF PaidInv, AttemptIsMarked
  <1>4. Types'
    BY <1>1, <1>2, LifecycleAssumption DEF PaidInv, Types
  <1>5. TokenIsCurrent'
    BY <1>1, <1>2 DEF TokenIsCurrent
  <1>6. UnclaimedIsUnpaid'
    BY <1>1, <1>2 DEF PaidInv, Types, UnclaimedIsUnpaid
  <1>7. (AttemptIsMarked /\ ReadingIsUnpaid /\ PaidOnce)'
    BY <1>3 DEF PaidInv, AttemptIsMarked, ReadingIsUnpaid, PaidOnce
  <1> QED BY <1>4, <1>5, <1>6, <1>7 DEF PaidInv

\* A match is given up or over while nothing runs for it.
LEMMA LeaveMatchKeeps ==
  ASSUME PaidInv, attempt'.st \notin {"reading", "asked"}, phase' # "generating", token' = 0,
         seq' = seq, calls' = calls, attempt' = attempt \/ attempt' = NoAttempt
  PROVE  PaidInv'
  <1>1. Types'
    BY LifecycleAssumption DEF PaidInv, Types, NoAttempt
  <1>2. TokenIsCurrent'
    BY DEF TokenIsCurrent
  <1>3. UnclaimedIsUnpaid'
    BY DEF PaidInv, Types, UnclaimedIsUnpaid
  <1>4. (AttemptIsMarked /\ ReadingIsUnpaid /\ PaidOnce)'
    BY DEF PaidInv, AttemptIsMarked, ReadingIsUnpaid, PaidOnce
  <1> QED BY <1>1, <1>2, <1>3, <1>4 DEF PaidInv

\* An attempt ends, and the match still waits.
LEMMA AttemptEndsKeeps ==
  ASSUME PaidInv, UNCHANGED <<phase, seq, token, claim, calls>>,
         attempt' \in {NoAttempt, [attempt EXCEPT !.st = "failed"]}
  PROVE  PaidInv'
  <1>1. attempt' \in [token : 0..MaxMatches, st : {"none", "failed"}]
    BY LifecycleAssumption DEF PaidInv, Types, NoAttempt
  <1> QED BY <1>1 DEF PaidInv, Types, TokenIsCurrent, UnclaimedIsUnpaid, AttemptIsMarked,
                      ReadingIsUnpaid, PaidOnce

LEMMA ClaimKeeps ==
  ASSUME PaidInv, Claim
  PROVE  PaidInv'
  <1>1. /\ phase = "generating" /\ token # 0 /\ claim # token
        /\ claim' = token /\ inFlight' = token
        /\ attempt' = [token |-> token, st |-> "reading"]
        /\ UNCHANGED <<phase, seq, token, calls>>
    BY DEF Claim, Generating, history
  <1>2. token \in 1..MaxMatches /\ calls[token] = 0
    BY <1>1 DEF PaidInv, Types, UnclaimedIsUnpaid
  <1>3. Types' /\ TokenIsCurrent' /\ PaidOnce'
    BY <1>1, <1>2 DEF PaidInv, Types, TokenIsCurrent, PaidOnce
  <1>4. UnclaimedIsUnpaid' /\ AttemptIsMarked' /\ ReadingIsUnpaid'
    BY <1>1, <1>2 DEF PaidInv, Types, UnclaimedIsUnpaid, AttemptIsMarked, ReadingIsUnpaid
  <1> QED BY <1>3, <1>4 DEF PaidInv

LEMMA AskKeeps ==
  ASSUME PaidInv, Ask
  PROVE  PaidInv'
  <1>1. attempt.st = "reading" /\ UNCHANGED <<phase, seq, token, claim>>
    BY DEF Ask, match
  <1>2. CASE /\ Generating /\ token = attempt.token
             /\ attempt' = [attempt EXCEPT !.st = "asked"]
             /\ calls' = [calls EXCEPT ![token] = @ + 1] /\ UNCHANGED inFlight
    <2>1. token \in 1..MaxMatches /\ calls[token] = 0 /\ claim = token /\ token = seq
      BY <1>1, <1>2 DEF PaidInv, Types, TokenIsCurrent, AttemptIsMarked, ReadingIsUnpaid,
                        Generating
    <2>2. calls' \in [1..MaxMatches -> Nat] /\ calls'[token] = 1
          /\ \A n \in 1..MaxMatches \ {token} : calls'[n] = calls[n]
      BY <1>2, <2>1 DEF PaidInv, Types
    <2>3. attempt' \in [token : 0..MaxMatches, st : {"asked"}] /\ attempt'.token = attempt.token
      BY <1>2 DEF PaidInv, Types
    <2>4. Types' /\ TokenIsCurrent'
      BY <1>1, <2>2, <2>3 DEF PaidInv, Types, TokenIsCurrent
    <2>5. UnclaimedIsUnpaid' /\ PaidOnce'
      BY <1>1, <2>1, <2>2 DEF PaidInv, Types, UnclaimedIsUnpaid, PaidOnce
    <2>6. AttemptIsMarked' /\ ReadingIsUnpaid'
      BY <1>1, <1>2, <2>3 DEF PaidInv, AttemptIsMarked, ReadingIsUnpaid
    <2> QED BY <2>4, <2>5, <2>6 DEF PaidInv
  <1>3. CASE attempt' = NoAttempt /\ UNCHANGED calls
    BY <1>1, <1>3, AttemptEndsKeeps
  <1> QED BY <1>2, <1>3 DEF Ask

\* The outcome is applied only to the match it was asked for.
LEMMA ApplyKeeps ==
  ASSUME PaidInv, NEW ok \in BOOLEAN, Apply(ok)
  PROVE  PaidInv'
  <1>1. attempt' = NoAttempt /\ UNCHANGED calls
    BY DEF Apply, history
  <1>2. CASE UNCHANGED match
    BY <1>1, <1>2, AttemptEndsKeeps DEF match
  <1>3. CASE phase' # "generating" /\ token' = 0 /\ seq' = seq
    BY <1>1, <1>3, LeaveMatchKeeps DEF NoAttempt
  <1> QED BY <1>2, <1>3 DEF Apply, Abort

\* A claim is only given up when nobody works on it any more.
LEMMA InterruptedKeeps ==
  ASSUME PaidInv, Interrupted
  PROVE  PaidInv'
  <1>1. attempt.st \notin {"reading", "asked"}
    BY DEF Interrupted, PaidInv, AttemptIsMarked
  <1>2. phase' = "lobby" /\ token' = 0 /\ UNCHANGED <<seq, attempt, calls>>
    BY DEF Interrupted, Abort, generation, history
  <1> QED BY <1>1, <1>2, LeaveMatchKeeps

LEMMA MatchOverKeeps ==
  ASSUME PaidInv, OpenCombat \/ CheckSurvivors \/ Settle \/ (\E p \in Person : Rematch(p) \/ Forfeit(p))
  PROVE  PaidInv'
  <1>1. UNCHANGED <<seq, attempt, calls, inFlight>>
    BY DEF OpenCombat, CheckSurvivors, Settle, Rematch, Forfeit, Finish, generation, history
  <1>2. CASE UNCHANGED <<phase, token, claim>>
    BY <1>1, <1>2, PaidKept DEF payment
  <1>3. CASE /\ phase \in {"countdown", "playing", "finished"}
             /\ phase' # "generating" /\ token' \in {token, 0}
    <2>1. token = 0 /\ attempt.st \notin {"reading", "asked"}
      BY <1>3 DEF PaidInv, TokenIsCurrent, AttemptIsMarked
    <2> QED BY <1>1, <1>3, <2>1, LeaveMatchKeeps
  <1>4. CheckSurvivors => UNCHANGED <<token, claim>>
    BY DEF CheckSurvivors, Finish
  <1> QED BY <1>2, <1>3, <1>4 DEF OpenCombat, CheckSurvivors, Settle, Rematch, Forfeit, Finish

LEMMA RestartKeeps ==
  ASSUME PaidInv, Restart \/ AskFails \/ RetryFailed \/ ApplyFails
  PROVE  PaidInv'
  BY AttemptEndsKeeps DEF Restart, AskFails, RetryFailed, ApplyFails, match, engine, history

LEMMA PaidInit == ASSUME Init PROVE PaidInv
  BY LifecycleAssumption DEF Init, PaidInv, Types, TokenIsCurrent, UnclaimedIsUnpaid,
         AttemptIsMarked, ReadingIsUnpaid, PaidOnce, NoAttempt

LEMMA PaidNext ==
  ASSUME PaidInv, [Next]_vars
  PROVE  PaidInv'
  <1>1. ASSUME NEW p \in Person, HostStart(p)
        PROVE  PaidInv'
    BY <1>1, StartKeeps DEF HostStart, generation, history
  <1>2. ASSUME NEW p \in Person, Join(p)
        PROVE  PaidInv'
    <2>1. UNCHANGED <<inFlight, attempt, calls>>
      BY <1>2 DEF Join, generation, history
    <2>2. CASE UNCHANGED match
      BY <2>1, <2>2, PaidKept DEF match, payment
    <2>3. CASE phase = "lobby" /\ \E r : StartMatch(r)
      BY <2>1, <2>3, StartKeeps
    <2> QED BY <1>2, <2>2, <2>3 DEF Join
  <1>3. ASSUME NEW p \in Person, Disconnect(p) \/ LeaveLobby(p)
        PROVE  PaidInv'
    BY <1>3, PaidKept DEF Disconnect, LeaveLobby, match, generation, history, payment
  <1>4. CASE SchedulerCancel \/ Refresh \/ DropSeats \/ Fire \/ ClockPasses \/ SwitchMode
    BY <1>4, PaidKept DEF SchedulerCancel, Refresh, DropSeats, Fire, ClockPasses, SwitchMode,
                          match, generation, history, payment
  <1>5. CASE End \/ CommandFails \/ Overdue \/ ExpireSeats \/ CaughtUp
    BY <1>5, PaidKept DEF End, EndReservation, CommandFails, Overdue, ExpireSeats, CaughtUp,
                          match, generation, history, payment
  <1>6. CASE UNCHANGED vars
    BY <1>6, PaidKept DEF vars, match, generation, history, payment
  <1> QED BY <1>1, <1>2, <1>3, <1>4, <1>5, <1>6, ClaimKeeps, AskKeeps, ApplyKeeps,
             InterruptedKeeps, MatchOverKeeps, RestartKeeps DEF Next, CatchUp

\* The provider is asked at most once for a match, for any number of matches, restarts and
\* failed transactions (transitions.ts 52, spellbook.ts 59).
THEOREM PaidOnceHolds == Spec => []PaidOnce
  <1>1. PaidInv => PaidOnce
    BY DEF PaidInv
  <1> QED BY PaidInit, PaidNext, <1>1, PTL DEF Spec

\* While an attempt runs, its match waits for it (engine.ts 568).
THEOREM AttemptIsAwaitedHolds == Spec => []AttemptIsAwaited
  <1>1. PaidInv => AttemptIsAwaited
    BY DEF PaidInv, AttemptIsMarked, AttemptIsAwaited
  <1> QED BY PaidInit, PaidNext, <1>1, PTL DEF Spec

------------------------------------------------------------------------------
(* Pairings *)

Ended == res \in {"cancelled", "expired"}

\* Only a quick room has a reservation, and only before its match.
ReservedInLobby ==
  /\ kind = "private" => res \in {"none", "locked"}
  /\ res \in {"reserved", "cancelled", "expired"} => phase = "lobby"

\* An ended pairing is without seats or without connections, once both have been taken.
EndedIsEmpty == Ended /\ ~stranded /\ busy # "seats" => online = {} \/ seated = {}

PairInv == ReservedInLobby /\ EndedIsEmpty

EndsOnce ==
  ~stranded' => /\ Ended => res' = res
                /\ Gone => phase' = "lobby"

\* Nobody starts a match alone.
LEMMA NobodyAlone == ~Startable({})
  <1>1. Cardinality({}) = 0
    BY FS_EmptySet
  <1> QED BY <1>1 DEF Startable, Players

\* Nothing is started and nothing is ended.
LEMMA PairKept ==
  ASSUME PairInv, UNCHANGED <<kind, phase, res>>, stranded => stranded',
         \/ busy' # "seats" /\ online' = {}
         \/ /\ busy = "seats" => busy' = "seats" \/ stranded'
            /\ online' \subseteq online /\ seated' \subseteq seated
  PROVE  PairInv' /\ EndsOnce
  <1>1. ReservedInLobby' /\ EndsOnce
    BY DEF PairInv, ReservedInLobby, EndsOnce, Ended, Gone, Quick
  <1>2. EndedIsEmpty'
    BY DEF PairInv, EndedIsEmpty, Ended
  <1> QED BY <1>1, <1>2 DEF PairInv

\* A match begins, is given up or is over: there was no reservation left to end.
LEMMA PairLeft ==
  ASSUME PairInv, ~(Ended /\ ~stranded), ~Gone \/ stranded', stranded' = stranded, kind' = kind,
         res' \in {"none", "locked"}
  PROVE  PairInv' /\ EndsOnce
  BY DEF PairInv, ReservedInLobby, EndedIsEmpty, EndsOnce, Ended, Gone, Quick

LEMMA HostStartEnds ==
  ASSUME PairInv, NEW p \in Person, HostStart(p)
  PROVE  PairInv' /\ EndsOnce
  <1>1. /\ busy = "idle" /\ online # {} /\ res # "reserved"
        /\ Startable(seated) /\ res' = "locked" /\ UNCHANGED <<stranded, kind>>
    BY DEF HostStart, Idle, StartMatch, generation, history
  <1>2. seated # {}
    BY <1>1, NobodyAlone
  <1>3. ~(Ended /\ ~stranded)
    BY <1>1, <1>2 DEF PairInv, EndedIsEmpty
  <1>4. Gone => Ended
    BY <1>1 DEF Gone, Ended
  <1> QED BY <1>1, <1>3, <1>4, PairLeft

LEMMA JoinEnds ==
  ASSUME PairInv, NEW p \in Person, Join(p)
  PROVE  PairInv' /\ EndsOnce
  <1>1. ~Gone /\ busy = "idle" /\ busy' = busy /\ UNCHANGED <<kind, stranded>>
    BY DEF Join, Idle, generation, history
  <1>2. ~Ended
    BY <1>1 DEF Gone, Ended, Quick, PairInv, ReservedInLobby
  <1>3. CASE \E r : StartMatch(r)
    <2>1. res' = "locked"
      BY <1>3 DEF StartMatch
    <2> QED BY <1>1, <1>2, <2>1, PairLeft
  <1>4. CASE UNCHANGED <<match, res, due>>
    BY <1>1, <1>2, <1>4 DEF match, PairInv, ReservedInLobby, EndedIsEmpty, EndsOnce, Ended
  <1> QED BY <1>3, <1>4 DEF Join

\* Both ways to end a pairing ask whether it is still reserved.
LEMMA EndEnds ==
  ASSUME PairInv, End \/ SchedulerCancel
  PROVE  PairInv' /\ EndsOnce
  <1>1. UNCHANGED <<kind, phase, stranded>>
    BY DEF End, EndReservation, SchedulerCancel, match, generation, history
  <1>2. CASE UNCHANGED res /\ busy' = "idle" /\ busy # "seats" /\ UNCHANGED <<online, seated>>
    BY <1>1, <1>2, PairKept
  <1>3. CASE /\ phase = "lobby" /\ res = "reserved" /\ res' \in {"expired", "cancelled"}
             /\ busy' = "seats" \/ seated' = {}
    BY <1>1, <1>3 DEF PairInv, ReservedInLobby, EndedIsEmpty, EndsOnce, Ended, Gone
  <1> QED BY <1>2, <1>3 DEF End, EndReservation, SchedulerCancel, people

LEMMA PairInit == ASSUME Init PROVE PairInv
  BY DEF Init, PairInv, ReservedInLobby, EndedIsEmpty, Ended, Quick

LEMMA PairNext ==
  ASSUME PairInv, [Next]_vars
  PROVE  PairInv' /\ EndsOnce
  <1> USE DEF match, people, engine, generation, history
  <1>1. ASSUME NEW p \in Person, Disconnect(p) \/ LeaveLobby(p)
        PROVE  PairInv' /\ EndsOnce
    <2>1. UNCHANGED <<kind, phase, res, stranded>> /\ busy # "seats"
          /\ online' \subseteq online /\ seated' \subseteq seated
      BY <1>1 DEF Disconnect, LeaveLobby, Idle
    <2> QED BY <2>1, PairKept
  <1>2. CASE Refresh
    <2>1. UNCHANGED <<kind, phase, res, stranded, seated>> /\ busy # "seats"
          /\ online' \subseteq online
      BY <1>2 DEF Refresh, Idle
    <2> QED BY <2>1, PairKept
  <1>3. CASE DropSeats \/ Restart
    <2>1. UNCHANGED <<kind, phase, res, stranded>> /\ online' = {} /\ busy' # "seats"
      BY <1>3 DEF DropSeats, Restart
    <2> QED BY <2>1, PairKept
  <1>4. CASE \/ Fire \/ ClockPasses \/ SwitchMode \/ Claim \/ Overdue \/ ExpireSeats
             \/ CaughtUp \/ Ask \/ AskFails \/ RetryFailed \/ ApplyFails \/ CommandFails
    <2> DEFINE Calm == /\ UNCHANGED <<kind, phase, res, online>> /\ seated' \subseteq seated
                       /\ busy = "seats" => busy' = "seats" \/ stranded'
                       /\ stranded => stranded'
    <2>1. ASSUME Fire \/ ClockPasses \/ SwitchMode PROVE Calm
      BY <2>1 DEF Fire, ClockPasses, SwitchMode, Idle
    <2>2. ASSUME Claim \/ Overdue \/ ExpireSeats \/ CaughtUp PROVE Calm
      BY <2>2 DEF Claim, Overdue, ExpireSeats, CaughtUp, CatchingUp
    <2>3. ASSUME Ask \/ AskFails \/ RetryFailed \/ ApplyFails PROVE Calm
      BY <2>3 DEF Ask, AskFails, RetryFailed, ApplyFails, Idle
    <2>4. ASSUME CommandFails PROVE Calm
      BY <2>4 DEF CommandFails
    <2>5. Calm
      BY <1>4, <2>1, <2>2, <2>3, <2>4
    <2> QED BY <2>5, PairKept
  <1>5. ASSUME phase # "lobby", UNCHANGED <<kind, stranded>>, res' \in {"none", res}
        PROVE  PairInv' /\ EndsOnce
    BY <1>5 DEF PairInv, ReservedInLobby, EndedIsEmpty, EndsOnce, Ended, Gone
  <1>6. CASE Interrupted \/ OpenCombat \/ CheckSurvivors \/ Settle \/ \E p \in Person : Rematch(p) \/ Forfeit(p)
    <2>1. CASE phase # "lobby"
      BY <1>5, <1>6, <2>1 DEF Interrupted, OpenCombat, CheckSurvivors, Settle, Rematch, Forfeit,
                              Abort, Finish
    <2>2. CASE phase = "lobby"
      <3>1. CheckSurvivors /\ UNCHANGED <<kind, phase, res, stranded, online, seated>>
            /\ busy # "seats"
        BY <1>6, <2>2 DEF Interrupted, OpenCombat, CheckSurvivors, Settle, Rematch, Forfeit,
                          Generating
      <3> QED BY <3>1, PairKept
    <2> QED BY <2>1, <2>2
  <1>7. ASSUME NEW ok \in BOOLEAN, Apply(ok)
        PROVE  PairInv' /\ EndsOnce
    <2>1. CASE phase = "generating"
      BY <1>5, <1>7, <2>1 DEF Apply, Abort
    <2>2. CASE phase # "generating"
      BY <1>7, <2>2, PairKept DEF Apply, Idle
    <2> QED BY <2>1, <2>2
  <1>8. CASE UNCHANGED vars
    BY <1>8, PairKept DEF vars
  <1> QED BY <1>1, <1>2, <1>3, <1>4, <1>6, <1>7, <1>8, HostStartEnds, JoinEnds, EndEnds
             DEF Next, CatchUp

\* What ended a pairing stays, and an ended or overdue one starts no match, whatever timers,
\* leaves, drains and restarts race (reservation.ts 31, rules.ts 60).
THEOREM PairingEndsOnceHolds == Spec => PairingEndsOnce
  <1>1. PairInv /\ [Next]_vars =>
          [~stranded' => /\ res \in {"cancelled", "expired"} => res' = res
                         /\ Gone => phase' = "lobby"]_vars
    BY PairNext DEF EndsOnce, Ended
  <1>2. PairInv /\ [Next]_vars => PairInv'
    BY PairNext
  <1> QED BY PairInit, <1>1, <1>2, PTL DEF Spec, PairingEndsOnce

------------------------------------------------------------------------------
(* Books *)

\* Whatever is played is played with the book of this very match, which the provider was
\* asked for exactly once; a ghost brought it along and the provider was not asked.
BookIsCurrent ==
  phase \in {"countdown", "playing", "finished"} =>
    book = seq /\ seq # 0 /\ calls[seq] = IF kind = "ghost" THEN 0 ELSE 1

AskedIsPaid == attempt.st = "asked" => calls[attempt.token] = 1

GhostIsUnasked ==
  kind = "ghost" => /\ phase # "generating" /\ attempt.st \notin {"reading", "asked"}
                    /\ \A n \in 1..MaxMatches : calls[n] = 0

BookInv == BookIsCurrent /\ AskedIsPaid /\ GhostIsUnasked

LEMMA BookKept ==
  ASSUME PaidInv, BookInv, UNCHANGED <<kind, seq, calls>>,
         \/ phase' = phase /\ book' = book
         \/ phase = "countdown" /\ phase' = "playing" /\ book' = book
         \/ phase = "playing" /\ phase' = "finished" /\ book' = book
         \/ phase' = "lobby",
         attempt' = attempt \/ attempt'.st \notin {"reading", "asked"}
  PROVE  BookInv'
  BY DEF BookInv, BookIsCurrent, AskedIsPaid, GhostIsUnasked

LEMMA StartBook ==
  ASSUME PaidInv, BookInv, NEW r, phase = "lobby", StartMatch(r),
         UNCHANGED <<kind, attempt, calls>>
  PROVE  BookInv'
  <1>1. seq' = seq + 1 /\ seq < MaxMatches /\ seq \in Nat /\ seq' \in 1..MaxMatches
    BY LifecycleAssumption DEF StartMatch, Startable, PaidInv, Types
  <1>2. \/ kind = "ghost" /\ phase' = "countdown" /\ book' = seq'
        \/ kind # "ghost" /\ phase' = "generating"
    BY <1>1 DEF StartMatch
  <1> QED BY <1>1, <1>2 DEF BookInv, BookIsCurrent, AskedIsPaid, GhostIsUnasked

LEMMA ClaimBook ==
  ASSUME PaidInv, BookInv, Claim
  PROVE  BookInv'
  <1>1. phase = "generating" /\ attempt'.st = "reading" /\ UNCHANGED <<kind, phase, seq, calls>>
    BY DEF Claim, Generating, history
  <1> QED BY <1>1 DEF BookInv, BookIsCurrent, AskedIsPaid, GhostIsUnasked

LEMMA AskBook ==
  ASSUME PaidInv, BookInv, Ask
  PROVE  BookInv'
  <1>1. attempt.st = "reading" /\ UNCHANGED <<kind, phase, seq, book, token>>
    BY DEF Ask, match
  <1>2. CASE /\ Generating /\ token = attempt.token
             /\ attempt' = [attempt EXCEPT !.st = "asked"]
             /\ calls' = [calls EXCEPT ![token] = @ + 1]
    <2>1. /\ token \in 1..MaxMatches /\ calls[token] = 0 /\ phase = "generating"
          /\ calls \in [1..MaxMatches -> Nat]
      BY <1>1, <1>2 DEF PaidInv, Types, TokenIsCurrent, ReadingIsUnpaid, Generating
    <2>2. attempt'.st = "asked" /\ attempt'.token = token /\ calls'[token] = 1
      BY <1>2, <2>1 DEF PaidInv, Types
    <2>3. kind # "ghost"
      BY <2>1 DEF BookInv, GhostIsUnasked
    <2> QED BY <1>1, <2>1, <2>2, <2>3 DEF BookInv, BookIsCurrent, AskedIsPaid, GhostIsUnasked
  <1>3. CASE attempt' = NoAttempt /\ UNCHANGED calls
    BY <1>1, <1>3, BookKept DEF NoAttempt
  <1> QED BY <1>2, <1>3 DEF Ask

LEMMA ApplyBook ==
  ASSUME PaidInv, BookInv, NEW ok \in BOOLEAN, Apply(ok)
  PROVE  BookInv'
  <1>1. /\ attempt.st = "asked" /\ attempt'.st = "none" /\ UNCHANGED <<kind, calls>>
    BY DEF Apply, NoAttempt, history
  <1>2. CASE UNCHANGED match
    BY <1>1, <1>2, BookKept DEF match
  <1>3. CASE Abort
    BY <1>1, <1>3, BookKept DEF Abort
  <1>4. CASE /\ phase = "generating" /\ token = attempt.token /\ phase' = "countdown"
             /\ book' = token /\ seq' = seq
    <2>1. token = seq /\ seq # 0  BY <1>4 DEF PaidInv, TokenIsCurrent
    <2>2. calls[seq] = 1  BY <1>1, <1>4, <2>1 DEF BookInv, AskedIsPaid
    <2>3. kind # "ghost"  BY <1>4 DEF BookInv, GhostIsUnasked
    <2> QED BY <1>1, <1>4, <2>1, <2>2, <2>3
            DEF BookInv, BookIsCurrent, AskedIsPaid, GhostIsUnasked
  <1> QED BY <1>2, <1>3, <1>4 DEF Apply

LEMMA BookInit == ASSUME Init PROVE BookInv
  BY DEF Init, BookInv, BookIsCurrent, AskedIsPaid, GhostIsUnasked, NoAttempt

LEMMA BookNext ==
  ASSUME PaidInv, BookInv, [Next]_vars
  PROVE  BookInv'
  <1>1. ASSUME NEW p \in Person, HostStart(p)
        PROVE  BookInv'
    BY <1>1, StartBook DEF HostStart, generation, history
  <1>2. ASSUME NEW p \in Person, Join(p)
        PROVE  BookInv'
    <2>1. UNCHANGED <<kind, attempt, calls>>
      BY <1>2 DEF Join, generation, history
    <2>2. CASE UNCHANGED match
      BY <2>1, <2>2, BookKept DEF match
    <2>3. CASE phase = "lobby" /\ \E r : StartMatch(r)
      BY <2>1, <2>3, StartBook
    <2> QED BY <1>2, <2>2, <2>3 DEF Join
  <1>3. ASSUME NEW p \in Person, Disconnect(p) \/ LeaveLobby(p)
        PROVE  BookInv'
    BY <1>3, BookKept DEF Disconnect, LeaveLobby, match, generation, history
  <1>4. CASE SchedulerCancel \/ Refresh \/ DropSeats \/ Fire \/ ClockPasses \/ SwitchMode
    BY <1>4, BookKept DEF SchedulerCancel, Refresh, DropSeats, Fire, ClockPasses, SwitchMode,
                          match, generation, history
  <1>5. CASE End \/ CommandFails \/ Overdue \/ ExpireSeats \/ CaughtUp
    BY <1>5, BookKept DEF End, EndReservation, CommandFails, Overdue, ExpireSeats, CaughtUp,
                          match, generation, history
  <1>6. ASSUME NEW p \in Person, Rematch(p) \/ Forfeit(p)
        PROVE  BookInv'
    <2>1. UNCHANGED <<kind, seq, calls, attempt>>
      BY <1>6 DEF Rematch, Forfeit, Finish, generation, history
    <2>2. \/ phase' = phase /\ book' = book
          \/ phase = "playing" /\ phase' = "finished" /\ book' = book
          \/ phase' = "lobby"
      BY <1>6 DEF Rematch, Forfeit, Finish
    <2> QED BY <2>1, <2>2, BookKept
  <1>7. CASE Interrupted \/ OpenCombat \/ CheckSurvivors \/ Settle
    <2>1. UNCHANGED <<kind, seq, calls, attempt>>
      BY <1>7 DEF Interrupted, OpenCombat, CheckSurvivors, Settle, Abort, Finish, generation,
                  history
    <2>2. \/ phase' = phase /\ book' = book
          \/ phase = "countdown" /\ phase' = "playing" /\ book' = book
          \/ phase = "playing" /\ phase' = "finished" /\ book' = book
          \/ phase' = "lobby"
      BY <1>7 DEF Interrupted, OpenCombat, CheckSurvivors, Settle, Abort, Finish
    <2> QED BY <2>1, <2>2, BookKept
  <1>8. CASE Restart \/ AskFails \/ RetryFailed \/ ApplyFails
    <2>1. attempt'.st \notin {"reading", "asked"}
      BY <1>8 DEF Restart, AskFails, RetryFailed, ApplyFails, NoAttempt, PaidInv, Types
    <2> QED BY <1>8, <2>1, BookKept
            DEF Restart, AskFails, RetryFailed, ApplyFails, match, engine, history
  <1>9. CASE UNCHANGED vars
    BY <1>9, BookKept DEF vars, match, generation, history
  <1> QED BY <1>1, <1>2, <1>3, <1>4, <1>5, <1>6, <1>7, <1>8, <1>9, ClaimBook, AskBook, ApplyBook
          DEF Next, CatchUp

\* No match is played with the book of another one, or with one that nobody, or that two
\* attempts, paid for (spellbook.ts 63-88, match.ts startMatchTx).
THEOREM BookIsCurrentHolds == Spec => []BookIsCurrent
  <1>1. BookInv => BookIsCurrent
    BY DEF BookInv
  <1> QED BY PaidInit, PaidNext, BookInit, BookNext, <1>1, PTL DEF Spec

------------------------------------------------------------------------------
(* Seats *)

\* From its start on a match has the seats of those who had come, and who gives it up
\* keeps the seat.  Whoever is connected has been seated, except in a pairing that has
\* ended and whose sockets are still to be closed.
RosterStands ==
  /\ seated \subseteq rows
  /\ phase # "lobby" => rows = seated /\ out \subseteq rows
  /\ stranded \/ Ended \/ online \subseteq seated

\* Seats are dropped in a lobby only.
DroppedInLobby == busy = "seats" => phase = "lobby"

RosterInv == RosterStands /\ DroppedInLobby

\* A start takes the seats over.
LEMMA StartRoster ==
  ASSUME NEW r, StartMatch(r), busy' # "seats", online' \subseteq r \/ stranded'
  PROVE  RosterInv'
  BY DEF StartMatch, RosterInv, RosterStands, DroppedInLobby

LEMMA JoinRoster ==
  ASSUME RosterInv, PairInv, NEW p \in Person, Join(p)
  PROVE  RosterInv'
  <1>1. /\ ~Gone /\ busy = "idle" /\ busy' = busy /\ UNCHANGED <<kind, stranded>>
        /\ online' = online \cup {p}
        /\ p \in rows \/ phase = "lobby"
    BY DEF Join, Idle, generation, history
  <1>2. ~Ended
    BY <1>1 DEF Gone, Ended, Quick, PairInv, ReservedInLobby
  <1>3. CASE StartMatch(rows \cup {p})
    <2>1. online' \subseteq rows \cup {p} \/ stranded'
      BY <1>1, <1>2 DEF RosterInv, RosterStands
    <2> QED BY <1>1, <1>3, <2>1, StartRoster
  <1>4. CASE /\ rows' = rows \cup {p} /\ seated' = seated \cup {p}
             /\ UNCHANGED <<match, res, due>>
    <2>1. UNCHANGED <<phase, out, res>>
      BY <1>4 DEF match
    <2> QED BY <1>1, <1>2, <1>4, <2>1 DEF RosterInv, RosterStands, DroppedInLobby
  <1> QED BY <1>3, <1>4 DEF Join

LEMMA HostStartRoster ==
  ASSUME RosterInv, PairInv, NEW p \in Person, HostStart(p)
  PROVE  RosterInv'
  <1>1. /\ busy = "idle" /\ busy' = busy /\ online # {} /\ StartMatch(seated)
        /\ UNCHANGED <<online, stranded>>
    BY DEF HostStart, Idle, engine, generation, history
  <1>2. seated # {}
    BY <1>1, NobodyAlone DEF StartMatch
  <1>3. online \subseteq seated \/ stranded
    BY <1>1, <1>2 DEF PairInv, EndedIsEmpty, RosterInv, RosterStands
  <1> QED BY <1>1, <1>3, StartRoster

\* Nobody gets a seat, and whoever loses one loses it in a lobby.
LEMMA RosterKept ==
  ASSUME RosterInv, UNCHANGED <<phase, out>>, stranded => stranded',
         Ended => Ended',
         \/ UNCHANGED <<rows, seated>> /\ online' \subseteq online
         \/ phase = "lobby" /\ seated' \subseteq rows' /\ online' = {}
         \/ phase = "lobby" /\ \E gone : /\ rows' = rows \ gone /\ seated' = seated \ gone
                                         /\ online' \subseteq online \ gone,
         busy' = "seats" => phase = "lobby"
  PROVE  RosterInv'
  BY DEF RosterInv, RosterStands, DroppedInLobby

LEMMA RosterInit == ASSUME Init PROVE RosterInv
  BY DEF Init, RosterInv, RosterStands, DroppedInLobby

LEMMA RosterNext ==
  ASSUME RosterInv, PairInv, [Next]_vars
  PROVE  RosterInv'
  <1> USE DEF match, people, engine, generation, history
  <1>1. ASSUME NEW p \in Person, Disconnect(p) \/ LeaveLobby(p)
        PROVE  RosterInv'
    <2>1. UNCHANGED <<phase, out, stranded, res>> /\ busy' # "seats"
      BY <1>1 DEF Disconnect, LeaveLobby, Idle
    <2>2. CASE UNCHANGED <<rows, seated>> /\ online' \subseteq online
      BY <2>1, <2>2, RosterKept DEF Ended
    <2>3. CASE /\ phase = "lobby" /\ rows' = rows \ {p} /\ seated' = seated \ {p}
               /\ online' = online \ {p}
      <3>1. \E gone : /\ rows' = rows \ gone /\ seated' = seated \ gone
                      /\ online' \subseteq online \ gone
        BY <2>3
      <3> QED BY <2>1, <2>3, <3>1, RosterKept DEF Ended
    <2> QED BY <1>1, <2>2, <2>3 DEF Disconnect, LeaveLobby
  <1>2. CASE Refresh \/ DropSeats \/ Restart
    <2>1. UNCHANGED <<phase, out, stranded, res>> /\ busy' # "seats"
      BY <1>2 DEF Refresh, DropSeats, Restart, Idle
    <2>2. CASE Refresh \/ Restart
      <3>1. UNCHANGED <<rows, seated>> /\ online' \subseteq online
        BY <2>2 DEF Refresh, Restart
      <3> QED BY <2>1, <3>1, RosterKept DEF Ended
    <2>3. CASE DropSeats
      <3>1. phase = "lobby" /\ rows' = {} /\ seated' = {} /\ online' = {}
        BY <2>3 DEF DropSeats, RosterInv, DroppedInLobby
      <3> QED BY <2>1, <3>1, RosterKept DEF Ended
    <2> QED BY <1>2, <2>2, <2>3
  <1>3. ASSUME UNCHANGED <<phase, out, res, rows, seated, online>>, stranded => stranded',
               busy' = busy \/ busy' # "seats"
        PROVE  RosterInv'
    BY <1>3, RosterKept DEF Ended, RosterInv, DroppedInLobby
  <1>4. CASE \/ Fire \/ ClockPasses \/ SwitchMode \/ Claim \/ Overdue \/ CaughtUp
             \/ CommandFails \/ Ask \/ AskFails \/ RetryFailed \/ ApplyFails
    <2>1. CASE Fire \/ ClockPasses \/ SwitchMode
      BY <1>3, <2>1 DEF Fire, ClockPasses, SwitchMode
    <2>2. CASE Claim \/ Overdue \/ CaughtUp \/ CommandFails
      BY <1>3, <2>2 DEF Claim, Overdue, CaughtUp, CommandFails
    <2>3. CASE Ask \/ AskFails \/ RetryFailed \/ ApplyFails
      BY <1>3, <2>3 DEF Ask, AskFails, RetryFailed, ApplyFails
    <2> QED BY <1>4, <2>1, <2>2, <2>3
  <1>5. CASE ExpireSeats
    <2>1. PICK gone \in (SUBSET (rows \ online)) \ {{}} :
            rows' = rows \ gone /\ seated' = seated \ gone
      BY <1>5 DEF ExpireSeats
    <2>2. online \subseteq online \ gone  BY <2>1
    <2>3. /\ UNCHANGED <<phase, out, stranded, res, online, busy>> /\ phase = "lobby"
          /\ busy = "catchup"
      BY <1>5 DEF ExpireSeats, CatchingUp
    <2> QED BY <2>1, <2>2, <2>3, RosterKept DEF Ended
  <1>6. CASE End \/ SchedulerCancel
    <2>1. CASE UNCHANGED <<res, rows, seated, online, phase, out, stranded>> /\ busy' = "idle"
      BY <2>1, RosterKept DEF Ended
    <2>2. CASE /\ phase = "lobby" /\ res' \in {"expired", "cancelled"} /\ UNCHANGED phase
               /\ UNCHANGED <<rows, seated>> \/ (rows' = {} /\ seated' = {})
      BY <2>2 DEF RosterInv, RosterStands, DroppedInLobby, Ended
    <2> QED BY <1>6, <2>1, <2>2 DEF End, EndReservation, SchedulerCancel
  <1>7. CASE \/ Interrupted \/ OpenCombat \/ CheckSurvivors \/ Settle
             \/ (\E p \in Person : Rematch(p) \/ Forfeit(p))
             \/ (\E ok \in BOOLEAN : Apply(ok))
    <2>1. CASE phase # "lobby"
      <3>1. ~Ended  BY <2>1 DEF PairInv, ReservedInLobby, Ended
      <3>2. UNCHANGED <<rows, seated, stranded>> /\ online' \subseteq online
        BY <1>7 DEF Interrupted, OpenCombat, CheckSurvivors, Settle, Rematch, Forfeit, Apply
      <3>3. busy' # "seats"
        BY <1>7, <2>1 DEF Interrupted, OpenCombat, CheckSurvivors, Settle, Rematch, Forfeit,
                          Apply, CatchingUp, Idle
      <3>4. phase' # "lobby" => out' \subseteq rows
        <4>1. out' = out \/ \E p \in rows : out' = out \cup {p}
          BY <1>7 DEF Interrupted, OpenCombat, CheckSurvivors, Settle, Rematch, Forfeit, Apply,
                      Abort, Finish
        <4> QED BY <2>1, <4>1 DEF RosterInv, RosterStands
      <3> QED BY <2>1, <3>1, <3>2, <3>3, <3>4 DEF RosterInv, RosterStands, DroppedInLobby
    <2>2. CASE phase = "lobby"
      <3>1. UNCHANGED <<phase, out, res, rows, seated, online, stranded>> /\ busy' # "seats"
        BY <1>7, <2>2 DEF Interrupted, OpenCombat, CheckSurvivors, Settle, Rematch, Forfeit,
                          Apply, Generating, Idle
      <3> QED BY <3>1, RosterKept DEF Ended
    <2> QED BY <2>1, <2>2
  <1>8. CASE UNCHANGED vars
    BY <1>8, RosterKept DEF vars, Ended, RosterInv, DroppedInLobby
  <1> QED BY <1>1, <1>2, <1>4, <1>5, <1>6, <1>7, <1>8, JoinRoster, HostStartRoster
          DEF Next, CatchUp

\* The roster of a match does not change while it lasts, whoever leaves or comes back, and
\* nobody is connected to a room without a seat in it (match.ts, leave.ts, engine.ts join).
THEOREM RosterStandsHolds == Spec => []RosterStands
  <1>1. RosterInv => RosterStands
    BY DEF RosterInv
  <1>2. PairInv /\ [Next]_vars => PairInv'
    BY PairNext
  <1> QED BY PairInit, <1>2, RosterInit, RosterNext, <1>1, PTL DEF Spec

------------------------------------------------------------------------------
(* Types *)

Flags == due \in BOOLEAN /\ known \in BOOLEAN /\ timer \in BOOLEAN

\* What the next command works on.
Places ==
  /\ phase \in {"lobby", "generating", "countdown", "playing", "finished"}
  /\ res \in {"none", "reserved", "locked", "cancelled", "expired"}
  /\ busy \in {"idle", "catchup", "opened", "expire", "cancel", "seats"}
  /\ mode \in {"open", "draining"}

\* Matches are named by numbers up to the bound.
Names == {seq, token, claim, book, inFlight, attempt.token} \subseteq 0..MaxMatches

Crowd == online \cup seated \cup rows \cup out \subseteq Person

Typed ==
  /\ Flags /\ Places /\ Names /\ Crowd
  /\ troubles \in 0..MaxTroubles /\ kind \in {"private", "quick", "bot", "ghost"}

LEMMA ArmFlags == ASSUME Arm PROVE known' \in BOOLEAN /\ timer' \in BOOLEAN
  BY ZenonT(30) DEF Arm, Alarm

\* What a step can assign, whichever it is.
LEMMA Assigned ==
  ASSUME [Next]_vars
  PROVE  /\ phase' \in {phase, "lobby", "generating", "countdown", "playing", "finished"}
         /\ res' \in {res, "none", "locked", "cancelled", "expired"}
         /\ busy' \in {busy, "idle", "catchup", "opened", "expire", "cancel", "seats"}
         /\ mode' \in {mode, "open", "draining"}
         /\ claim' \in {claim, token, 0} /\ book' \in {book, token, 0, seq'}
         /\ inFlight' \in {inFlight, token, 0}
         /\ kind' = kind /\ (troubles' = troubles \/ Trouble)
  <1> USE DEF Next, vars, match, engine, generation, HostStart, StartMatch, Rematch, Join,
              Disconnect, LeaveLobby, Forfeit, ArmAfterLeave, Finish, SchedulerCancel, Refresh, End,
              EndReservation, DropSeats, Fire, CatchUp, Claim, Interrupted, Abort, OpenCombat,
              CheckSurvivors, Settle, Overdue, ExpireSeats, CaughtUp, CommandFails, Ask,
              AskFails, RetryFailed, Apply, ApplyFails, ClockPasses, SwitchMode, Restart
  <1>1. phase' \in {phase, "lobby", "generating", "countdown", "playing", "finished"}
    OBVIOUS
  <1>2. res' \in {res, "none", "locked", "cancelled", "expired"}
    OBVIOUS
  <1>3. busy' \in {busy, "idle", "catchup", "opened", "expire", "cancel", "seats"}
    OBVIOUS
  <1>4. mode' \in {mode, "open", "draining"}
    OBVIOUS
  <1>5. claim' \in {claim, token, 0} /\ book' \in {book, token, 0, seq'}
    OBVIOUS
  <1>6. inFlight' \in {inFlight, token, 0}
    OBVIOUS
  <1>7. kind' = kind /\ (troubles' = troubles \/ Trouble)
    OBVIOUS
  <1> QED BY <1>1, <1>2, <1>3, <1>4, <1>5, <1>6, <1>7

LEMMA FlagsAssigned ==
  ASSUME [Next]_vars
  PROVE  /\ due' \in {due, TRUE, FALSE}
         /\ \/ Arm
            \/ known' \in {known, TRUE, Recovered} /\ timer' \in {timer, TRUE, FALSE}
  <1> USE DEF Next, vars, match, engine, generation, HostStart, StartMatch, Rematch, Join,
              Disconnect, LeaveLobby, Forfeit, ArmAfterLeave, Finish, SchedulerCancel, Refresh, End,
              EndReservation, DropSeats, Fire, CatchUp, Claim, Interrupted, Abort, OpenCombat,
              CheckSurvivors, Settle, Overdue, ExpireSeats, CaughtUp, CommandFails, Ask,
              AskFails, RetryFailed, Apply, ApplyFails, ClockPasses, SwitchMode, Restart
  <1>1. due' \in {due, TRUE, FALSE}
    OBVIOUS
  <1>2. \/ Arm
        \/ known' \in {known, TRUE, Recovered} /\ timer' \in {timer, TRUE, FALSE}
    OBVIOUS
  <1> QED BY <1>1, <1>2

LEMMA FlagsNext ==
  ASSUME Flags, [Next]_vars
  PROVE  Flags'
  <1>1. due' \in BOOLEAN
    BY FlagsAssigned DEF Flags
  <1>2. Recovered \in BOOLEAN
    BY Zenon DEF Recovered
  <1>3. known' \in BOOLEAN /\ timer' \in BOOLEAN
    BY <1>2, FlagsAssigned, ArmFlags, Zenon DEF Flags
  <1> QED BY <1>1, <1>3 DEF Flags

LEMMA CrowdNext ==
  ASSUME Crowd, [Next]_vars
  PROVE  Crowd'
  <1>1. ASSUME NEW p \in Person, HostStart(p) \/ Rematch(p) \/ Join(p)
        PROVE  Crowd'
    BY <1>1 DEF HostStart, Rematch, Join, StartMatch, Crowd, match, people
  <1>2. ASSUME NEW p \in Person, Disconnect(p) \/ LeaveLobby(p) \/ Forfeit(p)
        PROVE  Crowd'
    BY <1>2 DEF Disconnect, LeaveLobby, Forfeit, Crowd, match, people
  <1>3. CASE SchedulerCancel \/ Refresh \/ End \/ DropSeats \/ Fire \/ CommandFails
    BY <1>3 DEF SchedulerCancel, Refresh, End, EndReservation, DropSeats, Fire, CommandFails,
                Crowd, match, people
  <1>4. CASE CatchUp
    BY <1>4 DEF CatchUp, Claim, Interrupted, Abort, OpenCombat, CheckSurvivors, Settle, Finish, Overdue,
                ExpireSeats, CaughtUp, Crowd, match, people
  <1>5. CASE \/ Ask \/ AskFails \/ RetryFailed \/ (\E ok \in BOOLEAN : Apply(ok)) \/ ApplyFails
             \/ ClockPasses \/ SwitchMode \/ Restart \/ UNCHANGED vars
    BY <1>5 DEF Ask, AskFails, RetryFailed, Apply, Abort, ApplyFails, ClockPasses, SwitchMode,
                Restart, vars, Crowd, match, people
  <1> QED BY <1>1, <1>2, <1>3, <1>4, <1>5 DEF Next

\* Every variable of the room stays within its declared values.
THEOREM TypeCorrect == Spec => []TypeOK
  <1>1. Init => Typed
    <2>1. Init => Names /\ Places /\ troubles \in 0..MaxTroubles
      BY LifecycleAssumption DEF Init, Names, Places, NoAttempt
    <2>2. Init => Crowd
      BY LifecycleAssumption DEF Init, Crowd
    <2>3. Init => Flags
      BY Zenon DEF Init, Flags, Quick
    <2>4. Init => kind \in {"private", "quick", "bot", "ghost"}
      BY DEF Init
    <2> QED BY <2>1, <2>2, <2>3, <2>4 DEF Typed
  <1>2. PaidInv /\ PaidInv' /\ Typed /\ [Next]_vars => Typed'
    <2> SUFFICES ASSUME PaidInv, PaidInv', Typed, [Next]_vars  PROVE Typed'
      OBVIOUS
    <2>1. Places' /\ kind' \in {"private", "quick", "bot", "ghost"}
      BY Assigned DEF Typed, Places
    <2>2. {seq', token', attempt'.token} \subseteq 0..MaxMatches
      BY DEF PaidInv, Types
    <2>3. Names'
      BY <2>2, Assigned, LifecycleAssumption DEF Typed, Names
    <2>4. troubles' \in 0..MaxTroubles
      BY Assigned, LifecycleAssumption DEF Typed, Trouble
    <2> QED BY <2>1, <2>3, <2>4, FlagsNext, CrowdNext DEF Typed
  <1>3. PaidInv /\ Typed => TypeOK
    BY DEF TypeOK, Typed, Flags, Places, Names, Crowd, PaidInv, Types
  <1>4. PaidInv /\ [Next]_vars => PaidInv'
    BY PaidNext
  <1> QED BY PaidInit, <1>4, <1>1, <1>2, <1>3, PTL DEF Spec
=============================================================================
