---------------------------- MODULE Matchmaking ----------------------------
(***************************************************************************)
(* The quick-match queue: tickets keyed by account, polls that join, renew *)
(* and pair, cancellation, and what the room engine does to the rooms that *)
(* tickets name.                                                           *)
(*                                                                         *)
(* A poll is a chain of transactions and a cancellation a loop of them.    *)
(* Each transaction reads without locks, locks rooms before tickets and    *)
(* tickets by ascending account, reads again and decides; every one of     *)
(* these is a step here, so requests of the same and of other accounts,    *)
(* the engine, the clock and drains interleave inside them.  The time a    *)
(* transaction works with is the one at its start.  Ownership is the       *)
(* subject of RuntimeControl; a lost owner is a Crash of all requests.     *)
(***************************************************************************)
EXTENDS Integers, FiniteSets, Sequences

CONSTANTS
  User,         \* accounts, numbered: tickets are locked in this order
  Room,         \* room ids
  Request,      \* requests that can be in flight together
  None,         \* no room, no account
  Quitter,      \* accounts that may cancel, and leave rooms
  TicketTicks,  \* QUEUE_ENTRY_TTL_MS in ticks
  HoldTicks,    \* RESERVATION_TTL_MS in ticks
  PatienceTicks,\* QUICK_GHOST_FALLBACK_MS in ticks
  Passes,       \* PASSES: rounds of re-reading
  MaxRestarts,  \* bound: matches of a room after its first
  Prompt,       \* accounts whose client polls in time, one request at a time
  Drains,       \* whether operators drain the server
  Crashes,      \* whether the process may die
  Reuse         \* whether Room stands for ever new ids, or is all there will be

\* At any time there are finitely many accounts, so one is the last in the order of locks.
ASSUME UserAssumption ==
  /\ User \subseteq Nat /\ Quitter \subseteq User
  /\ Prompt \subseteq User \cap Request
  /\ User = {} \/ \E last \in User : \A u \in User : u <= last
ASSUME NoneAssumption == None \notin User \cup Room /\ User \cap Room = {}
\* A transaction lasts at most one tick, which is less than the time of a ticket.
ASSUME TickAssumption ==
  TicketTicks \in Nat \ {0, 1} /\ HoldTicks \in Nat \ {0} /\ PatienceTicks \in Nat \ {0}
ASSUME BoundAssumption ==
  Passes \in Nat \ {0} /\ MaxRestarts \in Nat
  /\ Drains \in BOOLEAN /\ Crashes \in BOOLEAN /\ Reuse \in BOOLEAN

VARIABLES
  ticket,       \* match_tickets: state, room, ticks left, ticks since created_at
  room,         \* quick rooms with their seats and the departures of their match
  open,         \* runtime_control.mode = "open"
  req,          \* requests in flight
  said,         \* what the last step answered to whom
  alone         \* history: ticks an account's ticket has been queued without a lapse

vars == <<ticket, room, open, req, said, alone>>

NoTicket == [state |-> "none", room |-> None, ttl |-> 0, age |-> 0]
NoRoom == [phase |-> "none", res |-> "none", hold |-> 0, seats |-> {}, departed |-> {},
           bot |-> FALSE, restarts |-> 0]
NoRequest == [user |-> None, pc |-> "idle", pass |-> 0, seen |-> "none", in |-> None,
              other |-> None, want |-> <<>>, have |-> {}, lag |-> 0]
Silence == [user |-> None, answer |-> "none"]

\* Program counters of a request between two transactions and inside one.
Between == {"idle", "inspect", "refresh", "pair", "synthetic", "cancel", "cancelonce", "lastread"}
Inside == {"inspecting", "refreshing", "pairing", "assigning", "seating",
           "cancelling", "releasing"}
Answers == {"none", "matched", "waiting", "cancelled", "kept", "refused", "gone"}

Lesser(a, b) == IF a < b THEN a ELSE b
Greater(a, b) == IF a < b THEN b ELSE a

-----------------------------------------------------------------------------
(* What the code reads *)

\* A waiting ticket that has not expired for the transaction of q.
LiveFor(q, u) == ticket[u].state = "waiting" /\ ticket[u].ttl + req[q].lag > 0

Reserved(r) == room[r].phase = "lobby" /\ room[r].res = "reserved"

\* seatHeld
SeatHeld(r, u) ==
  \/ room[r].phase = "active" /\ u \notin room[r].departed
  \/ Reserved(r) /\ room[r].hold > 0

Matched(u, r) == ticket[u].state = "matched" /\ ticket[u].room = r

Locked(x) == \E q \in Request : x \in req[q].have

\* Accounts in the order their tickets are locked.
LockOrder(u, v) == IF u < v THEN <<u, v>> ELSE <<v, u>>

-----------------------------------------------------------------------------
Init ==
  /\ ticket = [u \in User |-> NoTicket]
  /\ room = [r \in Room |-> NoRoom]
  /\ open = TRUE
  /\ req = [q \in Request |-> NoRequest]
  /\ said = Silence
  /\ alone = [u \in User |-> 0]

-----------------------------------------------------------------------------
(* Steps of a request *)

\* A transaction ends, its locks are released, and the handler goes on at pc.
Goto(q, pc) ==
  /\ req' = [req EXCEPT ![q] = [NoRequest EXCEPT !.user = req[q].user, !.pc = pc]]
  /\ said' = Silence

Reply(q, a) ==
  /\ req' = [req EXCEPT ![q] = NoRequest]
  /\ said' = [user |-> req[q].user, answer |-> a]

\* "retry": the same transaction again, until the passes are used up.
Again(q, pc, exhausted) ==
  IF req[q].pass + 1 < Passes
  THEN /\ req' = [req EXCEPT ![q] = [NoRequest EXCEPT !.user = req[q].user, !.pc = pc,
                                                      !.pass = req[q].pass + 1]]
       /\ said' = Silence
  ELSE Goto(q, exhausted)

\* A read without locks; the transaction then locks the rows of want one by one.
Peek(q, pc, other, want) ==
  LET t == ticket[req[q].user] IN
  /\ req' = [req EXCEPT ![q] = [@ EXCEPT !.pc = pc, !.seen = t.state, !.in = t.room,
                                         !.other = other, !.want = want]]
  /\ said' = Silence
  /\ UNCHANGED <<ticket, room, open, alone>>

\* Mutant: both tickets are locked before either is looked at.
NextRow_BothFirst(q) == IF req[q].want # <<>> THEN {Head(req[q].want)} ELSE {}

\* The row a transaction locks next; a pairing stops at a ticket that is gone.
NextRow(q) ==
  IF \/ req[q].want = <<>>
     \/ req[q].pc = "pairing" /\ \E v \in req[q].have : ~LiveFor(q, v)
  THEN {} ELSE {Head(req[q].want)}

\* SELECT ... FOR UPDATE of the next row.
Lock(q) ==
  /\ NextRow(q) # {}
  /\ ~Locked(Head(req[q].want))
  /\ req' = [req EXCEPT ![q].have = @ \cup {Head(req[q].want)}, ![q].want = Tail(@)]
  /\ said' = Silence
  /\ UNCHANGED <<ticket, room, open, alone>>

Holds(q, pc) == req[q].pc = pc /\ req[q].want = <<>>

\* The locked row is the one that was read.
StillSeen(q) ==
  LET t == ticket[req[q].user] IN t.state = req[q].seen /\ t.room = req[q].in

Drop(us) ==
  /\ ticket' = [u \in User |-> IF u \in us THEN NoTicket ELSE ticket[u]]
  /\ alone' = [u \in User |-> IF u \in us THEN 0 ELSE alone[u]]

Keep == UNCHANGED <<ticket, alone>>

\* Bound: where ids do not come back, nobody joins who could not be seated any more.
Seatable(u) ==
  \/ Reuse \/ ticket[u].state = "waiting"
  \/ Cardinality({v \in User : ticket[v].state = "waiting" \/ \E q \in Request : req[q].user = v})
       < Cardinality({r \in Room : room[r].phase = "none"})

\* A prompt client waits for its answer before it asks again: its requests have its number.
Arrive(q, u, pc) ==
  /\ req[q].pc = "idle"
  /\ q \in Prompt \/ u \in Prompt => q = u
  /\ req' = [req EXCEPT ![q] = [NoRequest EXCEPT !.user = u, !.pc = pc]]
  /\ said' = Silence
  /\ UNCHANGED <<ticket, room, open, alone>>

StartPoll(q, u) == Seatable(u) /\ Arrive(q, u, "inspect")

StartCancel(q, u) == u \in Quitter /\ Arrive(q, u, "cancel")

-----------------------------------------------------------------------------
(* acquireMatch: inspectStanding *)

InspectPeek(q) ==
  LET u == req[q].user IN
  /\ req[q].pc = "inspect"
  /\ IF ticket[u].state = "matched"
     THEN Peek(q, "inspecting", None, <<ticket[u].room, u>>)
     ELSE Goto(q, "refresh") /\ UNCHANGED <<ticket, room, open, alone>>

InspectDecide(q) ==
  LET u == req[q].user IN
  /\ Holds(q, "inspecting")
  /\ \/ ~StillSeen(q) /\ Keep /\ Again(q, "inspect", "refresh")
     \/ StillSeen(q) /\ SeatHeld(ticket[u].room, u) /\ Keep /\ Reply(q, "matched")
     \/ StillSeen(q) /\ ~SeatHeld(ticket[u].room, u) /\ Drop({u}) /\ Goto(q, "refresh")
  /\ UNCHANGED <<room, open>>

-----------------------------------------------------------------------------
(* acquireMatch: refreshWaiting *)

\* assertAdmission throws; what was committed before stays.
Refused(q) ==
  /\ req[q].pc \in {"refresh", "pair", "synthetic"}
  /\ ~open
  /\ Reply(q, "refused")
  /\ UNCHANGED <<ticket, room, open, alone>>

\* Mutant: admission is asked only when the poll starts.
RefreshPeek_Unadmitted(q) ==
  LET u == req[q].user IN
  /\ req[q].pc = "refresh"
  /\ Peek(q, "refreshing", None,
          IF ticket[u].state = "matched" THEN <<ticket[u].room, u>> ELSE <<u>>)

RefreshPeek(q) ==
  LET u == req[q].user IN
  /\ req[q].pc = "refresh"
  /\ open
  /\ Peek(q, "refreshing", None,
          IF ticket[u].state = "matched" THEN <<ticket[u].room, u>> ELSE <<u>>)

\* The row a transaction of that start inserts.
Fresh(lag) == [state |-> "waiting", room |-> None, ttl |-> TicketTicks - lag, age |-> lag]

\* Mutant: every poll counts as an arrival.
Renewed_Afresh(t, lag) == [t EXCEPT !.ttl = TicketTicks - lag, !.age = Lesser(lag, PatienceTicks)]

\* Mutant: a renewed ticket keeps its arrival even when it had run out.
Renewed_KeepArrival(t, lag) == [t EXCEPT !.ttl = TicketTicks - lag]

\* The arrival of a live ticket is kept; an expired one arrives anew.
Renewed(t, lag) ==
  [t EXCEPT !.ttl = TicketTicks - lag,
            !.age = IF t.ttl + lag > 0 THEN @ ELSE Lesser(lag, PatienceTicks)]

\* The account waits, with this row.
Enter(q, row) ==
  LET u == req[q].user  t == ticket[u] IN
  /\ ticket' = [ticket EXCEPT ![u] = row]
  /\ alone' = [alone EXCEPT ![u] =
       IF t.state = "waiting" /\ t.ttl >= 0 THEN @ ELSE Lesser(req[q].lag, PatienceTicks)]
  /\ Goto(q, "pair")

RefreshDecide(q) ==
  LET u == req[q].user  t == ticket[u]  lag == req[q].lag
      seen == req[q].seen
  IN
  /\ Holds(q, "refreshing")
  /\ \/ seen = "matched" /\ StillSeen(q) /\ SeatHeld(t.room, u) /\ Keep /\ Reply(q, "matched")
     \/ seen = "matched" /\ StillSeen(q) /\ ~SeatHeld(t.room, u) /\ Enter(q, Fresh(lag))
     \/ seen = "waiting" /\ StillSeen(q) /\ Enter(q, Renewed(t, lag))
     \/ seen \in {"matched", "waiting"} /\ ~StillSeen(q) /\ Keep /\ Again(q, "refresh", "lastread")
     \/ seen = "none" /\ t.state = "none" /\ Enter(q, Fresh(lag))
     \/ seen = "conflict" /\ t.state = "none" /\ Keep /\ Again(q, "refresh", "lastread")
     \/ seen \in {"none", "conflict"} /\ t.state = "matched" /\ Keep /\ Reply(q, "matched")
     \/ /\ seen \in {"none", "conflict"} /\ t.state = "waiting"
        /\ Enter(q, [t EXCEPT !.ttl = Greater(@, TicketTicks - lag)])
  /\ UNCHANGED <<room, open>>

\* insertWaiting meets a row of the account that another request has committed meanwhile;
\* the row may be gone again when it is locked.
InsertConflict(q) ==
  /\ req[q].pc = "refreshing" /\ req[q].seen = "none" /\ req[q].have = {}
  /\ ticket[req[q].user].state # "none"
  /\ req' = [req EXCEPT ![q].seen = "conflict"]
  /\ said' = Silence
  /\ UNCHANGED <<ticket, room, open, alone>>

\* All passes met concurrent changes: answer what is there.
LastRead(q) ==
  /\ req[q].pc = "lastread"
  /\ Reply(q, CASE ticket[req[q].user].state = "none" -> "gone"
                [] ticket[req[q].user].state = "matched" -> "matched"
                [] OTHER -> "waiting")
  /\ UNCHANGED <<ticket, room, open, alone>>

-----------------------------------------------------------------------------
(* acquireMatch: attemptPairing and assignSyntheticPartner *)

\* Mutant: tickets that have run out are counted as company.
Partners_Lapsed(q) == {v \in User \ {req[q].user} : ticket[v].state = "waiting"}

Partners(q) == {v \in User \ {req[q].user} : LiveFor(q, v)}

\* The tickets that arrived first; ages beyond the patience are not told apart.
Oldest(us) == {v \in us : \A w \in us : ticket[w].age <= ticket[v].age}

PairPeek(q) ==
  LET u == req[q].user IN
  /\ req[q].pc = "pair"
  /\ open
  /\ IF LiveFor(q, u) /\ Partners(q) # {}
     THEN \E v \in Oldest(Partners(q)) : Peek(q, "pairing", v, LockOrder(u, v))
     ELSE Goto(q, "synthetic") /\ UNCHANGED <<ticket, room, open, alone>>

\* newRoomId: ids are random, so which unused one it is makes no difference.
FreshId == CHOOSE r \in Room : room[r].phase = "none"

\* createRoom with a reservation, and every ticket of it, in one transaction.
Reserve(us, bot) ==
  \E r \in Room :
    /\ room[r].phase = "none" /\ r = FreshId
    /\ room' = [room EXCEPT ![r] = [NoRoom EXCEPT !.phase = "lobby", !.res = "reserved",
                                      !.hold = HoldTicks, !.seats = us, !.bot = bot]]
    /\ ticket' = [u \in User |-> IF u \in us THEN [NoTicket EXCEPT !.state = "matched", !.room = r]
                                 ELSE ticket[u]]
    /\ alone' = [u \in User |-> IF u \in us THEN 0 ELSE alone[u]]

PairDecide(q) ==
  /\ req[q].pc = "pairing"
  /\ \/ /\ req[q].want = <<>>
        /\ \A v \in req[q].have : LiveFor(q, v)
        /\ Reserve({req[q].user, req[q].other}, FALSE)
        /\ Reply(q, "matched")
     \/ /\ NextRow(q) = {}
        /\ \E v \in req[q].have : ~LiveFor(q, v)
        /\ UNCHANGED <<ticket, room, alone>>
        /\ Goto(q, "synthetic")
  /\ UNCHANGED open

SyntheticPeek(q) ==
  /\ req[q].pc = "synthetic"
  /\ open
  /\ Peek(q, "assigning", None, <<req[q].user>>)

\* Waited long enough, and nobody else waits.
Lonely(q) ==
  /\ LiveFor(q, req[q].user)
  /\ ticket[req[q].user].age >= PatienceTicks
  /\ Partners(q) = {}

\* The ticket under its lock, then a look without locks for a newcomer.
SyntheticLook(q) ==
  /\ Holds(q, "assigning")
  /\ \/ ticket[req[q].user].state = "matched" /\ Reply(q, "matched")
     \/ ticket[req[q].user].state # "matched" /\ ~Lonely(q) /\ Reply(q, "waiting")
     \/ /\ Lonely(q)
        /\ req' = [req EXCEPT ![q].pc = "seating"]
        /\ said' = Silence
  /\ UNCHANGED <<ticket, room, open, alone>>

\* A ghost or a bot takes the other seat, which has no ticket.
SyntheticSeat(q) ==
  /\ req[q].pc = "seating"
  /\ Reserve({req[q].user}, TRUE)
  /\ Reply(q, "matched")
  /\ UNCHANGED open

-----------------------------------------------------------------------------
(* cancelMatch *)

CancelPeek(q) ==
  LET u == req[q].user IN
  /\ req[q].pc = "cancel"
  /\ CASE ticket[u].state = "none" ->
            Reply(q, "cancelled") /\ UNCHANGED <<ticket, room, open, alone>>
       [] ticket[u].state = "waiting" -> Peek(q, "cancelling", None, <<u>>)
       [] OTHER -> Peek(q, "cancelling", None, <<ticket[u].room, u>>)

\* Mutant: a ticket that was matched in the meantime is deleted as if it still waited.
CancelWaiting_Blind(q) == req[q].seen = "waiting" /\ Drop({req[q].user}) /\ Reply(q, "cancelled")

CancelWaiting(q) ==
  LET t == ticket[req[q].user] IN
  /\ req[q].seen = "waiting"
  /\ \/ t.state = "matched" /\ Keep /\ Again(q, "cancel", "cancelonce")
     \/ t.state # "matched" /\ Drop({req[q].user}) /\ Reply(q, "cancelled")

CancelMatched(q) ==
  LET u == req[q].user  r == ticket[u].room IN
  /\ req[q].seen = "matched"
  /\ \/ ~StillSeen(q) /\ Keep /\ Again(q, "cancel", "cancelonce")
     \/ /\ StillSeen(q) /\ room[r].phase = "active" /\ u \notin room[r].departed
        /\ Keep
        /\ Reply(q, "kept")
     \/ /\ StillSeen(q) /\ ~Reserved(r)
        /\ room[r].phase = "active" => u \in room[r].departed
        /\ Drop({u})
        /\ Reply(q, "cancelled")
     \/ /\ StillSeen(q) /\ Reserved(r)
        /\ req' = [req EXCEPT ![q].pc = "releasing"]
        /\ said' = Silence
        /\ Keep

CancelDecide(q) ==
  /\ Holds(q, "cancelling")
  /\ CancelWaiting(q) \/ CancelMatched(q)
  /\ UNCHANGED <<room, open>>

\* The tickets that the DELETE of cancelReservedPairing removes.
Theirs(r) == {v \in User : Matched(v, r)}

\* cancelReservedPairing: the DELETE also waits for the other ticket of the room.
CancelReserved(q) ==
  LET u == req[q].user  r == req[q].in IN
  /\ req[q].pc = "releasing"
  /\ \A v \in Theirs(r) \ {u} : ~Locked(v)
  /\ room' = [room EXCEPT ![r] = [@ EXCEPT !.res = "ended", !.hold = 0, !.seats = {}]]
  /\ Drop(Theirs(r))
  /\ Reply(q, "cancelled")
  /\ UNCHANGED open

\* The last, conservative transaction of cancelMatch.
CancelOnce(q) ==
  LET u == req[q].user IN
  /\ req[q].pc = "cancelonce"
  /\ ~Locked(u)
  /\ \/ ticket[u].state = "matched" /\ Keep /\ Reply(q, "kept")
     \/ ticket[u].state # "matched" /\ Drop({u}) /\ Reply(q, "cancelled")
  /\ UNCHANGED <<room, open>>

Serve(q) ==
  \/ Lock(q)
  \/ InspectPeek(q) \/ InspectDecide(q)
  \/ Refused(q) \/ RefreshPeek(q) \/ InsertConflict(q) \/ RefreshDecide(q) \/ LastRead(q)
  \/ PairPeek(q) \/ PairDecide(q)
  \/ SyntheticPeek(q) \/ SyntheticLook(q) \/ SyntheticSeat(q)
  \/ CancelPeek(q) \/ CancelDecide(q) \/ CancelReserved(q) \/ CancelOnce(q)

-----------------------------------------------------------------------------
(* The engine of a room: its transactions lock the room first *)

InRoom(r, row) ==
  /\ ~Locked(r)
  /\ room' = [room EXCEPT ![r] = row]
  /\ said' = Silence
  /\ UNCHANGED <<ticket, open, req, alone>>

\* Mutant: the reservation is not looked at when everybody is there.
AutoStart_Late(r) ==
  /\ Reserved(r)
  /\ open
  /\ InRoom(r, [room[r] EXCEPT !.phase = "active", !.res = "locked", !.hold = 0, !.departed = {}])

\* maybeAutoStartTx: both are online before the reservation runs out.
AutoStart(r) ==
  /\ Reserved(r)
  /\ room[r].hold > 0
  /\ open
  /\ InRoom(r, [room[r] EXCEPT !.phase = "active", !.res = "locked", !.hold = 0, !.departed = {}])

\* Expiry by the clock, or a player who leaves before the match ("ended" is the code's
\* cancelled and expired, which differ in what players are told).
EndReservation(r) ==
  /\ Reserved(r)
  /\ InRoom(r, [room[r] EXCEPT !.res = "ended", !.hold = 0, !.seats = {}])

\* A leave during the match; the record of it names this match.
Forfeit(r, u) ==
  /\ room[r].phase = "active"
  /\ u \in (Quitter \cap room[r].seats) \ room[r].departed
  /\ InRoom(r, [room[r] EXCEPT !.departed = @ \cup {u}])

Finish(r) ==
  /\ room[r].phase = "active"
  /\ InRoom(r, [room[r] EXCEPT !.phase = "finished"])

\* The spell book could not be generated: back to an ordinary lobby.
Abort(r) ==
  /\ room[r].phase = "active"
  /\ InRoom(r, [room[r] EXCEPT !.phase = "lobby", !.res = "none", !.departed = {}])

Rematch(r) ==
  /\ room[r].phase = "finished"
  /\ room[r].restarts < MaxRestarts
  /\ open
  /\ InRoom(r, [room[r] EXCEPT !.phase = "lobby", !.departed = {}])

\* hostStartTx: any lobby that is not reserved, quick rooms that played before included.
HostStart(r) ==
  /\ room[r].phase = "lobby"
  /\ ~Reserved(r)
  /\ room[r].restarts < MaxRestarts
  /\ open
  /\ Cardinality(room[r].seats) >= IF room[r].bot THEN 1 ELSE 2
  /\ InRoom(r, [room[r] EXCEPT !.phase = "active", !.res = "locked", !.departed = {},
                               !.restarts = @ + 1])

LeaveLobby(r, u) ==
  /\ room[r].phase = "lobby"
  /\ ~Reserved(r)
  /\ u \in Quitter \cap room[r].seats
  /\ InRoom(r, [room[r] EXCEPT !.seats = @ \ {u}])

\* Abstraction: ids of new rooms are fresh, so a room that is over and that no ticket
\* names gives its id back; a request that still locks it meets a changed ticket.
Forget(r) ==
  /\ Reuse
  /\ room[r].phase \in {"lobby", "finished"} /\ ~Reserved(r)
  /\ room[r].restarts = MaxRestarts \/ room[r].seats = {}
  /\ \A u \in User : ~Matched(u, r)
  /\ room' = [room EXCEPT ![r] = NoRoom]
  /\ said' = Silence
  /\ UNCHANGED <<ticket, open, req, alone>>

EngineStep(r) ==
  \/ AutoStart(r) \/ EndReservation(r) \/ Finish(r) \/ Abort(r) \/ Rematch(r) \/ HostStart(r)
  \/ Forget(r)
  \/ \E u \in User : Forfeit(r, u) \/ LeaveLobby(r, u)

-----------------------------------------------------------------------------
(* Operators, time, crashes *)

\* enterMaintenance waits for every transaction and deletes the waiting tickets.
Drain ==
  /\ Drains
  /\ open
  /\ \A q \in Request : req[q].pc \in Between
  /\ open' = FALSE
  /\ Drop({u \in User : ticket[u].state = "waiting"})
  /\ said' = Silence
  /\ UNCHANGED <<room, req>>

Reopen ==
  /\ ~open
  /\ \A q \in Request : req[q].pc \in Between
  /\ open' = TRUE
  /\ said' = Silence
  /\ UNCHANGED <<ticket, room, req, alone>>

\* A prompt client asks again before its ticket runs out; beside such clients, a request is
\* over before the ticket that it renews runs out.
OnTime(u) == u \in Prompt \/ (Prompt # {} /\ \E q \in Request : req[q].user = u)

\* A ticket is told apart while live, just expired, and expired for longer.
Tick ==
  /\ \A q \in Request : req[q].lag = 0
  /\ \A u \in User : OnTime(u) /\ ticket[u].state = "waiting" => ticket[u].ttl > 1
  /\ ticket' = [u \in User |->
       IF ticket[u].state # "waiting" THEN ticket[u]
       ELSE [ticket[u] EXCEPT !.ttl = Greater(-1, @ - 1), !.age = Lesser(@ + 1, PatienceTicks)]]
  /\ alone' = [u \in User |->
       IF ticket[u].state # "waiting" \/ ticket[u].ttl <= 0 THEN 0
       ELSE Lesser(alone[u] + 1, PatienceTicks)]
  /\ room' = [r \in Room |-> [room[r] EXCEPT !.hold = Greater(0, @ - 1)]]
  /\ req' = [q \in Request |-> IF req[q].pc \in Inside THEN [req[q] EXCEPT !.lag = 1] ELSE req[q]]
  /\ said' = Silence
  /\ UNCHANGED open

\* The process dies: open transactions roll back, nobody is answered.
Crash ==
  /\ Crashes
  /\ \E q \in Request : req[q].pc # "idle"
  /\ req' = [q \in Request |-> NoRequest]
  /\ said' = Silence
  /\ UNCHANGED <<ticket, room, open, alone>>

Next ==
  \/ \E q \in Request :
       \/ Serve(q)
       \/ \E u \in User : StartPoll(q, u) \/ StartCancel(q, u)
  \/ \E r \in Room : EngineStep(r)
  \/ Drain \/ Reopen \/ Tick \/ Crash

Spec == Init /\ [][Next]_vars

\* Requests are served (PostgreSQL queues those that wait for a row, so that a waiter has
\* its turn), clients keep polling, time passes and rooms come to their end
\* (the timer of the room and the sweep of the runtime).
Fairness ==
  /\ \A q \in Request : SF_vars(Serve(q))
  /\ \A u \in Prompt : WF_vars(ticket[u].state = "waiting" /\ StartPoll(u, u))
  /\ WF_vars(Tick)
  /\ \A r \in Room : WF_vars(EndReservation(r) \/ Finish(r))
  /\ WF_vars(\E r \in Room : Forget(r))

FairSpec == Spec /\ Fairness

-----------------------------------------------------------------------------
(* Properties *)

\* Every variable stays within its declared values.
TypeOK ==
  /\ ticket \in [User -> [state : {"none", "waiting", "matched"}, room : Room \cup {None},
                          ttl : -1 .. TicketTicks, age : 0 .. PatienceTicks]]
  /\ room \in [Room -> [phase : {"none", "lobby", "active", "finished"},
                        res : {"none", "reserved", "locked", "ended"},
                        hold : 0 .. HoldTicks, seats : SUBSET User, departed : SUBSET User,
                        bot : BOOLEAN, restarts : 0 .. MaxRestarts]]
  /\ open \in BOOLEAN
  /\ \A q \in Request :
       /\ req[q].pc \in Between \cup Inside
       /\ req[q].have \subseteq User \cup Room
       /\ req[q].lag \in {0, 1}
       /\ req[q].pc \in Between => req[q].have = {}
  /\ said \in [user : User \cup {None}, answer : Answers]
  /\ alone \in [User -> 0 .. PatienceTicks]

\* A room that still holds a place for an account has the account among its seats exactly
\* when the one ticket of the account names the room: polls, cancellations, expiry and
\* starts in any order leave no seat without its ticket and no ticket without its seat,
\* until the host starts the room a second time.
TicketsMatchSeats ==
  \A r \in Room, u \in User :
    SeatHeld(r, u) /\ room[r].restarts = 0 => (u \in room[r].seats <=> Matched(u, r))

\* A cancellation that answers "cancelled" leaves the account without a ticket, and without
\* a seat that a live reservation or the first match of a room holds.
CancelledIsFree ==
  said.answer = "cancelled" =>
    /\ ticket[said.user].state = "none"
    /\ ~\E r \in Room : /\ said.user \in room[r].seats
                       /\ SeatHeld(r, said.user)
                       /\ room[r].restarts = 0

\* A cancellation that answers "cancelled" leaves the account without a ticket and without
\* a seat that a match or a live reservation holds (the contract of cancelMatch).
CancelledIsTrue ==
  said.answer = "cancelled" =>
    /\ ticket[said.user].state = "none"
    /\ ~\E r \in Room : said.user \in room[r].seats /\ SeatHeld(r, said.user)

\* The rows a transaction waits for next.
WaitsFor(q) ==
  IF req[q].pc = "releasing" THEN Theirs(req[q].in) \ {req[q].user} ELSE NextRow(q)

\* No requests wait for each other's row locks in a circle: rooms before tickets, tickets
\* by account, and a pairing that gives up at the first ticket that is gone.
NoLockCycle ==
  \A qs \in (SUBSET Request) \ {{}} :
    \E q \in qs : \A p \in qs \ {q} : WaitsFor(q) \cap req[p].have = {}

\* While the server drains nobody waits: a poll that was admitted before the drain cannot
\* put or leave a ticket in the queue after it.
DrainEmptiesQueue == ~open => \A u \in User : ticket[u].state # "waiting"

\* A synthetic opponent is given only to who has been queued for the whole fallback time
\* without a lapse, however often the ticket was renewed or revived.
SyntheticWaitsItsTurn ==
  [][\A r \in Room :
       (room[r].phase = "none" /\ room'[r].bot) =>
         \A u \in room'[r].seats : alone[u] >= PatienceTicks]_vars

\* Who waits and keeps polling does not wait forever: somebody, or a synthetic opponent, is
\* found, or the queue is drained.  Other polls run at the same time: a pairing may find its
\* partner taken, and a newcomer between attemptPairing and assignSyntheticPartner takes the
\* fallback away; tickets of accounts that are gone keep nobody waiting.
NobodyWaitsForever ==
  \A u \in Prompt : ticket[u].state = "waiting" ~> ticket[u].state # "waiting"
=============================================================================
