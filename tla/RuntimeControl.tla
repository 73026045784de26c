--------------------------- MODULE RuntimeControl ---------------------------
(***************************************************************************)
(* The singleton row runtime_control and everything that locks it: runtime *)
(* ownership (acquire, heartbeat, assert, close), maintenance (inspect,    *)
(* enter, leave) and the transactions that change rooms and tickets.       *)
(*                                                                         *)
(* Server processes, database connections, operators and the clock         *)
(* interleave freely.  A transaction that changes rooms takes the row FOR  *)
(* SHARE and keeps it to its end, so it is two steps here (begin, then     *)
(* commit or abort).  A transaction that changes the row itself takes it   *)
(* FOR UPDATE, hence runs alone, and is one step guarded by NoShareLock.   *)
(* Time is the number of ticks the lease and each reservation have left.   *)
(***************************************************************************)
EXTENDS Integers, FiniteSets

CONSTANTS
  Process,        \* application processes
  Connection,     \* database connections that can hold a transaction
  Operator,       \* administrators, CI jobs and command-line operators
  Room,           \* rooms
  User,           \* accounts that may queue
  None,           \* no owner
  LeaseTicks,     \* LEASE_MS in ticks
  HoldTicks,      \* lifetime of a quick-match reservation in ticks
  MaxStarts,      \* bound: process starts
  MaxRevision     \* bound: maintenance transitions

ASSUME NoneAssumption == None \notin Process
ASSUME TicksAssumption == LeaseTicks \in Nat \ {0} /\ HoldTicks \in Nat \ {0}
ASSUME BoundsAssumption == MaxStarts \in Nat /\ MaxRevision \in Nat
ASSUME DisjointAssumption == Room \cap User = {}

VARIABLES
  row,            \* runtime_control: owner, epoch, lease, mode, revision
  proc,           \* per process: status and the epoch it acquired
  tx,             \* open transactions that hold the row FOR SHARE
  room,           \* per room: what it means for a drain
  hold,           \* per room: ticks left of its reservation
  waiting,        \* users with a waiting ticket
  seen,           \* per operator: the answers it acts on
  starts,         \* number of process starts so far
  writer,         \* history: epoch of the last committed room or ticket write
  overtaken       \* history: operators whose revision somebody else moved

vars == <<row, proc, tx, room, hold, waiting, seen, starts, writer, overtaken>>
data == <<room, hold, waiting, writer>>
operators == <<seen, overtaken>>

RoomState == {"none", "lobby", "reserved", "active", "finished"}
Status == {"down", "waiting", "up", "lost", "closing"}
Mode == {"open", "draining"}
Unread == -1

-----------------------------------------------------------------------------
(* Predicates of the code *)

LeaseIsLive == row.owner # None /\ row.lease > 0

Ours(p) == row.owner = p /\ row.epoch = proc[p].epoch

NoShareLock == tx = {}

LiveReservation(r) == room[r] = "reserved" /\ hold[r] > 0

\* What inspectMaintenance counts.
Blocking == {r \in Room : room[r] = "active" \/ LiveReservation(r)} \cup waiting

RuntimeKnown == row.owner = None \/ row.lease > 0

\* Mutant: reservations are not counted.
Ready_MatchesOnly ==
  row.mode = "draining" /\ RuntimeKnown /\ waiting = {} /\ \A r \in Room : room[r] # "active"

Ready == row.mode = "draining" /\ RuntimeKnown /\ Blocking = {}

-----------------------------------------------------------------------------
Init ==
  /\ row \in [owner : {None}, epoch : {0}, lease : {0}, mode : Mode, revision : {0}]
  /\ proc = [p \in Process |-> [status |-> "down", epoch |-> 0]]
  /\ tx = {}
  /\ room = [r \in Room |-> "none"]
  /\ hold = [r \in Room |-> 0]
  /\ waiting = {}
  /\ seen = [o \in Operator |-> [revision |-> Unread, ready |-> FALSE, epoch |-> 0]]
  /\ starts = 0
  /\ writer = 0
  /\ overtaken = {}

-----------------------------------------------------------------------------
(* Processes *)

\* A process starts and waits for the lease (startServerUntilOwned).
Start(p) ==
  /\ proc[p].status = "down"
  /\ starts < MaxStarts
  /\ starts' = starts + 1
  /\ proc' = [proc EXCEPT ![p] = [status |-> "waiting", epoch |-> 0]]
  /\ UNCHANGED <<row, tx, data, operators>>

\* Mutant: the row is not locked against open transactions.
Acquire_Unlocked(p) ==
  /\ proc[p].status = "waiting"
  /\ ~LeaseIsLive
  /\ row' = [row EXCEPT !.owner = p, !.epoch = row.epoch + 1, !.lease = LeaseTicks]
  /\ proc' = [proc EXCEPT ![p] = [status |-> "up", epoch |-> row.epoch + 1]]
  /\ UNCHANGED <<tx, data, operators, starts>>

\* Mutant: an expired lease is never taken over.
Acquire_ReleasedOnly(p) ==
  /\ proc[p].status = "waiting"
  /\ NoShareLock
  /\ row.owner = None
  /\ row' = [row EXCEPT !.owner = p, !.epoch = row.epoch + 1, !.lease = LeaseTicks]
  /\ proc' = [proc EXCEPT ![p] = [status |-> "up", epoch |-> row.epoch + 1]]
  /\ UNCHANGED <<tx, data, operators, starts>>

\* acquireRuntime: claim the free row or take an expired lease over.
Acquire(p) ==
  /\ proc[p].status = "waiting"
  /\ NoShareLock
  /\ ~LeaseIsLive
  /\ row' = [row EXCEPT !.owner = p, !.epoch = row.epoch + 1, !.lease = LeaseTicks]
  /\ proc' = [proc EXCEPT ![p] = [status |-> "up", epoch |-> row.epoch + 1]]
  /\ UNCHANGED <<tx, data, operators, starts>>

\* The busy window of startServerUntilOwned is used up.
GiveUp(p) ==
  /\ proc[p].status = "waiting"
  /\ LeaseIsLive
  /\ proc' = [proc EXCEPT ![p].status = "down"]
  /\ UNCHANGED <<row, tx, data, operators, starts>>

\* heartbeat: renew a live lease of ours, or learn that it is lost.
Heartbeat(p) ==
  /\ proc[p].status = "up"
  /\ NoShareLock
  /\ IF Ours(p) /\ LeaseIsLive
       THEN row' = [row EXCEPT !.lease = LeaseTicks] /\ UNCHANGED proc
       ELSE proc' = [proc EXCEPT ![p].status = "lost"] /\ UNCHANGED row
  /\ UNCHANGED <<tx, data, operators, starts>>

\* assert(tx) at the head of a transaction: lock FOR SHARE, then check.
Begin(p, c) ==
  /\ proc[p].status = "up"
  /\ \A t \in tx : t.conn # c
  /\ IF Ours(p) /\ LeaseIsLive
       THEN /\ tx' = tx \cup {[conn |-> c, by |-> p, epoch |-> proc[p].epoch, mode |-> row.mode]}
            /\ UNCHANGED proc
       ELSE /\ proc' = [proc EXCEPT ![p].status = "lost"]
            /\ UNCHANGED tx
  /\ UNCHANGED <<row, data, operators, starts>>

\* close(): from here on no transaction of this process passes assert.
Close(p) ==
  /\ proc[p].status \in {"up", "lost"}
  /\ proc' = [proc EXCEPT ![p].status = "closing"]
  /\ UNCHANGED <<row, tx, data, operators, starts>>

\* The last step of close(): give the row back if it is still ours.
Release(p) ==
  /\ proc[p].status = "closing"
  /\ NoShareLock
  /\ row' = IF Ours(p) THEN [row EXCEPT !.owner = None, !.lease = 0] ELSE row
  /\ proc' = [proc EXCEPT ![p].status = "down"]
  /\ UNCHANGED <<tx, data, operators, starts>>

\* A crash, or a close() that cannot reach the database: the row is left as it is,
\* and a transaction already sent may still commit or abort.
Crash(p) ==
  /\ proc[p].status # "down"
  /\ proc' = [proc EXCEPT ![p].status = "down"]
  /\ UNCHANGED <<row, tx, data, operators, starts>>

\* The database clock advances.
Tick ==
  /\ row.lease > 0 \/ \E r \in Room : hold[r] > 0
  /\ row' = [row EXCEPT !.lease = IF @ > 0 THEN @ - 1 ELSE 0]
  /\ hold' = [r \in Room |-> IF hold[r] > 0 THEN hold[r] - 1 ELSE 0]
  /\ UNCHANGED <<proc, tx, room, waiting, writer, operators, starts>>

-----------------------------------------------------------------------------
(* Transactions on rooms and tickets, at their commit *)

Commit(t) ==
  /\ t \in tx
  /\ tx' = tx \ {t}
  /\ writer' = t.epoch
  /\ UNCHANGED <<row, proc, operators, starts>>

Abort(t) ==
  /\ t \in tx
  /\ tx' = tx \ {t}
  /\ UNCHANGED <<row, proc, data, operators, starts>>

\* assertAdmission, or the check startMatchTx makes for itself.
Admitted(t) == t.mode = "open"

MoveRoom(r, to) ==
  /\ room' = [room EXCEPT ![r] = to]
  /\ hold' = [hold EXCEPT ![r] = IF to = "reserved" THEN HoldTicks ELSE 0]

\* POST /rooms
CreateLobby(t, r) ==
  /\ Commit(t) /\ Admitted(t)
  /\ room[r] = "none"
  /\ MoveRoom(r, "lobby")
  /\ UNCHANGED waiting

\* refreshWaiting: queue or renew a ticket.
Enqueue(t, u) ==
  /\ Commit(t) /\ Admitted(t)
  /\ waiting' = waiting \cup {u}
  /\ UNCHANGED <<room, hold>>

\* attemptPairing or assignSyntheticPartner: tickets become a reservation.
Pair(t, us, r) ==
  /\ Commit(t) /\ Admitted(t)
  /\ us # {} /\ us \subseteq waiting
  /\ room[r] = "none"
  /\ waiting' = waiting \ us
  /\ MoveRoom(r, "reserved")

\* startMatchTx, from a host's start or from the automatic start of a reservation.
StartMatch(t, r) ==
  /\ Commit(t) /\ Admitted(t)
  /\ room[r] = "lobby" \/ LiveReservation(r)
  /\ MoveRoom(r, "active")
  /\ UNCHANGED waiting

\* finishMatchTx, or abortMatchInTx which returns the room to its lobby.
SettleMatch(t, r) ==
  /\ Commit(t)
  /\ room[r] = "active"
  /\ \E to \in {"finished", "lobby"} : MoveRoom(r, to)
  /\ UNCHANGED waiting

\* rematchTx
Rematch(t, r) ==
  /\ Commit(t) /\ Admitted(t)
  /\ room[r] = "finished"
  /\ MoveRoom(r, "lobby")
  /\ UNCHANGED waiting

\* endReservation, by expiry, by a cancelled match or by leaving the room.
EndReservation(t, r) ==
  /\ Commit(t)
  /\ room[r] = "reserved"
  /\ MoveRoom(r, "none")
  /\ UNCHANGED waiting

\* cancelMatch of a waiting ticket.
Dequeue(t, u) ==
  /\ Commit(t)
  /\ waiting' = waiting \ {u}
  /\ UNCHANGED <<room, hold>>

TransactOn(c) ==
  \E t \in {s \in tx : s.conn = c} :
    \/ Abort(t)
    \/ \E r \in Room : \/ CreateLobby(t, r) \/ StartMatch(t, r) \/ SettleMatch(t, r)
                       \/ Rematch(t, r) \/ EndReservation(t, r)
                       \/ \E us \in SUBSET waiting : Pair(t, us, r)
    \/ \E u \in User : Enqueue(t, u) \/ Dequeue(t, u)

Transact == \E c \in Connection : TransactOn(c)

-----------------------------------------------------------------------------
(* Operators *)

\* inspectMaintenance under FOR UPDATE.
Inspect(o) ==
  /\ NoShareLock
  /\ seen' = [seen EXCEPT ![o].revision = row.revision, ![o].ready = Ready]
  /\ overtaken' = overtaken \ {o}
  /\ UNCHANGED <<row, proc, tx, data, starts>>

\* readMaintenance through GET /api/status: no lock, no counters.
ReadPointer(o) ==
  /\ seen' = [seen EXCEPT ![o].revision = row.revision, ![o].ready = FALSE]
  /\ overtaken' = overtaken \ {o}
  /\ UNCHANGED <<row, proc, tx, data, starts>>

\* GET /health answered by p: it answers only while p still owns a live lease.
ProbeHealth(o, p) ==
  /\ proc[p].status = "up"
  /\ Ours(p) /\ LeaseIsLive
  /\ seen' = [seen EXCEPT ![o].epoch = proc[p].epoch]
  /\ UNCHANGED <<row, proc, tx, data, overtaken, starts>>

\* Mutant: the row is not locked against open transactions.
SwitchMode_Unlocked(o, m) ==
  /\ seen[o].revision = row.revision
  /\ row.mode # m
  /\ row.revision < MaxRevision
  /\ row' = [row EXCEPT !.mode = m, !.revision = row.revision + 1]
  /\ seen' = [seen EXCEPT ![o].revision = row.revision + 1, ![o].ready = FALSE]
  /\ overtaken' = Operator \ {o}
  /\ UNCHANGED <<proc, tx, room, hold, writer, starts>>

\* The row moves to mode m; the operator keeps the revision it is answered with.
SwitchMode(o, m) ==
  /\ NoShareLock
  /\ seen[o].revision = row.revision
  /\ row.mode # m
  /\ row.revision < MaxRevision
  /\ row' = [row EXCEPT !.mode = m, !.revision = row.revision + 1]
  /\ seen' = [seen EXCEPT ![o].revision = row.revision + 1, ![o].ready = FALSE]
  /\ overtaken' = Operator \ {o}
  /\ UNCHANGED <<proc, tx, room, hold, writer, starts>>

\* Mutant: the waiting tickets stay.
EnterMaintenance_KeepTickets(o) ==
  /\ SwitchMode(o, "draining")
  /\ UNCHANGED waiting

\* enterMaintenance: close admission and drop the waiting tickets.
EnterMaintenance(o) ==
  /\ SwitchMode(o, "draining")
  /\ waiting' = {}

\* leaveMaintenance: a live lease of exactly the epoch the caller vouches for.
LeaveMaintenance(o, e) ==
  /\ LeaseIsLive
  /\ row.epoch = e
  /\ SwitchMode(o, "open")
  /\ UNCHANGED waiting

Operate ==
  \E o \in Operator :
    \/ Inspect(o)
    \/ ReadPointer(o)
    \/ EnterMaintenance(o)
    \/ LeaveMaintenance(o, seen[o].epoch)
    \/ \E p \in Process :
         \/ ProbeHealth(o, p)
         \* the administrator's page vouches with the epoch of the process that serves it
         \/ proc[p].status \in {"up", "lost"} /\ LeaveMaintenance(o, proc[p].epoch)

Run(p) ==
  \/ Start(p) \/ Acquire(p) \/ GiveUp(p) \/ Heartbeat(p)
  \/ Close(p) \/ Release(p) \/ Crash(p)
  \/ \E c \in Connection : Begin(p, c)

Next == (\E p \in Process : Run(p)) \/ Tick \/ Transact \/ Operate

Spec == Init /\ [][Next]_vars

-----------------------------------------------------------------------------
(* Fairness.  The clock advances; a waiting process retries every two      *)
(* seconds; every transaction ends; the owner keeps opening transactions   *)
(* (timers and the five-second sweep) and a running match is always driven *)
(* to its settlement by its deadline, whichever transactions run between.  *)
Fairness ==
  /\ WF_vars(Tick)
  /\ \A p \in Process : /\ WF_vars(Acquire(p))
                        /\ WF_vars(\E c \in Connection : Begin(p, c))
  /\ \A c \in Connection : WF_vars(TransactOn(c))
  /\ \A r \in Room : SF_vars(\E t \in tx : SettleMatch(t, r))

FairSpec == Spec /\ Fairness

-----------------------------------------------------------------------------
(* Properties *)

Token == [conn : Connection, by : Process, epoch : Nat, mode : Mode]

\* The shape of every variable.
TypeOK ==
  /\ row \in [owner : Process \cup {None}, epoch : Nat, lease : 0..LeaseTicks,
              mode : Mode, revision : Nat]
  /\ proc \in [Process -> [status : Status, epoch : Nat]]
  /\ tx \subseteq Token
  /\ room \in [Room -> RoomState]
  /\ hold \in [Room -> 0..HoldTicks]
  /\ waiting \subseteq User
  /\ seen \in [Operator -> [revision : Nat \cup {Unread}, ready : BOOLEAN, epoch : Nat]]
  /\ starts \in Nat
  /\ writer \in Nat
  /\ overtaken \subseteq Operator

\* A transaction that passed assert and is still open belongs to the owner and epoch the
\* row names, and the mode it read is the mode in force: neither a takeover nor a
\* maintenance transition slips between the check and the commit (ownership.ts assert,
\* control.ts assertAdmission).
FencedTransactions ==
  \A t \in tx : t.epoch = row.epoch /\ t.by = row.owner /\ t.mode = row.mode

\* Once a runtime generation has written, no older one ever writes again, even when its
\* process was paused past its lease, crashed with a commit in flight, or is closing.
NoStaleWriter == [][writer' >= writer]_vars

\* Two processes never hold the same generation, whatever mix of releases, expiries and
\* restarts handed it out: the epoch alone identifies the runtime an operator verified.
DistinctEpochs ==
  \A p, q \in Process : proc[p].epoch = proc[q].epoch /\ proc[p].epoch # 0 => p = q

\* While the row says draining no step of anybody adds a waiting ticket, a reservation or
\* a running match, nor opens a lobby (control.ts: admission is serialized with enter).
DrainingAdmitsNothing ==
  [][row.mode = "draining" =>
       /\ Blocking' \subseteq Blocking
       /\ \A r \in Room : room[r] = "none" => room'[r] = "none"]_vars

\* An operator that was told "ready" may stop the application for as long as the revision
\* it read is still in force: nothing has begun behind the barrier (flow.ts stops on it).
ReadyCertificate ==
  \A o \in Operator : seen[o].ready /\ seen[o].revision = row.revision => Blocking = {}

\* An operator whose reading was overtaken by somebody else's transition never moves the
\* mode before it has read again (revision CAS of enterMaintenance and leaveMaintenance).
OvertakenNeverSwitches ==
  [][\A o \in Operator, m \in Mode : SwitchMode(o, m) => o \notin overtaken]_vars

\* RuntimeControl implements DrainBarrier.
Gate ==
  IF row.mode = "open" THEN "open"
  ELSE IF \E o \in Operator : seen[o].ready /\ seen[o].revision = row.revision
       THEN "certified" ELSE "closed"

Barrier == INSTANCE DrainBarrier WITH
  Item <- Room \cup User, gate <- Gate, busy <- Blocking,
  generation <- row.epoch, writer <- writer

\* Ownership, admission, maintenance and expiry together behave as the abstract barrier.
ImplementsBarrier == Barrier!AbsSpec

\* However owners crash, pause or release, it never remains that a process waits for the
\* lease while nobody runs with it (startServerUntilOwned outlasts an orphaned lease).
LeaseIsHandedOver ==
  []<>(\/ \A p \in Process : proc[p].status # "waiting"
       \/ \E p \in Process : proc[p].status = "up" /\ Ours(p))

\* A drain nobody cancels, under an owner that stays, does come to an end: tickets are
\* dropped at once, reservations lapse, matches are settled, and nothing replaces them.
DrainCompletes ==
  <>[](row.mode = "draining" /\ \E p \in Process : proc[p].status = "up" /\ Ours(p))
    => <>[](Blocking = {})
=============================================================================
