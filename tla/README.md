# Spelltype, specified

This directory specifies the server of Spelltype, a realtime duel of typing: players are matched,
a language model writes the spells of the match, and whoever types them casts damage at the other
seats. The server is one Bun process over PostgreSQL; a second process may overlap with it while an
update is rolled out. The modules here are translated from the TypeScript under `src/server/`,
model-checked by TLC on small instances and, for all seven components, proved by TLAPS for
every value of their constants.

| module | what it is | checked by | proved in |
|---|---|---|---|
| `RuntimeControl` | runtime ownership and maintenance, with all that locks the control row | `ownership` | `RuntimeControl_proofs` |
| `DrainBarrier` | abstract: what those two promise to whoever replaces the application | refinement in `ownership` | `BarrierImplemented` |
| `Combat` | one match, from the countdown to its settlement | `table`, `scripted`, `crash_gap` | `Combat_proofs`, `CombatOrder_proofs` |
| `CastLedger` | abstract: what combat promises about damage | refinement in `scripted` | `LedgerImplemented` |
| `Matchmaking` | the quick-match queue and the quick rooms | `queue`, `patience`, `restarted` | `Matchmaking_proofs` |
| `BookCache` | the shared spell book of one theme | `books` | `BookCache_proofs` |
| `RoomLifecycle` | one room over its matches: reservation, start, generation, timers, restarts | `lifecycle` | `RoomLifecycle_proofs` |
| `RoomSockets` | pages, connections, seats and host of a room, against logouts and bans | `sockets`, `replaced` | `RoomSockets_proofs` |
| `DeployFlow` | install, update and rollback of the app on its host | `deploy` | `DeployFlow_proofs` |

`MC*.tla` holds what only TLC needs (symmetry sets, a sample book, who owns which page); each `.cfg` is one run.
`PROJECT.json` lists components, runs, hazards, theorems, the mutant that breaks each property, and
for every definition the lines it translates. A definition named `Action_Variant` and commented
"Mutant" is such a mutant; no specification uses it.

## 1. Inventory

### 1.1 How the parts interact

* **The control row** (`runtime_control`, one row) ties everything together. It names the owning
  process, its epoch, its lease, the admission mode and the maintenance revision. Every transaction
  that changes rooms or tickets first takes this row `FOR SHARE` and checks owner and epoch
  (`assertOwnership`), or owner, epoch and mode (`assertAdmission`), and keeps the lock to its end.
  Acquire, heartbeat, close, enter and leave take it `FOR UPDATE`.
* **A room row** is locked `FOR UPDATE` by every transaction of that room's engine. The queue of the
  engine lets one task run at a time; a task may consist of several transactions.
* **Tickets** (`match_tickets`, one row per account) are locked by polls and cancellations, after the
  room they name and in ascending order of accounts. The engine of a room only locks rooms.
* **Timers** carry deadlines: the engine arms one per room (`armRoom`) and recomputes it from the row,
  so a late or lost timer delays a step and changes nothing else. A sweep every five seconds
  refreshes the engines that are loaded; the rooms that have work are loaded when a process starts
  (`recover`) and when somebody comes to them.
* **Sockets** carry frames to an engine's queue; sessions and accounts are checked at the upgrade and
  again per frame, and revocation closes what is open.
* **The book row** of a theme (`spell_book_cache`) is shared by all processes and is guarded by
  conditional statements, with no lock held between two of them.

### 1.2 Components

For each: state; operations; what is hard; what makes it correct.

**Runtime ownership** (`maintenance/ownership.ts`, `start.ts`, `rooms/runtime.ts`). The owner columns
of the control row, and in each process the flags `ready`, `closing` and the epoch it got. Acquire,
heartbeat, assert, close, loss, and the wait of a starting process. Hard: a paused process whose
lease ran out but whose flags are still set; takeover in the middle of a transaction. Correct when a
superseded generation never writes, epochs identify generations, and an orphaned lease is taken over.

**Maintenance control** (`maintenance/control.ts`, `http/automation.ts`, `maintenance-cli.ts`). Mode
and revision. Inspect, enter with an expected revision, leave with an expected revision and a
reason. Hard: work admitted just before the switch; operators with old readings. Correct when nothing
that blocks a drain starts while draining, `ready` is a certificate and not a guess, and an overtaken
operator changes nothing.

**Combat of one match** (`rooms/volleys.ts`, `casts.ts`, `combat.ts`, `ghosts.ts` for playback). Per seat
health, elimination, progress, the input gate and the draft; the open 100 ms damage window; the next
scripted action. Casting, rejecting an early completion, opening and landing a window, a scripted
action, elimination, settlement. Hard: a frame that arrives after something else was due; repeated
frames; late timers that find several things due; leaving in the middle of a window. Correct when
every accepted cast lands exactly once, windows land whole, and the match is settled once, afterwards.

**Match life cycle** (`rooms/match.ts`, `transitions.ts`, `spellbook.ts`). Phase, deadlines, the
generation token. Start, generation claim and outcome, countdown, opening, survivor check, end. Hard: the
provider is asked outside the command queue, under a claim that is committed before and a token that is
compared after. Correct when a match is paid for once, an answer meets only the match it was asked for,
and no room stays for ever in a phase that has an end.

**Leaving** (`rooms/leave.ts`). Drains what is due, records the departure, forfeits or removes the
seat, settles if one is left.

**Matchmaking** (`matchmaking/index.ts`). Tickets and the reservation columns of quick rooms. A poll is
a chain of transactions (inspect, refresh, pair, synthetic opponent), a cancellation a loop of them;
each reads without locks, locks, reads again. Hard: everything two such chains can do to each other
and to a room between any two statements. Correct when a reserved seat and a ticket imply each other,
`cancelled` is true, locks form no circle, and who keeps polling is seated.

**Shared spell books** (`generation/book-cache.ts`). The row of a theme (book, freshness, claim token,
lease) and, per process, the attempt in progress. Hard: reads that are stale when used, attempts that
outlive their lease, failures and crashes of the paying process. Correct when one generation is paid
for at a time, the newest publication stays and nobody is left waiting or is failed needlessly.

**Room engine** (`rooms/engine.ts`, `scope.ts`). The queue, the registry of sockets, the timer, the
generation in flight. Joins, messages, disconnects, refresh with at most 32 catch-up steps, retry
after failure, stop.

**Sockets, presence and host handover** (`rooms/sockets.ts`, `frames.ts`, `storage/players.ts`).
Connections per account, online marks, lobby seats that lapse, the host seat. Hard: a connection is
tracked from its upgrade on and joins later, in the order of the queue; the close of an old one comes
when it comes. Correct when the seat follows the connection that is there and a present host stays host.

**Lobby commands** (`rooms/lobby.ts`, `rules.ts`). Ready, theme, kick, start, rematch.

**Quick-match reservations** (`rooms/reservation.ts`). End a reservation, tell the sockets, remove seats:
two transactions with a push between them. Correct when a pairing ends once, and one that has ended starts
no match.

**Sessions and revocation** (`auth/sessions.ts`, `http/revocation.ts`, `admin/users.ts`). Session rows
with tombstones, bans; closing sockets of a session or an account over all loaded engines. Hard: a join that is on its way while
the revocation looks for sockets. Correct when nothing revoked is obeyed once the revocation is answered.

**Ghost recordings** (`ghosts.ts`). Trace of a seat; publication of good ones.

**Bounded structures** (`rooms/scope.ts` input budget, `http/rate-limit.ts`, `rooms/storage/events.ts`).

**Deployment flow** (`scripts/deploy/*.ts`). A recorded pointer to the running and the candidate build;
drain, verify, stop, migrate, start, wait for health, resume; roll back; a lock file. Hard: a command may
fail or be lost at any `await`, and an operator elsewhere switches the mode without the lock. Correct
when the record always tells the way back and admission reopens only on what was verified.

**The rest**: spell generation by the provider, WeChat login, HTTP surface, administration queries,
activity summary, configuration and assets, the shared protocol, and the browser (queue controller,
room session, views and renderer).

The `components` of `PROJECT.json` say for each which modules stand for it and what is left out; its
`hazards` list, at their lines, the things that are hard to test, with the properties that cover them.

## 2. Plan

Done, in this order: `RuntimeControl` (with `DrainBarrier`), since everything else is fenced by it;
`Combat` (with `CastLedger`), the core of the game; `Matchmaking`; `BookCache`; `DeployFlow`, over the
maintenance row of the first; `RoomSockets`, which says who is present and who may speak; `RoomLifecycle`,
which takes presence as given and carries one room from match to match; the proofs of all
seven.

How they meet. A drain in `RuntimeControl` counts what `Matchmaking`, `RoomLifecycle` and `Combat` do,
each kind of work with the guard it has there; `DeployFlow` uses `Inspect`, `EnterMaintenance` and
`LeaveMaintenance` as single steps, which the fencing of `RuntimeControl` justifies. `EndReservation` and
the start of a complete pairing are one step in `Matchmaking`, whose transactions only see them
committed, and several in `RoomLifecycle`. `OpenCombat` to `Settle` of `RoomLifecycle` stand for a whole
`Combat`.

What is left, in this order:

1. **Proofs**: every safety property of a passing run is proved (section 5). What would say more: that
   what `RoomLifecycle` and `Matchmaking` each take for granted of a reservation is what the other keeps.
2. **Algorithms** (what `survivalRanks` promises is proved): the snapshot difference of the client,
   the input budget, the rate limiter with eviction, the conditions for publishing a ghost.
3. **The browser's views of state**: the queue controller and the optimistic draft of the room session.

## 3. Modules and code

### 3.1 RuntimeControl

| variable | stands for |
|---|---|
| `row` | `runtime_control`: owner, epoch, lease (ticks left), mode, revision |
| `proc` | per process: down, waiting, up, lost or closing (`ready`, `closing`, the exit), and its epoch |
| `tx` | open transactions that hold the row `FOR SHARE`, with the owner, epoch and mode they read |
| `room`, `hold`, `waiting` | what a drain counts: rooms by kind, live reservations, waiting tickets |
| `seen` | the answers an operator acts on |
| `writer`, `overtaken`, `starts` | history variables and a bound |

`Acquire`, `Heartbeat`, `Close`, `Release`, `Crash`, `GiveUp` are the functions of `ownership.ts` and
the waiting loop of `start.ts`. A transaction that changes rooms or tickets is **two** steps, `Begin`
and `TransactOn` (one disjunct per kind of work: create, enqueue, pair, start, settle, rematch, end of
reservation, dequeue, abort), because others run while it holds the row. A transaction that takes
the row `FOR UPDATE` excludes all others and is one step under `NoShareLock`. A process that is
paused is simply one that takes no step while `Tick` runs the lease out. `Inspect`, `ReadPointer`, `ProbeHealth`,
`EnterMaintenance` and `LeaveMaintenance` are the operator's commands; their readings may be of any age.
`Ready` leaves out the counter `pendingResults` (`control.ts` 90-93, 115): it counts rooms whose result is still being
saved or failed to be, and no code writes either; a match is `saved` in the transaction that ends it.

`DrainBarrier` reduces this to a gate (open, closed, certified), the set of things that block a
replacement, the generation in force and the generation that wrote last. The mapping (`Gate`, `Barrier`)
calls the gate certified while an operator holds a `ready` answer of the revision in force.

### 3.2 Combat

| variable | stands for |
|---|---|
| `clock` | `Date.now()` in ticks |
| `phase`, `opponent`, `volley`, `nextAction`, `result`, `departed` | the columns of the room row, and the departures and results of the match |
| `seat` | per player: health, elimination, cast cursor, input gate |
| `net` | completions a client has sent, each deliverable at any time, any number of times |
| `job` | where a task of several transactions is, and the clock reading it keeps |
| `landed`, `thrown`, `crashes` | history variables and a bound |

`OpenFight` and `CheckOpening` are the two transactions of the opening (`transitions.ts` 117-145);
`Advance` is `advanceCombat` with everything it may do in one transaction (scripted action, window,
eliminations, settlement); `Judge` is a frame, including the recovery of an early completion and the
advance that a due window forces first; `BeginLeave`, `DrainForLeave`, `EndLeave` are `leave.ts`. The
engine's queue lets one task run at a time, so what interleaves is the order of tasks, the clock, late
timers, and `Crash`, which loses the task between two of its transactions and keeps what was committed.

Damage is shared among the other seats of the roster; `HealthScale` units to a point make the shares exact
for rosters of two to four, which is every roster the game allows (`MAX_PRIVATE_PLAYERS`, `MAX_QUICK_PLAYERS`), where the code
stores the exact fraction of a double. Left out as data no property needs: the credit of
damage, typing rates and accuracy (floats used for ranking ties and display), sockets and sessions of a
frame, the text of a draft (a draft is the index of its spell and when it was completed).

`CastLedger` says what remains when windows, timers, frames and leaves are forgotten: casts are accepted,
all that is pending lands together, and the match is settled once with nothing pending.

### 3.3 Matchmaking

| variable | stands for |
|---|---|
| `ticket` | `match_tickets`: state, room, ticks left, age |
| `room` | quick rooms: phase, reservation and its ticks, seats, departures of the match |
| `open` | the admission mode |
| `req` | requests in flight: step, pass, what was read, row locks wanted and held, how late the transaction's clock is |
| `said`, `alone` | history: the answer just given; how long an account has been queued without a lapse |

Each transaction is split at its statements: a read without locks (`…Peek`), one step per row lock
(`Lock`), then the re-read and decision (`…Decide`). Everybody else moves between these. `InspectPeek`
to `SyntheticSeat` are `acquireMatch` (`index.ts` 50-127 and the functions it calls), `CancelPeek` to
`CancelOnce` are `cancelMatch`. `EngineStep` is what the room's engine does to a quick room, each under
the room's lock: start under reservation, end of reservation, forfeit, finish, aborted generation,
rematch, host start, leave. A reservation that is over is `ended`, whether it was cancelled or has expired:
the queue does not tell these apart. `Drain` and `Reopen` are maintenance, and wait for open transactions as
`RuntimeControl` shows; a lost owner is a `Crash` of all requests.

An insert that meets the row of another request of the same account is `InsertConflict`: it waits for that
row and takes it as it is then, or begins again when it is gone (`insertWaiting`).

`Forget` gives a room's id back once the room is over and no ticket names it. Ids are fresh in the code;
a request that still wants the old row meets a ticket that has changed, as it would there. It is what
lets one or two rooms stand for an unbounded sequence of them. Which of the unused ids a new room gets
makes no difference (`FreshId`). Where `Reuse` is false ids do not come back, and nobody joins who could
not be given a room any more (`Seatable`, a bound): a bounded number of matches, among more accounts.

`Prompt` are accounts whose client polls as the browser's queue controller does: within the time of a ticket, and one
request at a time. All other accounts come, stay away and come back as they like, and `Quitter` may also
cancel and leave.

### 3.4 BookCache

| variable | stands for |
|---|---|
| `row` | `spell_book_cache`: book, freshness, claim token, lease |
| `pending` | per process: the attempt in `pendingBooks` |
| `req` | per call of `getSpellBook`: its step, process, the row it has read, its lease, its answer |
| `stored`, `order` | history: every book ever published; attempts in the order they claimed |

Every `await` separates two steps, so a request decides (`Decide`, `Wake`) by a row that may be old.
`Claim`, `PublishRow` and `ClearRow` are single conditional statements and are atomic; what follows them
in the process (`Launch`, `Settle`) is not. `Fault` is a failing statement at any of them, and
`Generate` ends with a book or without one at any time, before or after the lease has run out. Books and
tokens are named by the request that made them.

### 3.5 RoomLifecycle

| variable | stands for |
|---|---|
| `kind` | private, quick, or quick against a bot or a ghost (`mode`, `opponent_kind`) |
| `phase`, `res`, `seq`, `token`, `claim`, `book` | columns of the room row: phase, reservation, `generation_seq`, `generation_token`, `generation_claim`, the book |
| `due` | the deadline in force, of the phase or of the reservation, has passed |
| `rows`, `seated`, `online`, `out` | seats, the `seated` flag, who is connected, who gave the match up |
| `known`, `busy`, `timer` | the engine: loaded, in the middle of which command, its timer |
| `inFlight`, `attempt` | `inFlightGeneration` and what runs for it |
| `calls`, `stranded`, `troubles` | history variables and a bound |

`Fire` begins a catch-up; `Claim` to `ExpireSeats` are the branches of `advanceOnce`, each one
transaction with the reading it decides by, and `CaughtUp` ends the loop and arms the timer. Two of them
take a second transaction, and are two steps: the opening of combat (`OpenCombat`, `CheckSurvivors`)
and the end of a reservation (`EndReservation`, `DropSeats`). The engine's queue lets nothing of the same room in
between, but the generation (`Ask`, `AskFails`), the matchmaker's cancellation, the clock, a switch of the
mode, a failure (`CommandFails`) and a restart are not in that queue and come there too. `Apply` is
`applyGenerationOutcome`, a command of its own. A start by the host and a rematch set no timer, as in
the code, and a leave by a frame of a socket arms none either, while one over HTTP does (`ArmAfterLeave`);
`Refresh` is the sweep that makes up for it. The clock of a match is one bit: `Combat` says how
a match can end before.

### 3.6 RoomSockets

| variable | stands for |
|---|---|
| `tab` | per page: status, the socket it holds, its retry timer, a diagnosis under way |
| `conn` | per connection: admitted, open or shut, tracked by the registry, the code its page hears |
| `queue`, `half` | the commands the engine has still to run; which command has committed the first of its two transactions |
| `session`, `banned`, `req` | sessions, bans, and the logouts and bans that are under way |
| `rows`, `bound`, `host` | seats, their `conn_id`, `host_id` |
| `owed`, `troubles` | a history variable and a bound |

`Dial` to `Quit` are `room-connection.ts`; `Dial` includes the handshake, which reads session and ban.
`Attach` is the upgrade: the socket is tracked at once and its join queued. `Join`, `Drop` and
`Revoke` run from the queue in order; `Cut` (too many inputs, an outdated page), `ExpiredFrame`, `CatchUp`,
`SeatExpires` and `Leave` may have been queued at any moment, so they run between any two others.
`Ask`, `Target` and `Answer` are a logout or a ban: commit, choose the engines that track such a
socket now, answer when they have confirmed. A connection is a page and a number, free again when
nothing names it; the code draws a fresh id, so the reuse hides nothing.

Abstracted: the room is private, in its open lobby and never full; the order of seats (any present one may
become host, where the code takes the first); rows of `room_sessions`; lifting a ban; readiness flags.

### 3.7 DeployFlow

| variable | stands for |
|---|---|
| `journal`, `lock` | `deploy-state.json` and `.deploy-lock` |
| `run` | per executor: the steps still to do, the image they are about, the two records it will write, which of its readings are still current |
| `app` | the running container and whether its process serves |
| `mode`, `lease`, `work` | the control row: admission, the lease; what blocks a drain |
| `proven`, `trusted`, `faults` | history variables and a bound |

A command is a list of steps (`InstallSteps`, `DeploySteps`, `RollbackSteps`), one for each `await` that others can
come before, so a crash (`Crash`), a failure (`Fail`), a lost server process or a remote operator may
strike between any two. `Refuse` is a check that fails. The lock is left behind by a crash and only
`Unlock` clears it, once its process is gone. A revision or an epoch is only ever compared, so an
executor keeps which of its readings are still those of the row (`known`), and whoever moves the row takes
them away. An image is sound or not; an unsound one never serves.

Left out: what comes before any change (secrets, the check of the candidate's image, the entrance) and
`status`; edge configuration; the database container, which is taken to answer.

## 4. Runs

| run | instance | what it shows |
|---|---|---|
| `ownership` | fair; 2 processes, 2 connections, 1 operator, 1 room, 1 account, lease 2, 2 starts, 2 revisions | no write escapes the generation and mode it was checked under; nothing is admitted while draining; a ready answer is a certificate; the whole implements `DrainBarrier`; an orphaned lease is taken over and an undisturbed drain completes |
| `table` | 3 people, enforcing policy, match of 3 ticks, windows of 2 ticks, two spells of 1 and 2 points | exact shares, order of falls, settlement, no duel left to its clock; nothing is consumed twice; a settled match and a left seat never change |
| `scripted` | fair; a person and a bot or ghost, 1 crash | windows stay coherent; every accepted cast is pending or has landed (`CastLedger`); the match ends |
| `crash_gap` | 2 people, 1 crash | *violated*: see the findings |
| `queue` | 2 accounts, 2 requests, 1 room, both may cancel, a second match | drains empty the queue; tickets and seats agree; who is told `cancelled` holds no seat of a pairing; no circle of locks; no synthetic opponent before its turn |
| `patience` | fair; 3 accounts, 3 requests, 3 room ids; 2 prompt clients, the third account comes and goes | who keeps polling does not wait for ever, though polls overlap in every way: partners are taken, tickets lapse and come back without end, newcomers take the fallback away |
| `restarted` | 2 accounts, 1 may cancel, a second match | *violated*: see the findings |
| `books` | 2 processes, 3 requests, lease and freshness 1, fair | one paid generation at a time; newest publication stays; who came to a book gets no failure; an attempt in progress can be joined; everybody is answered |
| `lifecycle` | fair; a room of every kind, 3 people, 3 matches, 2 restarts or failures | the provider is paid once and awaited; a pairing ends once; the room goes on |
| `sockets` | fair; 2 accounts with a page each, 2 connections a page, 2 troubles | nothing revoked is obeyed; the host is present and is kept; pages settle |
| `replaced` | 2 pages of one account, no troubles | *violated*: see the findings |
| `deploy` | fair; 2 executors, two sound images and one that never serves, 1 match, 3 faults | the journal tells the way back; admission reopens on the record only; no match is stopped unseen; migrations run alone; a half-way update is recovered |

**Why these bounds.** A lease of two ticks tells a live, a nearly spent and a dead lease apart, and two starts
give an owner and its successor. Two connections let a
transaction be open while another begins. In `Combat`, `MaxClock` lies beyond the
end of the match, so the last window, the deadline and late timers all happen; the window is shorter
than the match and a spell may take one tick or more, so windows join several casts and several windows
follow each other; three seats are the least at which shares differ from the whole and two can fall in one
window. In `Matchmaking`, ages count only up to the patience and ticket time down to "just expired" and "expired
for longer", which is all the code compares. `patience` needs
three accounts in the queue at once: two may wait while a pairing finds its partner lapsed or taken by the third, or
a newcomer joins between `attemptPairing` and `assignSyntheticPartner`. All requests are inside their transactions
at once, and the second look at the queue (`index.ts` 458) decides both ways. The third account may let its ticket lapse
and revive it without end, so what keeps a client from waiting for ever is its own polls; but room ids are spent, and with
them the matches (three). The instance with matches without end, two accounts and drains passes as well (905,000 states), with
three accounts it exceeds 60 million states and was not checked to the end. Drains are left out of `patience`:
they delete every waiting ticket, which ends the wait. So are crashes, since a server that dies in every request serves
nobody, and cancellations, which take the partner away as a lapse does.
Three requests over two processes are what it takes to have
a superseded attempt, its successor in the same process, and a reader elsewhere; `books` also passes with a
lease of two ticks (381,000 states). In `RoomLifecycle` three matches are a match, a rematch, and one that an
answer to the first could meet; two troubles let a retry fail again. Three people let one leave and two go on. In `RoomSockets`
two connections of a page are a lost one and its successor, two accounts a host and somebody to hand the
room to; two troubles are a loss and a logout, in either order, or a loss during a recovery. In `DeployFlow` one image
serves, one replaces it, one fails; three faults are a failed update, a failed rollback and one more. Constants named `Max…` bound histories that grow (starts, revisions, clock,
completions, crashes, matches of a room).

**Symmetry** is used in safety runs only, over values that no definition tells apart; in `Matchmaking` these
are the requests of `queue` and `restarted`, since accounts are numbered, and room ids are chosen by `FreshId`. **Deadlock** is checked where the system can always
move (`Matchmaking`). The other instances stop legitimately: a settled match at the last clock reading, all requests
answered, all processes down and starts spent, every page closed, a room that nobody is in.

**Assumptions on the environment.** Clocks of processes agree with the database (`BookCache` reads process
clocks). A matchmaking transaction lasts at most one tick, less than the time of a ticket (60 s). A claim
returns within its lease (`ClaimsReturnInTime`: one statement against 95 s). In `patience`, `Prompt`
says of the accounts the property is about that their clients poll within the time of a ticket
and one request at a time, as the browser's queue controller does; without it nobody can promise anything to an
account that does not ask. Beside such clients, a request is over before the ticket that it renews runs out.

A migration ends with its command: `Migrate` is one instant of an executor that has the lock. The code runs it in a
container of its own, which can outlive a command that was lost; `lock.ts` (1-3, 41) leaves it to the operator to
make sure that nothing it spawned still runs before `unlock`, and `MigratesAlone` holds under that rule.
`Unlock` looks at the holder and removes the lock in one step. `clearStaleLock` (`lock.ts` 68-78) does so in
two, and takes a lock it cannot read, which a live holder's is between `openSync` and `writeSync` (30-45), for a
stale one; operators are assumed not to unlock while somebody begins a command.

**Fairness**, and what justifies it:

* `RuntimeControl`: weak on `Tick` (time passes), `Acquire` (a waiting process retries every two seconds),
  `Begin` and `TransactOn` (an event loop serves its work, a statement returns); strong on `SettleMatch`,
  since a match that lasts until its deadline is retried by its timer and the sweep for as long as it is due.
* `Combat`: weak on the clock and on the remaining transactions of a task that has begun; strong on `Advance`,
  since the timer is re-armed after every task and a failing step is retried.
* `Matchmaking`: strong on the service of a request, as PostgreSQL queues those who wait for a row lock; weak on
  the next poll of a prompt client that waits, the clock, the end of a reservation or match, and `Forget` (there
  is always another id). Nothing is assumed of the polls of anybody else.
* `BookCache`: weak on the clock and on each request.
* `RoomLifecycle`: weak on the steps of a command that has begun, the clock and the provider's answer (it has a
  timeout); strong on what has to wait for its turn in the queue: the timer, the sweep every five seconds, the
  outcome of a generation and its retry.
* `RoomSockets`: weak on retry timers, the return of the network, closings and the queue; strong on a
  diagnosis, which asks again when an answer is lost.
* `DeployFlow`: weak on the steps of a command, the boot of a sound image, the end of matches and the removal of
  dead locks; strong on an operator who keeps trying to drain, to roll back and to install. `RecoveryEnds` is
  about that operator; an app that is down over open admission or running matches is excluded, since the
  code refuses to go on there and asks for a decision.

No fairness is assumed of players, of remote operators, of crashes or failures.

## 5. Proofs

Each `*_proofs` module extends its component and proves, for every value of the constants allowed by the
assumptions named there, that an invariant `IInv` holds initially, is preserved by every step and
implies the properties listed. The safety properties alone are not inductive; what is added, and why:

**`RuntimeControl_proofs`**: `IInv` is `TypeOK`, `FencedTransactions`, `DistinctEpochs` and three more.
`EpochsIssued`: no process has an epoch that the row has not issued, without which a new epoch might
repeat one. `WriterIssued`: the same of the last writer. `Certificates`: an operator's ready answer of the
revision in force means that the mode is draining and nothing blocks, and nobody knows a revision to
come; it is what makes `ReadyCertificate` survive a commit, since a transaction open under that mode cannot admit. Theorems: `Fencing`,
`EpochIdentity`, `ReadyIsStable`, `StaleWritersFenced`, `AdmissionClosed`, `OvertakenReadAgain` (an operator
whose reading another switch has overtaken never switches with it: its revision is older than the row's), and
`BarrierImplemented`, the refinement, where each step is mapped to a step of `DrainBarrier` or a stutter.

**`Combat_proofs`**: `IInv` is `TypeOK`, `CastsAccounted`, `NeverUnsettled` and four more. `HealthLeft`: health is
never negative. `WindowOpen`: a window exists only in a fight, ends within it, is aimed at two seats or
more, and nobody's part of it exceeds the whole. `FreshFight`: between the two transactions that open
combat nobody has acted. `LeaversOut`: who departed from a match that goes on is eliminated. One lemma, `StepEffect`, says what a step does to casts, windows and results; the
theorems `Accounted`, `SettlementNeverThrows`, `DeathIsFinal`, `SettlementIsFinal`, `LeaveIsFinal` and
`LedgerImplemented` use it.

**`CombatOrder_proofs`** builds on that invariant and adds five of its own.

* `TimeInv`, about instants. An elimination, a leave, an open window and the result each carry an instant, and
  none of them follows from the clock alone, since a timer may be late. `OutIsPast`: nobody falls in the future.
  `LeaveTime`: a leave works with a past reading of the clock that no fall is later than. `FightTime`: fight and
  scripted opponent act after the opening. `WindowTime`: an open window ends after all falls so far and
  within the match; its casts are past, lie in it and come before the next scripted action. `FallTime`: combat
  fells nobody before the fight or after its deadline. Theorems: `WindowsCohere`, `ResultIsInTime`, and the
  action property `FallsKeepOrder`.
* `DuelGoesOn`: while no process was lost, a running fight without pending damage is a fight of at least two, except
  between the two transactions of its opening. Theorem: `DuelsAreSettled`. Its hypothesis `crashes = 0` is
  needed: after a crash the property is false (`crash_gap`).
* `Consumed`: behind the steps of a cursor (spells cast and early completions recovered) stand as many different
  completions of that client, all of which the cursor has passed; so a frame that comes again finds itself
  passed. Theorem: `CompletionsOnce`.
* `WholePoints`: damage comes in whole points of six units, and one, two or three others divide a point.
  Theorem: `SharesDivide`; it is where `RoomAssumption`, at most four seats, is used.
* `Outcome`: a settled match has the ranks that its seats give, and eliminations end it only when at most one seat
  stands. `AboveOrder` shows of any seats that strictly fewer are above the better one and the same above
  equals. Theorems: `RanksAreFair` (who did better ranks strictly better, equals share a rank, the survivor is first)
  and `OutcomeStands`.

**`BookCache_proofs`**: `IInv` is `TypeOK`, `ServedWasStored`, `BookMeansNoFailure`, `OwnerIsJoinable` and the
following. `Placed`, `Unanswered`: where a request may be and that it has no answer before it is done.
`BooksStored`, `WarmHasBook`: books in rows that were read have been published; who came to a warm row holds a
book. `HolderPays`: who pays within a lease holds the token. `ClaimedInTime`: a claim that is on its way
back is still within its lease. `ClaimOrder`: attempts are ordered by claim, and the holder of the token
is the last of them, so a late publication or clearing, which names another token, changes nothing.
Theorems: `PaidOnce`, `ServedFromTheRow`, `NoFailureWithBook`, `OwnerJoinable`, `NewestWins`.

**`RoomLifecycle_proofs`** has two invariants. `PaidInv`: a token is that of the match being generated
(`TokenIsCurrent`); what is still to come or not claimed has not been asked for (`UnclaimedIsUnpaid`); the attempt
that runs is the one this process has in flight, and the claim is its own (`AttemptIsMarked`), so a catch-up
cannot take it for interrupted; while it reads the room it has not asked (`ReadingIsUnpaid`). It gives
`PaidOnceHolds` and `AttemptIsAwaitedHolds`. `PairInv`: a reservation exists only in a quick lobby, and an
ended one has nobody seated or nobody connected (`EndedIsEmpty`), so that nobody can start from it; it gives
the action property `PairingEndsOnceHolds`. Two more say what a match is played with. `BookInv`: a match that has
come to its countdown has the book that was written for it, and the provider was asked for it exactly once, or never if a
ghost brought the book (`BookIsCurrentHolds`). `RosterInv`: from its start on a match has the seats of those who had
come, and whoever is connected has one, except in an ended pairing whose sockets are still to be closed
(`RosterStandsHolds`); `DroppedInLobby`, that the second transaction of an ended reservation runs in a lobby only,
makes it inductive.

**`RoomSockets_proofs`**: what was asked to be revoked is dead in the database (`AskedIsDead`), so no later join is
welcome; a connection whose handshake is under way is new to the engine (`GrantedIsNew`); once the rooms have
confirmed, no tracked connection of it holds its seat (`ConfirmedIsUnseated`). The last is inductive because a
connection that is tracked later has still to join, and one that was tracked when the engines were chosen was either
seen by `Target` or unseated by the queued `Revoke`. Theorems: `RevokedIsOutHolds`, `GrantedIsNewHolds`.
For the host there is a second invariant, `HostInv`: a seat names a connection of its own account (`SeatsAreOwn`);
what is queued to be dropped is tracked no more (`DropIsUntracked`); an open connection holds the seat of its account or its join
is queued (`OpenIsSeated`); and where somebody is present and the host is not, the closing of the connection the
host's seat names is still on its way, or a command is half done or was lost (`HostStands`). The last turns "between
two commands" into something every step keeps, and gives `HostIsPresentHolds`. With `SockIsOwn`, that a page
listens to a connection of its own, it also gives that no late close hands the room away: `HostKeptHolds`.
`SeatsFollowSockets` states the first and the third part by themselves.

**`DeployFlow_proofs`**: a command is a list of steps, and the steps of every command come in one order, none of
them twice (`Place`, `Sorted`; the lemmas `InstallSorted`, `DeploySorted`, `RollbackSorted`, `DrainSorted`). So
what a command has done can be read off what is left of it, and each part of `IInv` says what has been true since
one step as long as another is still to come: `Announced` (no journal without a pending image between the plan and the
record), `Placed` and `Verified` (the target runs, and has served), `Recorded` (the journal is what the command
wrote, from then on), `Shut` (no trusted opening before it), `Vacated` (no container between the stop and the
start), `Drained` (who still knows the revision of its drain knows that nothing is at work). `Exclusive`, that
whoever is in a command holds the lock, makes each step a step of one command alone. Theorems:
`JournalAheadHolds`, `OpenOnTheRecordHolds`, `NoGameStoppedHolds`, `MigratesAloneHolds`.

**`Matchmaking_proofs`**: what a transaction has read is still true where it has locked the row. `Standing`,
`Pairing`, `Assigning`, `Releasing` say which rows each program counter has locked and still wants, in which order,
and what is known of the locked ones; `Exclusive`, that no row is locked twice; so a step of one request leaves the others' part of
`IInv` alone (`OthersKeep`). Of the tables: ids of rooms to come are named by no ticket (`RoomsFresh`), a room that
has started is no longer reserved (`StartedIsLocked`), a row that appeared while a transaction was under way is young
(`Young`; such a transaction meets it as a conflict of its insert), so renewing it revives nothing, and the age of a live ticket is time its account has waited (`AgeIsServed`). A drain has waited for
every transaction that could join or pair (`Drained`). For `NoLockCycle`: whoever holds a ticket and waits is
pairing and waits for a later account, the holder of a room waits for a ticket, and whoever releases a room waits only for
holders that wait for nobody; so a circle would have no last account. Theorems: `NoLockCycleHolds`,
`TicketsMatchSeatsHolds`, `CancelledIsFreeHolds`, `DrainEmptiesQueueHolds`, `SyntheticWaitsItsTurnHolds`,
`TypeCorrect`.

The assumptions are those of the `ASSUME`s in the modules (lengths of time positive, `None` outside the other
sets, a scripted seat only in a roster of two, at most four seats, a last account in the order of locks); TLC evaluates them in every run. `ClaimsReturnInTime` and the
agreement of clocks are part of the model and hence of what `BookCache_proofs` proves.

In every component `TypeCorrect` proves `TypeOK`; in `RoomLifecycle`, `RoomSockets` and `DeployFlow` from
the invariants above and a list of what a step can assign (`Assigned`).

**Only model-checked**: liveness (`LeaseIsHandedOver`, `DrainCompletes`, `MatchEnds`, `NobodyWaitsForever`,
`EveryoneAnswered`, `RoomGoesOn`, `TabsSettle`, `RecoveryEnds`). Liveness under fairness and `ENABLED` are out
of the prover's reach, as are induction over data and recursive operators, so a definition that recurs over a
sequence can only be compared with its reference on bounded inputs. Every other property of a passing run,
invariants, action properties and both refinements, is proved.

## 6. Findings

1. **A decided duel that plays to its clock** (`crash_gap`, `NoIdleDuel`). `transitions.ts` 126-127 says that the
   survivor rule is checked when combat opens, so that a duel whose opponent left during the countdown need
   not wait for the clock. The check is a second transaction. If the process is lost between the two, the room is
   `playing`, `advanceOnce` goes to `advanceCombat`, and that returns until something is due; an idle
   survivor waits for the whole match. Without a crash the property holds (`table`).
2. **`cancelled` with a seat in a running match** (`restarted`, `CancelledIsTrue`). `matchmaking/index.ts` 31
   promises `cancelled: true` only when the account has neither a ticket nor a live seat. After its first match
   a quick room is an ordinary room: its host may start it again, but no ticket names it any more, so a
   cancellation finds none and answers `cancelled`. What holds is `CancelledIsFree` (`queue`): no seat of a
   pairing is left.
3. **Two pages that replace each other** (`replaced`, `NewerReplacesOlder`). `engine.ts` 299 says that the newer
   connection replaces the older sockets of the account. A join closes every other socket of the account
   that is tracked, and sockets are tracked before their queued join runs. When both connect before
   either has joined, the older join closes the newer socket; the newer join then runs for a closed socket, binds the
   seat to it and closes the older one. Both pages end with the terminal code 4000.

Met while modelling, and not runs of their own:

* *A start on an ended pairing.* If the second transaction of `endReservation` fails, seats and sockets stay until the
  sweep closes them. `hostStartTx` (`lobby.ts` 128-131) refuses only a pairing that is still `reserved`, so the host may
  start in those seconds, although `rules.ts` 74-77 says an ended pairing can be joined no more. `PairingEndsOnce`
  therefore excepts runs in which that transaction has failed (`stranded`).
* *A host that is owed.* If the second transaction of a closing fails, nothing hands the room over until the next
  event that reconciles; `HostIsPresent` excepts that (`owed`).
* *A seat that never lapses.* After a restart in an open lobby a seat keeps the `conn_id` of a connection of the old
  process and no `slot_expires_at`; if its player does not come back it is not expired, and it blocks a
  start until somebody removes it.
* *A first install cannot be retried.* `docs/deployment.md` 295 and the message at `flow.ts` 178-179 advise to run
  `install` again after a first install has failed; when it has failed after its container was started, `cmdInstall`
  (`flow.ts` 279-283) refuses because a container runs.

## 7. Not modelled

Still to come (section 2): ghosts (which recorded trace is published; `Combat` takes any), the rate limiter and the
event ring (bounded, sequential, in the memory of one process), readiness and theme in a lobby (plain flags), the browser's
optimistic state. Left out
for good: the calls to the language model and to WeChat (one exchange with an external service, no state;
`BookCache` takes any outcome at any time); administration queries, the activity summary and snapshots
(read-only); configuration, assets and page metadata (constant); validation, error formats and wording; rendering
and animation in the browser, whose frames and polls appear as the inputs of `Combat` and `Matchmaking`.
