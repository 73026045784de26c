------------------------------ MODULE BookCache ------------------------------
(***************************************************************************)
(* The shared spell book of one preset theme: a database row with the      *)
(* published book and the lease of a paid generation in progress, and the  *)
(* requests of several processes that read, wait, refresh and publish.     *)
(*                                                                         *)
(* Every await of getSpellBook separates two steps, so the row a request   *)
(* decides by may be old.  A process knows the attempt it runs itself      *)
(* (pending); of all others it knows the row only.  Process clocks agree.  *)
(* Time is the number of ticks the lease and the freshness have left.      *)
(***************************************************************************)
EXTENDS Integers, FiniteSets, Sequences

CONSTANTS
  Process,      \* application processes (two overlap while a lease changes hands)
  Request,      \* calls of getSpellBook
  None,         \* no request, no book, no process
  LeaseTicks,   \* BOOK_LEASE_MS in ticks
  FreshTicks    \* BOOK_FRESH_MS in ticks

ASSUME NoneAssumption == None \notin Process \cup Request
ASSUME TicksAssumption == LeaseTicks \in Nat \ {0} /\ FreshTicks \in Nat \ {0}

VARIABLES
  row,          \* spell_book_cache: book, freshness, token, lease
  pending,      \* per process: the attempt it runs
  req,          \* per request: where it is and the row it has read
  stored,       \* history: books that were ever published
  order         \* history: attempts in the order of their claims

vars == <<row, pending, req, stored, order>>

\* A token and a book are named by the request that claims and that generates.  A field
\* that is read no more is reset, so that equal situations are equal states.
EmptyRow == [book |-> None, fresh |-> 0, token |-> None, lease |-> 0]
NewRequest == [pc |-> "new", at |-> None, row |-> EmptyRow, warm |-> FALSE, left |-> 0,
               ok |-> FALSE, answer |-> "none", book |-> None]

Steps == {"read", "decide", "joined", "asleep", "claim", "claimed", "generating",
          "publish", "clear", "latest"}

\* Where a request talks to the database.
Querying == {"read", "asleep", "claim", "publish", "clear", "latest"}

Floor(n) == IF n > 0 THEN n - 1 ELSE 0

-----------------------------------------------------------------------------
Init ==
  /\ row = EmptyRow
  /\ pending = [p \in Process |-> None]
  /\ req = [q \in Request |-> NewRequest]
  /\ stored = {}
  /\ order = <<>>

-----------------------------------------------------------------------------
(* Answers *)

Become(q, r) == req' = [req EXCEPT ![q] = r]

Finished(q, answer, book) ==
  [pc |-> "done", at |-> None, row |-> EmptyRow,
   warm |-> (req[q].warm /\ answer = "failed"), left |-> 0, ok |-> FALSE,
   answer |-> answer, book |-> book]

Answer(q, answer, book) ==
  /\ Become(q, Finished(q, answer, book))
  /\ UNCHANGED <<row, pending, stored, order>>

Goto(q, pc) == Become(q, [req[q] EXCEPT !.pc = pc])

Joined(q) == {x \in Request : req[x].pc = "joined" /\ req[x].row.token = q
                              /\ req[x].at = req[q].at}

\* Mutant: whatever attempt the process has is forgotten.
Resolve_DropsAny(q, answer, book) ==
  /\ req' = [x \in Request |->
       IF x = q \/ x \in Joined(q) THEN Finished(x, answer, book) ELSE req[x]]
  /\ pending' = [pending EXCEPT ![req[q].at] = None]

\* The promise of an attempt settles: its owner and all who joined it get the same answer,
\* and the process forgets the attempt unless a later one has taken its place.
Resolve(q, answer, book) ==
  /\ req' = [x \in Request |->
       IF x = q \/ x \in Joined(q) THEN Finished(x, answer, book) ELSE req[x]]
  /\ pending' = [p \in Process |-> IF pending[p] = q THEN None ELSE pending[p]]

-----------------------------------------------------------------------------
(* getSpellBook *)

Start(q, p) ==
  /\ req[q].pc = "new"
  /\ Become(q, [req[q] EXCEPT !.pc = "read", !.at = p, !.warm = row.book # None])
  /\ UNCHANGED <<row, pending, stored, order>>

Read(q) ==
  /\ req[q].pc = "read"
  /\ Become(q, [req[q] EXCEPT !.pc = "decide", !.row = row])
  /\ UNCHANGED <<row, pending, stored, order>>

\* The process itself runs the attempt that the row names, lapsed or not.
OwnAttempt(q) ==
  pending[req[q].at] # None /\ pending[req[q].at] = req[q].row.token

\* Mutant: a lease does not lapse.
LeaseIsLive_Always(r) == r.token # None

LeaseIsLive(r) == r.token # None /\ r.lease > 0

BookIsFresh(r) == r.book # None /\ r.fresh > 0

\* The inner loop's look at the row that was read.
Decide(q) ==
  LET seen == req[q].row IN
  /\ req[q].pc = "decide"
  /\ \/ /\ OwnAttempt(q) \/ LeaseIsLive(seen)
        /\ seen.book # None
        /\ Answer(q, "ok", seen.book)
     \/ /\ OwnAttempt(q)
        /\ seen.book = None
        /\ Goto(q, "joined") /\ UNCHANGED <<row, pending, stored, order>>
     \/ /\ ~OwnAttempt(q) /\ LeaseIsLive(seen)
        /\ seen.book = None
        /\ Goto(q, "asleep") /\ UNCHANGED <<row, pending, stored, order>>
     \/ /\ ~OwnAttempt(q) /\ ~LeaseIsLive(seen) /\ BookIsFresh(seen)
        /\ Answer(q, "ok", seen.book)
     \/ /\ ~OwnAttempt(q) /\ ~LeaseIsLive(seen) /\ ~BookIsFresh(seen)
        /\ Become(q, [req[q] EXCEPT !.pc = "claim", !.row = EmptyRow])
        /\ UNCHANGED <<row, pending, stored, order>>

\* A cold reader of a foreign lease looks again; one that sees the attempt gone without a
\* book does not pay for another.
Wake(q) ==
  /\ req[q].pc = "asleep"
  /\ \/ /\ row.book = None /\ row.token # req[q].row.token
        /\ Answer(q, "failed", None)
     \/ /\ row.book # None \/ row.token = req[q].row.token
        /\ Become(q, [req[q] EXCEPT !.pc = "decide", !.row = row])
        /\ UNCHANGED <<row, pending, stored, order>>

Take(q) ==
  /\ row' = [row EXCEPT !.token = q, !.lease = LeaseTicks]
  /\ order' = Append(order, q)

\* claimLease: the row is judged again under its lock.
Claim(q) ==
  /\ req[q].pc = "claim"
  /\ \/ /\ LeaseIsLive(row) \/ BookIsFresh(row)
        /\ Goto(q, "read")
        /\ UNCHANGED <<row, order>>
     \/ /\ ~LeaseIsLive(row) /\ ~BookIsFresh(row)
        /\ Take(q)
        /\ Become(q, [req[q] EXCEPT !.pc = "claimed", !.left = LeaseTicks])
  /\ UNCHANGED <<pending, stored>>

\* The claim has returned: the paid generation starts and the process knows of it.
Launch(q) ==
  /\ req[q].pc = "claimed"
  /\ pending' = [pending EXCEPT ![req[q].at] = q]
  /\ Goto(q, "generating")
  /\ UNCHANGED <<row, stored, order>>

\* The model answers, with a book or without, at any time.
Generate(q) ==
  /\ req[q].pc = "generating"
  /\ Goto(q, "publish") \/ Goto(q, "clear")
  /\ UNCHANGED <<row, pending, stored, order>>

PublishRow(q) ==
  IF row.token = q
  THEN /\ row' = [book |-> q, fresh |-> FreshTicks, token |-> None, lease |-> 0]
       /\ stored' = stored \cup {q}
  ELSE UNCHANGED <<row, stored>>

\* Mutant: the statement does not ask for the token.
Publish_AnyToken(q) ==
  /\ req[q].pc = "publish"
  /\ row' = [book |-> q, fresh |-> FreshTicks, token |-> None, lease |-> 0]
  /\ stored' = stored \cup {q}
  /\ Become(q, [req[q] EXCEPT !.pc = "latest", !.ok = TRUE])
  /\ UNCHANGED <<pending, order>>

\* publishBook: nothing happens, and the outcome is a failure, once the token is not ours.
Publish(q) ==
  /\ req[q].pc = "publish"
  /\ PublishRow(q)
  /\ Become(q, [req[q] EXCEPT !.pc = "latest", !.ok = (row.token = q)])
  /\ UNCHANGED <<pending, order>>

ClearRow(q) ==
  row' = IF row.token = q THEN [row EXCEPT !.token = None, !.lease = 0] ELSE row

\* Mutant: whoever holds the lease loses it.
ClearRow_AnyToken(q) == row' = [row EXCEPT !.token = None, !.lease = 0]

\* Mutant: the statement does not ask for the token.
Clear_AnyToken(q) ==
  /\ req[q].pc = "clear"
  /\ ClearRow_AnyToken(q)
  /\ Goto(q, "latest")
  /\ UNCHANGED <<pending, stored, order>>

\* clearLease
Clear(q) ==
  /\ req[q].pc = "clear"
  /\ ClearRow(q)
  /\ Goto(q, "latest")
  /\ UNCHANGED <<pending, stored, order>>

OwnOutcome(q) ==
  Resolve(q, IF req[q].ok THEN "ok" ELSE "failed", IF req[q].ok THEN q ELSE None)

\* Mutant: the outcome of the attempt is the answer.
Settle_OwnOutcome(q) ==
  /\ req[q].pc = "latest"
  /\ OwnOutcome(q)
  /\ UNCHANGED <<row, stored, order>>

\* The end of refresh: any stored book beats a failure.
Settle(q) ==
  /\ req[q].pc = "latest"
  /\ \/ row.book # None /\ Resolve(q, "ok", row.book)
     \/ row.book = None /\ OwnOutcome(q)
  /\ UNCHANGED <<row, stored, order>>

-----------------------------------------------------------------------------
(* Faults *)

\* A statement fails, before or after it took effect; the request is rejected, and with an
\* attempt everybody who joined it.
Fault(q) ==
  /\ req[q].pc \in Querying
  /\ \/ req[q].pc = "publish" /\ PublishRow(q) /\ UNCHANGED order
     \/ req[q].pc = "clear" /\ ClearRow(q) /\ UNCHANGED <<stored, order>>
     \/ /\ req[q].pc = "claim" /\ ~LeaseIsLive(row) /\ ~BookIsFresh(row)
        /\ Take(q) /\ UNCHANGED stored
     \/ UNCHANGED <<row, stored, order>>
  /\ Resolve(q, "error", None)

\* A process dies with its requests; the row keeps what was committed.
Crash(p) ==
  /\ \E q \in Request : req[q].at = p /\ req[q].pc # "done"
  /\ req' = [q \in Request |->
       IF req[q].at = p /\ req[q].pc # "done" THEN Finished(q, "error", None) ELSE req[q]]
  /\ pending' = [pending EXCEPT ![p] = None]
  /\ UNCHANGED <<row, stored, order>>

\* Bound: the answer to a committed claim reaches its process within the lease, which is
\* as long as a whole generation.
ClaimsReturnInTime == \A q \in Request : req[q].pc = "claimed" => req[q].left > 1

\* Time passes, for the rows that were read as well.
Tick ==
  /\ ClaimsReturnInTime
  /\ row' = [row EXCEPT !.lease = Floor(row.lease), !.fresh = Floor(row.fresh)]
  /\ req' = [q \in Request |->
       [req[q] EXCEPT !.left = Floor(req[q].left),
                      !.row = [req[q].row EXCEPT !.lease = Floor(req[q].row.lease),
                                                 !.fresh = Floor(req[q].row.fresh)]]]
  /\ UNCHANGED <<pending, stored, order>>

Proceed(q) ==
  \/ Read(q) \/ Decide(q) \/ Wake(q) \/ Claim(q) \/ Launch(q) \/ Generate(q)
  \/ Publish(q) \/ Clear(q) \/ Settle(q)

Next ==
  \/ \E q \in Request : Proceed(q) \/ Fault(q) \/ \E p \in Process : Start(q, p)
  \/ \E p \in Process : Crash(p)
  \/ Tick

Spec == Init /\ [][Next]_vars

\* Statements return, the model's budget bounds a generation, and time passes.
Fairness == WF_vars(Tick) /\ \A q \in Request : WF_vars(Proceed(q))

FairSpec == Spec /\ Fairness

-----------------------------------------------------------------------------
(* Properties *)

RowType == [book : Request \cup {None}, fresh : 0..FreshTicks,
            token : Request \cup {None}, lease : 0..LeaseTicks]

\* The shape of every variable.
TypeOK ==
  /\ row \in RowType
  /\ pending \in [Process -> Request \cup {None}]
  /\ req \in [Request -> [pc : Steps \cup {"new", "done"}, at : Process \cup {None},
                          row : RowType, warm : BOOLEAN, left : 0..LeaseTicks,
                          ok : BOOLEAN, answer : {"none", "ok", "failed", "error"},
                          book : Request \cup {None}]]
  /\ stored \subseteq Request
  /\ order \in Seq(Request)

Paying(q) == req[q].pc \in {"claimed", "generating"}

\* Two processes, or two requests of one, never pay for the same theme at once while both
\* are within the lease they claimed (claimLease, clearLease, publishBook).
SingleFlight ==
  \A q, x \in Request :
    Paying(q) /\ Paying(x) /\ req[q].left > 0 /\ req[x].left > 0 => q = x

ClaimedBefore(q, x) == \E i, j \in 1..Len(order) : i < j /\ order[i] = q /\ order[j] = x

\* A late result never replaces the book of an attempt that claimed after it.
NewestBookStays ==
  [][row'.book # row.book => ~ClaimedBefore(row'.book, row.book)]_vars

\* Whoever is answered with a book is answered with one that has been published: the book
\* of a superseded attempt is never served, not even to the request that paid for it.
ServedWasStored == \A q \in Request : req[q].answer = "ok" => req[q].book \in stored

\* A request that came when there was a book never gets a failure of the generation, however
\* the refreshes it waits for or runs end.  A database statement that fails is another answer
\* ("error") and is outside this.
BookMeansNoFailure == \A q \in Request : req[q].answer = "failed" => ~req[q].warm

\* The attempt that holds the row's token is the one its process lets others join, whatever
\* older attempt of the process ends meanwhile (the guarded delete of getSpellBook).
OwnerIsJoinable ==
  \A q \in Request : req[q].pc = "generating" /\ row.token = q => pending[req[q].at] = q

\* Every request is answered: no lease of a dead process and no lost attempt holds a
\* reader back for good.
EveryoneAnswered == \A q \in Request : req[q].pc = "read" ~> req[q].pc = "done"
=============================================================================
