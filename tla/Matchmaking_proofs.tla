--------------------------- MODULE Matchmaking_proofs ---------------------------
(* For any accounts, rooms and requests: no circle of row locks, no seat without its
   ticket, no ticket in a drained queue, and the patience before a synthetic opponent.

   What a transaction has read stays true for it where it has locked the row: the invariant
   says which rows each program counter has locked and still wants, that no row is locked
   twice, and what is known of the locked ones. *)
EXTENDS Matchmaking, TLAPS, WellFoundedInduction

State == {"none", "waiting", "matched"}

Row ==
  [user : User \cup {None}, pc : Between \cup Inside, pass : Nat,
   seen : State \cup {"conflict"},
   in : Room \cup {None}, other : User \cup {None}, want : Seq(User \cup Room),
   have : SUBSET (User \cup Room), lag : {0, 1}]

\* Rows of the two tables.
RoomRow ==
  [phase : {"none", "lobby", "active", "finished"},
   res : {"none", "reserved", "locked", "ended"},
   hold : Nat, seats : SUBSET User, departed : SUBSET User, bot : BOOLEAN, restarts : Nat]

TicketRow == [state : State, room : Room \cup {None}, ttl : Int, age : Nat]

TableTypes ==
  /\ ticket \in [User -> TicketRow]
  /\ room \in [Room -> RoomRow]
  /\ open \in BOOLEAN /\ alone \in [User -> Nat]
  /\ \A u \in User : ticket[u].state = "matched" => ticket[u].room \in Room

\* Ids of rooms to come are named by no ticket.
RoomsFresh ==
  \A r \in Room : room[r].phase = "none" => room[r] = NoRoom /\ \A u \in User : ~Matched(u, r)

\* The age of a ticket that has not lapsed is time that its account has waited.
AgeIsServed ==
  \A u \in User : ticket[u].state = "waiting" /\ ticket[u].ttl >= 0 =>
    ticket[u].age <= alone[u] \/ PatienceTicks <= alone[u]

\* The reservation of a room that has started is over.
StartedIsLocked ==
  \A r \in Room : room[r].phase \in {"active", "finished"} => room[r].res # "reserved"

\* What the tables are, whoever is in the middle of a transaction.
Tables ==
  /\ TableTypes /\ RoomsFresh /\ StartedIsLocked /\ TicketsMatchSeats /\ AgeIsServed
  /\ DrainEmptiesQueue

\* The rows of a transaction, one or two, locked in this order.
LocksOne(q, u) ==
  \/ req[q].want = <<u>> /\ req[q].have = {}
  \/ req[q].want = <<>> /\ req[q].have = {u}

LocksTwo(q, a, b) ==
  \/ req[q].want = <<a, b>> /\ req[q].have = {}
  \/ req[q].want = <<b>> /\ req[q].have = {a}
  \/ req[q].want = <<>> /\ req[q].have = {a, b}

Resting(q) ==
  req[q].pc \in Between => req[q].have = {} /\ req[q].want = <<>>

Named(q) == req[q].pc # "idle" => req[q].user \in User

Standing(q) ==
  /\ req[q].pc \in {"inspecting", "refreshing", "cancelling"} =>
       IF req[q].seen = "matched"
       THEN req[q].in \in Room /\ LocksTwo(q, req[q].in, req[q].user)
       ELSE LocksOne(q, req[q].user)
  /\ req[q].pc = "inspecting" => req[q].seen = "matched"

\* A row that was not there when the transaction began is young.
Young(q) ==
  (req[q].pc = "refreshing" /\ req[q].seen \in {"none", "conflict"}
     /\ ticket[req[q].user].state = "waiting") =>
    ticket[req[q].user].ttl >= TicketTicks - 1 - req[q].lag

Pairing(q) ==
  req[q].pc = "pairing" =>
    /\ req[q].other \in User /\ req[q].other # req[q].user
    /\ req[q].user < req[q].other => LocksTwo(q, req[q].user, req[q].other)
    /\ req[q].other < req[q].user => LocksTwo(q, req[q].other, req[q].user)

Assigning(q) ==
  /\ req[q].pc = "assigning" => LocksOne(q, req[q].user)
  /\ req[q].pc = "seating" =>
       /\ req[q].want = <<>> /\ req[q].have = {req[q].user}
       /\ ticket[req[q].user].state = "waiting"
       /\ ticket[req[q].user].ttl + req[q].lag > 0
       /\ alone[req[q].user] >= PatienceTicks

Releasing(q) ==
  req[q].pc = "releasing" =>
    /\ req[q].in \in Room /\ req[q].want = <<>> /\ req[q].have = {req[q].in, req[q].user}
    /\ Matched(req[q].user, req[q].in) /\ Reserved(req[q].in)

\* A drain has waited for the transactions that join or pair.
Drained(q) == ~open => req[q].pc \notin {"refreshing", "pairing", "assigning", "seating"}

Transaction(q) ==
  /\ Resting(q) /\ Named(q) /\ Standing(q) /\ Young(q) /\ Pairing(q) /\ Assigning(q)
  /\ Releasing(q) /\ Drained(q)

Exclusive == \A q, p \in Request : q # p => req[q].have \cap req[p].have = {}

Told == said.answer = "cancelled" => said.user \in User /\ ticket[said.user].state = "none"

IInv ==
  /\ Tables /\ req \in [Request -> Row] /\ Exclusive /\ Told
  /\ \A q \in Request : Transaction(q)

------------------------------------------------------------------------------
(* No circle of locks *)

LEMMA Tuples ==
  ASSUME NEW a, NEW b
  PROVE  /\ <<a, b>> # <<>> /\ Head(<<a, b>>) = a /\ Tail(<<a, b>>) = <<b>>
         /\ <<b>> # <<>> /\ Head(<<b>>) = b /\ Tail(<<b>>) = <<>>
  OBVIOUS

LEMMA Largest ==
  ASSUME NEW S, S \subseteq Nat, S # {}, NEW n \in Nat, \A k \in S : k <= n
  PROVE  \E m \in S : \A k \in S : k <= m
  <1> DEFINE T == {n - k : k \in S}
  <1>1. T # {}
    OBVIOUS
  <1>2. T \subseteq Nat
    <2> SUFFICES ASSUME NEW k \in S PROVE n - k \in Nat
      OBVIOUS
    <2> QED OBVIOUS
  <1>3. \E x \in T : \A y \in T : ~(<<y, x>> \in OpToRel(<, Nat))
    BY <1>1, <1>2, NatLessThanWellFounded, WFMin
  <1>4. PICK x \in T : \A y \in T : ~(y < x)
    BY <1>2, <1>3 DEF OpToRel
  <1>5. PICK m \in S : x = n - m
    OBVIOUS
  <1>6. ASSUME NEW k \in S PROVE k <= m
    <2>1. n - k \in T /\ ~(n - k < n - m)
      BY <1>4, <1>5
    <2>2. k \in Nat /\ m \in Nat
      BY <1>5
    <2> HIDE DEF T
    <2> QED BY <2>1, <2>2
  <1> QED BY <1>6

\* Whoever holds a ticket and waits for a row is pairing, unless it releases a room.
LEMMA HolderPairs ==
  ASSUME IInv, NEW q \in Request, req[q].pc # "releasing", WaitsFor(q) # {},
         NEW v \in User, v \in req[q].have
  PROVE  /\ req[q].pc = "pairing" /\ LiveFor(q, v)
         /\ \E w \in User : v < w /\ WaitsFor(q) = {w}
  <1>1. Transaction(q) /\ req[q] \in Row
    BY DEF IInv
  <1>2. WaitsFor(q) = NextRow(q) /\ req[q].want # <<>> /\ WaitsFor(q) = {Head(req[q].want)}
    BY DEF WaitsFor, NextRow
  <1>3. req[q].pc \in Inside
    BY <1>1 DEF Transaction, Resting, Row
  <1>4. CASE req[q].pc \in {"inspecting", "refreshing", "cancelling"}
    <2>1. req[q].user \in User
      BY <1>1, <1>4 DEF Transaction, Named
    <2>2. v \notin Room
      BY NoneAssumption
    <2> QED BY <1>1, <1>2, <1>4, <2>1, <2>2 DEF Transaction, Standing, LocksOne, LocksTwo
  <1>5. CASE req[q].pc \in {"assigning", "seating"}
    BY <1>1, <1>2, <1>5 DEF Transaction, Assigning, LocksOne
  <1>6. CASE req[q].pc = "pairing"
    <2>1. LiveFor(q, v)
      BY <1>2, <1>6 DEF NextRow
    <2>2. /\ req[q].user \in User /\ req[q].other \in User /\ req[q].other # req[q].user
          /\ req[q].user \in Nat /\ req[q].other \in Nat
      BY <1>1, <1>6, UserAssumption DEF Transaction, Named, Pairing
    <2>3. CASE req[q].user < req[q].other
      <3>1. v = req[q].user /\ req[q].want = <<req[q].other>>
        BY <1>1, <1>2, <1>6, <2>3 DEF Transaction, Pairing, LocksTwo
      <3>2. WaitsFor(q) = {req[q].other}
        BY <1>2, <3>1, Tuples
      <3> QED BY <1>6, <2>1, <2>2, <2>3, <3>1, <3>2
    <2>4. CASE req[q].other < req[q].user
      <3>1. v = req[q].other /\ req[q].want = <<req[q].user>>
        BY <1>1, <1>2, <1>6, <2>4 DEF Transaction, Pairing, LocksTwo
      <3>2. WaitsFor(q) = {req[q].user}
        BY <1>2, <3>1, Tuples
      <3> QED BY <1>6, <2>1, <2>2, <2>4, <3>1, <3>2
    <2> QED BY <2>2, <2>3, <2>4
  <1> QED BY <1>3, <1>4, <1>5, <1>6 DEF Inside

\* Whoever waits for a room holds nothing, and whoever holds a room then waits for a ticket.
LEMMA WaiterKinds ==
  ASSUME IInv, NEW q \in Request, req[q].pc # "releasing", WaitsFor(q) # {}
  PROVE  \/ \E w \in User : WaitsFor(q) = {w}
         \/ \E r \in Room : WaitsFor(q) = {r} /\ req[q].have = {}
  <1>1. Transaction(q) /\ req[q] \in Row
    BY DEF IInv
  <1>2. req[q].want # <<>> /\ WaitsFor(q) = {Head(req[q].want)}
    BY DEF WaitsFor, NextRow
  <1>3. req[q].pc \in Inside
    BY <1>1, <1>2 DEF Transaction, Resting, Row
  <1>4. req[q].user \in User
    BY <1>1, <1>3 DEF Transaction, Named, Inside
  <1>5. CASE req[q].pc \in {"inspecting", "refreshing", "cancelling"}
    <2>1. \/ req[q].want = <<req[q].user>>
          \/ req[q].in \in Room /\ req[q].want = <<req[q].in, req[q].user>> /\ req[q].have = {}
      BY <1>1, <1>2, <1>5 DEF Transaction, Standing, LocksOne, LocksTwo
    <2>2. \/ Head(req[q].want) = req[q].user
          \/ req[q].in \in Room /\ Head(req[q].want) = req[q].in /\ req[q].have = {}
      BY <2>1, Tuples
    <2> QED BY <1>2, <1>4, <2>2
  <1>6. CASE req[q].pc \in {"assigning", "seating"}
    <2>1. req[q].want = <<req[q].user>>
      BY <1>1, <1>2, <1>6 DEF Transaction, Assigning, LocksOne
    <2> QED BY <1>2, <1>4, <2>1, Tuples
  <1>7. CASE req[q].pc = "pairing"
    <2>1. /\ req[q].other \in User /\ req[q].other # req[q].user
          /\ req[q].user \in Nat /\ req[q].other \in Nat
      BY <1>1, <1>4, <1>7, UserAssumption DEF Transaction, Pairing
    <2>2. \/ req[q].want = <<req[q].user>> \/ req[q].want = <<req[q].other>>
          \/ req[q].want = <<req[q].user, req[q].other>>
          \/ req[q].want = <<req[q].other, req[q].user>>
      BY <1>1, <1>2, <1>7, <2>1 DEF Transaction, Pairing, LocksTwo
    <2>3. Head(req[q].want) \in {req[q].user, req[q].other}
      BY <2>2, Tuples
    <2> QED BY <1>2, <1>4, <2>1, <2>3
  <1> QED BY <1>3, <1>5, <1>6, <1>7 DEF Inside

\* Who releases a room waits for tickets whose holders wait for nothing.
LEMMA ReleaserIsFree ==
  ASSUME IInv, NEW q \in Request, NEW p \in Request \ {q}, req[q].pc = "releasing",
         WaitsFor(q) \cap req[p].have # {}
  PROVE  WaitsFor(p) = {}
  <1>1. Transaction(q) /\ Transaction(p) /\ req[q].have \cap req[p].have = {}
    BY DEF IInv, Exclusive
  <1>2. PICK v \in User : Matched(v, req[q].in) /\ v \in req[p].have
    BY DEF WaitsFor, Theirs
  <1>3. CASE req[p].pc = "releasing"
    <2>1. /\ v \in {req[p].in, req[p].user} /\ req[p].in \in Room
          /\ Matched(req[p].user, req[p].in)
          /\ req[q].in \in req[q].have /\ req[p].in \in req[p].have
      BY <1>1, <1>2, <1>3 DEF Transaction, Releasing
    <2>2. v = req[p].user
      BY <2>1, NoneAssumption
    <2>3. req[p].in = req[q].in
      BY <1>2, <2>1, <2>2 DEF Matched
    <2> QED BY <1>1, <2>1, <2>3
  <1>4. CASE req[p].pc # "releasing" /\ WaitsFor(p) # {}
    <2>1. LiveFor(p, v)
      BY <1>2, <1>4, HolderPairs
    <2> QED BY <1>2, <2>1 DEF LiveFor, Matched
  <1> QED BY <1>3, <1>4

LEMMA NoCircle == IInv => NoLockCycle
  <1> SUFFICES ASSUME IInv, NEW qs \in (SUBSET Request) \ {{}},
                      \A q \in qs : \E p \in qs \ {q} : WaitsFor(q) \cap req[p].have # {}
               PROVE  FALSE
    BY DEF NoLockCycle
  <1>1. \A q \in qs : q \in Request /\ WaitsFor(q) # {}
    OBVIOUS
  <1>2. \A q \in qs : req[q].pc # "releasing"
    BY <1>1, ReleaserIsFree
  <1> DEFINE S == {w \in User : \E q \in qs : req[q].pc = "pairing" /\ WaitsFor(q) = {w}}
  <1>3. ASSUME NEW q \in qs, NEW v \in User, v \in req[q].have
        PROVE  \E w \in S : v < w
    <2>1. req[q].pc = "pairing" /\ \E w \in User : v < w /\ WaitsFor(q) = {w}
      BY <1>1, <1>2, <1>3, HolderPairs
    <2> QED BY <2>1
  <1>4. ASSUME NEW q \in qs, NEW w \in User, WaitsFor(q) = {w}
        PROVE  \E x \in S : w < x
    <2>1. PICK p \in qs : w \in req[p].have
      BY <1>4
    <2> QED BY <1>3, <2>1
  <1>5. S # {}
    <2>1. PICK q \in qs : WaitsFor(q) # {}
      <3>1. qs # {}
        OBVIOUS
      <3> QED BY <1>1, <3>1
    <2>2. CASE \E w \in User : WaitsFor(q) = {w}
      BY <1>4, <2>2
    <2>3. CASE \E r \in Room : WaitsFor(q) = {r}
      <3>1. PICK p \in qs, r \in Room : r \in req[p].have
        BY <2>3
      <3>2. \E w \in User : WaitsFor(p) = {w}
        BY <1>1, <1>2, <3>1, WaiterKinds
      <3> QED BY <1>4, <3>2
    <2> QED BY <1>1, <1>2, <2>2, <2>3, WaiterKinds
  <1>6. PICK last \in User : \A u \in User : u <= last
    BY <1>5, UserAssumption
  <1>7. S \subseteq Nat /\ last \in Nat /\ \A k \in S : k <= last
    BY <1>6, UserAssumption
  <1> HIDE DEF S
  <1>8. PICK m \in S : \A k \in S : k <= m
    BY <1>5, <1>7, Largest
  <1>9. \E q \in qs : WaitsFor(q) = {m} /\ m \in User
    BY <1>8 DEF S
  <1>10. \E x \in S : m < x
    BY <1>4, <1>9
  <1> QED BY <1>7, <1>8, <1>10
------------------------------------------------------------------------------
(* What a step does to the other transactions *)

\* The rows that p has locked are as p has read them.
Kept(p) ==
  /\ \A u \in User : u \in req[p].have => ticket'[u] = ticket[u] /\ alone'[u] = alone[u]
  /\ \A r \in Room : r \in req[p].have /\ Reserved(r) => Reserved(r)'

\* A ticket that comes to wait is new.
Renewals ==
  \A u \in User : ticket'[u].state = "waiting" =>
    ticket'[u] = ticket[u] \/ ticket'[u].ttl >= TicketTicks - 1

LEMMA OthersKeep ==
  ASSUME IInv, NEW p \in Request, req'[p] = req[p], Kept(p), Renewals, UNCHANGED open, Tables'
  PROVE  Transaction(p)'
  <1>1. Transaction(p) /\ req[p] \in Row
    BY DEF IInv
  <1>2. (Resting(p) /\ Named(p) /\ Standing(p) /\ Pairing(p) /\ Drained(p))'
    BY <1>1 DEF Transaction, Resting, Named, Standing, Pairing, Drained, LocksOne, LocksTwo
  <1>3. Young(p)'
    <2> SUFFICES ASSUME req[p].pc = "refreshing", req[p].seen \in {"none", "conflict"},
                        ticket'[req[p].user].state = "waiting"
                 PROVE  ticket'[req[p].user].ttl >= TicketTicks - 1 - req[p].lag
      BY DEF Young
    <2>1. req[p].user \in User /\ req[p].lag \in {0, 1}
      BY <1>1 DEF Transaction, Named, Row
    <2>2. CASE ticket'[req[p].user] = ticket[req[p].user]
      BY <1>1, <2>2 DEF Transaction, Young
    <2>3. CASE ticket'[req[p].user].ttl >= TicketTicks - 1
      <3>1. ticket'[req[p].user].ttl \in Int
        BY <2>1 DEF Tables, TableTypes, TicketRow
      <3> QED BY <2>1, <2>3, <3>1, TickAssumption
    <2> QED BY <2>1, <2>2, <2>3 DEF Renewals
  <1>4. Assigning(p)'
    <2>1. CASE req[p].pc = "seating"
      <3>1. req[p].user \in User /\ req[p].user \in req[p].have
        BY <1>1, <2>1 DEF Transaction, Named, Assigning
      <3> QED BY <1>1, <2>1, <3>1 DEF Transaction, Assigning, Kept
    <2>2. CASE req[p].pc # "seating"
      BY <1>1, <2>2 DEF Transaction, Assigning, LocksOne
    <2> QED BY <2>1, <2>2
  <1>5. Releasing(p)'
    <2>1. CASE req[p].pc = "releasing"
      <3>1. /\ req[p].user \in User /\ req[p].user \in req[p].have
            /\ req[p].in \in Room /\ req[p].in \in req[p].have
        BY <1>1, <2>1 DEF Transaction, Named, Releasing
      <3> QED BY <1>1, <2>1, <3>1 DEF Transaction, Releasing, Kept, Matched
    <2>2. CASE req[p].pc # "releasing"
      BY <2>2 DEF Releasing
    <2> QED BY <2>1, <2>2
  <1> QED BY <1>2, <1>3, <1>4, <1>5 DEF Transaction

\* A step of one request.
LEMMA OneMoves ==
  ASSUME IInv, NEW q \in Request, NEW row \in Row, req' = [req EXCEPT ![q] = row],
         \A p \in Request \ {q} : row.have \cap req[p].have = {} /\ Kept(p),
         Renewals, UNCHANGED open, Tables', Told', Transaction(q)'
  PROVE  IInv'
  <1>1. req' \in [Request -> Row] /\ req'[q] = row /\ \A p \in Request \ {q} : req'[p] = req[p]
    BY DEF IInv
  <1>2. Exclusive'
    BY <1>1 DEF IInv, Exclusive
  <1>3. \A p \in Request : Transaction(p)'
    BY <1>1, OthersKeep
  <1> QED BY <1>1, <1>2, <1>3 DEF IInv

\* The transaction of q is over.
Ended(q) ==
  \E row \in Row :
    /\ req' = [req EXCEPT ![q] = row]
    /\ row.have = {} /\ row.want = <<>> /\ row.pc \in Between
    /\ row.pc # "idle" => row.user \in User

LEMMA EndKeeps ==
  ASSUME IInv, NEW q \in Request, Ended(q), \A p \in Request \ {q} : Kept(p),
         Renewals, UNCHANGED open, Tables', Told'
  PROVE  IInv'
  <1>1. PICK row \in Row : /\ req' = [req EXCEPT ![q] = row]
                           /\ row.have = {} /\ row.want = <<>> /\ row.pc \in Between
                           /\ row.pc # "idle" => row.user \in User
    BY DEF Ended
  <1>2. req'[q] = row
    BY <1>1 DEF IInv
  <1>3. row.pc \notin Inside
    BY <1>1 DEF Between, Inside
  <1>4. Transaction(q)'
    BY <1>1, <1>2, <1>3
    DEF Transaction, Resting, Named, Standing, Young, Pairing, Assigning, Releasing, Drained, Inside
  <1> QED BY <1>1, <1>4, OneMoves

LEMMA ReadOnly ==
  ASSUME IInv, UNCHANGED <<ticket, room, open, alone>>
  PROVE  Tables' /\ Renewals /\ \A p \in Request : Kept(p)
  BY DEF IInv, Tables, TableTypes, RoomsFresh, StartedIsLocked, TicketsMatchSeats, AgeIsServed, DrainEmptiesQueue,
         Renewals, Kept, Matched, SeatHeld, Reserved

\* What Goto and Again leave of a request.
AtRest(user, pc, pass) ==
  [user |-> user, pc |-> pc, pass |-> pass, seen |-> "none", in |-> None, other |-> None,
   want |-> <<>>, have |-> {}, lag |-> 0]

LEMMA AtRestIs ==
  ASSUME NEW u, NEW pc
  PROVE  [NoRequest EXCEPT !.user = u, !.pc = pc] = AtRest(u, pc, 0)
  <1> DEFINE e == [NoRequest EXCEPT !.user = u, !.pc = pc]
             a == AtRest(u, pc, 0)
  <1>1. DOMAIN e = DOMAIN a
    BY DEF NoRequest, AtRest
  <1>2. \A x \in DOMAIN a : e[x] = a[x]
    <2>1. e.user = a.user /\ e.pc = a.pc /\ e.seen = a.seen /\ e.in = a.in /\ e.other = a.other
      BY DEF NoRequest, AtRest
    <2>2. e.want = a.want /\ e.have = a.have
      BY DEF NoRequest, AtRest
    <2>3. e.pass = a.pass /\ e.lag = a.lag
      BY DEF NoRequest, AtRest
    <2>4. DOMAIN a = {"user", "pc", "pass", "seen", "in", "other", "want", "have", "lag"}
      BY DEF AtRest
    <2> HIDE DEF e, a
    <2> QED BY <2>1, <2>2, <2>3, <2>4
  <1>3. e = [x \in DOMAIN e |-> e[x]] /\ a = [x \in DOMAIN a |-> a[x]]
    BY DEF NoRequest, AtRest
  <1> HIDE DEF e, a
  <1>4. e = a
    BY <1>1, <1>2, <1>3
  <1> QED BY <1>4 DEF e, a

LEMMA AtRestIsRow ==
  ASSUME NEW u \in User \cup {None}, NEW pc \in Between, NEW n \in Nat
  PROVE  /\ AtRest(u, pc, n) \in Row /\ AtRest(u, pc, n).have = {} /\ AtRest(u, pc, n).want = <<>>
         /\ AtRest(u, pc, n).pc = pc /\ AtRest(u, pc, n).user = u
  <1>1. <<>> \in Seq(User \cup Room)
    OBVIOUS
  <1>2. "none" \in State
    BY DEF State
  <1> QED BY <1>1, <1>2 DEF AtRest, Row

LEMMA NoRequestIsRow == NoRequest \in Row /\ NoRequest.have = {} /\ NoRequest.want = <<>>
                        /\ NoRequest.pc = "idle" /\ NoRequest.pc \in Between
  BY DEF NoRequest, Row, State, Between

LEMMA GotoEnds ==
  ASSUME IInv, NEW q \in Request, req[q].pc # "idle", NEW pc \in Between, Goto(q, pc)
  PROVE  Ended(q) /\ Told'
  <1> DEFINE row == AtRest(req[q].user, pc, 0)
  <1>1. req[q].user \in User
    BY DEF IInv, Transaction, Named
  <1>2. row \in Row /\ row.have = {} /\ row.want = <<>> /\ row.pc = pc /\ row.user = req[q].user
    BY <1>1, AtRestIsRow
  <1>3. Told'
    BY DEF Goto, Told, Silence
  <1>4. req' = [req EXCEPT ![q] = row]
    <2>1. req' = [req EXCEPT ![q] = [NoRequest EXCEPT !.user = req[q].user, !.pc = pc]]
      BY DEF Goto
    <2>2. [NoRequest EXCEPT !.user = req[q].user, !.pc = pc] = row
      BY AtRestIs
    <2> QED BY <2>1, <2>2
  <1> HIDE DEF row
  <1> QED BY <1>1, <1>2, <1>3, <1>4 DEF Ended

LEMMA AgainEnds ==
  ASSUME IInv, NEW q \in Request, req[q].pc # "idle", NEW pc \in Between, NEW ex \in Between,
         Again(q, pc, ex)
  PROVE  Ended(q) /\ Told'
  <1>1. CASE Goto(q, ex)
    BY <1>1, GotoEnds
  <1>2. CASE ~Goto(q, ex)
    <2> DEFINE row == AtRest(req[q].user, pc, req[q].pass + 1)
    <2>1. req[q].user \in User /\ req[q].pass + 1 \in Nat
      BY DEF IInv, Transaction, Named, Row
    <2>2. row \in Row /\ row.have = {} /\ row.want = <<>> /\ row.pc = pc /\ row.user = req[q].user
      BY <2>1, AtRestIsRow
    <2>3. said' = Silence
      BY <1>2 DEF Again
    <2>4. Told'
      BY <2>3 DEF Told, Silence
    <2>5. req' = [req EXCEPT ![q] = row]
      BY <1>2 DEF Again, NoRequest, AtRest
    <2> HIDE DEF row
    <2> QED BY <2>1, <2>2, <2>4, <2>5 DEF Ended
  <1> QED BY <1>1, <1>2

LEMMA ReplyEnds ==
  ASSUME IInv, NEW q \in Request, NEW a, Reply(q, a)
  PROVE  Ended(q) /\ (a # "cancelled" => Told')
  BY NoRequestIsRow DEF Reply, Ended, Told

\* A transaction that ends without a change.
LEMMA QuietEnd ==
  ASSUME IInv, NEW q \in Request, Ended(q), Told', UNCHANGED <<ticket, room, open, alone>>
  PROVE  IInv'
  BY ReadOnly, EndKeeps

\* The one lock of an account, or the second lock of two, is in hand.
LEMMA InHand ==
  ASSUME IInv, NEW q \in Request, req[q].want = <<>>,
         req[q].pc \in {"inspecting", "refreshing", "cancelling", "assigning", "seating"}
  PROVE  /\ req[q].user \in User /\ req[q].user \in req[q].have
         /\ \A p \in Request \ {q} : req[q].user \notin req[p].have
  <1>1. Transaction(q) /\ \A p \in Request \ {q} : req[q].have \cap req[p].have = {}
    BY DEF IInv, Exclusive
  <1>2. req[q].user \in User
    BY <1>1 DEF Transaction, Named
  <1>3. \A x, y : <<x>> # <<>> /\ <<x, y>> # <<>>
    OBVIOUS
  <1>4. req[q].user \in req[q].have
    BY <1>1, <1>3 DEF Transaction, Standing, Assigning, LocksOne, LocksTwo
  <1> QED BY <1>1, <1>2, <1>4

------------------------------------------------------------------------------
(* Locks and readings *)

LEMMA LocksGoOn ==
  ASSUME NEW q, NEW a, NEW b, req[q].want # <<>>,
         req'[q].have = req[q].have \cup {Head(req[q].want)}, req'[q].want = Tail(req[q].want)
  PROVE  /\ LocksTwo(q, a, b) => LocksTwo(q, a, b)'
         /\ LocksOne(q, b) => LocksOne(q, b)'
  <1>1. ASSUME req[q].want = <<a, b>>, req[q].have = {}
        PROVE  req'[q].want = <<b>> /\ req'[q].have = {a}
    <2>1. Head(<<a, b>>) = a /\ Tail(<<a, b>>) = <<b>>
      BY Tuples
    <2> QED BY <1>1, <2>1
  <1>2. ASSUME req[q].want = <<b>>
        PROVE  req'[q].want = <<>> /\ req'[q].have = req[q].have \cup {b}
    <2>1. Head(<<b>>) = b /\ Tail(<<b>>) = <<>>
      BY Tuples
    <2> QED BY <1>2, <2>1
  <1>3. ASSUME LocksTwo(q, a, b) PROVE LocksTwo(q, a, b)'
    <2>1. {a} \cup {b} = {a, b}
      OBVIOUS
    <2> QED BY <1>1, <1>2, <1>3, <2>1 DEF LocksTwo
  <1>4. ASSUME LocksOne(q, b) PROVE LocksOne(q, b)'
    <2>1. {} \cup {b} = {b}
      OBVIOUS
    <2> QED BY <1>2, <1>4, <2>1 DEF LocksOne
  <1> QED BY <1>3, <1>4

LEMMA LockKeeps ==
  ASSUME IInv, NEW q \in Request, Lock(q)
  PROVE  IInv'
  <1> DEFINE h == Head(req[q].want)
             row == [req[q] EXCEPT !.have = @ \cup {h}, !.want = Tail(@)]
  <1>1. /\ req[q].want # <<>> /\ ~Locked(h) /\ req' = [req EXCEPT ![q] = row]
        /\ said' = Silence /\ UNCHANGED <<ticket, room, open, alone>>
    <2>1. req[q].want # <<>>
      BY DEF Lock, NextRow
    <2>2. ~Locked(h) /\ said' = Silence /\ UNCHANGED <<ticket, room, open, alone>>
      BY DEF Lock
    <2>3. req' = [req EXCEPT ![q] = row]
      <3>1. req' = [req EXCEPT ![q] = [req[q] EXCEPT !.have = req[q].have \cup {h},
                                                     !.want = Tail(req[q].want)]]
        BY DEF Lock
      <3> QED BY <3>1
    <2> HIDE DEF row, h
    <2> QED BY <2>1, <2>2, <2>3
  <1>2. req[q] \in Row /\ Transaction(q)
    BY DEF IInv
  <1>3. h \in User \cup Room /\ Tail(req[q].want) \in Seq(User \cup Room)
    BY <1>1, <1>2 DEF Row
  <1>4. row \in Row
    BY <1>2, <1>3 DEF Row
  <1>5. /\ req'[q] = row /\ req'[q].pc = req[q].pc /\ req'[q].user = req[q].user
        /\ req'[q].seen = req[q].seen /\ req'[q].in = req[q].in /\ req'[q].other = req[q].other
        /\ req'[q].lag = req[q].lag
        /\ req'[q].have = req[q].have \cup {h} /\ req'[q].want = Tail(req[q].want)
    BY <1>1, <1>2 DEF IInv, Row
  <1>6. req[q].pc \in Inside /\ req[q].pc \notin {"seating", "releasing"} /\ req[q].pc \notin Between
    BY <1>1, <1>2 DEF Transaction, Resting, Assigning, Releasing, Row
  <1>7. (Resting(q) /\ Named(q) /\ Young(q) /\ Releasing(q) /\ Drained(q))'
    BY <1>1, <1>2, <1>5, <1>6 DEF Transaction, Resting, Named, Young, Releasing, Drained
  <1>8. (Standing(q) /\ Pairing(q) /\ Assigning(q))'
    BY <1>1, <1>2, <1>5, <1>6, LocksGoOn DEF Transaction, Standing, Pairing, Assigning
  <1>9. \A p \in Request \ {q} : row.have \cap req[p].have = {}
    BY <1>1, <1>2, <1>5 DEF IInv, Exclusive, Locked
  <1>10. Told'
    BY <1>1 DEF Told, Silence
  <1> HIDE DEF row, h
  <1> QED BY <1>1, <1>4, <1>7, <1>8, <1>9, <1>10, ReadOnly, OneMoves DEF Transaction

\* What a reading leaves behind.
LEMMA PeekRow ==
  ASSUME IInv, NEW q \in Request, req[q].pc \in Between \ {"idle"},
         NEW pc \in Inside \ {"seating", "releasing"}, NEW o \in User \cup {None},
         NEW w \in Seq(User \cup Room), Peek(q, pc, o, w),
         (Standing(q) /\ Pairing(q) /\ Assigning(q) /\ Drained(q))'
  PROVE  IInv'
  <1> DEFINE t == ticket[req[q].user]
             row == [req[q] EXCEPT !.pc = pc, !.seen = t.state, !.in = t.room, !.other = o,
                                   !.want = w]
  <1>1. req' = [req EXCEPT ![q] = row] /\ said' = Silence /\ UNCHANGED <<ticket, room, open, alone>>
    BY DEF Peek
  <1>2. req[q] \in Row /\ Transaction(q) /\ req[q].user \in User /\ req[q].have = {}
    BY DEF IInv, Transaction, Named, Resting
  <1>3. t.state \in State /\ t.room \in Room \cup {None}
    BY <1>2 DEF IInv, Tables, TableTypes, TicketRow
  <1>4. row \in Row
    BY <1>2, <1>3 DEF Row
  <1>5. /\ req'[q] = row /\ req'[q].pc = pc /\ req'[q].user = req[q].user
        /\ req'[q].seen = t.state /\ req'[q].have = {}
    BY <1>1, <1>2 DEF IInv, Row
  <1>6. pc \notin Between
    BY DEF Between, Inside
  <1>7. (Resting(q) /\ Named(q) /\ Young(q) /\ Releasing(q))'
    BY <1>1, <1>2, <1>5, <1>6 DEF Resting, Named, Young, Releasing
  <1>8. Told'
    BY <1>1 DEF Told, Silence
  <1>9. \A p \in Request \ {q} : row.have \cap req[p].have = {}
    BY <1>2, <1>5
  <1> HIDE DEF row, t
  <1> QED BY <1>1, <1>4, <1>7, <1>8, <1>9, ReadOnly, OneMoves DEF Transaction

\* The reading of an account's own ticket, for the three transactions that begin with it.
LEMMA StandingPeek ==
  ASSUME IInv, NEW q \in Request, req[q].pc \in Between \ {"idle"},
         NEW pc \in {"inspecting", "refreshing", "cancelling"},
         pc = "inspecting" => ticket[req[q].user].state = "matched",
         pc = "refreshing" => open,
         Peek(q, pc, None, IF ticket[req[q].user].state = "matched"
                           THEN <<ticket[req[q].user].room, req[q].user>> ELSE <<req[q].user>>)
  PROVE  IInv'
  <1> DEFINE u == req[q].user
             w == IF ticket[u].state = "matched" THEN <<ticket[u].room, u>> ELSE <<u>>
  <1>1. u \in User /\ req[q] \in Row /\ req[q].have = {}
    BY DEF IInv, Transaction, Named, Resting
  <1>2. ticket[u].state = "matched" => ticket[u].room \in Room
    BY <1>1 DEF IInv, Tables, TableTypes
  <1>3. /\ w \in Seq(User \cup Room) /\ None \in User \cup {None}
        /\ pc \in Inside \ {"seating", "releasing"}
    <2>1. CASE ticket[u].state = "matched"
      <3>1. <<ticket[u].room, u>> \in Seq(User \cup Room)
        BY <1>1, <1>2, <2>1
      <3> QED BY <2>1, <3>1 DEF Inside
    <2>2. CASE ticket[u].state # "matched"
      <3>1. <<u>> \in Seq(User \cup Room)
        BY <1>1
      <3> QED BY <2>2, <3>1 DEF Inside
    <2> QED BY <2>1, <2>2
  <1>4. /\ req'[q].pc = pc /\ req'[q].user = u /\ req'[q].seen = ticket[u].state
        /\ req'[q].in = ticket[u].room /\ req'[q].want = w /\ req'[q].have = {}
    BY <1>1 DEF IInv, Row, Peek
  <1>5. open' = open
    BY DEF Peek
  <1>6. (Standing(q) /\ Pairing(q) /\ Assigning(q) /\ Drained(q))'
    BY <1>2, <1>4, <1>5 DEF Standing, Pairing, Assigning, Drained, LocksOne, LocksTwo
  <1> QED BY <1>3, <1>6, PeekRow

LEMMA QuietGoto ==
  ASSUME IInv, NEW q \in Request, req[q].pc # "idle", NEW pc \in Between, Goto(q, pc),
         UNCHANGED <<ticket, room, open, alone>>
  PROVE  IInv'
  BY GotoEnds, QuietEnd

LEMMA QuietAgain ==
  ASSUME IInv, NEW q \in Request, req[q].pc # "idle", NEW pc \in Between, NEW ex \in Between,
         Again(q, pc, ex), UNCHANGED <<ticket, room, open, alone>>
  PROVE  IInv'
  BY AgainEnds, QuietEnd

LEMMA QuietReply ==
  ASSUME IInv, NEW q \in Request, NEW a, a # "cancelled", Reply(q, a),
         UNCHANGED <<ticket, room, open, alone>>
  PROVE  IInv'
  BY ReplyEnds, QuietEnd

LEMMA InspectPeekKeeps ==
  ASSUME IInv, NEW q \in Request, InspectPeek(q)
  PROVE  IInv'
  <1>1. req[q].pc = "inspect" /\ req[q].pc \in Between \ {"idle"}
    BY DEF InspectPeek, Between
  <1>2. CASE ticket[req[q].user].state = "matched"
    BY <1>1, <1>2, StandingPeek DEF InspectPeek
  <1>3. CASE ticket[req[q].user].state # "matched"
    <2>1. "refresh" \in Between
      BY DEF Between
    <2> QED BY <1>1, <1>3, <2>1, QuietGoto DEF InspectPeek
  <1> QED BY <1>2, <1>3

LEMMA RefreshPeekKeeps ==
  ASSUME IInv, NEW q \in Request, RefreshPeek(q)
  PROVE  IInv'
  <1>1. req[q].pc \in Between \ {"idle"} /\ open
    BY DEF RefreshPeek, Between
  <1> QED BY <1>1, StandingPeek DEF RefreshPeek

\* A row committed meanwhile by another request of the account is as young.
LEMMA InsertConflictKeeps ==
  ASSUME IInv, NEW q \in Request, InsertConflict(q)
  PROVE  IInv'
  <1> DEFINE row == [req[q] EXCEPT !.seen = "conflict"]
  <1>1. /\ req' = [req EXCEPT ![q] = row] /\ said' = Silence
        /\ UNCHANGED <<ticket, room, open, alone>>
        /\ req[q].pc = "refreshing" /\ req[q].seen = "none"
    BY DEF InsertConflict
  <1>2. req[q] \in Row /\ Transaction(q) /\ row \in Row
    BY DEF IInv, Row
  <1>3. /\ req'[q] = row /\ req'[q].pc = "refreshing" /\ req'[q].seen = "conflict"
        /\ req'[q].user = req[q].user /\ req'[q].in = req[q].in /\ req'[q].lag = req[q].lag
        /\ req'[q].have = req[q].have /\ req'[q].want = req[q].want
    BY <1>1, <1>2 DEF IInv, Row
  <1>4. (Resting(q) /\ Named(q) /\ Young(q) /\ Pairing(q) /\ Assigning(q) /\ Releasing(q) /\ Drained(q))'
    BY <1>1, <1>2, <1>3
    DEF Transaction, Resting, Named, Young, Pairing, Assigning, Releasing, Drained, Between
  <1>5. Standing(q)'
    BY <1>1, <1>2, <1>3 DEF Transaction, Standing, LocksOne
  <1>6. \A p \in Request \ {q} : row.have \cap req[p].have = {}
    BY <1>2, <1>3 DEF IInv, Exclusive
  <1>7. Told'
    BY <1>1 DEF Told, Silence
  <1> HIDE DEF row
  <1> QED BY <1>1, <1>2, <1>4, <1>5, <1>6, <1>7, ReadOnly, OneMoves DEF Transaction

LEMMA CancelPeekKeeps ==
  ASSUME IInv, NEW q \in Request, CancelPeek(q)
  PROVE  IInv'
  <1> DEFINE u == req[q].user
  <1>1. req[q].pc \in Between \ {"idle"} /\ u \in User
    BY DEF CancelPeek, Between, IInv, Transaction, Named
  <1>2. ticket[u].state \in State
    BY <1>1 DEF IInv, Tables, TableTypes, TicketRow
  <1>3. CASE ticket[u].state = "none"
    <2>1. Reply(q, "cancelled") /\ UNCHANGED <<ticket, room, open, alone>>
      BY <1>3 DEF CancelPeek
    <2>2. Told'
      BY <1>1, <1>3, <2>1 DEF Reply, Told
    <2> QED BY <2>1, <2>2, ReplyEnds, QuietEnd
  <1>4. CASE ticket[u].state = "waiting"
    <2>1. Peek(q, "cancelling", None, <<u>>)
      BY <1>4 DEF CancelPeek
    <2> QED BY <1>1, <1>4, <2>1, StandingPeek
  <1>5. CASE ticket[u].state = "matched"
    <2>1. Peek(q, "cancelling", None, <<ticket[u].room, u>>)
      BY <1>5 DEF CancelPeek
    <2> QED BY <1>1, <1>5, <2>1, StandingPeek
  <1> QED BY <1>2, <1>3, <1>4, <1>5 DEF State

LEMMA PairPeekKeeps ==
  ASSUME IInv, NEW q \in Request, PairPeek(q)
  PROVE  IInv'
  <1> DEFINE u == req[q].user
  <1>1. req[q].pc \in Between \ {"idle"} /\ u \in User /\ req[q] \in Row /\ req[q].have = {}
    BY DEF PairPeek, Between, IInv, Transaction, Named, Resting
  <1>2. CASE LiveFor(q, u) /\ Partners(q) # {}
    <2>1. PICK v \in Partners(q) : Peek(q, "pairing", v, LockOrder(u, v))
      BY <1>2 DEF PairPeek, Oldest
    <2>2. v \in User /\ v # u /\ u \in Nat /\ v \in Nat
      BY <1>1, <2>1, UserAssumption DEF Partners
    <2>3. LockOrder(u, v) \in Seq(User \cup Room)
      <3>1. <<u, v>> \in Seq(User \cup Room) /\ <<v, u>> \in Seq(User \cup Room)
        BY <1>1, <2>2
      <3> QED BY <3>1 DEF LockOrder
    <2>4. /\ req'[q].pc = "pairing" /\ req'[q].user = u /\ req'[q].other = v
          /\ req'[q].want = LockOrder(u, v) /\ req'[q].have = {} /\ open /\ open' = open
      BY <1>1, <1>2, <2>1 DEF IInv, Row, Peek, PairPeek
    <2>5. (Standing(q) /\ Assigning(q) /\ Drained(q))'
      BY <2>4 DEF Standing, Assigning, Drained
    <2>6. Pairing(q)'
      BY <2>2, <2>4 DEF Pairing, LocksTwo, LockOrder
    <2>7. "pairing" \in Inside \ {"seating", "releasing"}
      BY DEF Inside
    <2> QED BY <1>1, <2>1, <2>2, <2>3, <2>5, <2>6, <2>7, PeekRow
  <1>3. CASE ~(LiveFor(q, u) /\ Partners(q) # {})
    <2>1. "synthetic" \in Between
      BY DEF Between
    <2> QED BY <1>1, <1>3, <2>1, QuietGoto DEF PairPeek
  <1> QED BY <1>2, <1>3

LEMMA SyntheticPeekKeeps ==
  ASSUME IInv, NEW q \in Request, SyntheticPeek(q)
  PROVE  IInv'
  <1> DEFINE u == req[q].user
  <1>1. req[q].pc \in Between \ {"idle"} /\ u \in User /\ req[q] \in Row /\ req[q].have = {}
    BY DEF SyntheticPeek, Between, IInv, Transaction, Named, Resting
  <1>2. <<u>> \in Seq(User \cup Room)
    BY <1>1
  <1>3. /\ req'[q].pc = "assigning" /\ req'[q].user = u
        /\ req'[q].want = <<u>> /\ req'[q].have = {} /\ open /\ open' = open
    BY <1>1 DEF IInv, Row, Peek, SyntheticPeek
  <1>4. (Standing(q) /\ Pairing(q) /\ Assigning(q) /\ Drained(q))'
    BY <1>3 DEF Standing, Pairing, Assigning, Drained, LocksOne
  <1>5. "assigning" \in Inside \ {"seating", "releasing"} /\ None \in User \cup {None}
    BY DEF Inside
  <1> QED BY <1>1, <1>2, <1>4, <1>5, PeekRow DEF SyntheticPeek

LEMMA RefusedKeeps ==
  ASSUME IInv, NEW q \in Request, Refused(q) \/ LastRead(q)
  PROVE  IInv'
  <1>1. CASE Refused(q)
    BY <1>1, QuietReply DEF Refused
  <1>2. CASE LastRead(q)
    <2> DEFINE a == CASE ticket[req[q].user].state = "none" -> "gone"
                      [] ticket[req[q].user].state = "matched" -> "matched"
                      [] OTHER -> "waiting"
    <2>1. Reply(q, a) /\ UNCHANGED <<ticket, room, open, alone>>
      BY <1>2 DEF LastRead
    <2>2. a # "cancelled"
      OBVIOUS
    <2> HIDE DEF a
    <2> QED BY <2>1, <2>2, QuietReply
  <1> QED BY <1>1, <1>2

LEMMA SyntheticLookKeeps ==
  ASSUME IInv, NEW q \in Request, SyntheticLook(q)
  PROVE  IInv'
  <1> DEFINE u == req[q].user
  <1>1. req[q].pc = "assigning" /\ req[q].want = <<>> /\ UNCHANGED <<ticket, room, open, alone>>
    BY DEF SyntheticLook, Holds
  <1>2. CASE Reply(q, "matched") \/ Reply(q, "waiting")
    BY <1>1, <1>2, QuietReply
  <1>3. CASE Lonely(q) /\ req' = [req EXCEPT ![q].pc = "seating"] /\ said' = Silence
    <2> DEFINE row == [req[q] EXCEPT !.pc = "seating"]
    <2>1. req[q] \in Row /\ Transaction(q) /\ u \in User
      BY <1>1 DEF IInv, Transaction, Named
    <2>2. row \in Row
      BY <2>1 DEF Row, Inside
    <2>3. req' = [req EXCEPT ![q] = row]
      BY <1>3
    <2>4. /\ req'[q].pc = "seating" /\ req'[q].user = u /\ req'[q].want = <<>>
          /\ req'[q].have = req[q].have /\ req'[q].lag = req[q].lag /\ row.have = req[q].have
      BY <1>1, <1>3, <2>1 DEF IInv, Row
    <2>5. req[q].have = {u}
      BY <1>1, <2>1 DEF Transaction, Assigning, LocksOne
    <2>6. ticket[u].state = "waiting" /\ ticket[u].ttl + req[q].lag > 0 /\ ticket[u].age >= PatienceTicks
      BY <1>3 DEF Lonely, LiveFor
    <2>7. alone[u] >= PatienceTicks
      <3>1. ticket[u].ttl \in Int /\ ticket[u].age \in Nat /\ alone[u] \in Nat /\ req[q].lag \in {0, 1}
        BY <2>1 DEF IInv, Tables, TableTypes, Row, TicketRow
      <3>2. ticket[u].age <= alone[u] \/ PatienceTicks <= alone[u]
        BY <2>1, <2>6, <3>1 DEF IInv, Tables, AgeIsServed
      <3> QED BY <2>6, <3>1, <3>2, TickAssumption
    <2>8. open
      BY <1>1, <2>1 DEF Transaction, Drained
    <2>9. (Resting(q) /\ Named(q) /\ Standing(q) /\ Young(q) /\ Pairing(q) /\ Releasing(q) /\ Drained(q))'
      BY <1>1, <2>1, <2>4, <2>8
      DEF Resting, Named, Standing, Young, Pairing, Releasing, Drained, Between
    <2>10. Assigning(q)'
      BY <1>1, <2>4, <2>5, <2>6, <2>7 DEF Assigning
    <2>11. \A p \in Request \ {q} : row.have \cap req[p].have = {}
      BY <2>4 DEF IInv, Exclusive
    <2>12. Told'
      BY <1>3 DEF Told, Silence
    <2> HIDE DEF row
    <2> QED BY <1>1, <2>2, <2>3, <2>9, <2>10, <2>11, <2>12, ReadOnly, OneMoves DEF Transaction
  <1> QED BY <1>2, <1>3 DEF SyntheticLook

------------------------------------------------------------------------------
(* Tickets that go, and tickets that come to wait *)

\* A dropped ticket had no seat that is held.
LEMMA DropTables ==
  ASSUME IInv, NEW us \in SUBSET User, Drop(us), UNCHANGED room, open' \in BOOLEAN,
         \A u \in us, r \in Room : Matched(u, r) => ~SeatHeld(r, u),
         ~open' => \A u \in User \ us : ticket[u].state # "waiting"
  PROVE  Tables' /\ Renewals
  <1>1. TableTypes
    BY DEF IInv, Tables
  <1>2. \A u \in User : /\ u \in us => ticket'[u] = NoTicket /\ alone'[u] = 0
                        /\ u \notin us => ticket'[u] = ticket[u] /\ alone'[u] = alone[u]
    BY DEF Drop
  <1>3. /\ NoTicket \in TicketRow
        /\ NoTicket.state = "none"
    BY DEF NoTicket, State, TicketRow
  <1>4. TableTypes'
    <2>1. ticket' \in [User -> TicketRow]
      BY <1>1, <1>3 DEF Drop, TableTypes
    <2>2. alone' \in [User -> Nat]
      BY <1>1 DEF Drop, TableTypes
    <2>3. \A u \in User : ticket'[u].state = "matched" => ticket'[u].room \in Room
      BY <1>1, <1>2, <1>3 DEF TableTypes
    <2> QED BY <1>1, <2>1, <2>2, <2>3 DEF TableTypes
  <1>5. \A u \in User, r \in Room : Matched(u, r)' <=> Matched(u, r) /\ u \notin us
    BY <1>2, <1>3 DEF Matched
  <1>6. (RoomsFresh /\ StartedIsLocked)'
    BY <1>5 DEF IInv, Tables, RoomsFresh, StartedIsLocked
  <1>7. TicketsMatchSeats'
    <2> SUFFICES ASSUME NEW r \in Room, NEW u \in User, SeatHeld(r, u)', room'[r].restarts = 0
                 PROVE  u \in room'[r].seats <=> Matched(u, r)'
      BY DEF TicketsMatchSeats
    <2>1. SeatHeld(r, u) /\ room[r].restarts = 0
      BY DEF SeatHeld, Reserved
    <2>2. u \in room[r].seats <=> Matched(u, r)
      BY <2>1 DEF IInv, Tables, TicketsMatchSeats
    <2> QED BY <1>5, <2>1, <2>2
  <1>8. AgeIsServed'
    BY <1>2, <1>3 DEF IInv, Tables, AgeIsServed
  <1>9. DrainEmptiesQueue'
    BY <1>2, <1>3 DEF DrainEmptiesQueue
  <1>10. Renewals
    BY <1>2, <1>3 DEF Renewals
  <1> QED BY <1>4, <1>6, <1>7, <1>8, <1>9, <1>10 DEF Tables

LEMMA DropKeeps ==
  ASSUME IInv, NEW q \in Request, NEW u \in User, Drop({u}), UNCHANGED <<room, open>>, Ended(q),
         \A p \in Request \ {q} : u \notin req[p].have,
         \A r \in Room : Matched(u, r) => ~SeatHeld(r, u),
         said' = Silence \/ said'.user = u
  PROVE  IInv'
  <1>1. \A v \in User : /\ v = u => ticket'[v] = NoTicket
                        /\ v # u => ticket'[v] = ticket[v] /\ alone'[v] = alone[v]
    BY DEF Drop
  <1>2. ~open' => \A v \in User \ {u} : ticket[v].state # "waiting"
    BY DEF IInv, Tables, DrainEmptiesQueue
  <1>3. Tables' /\ Renewals
    <2>1. open' \in BOOLEAN
      BY DEF IInv, Tables, TableTypes
    <2> QED BY <1>2, <2>1, DropTables
  <1>4. \A p \in Request \ {q} : Kept(p)
    BY <1>1 DEF Kept, Reserved
  <1>5. Told'
    BY <1>1 DEF Told, Silence, NoTicket
  <1> QED BY <1>3, <1>4, <1>5, EndKeeps

LEMMA EnterKeeps ==
  ASSUME IInv, NEW q \in Request, Holds(q, "refreshing"),
         NEW row \in [state : {"waiting"}, room : Room \cup {None}, ttl : Int, age : Nat],
         row.ttl >= TicketTicks - 1, Enter(q, row), UNCHANGED <<room, open>>,
         \A r \in Room : Matched(req[q].user, r) => ~SeatHeld(r, req[q].user),
         row.age <= alone'[req[q].user] \/ PatienceTicks <= alone'[req[q].user]
  PROVE  IInv'
  <1> DEFINE u == req[q].user
  <1>1. /\ req[q].pc = "refreshing" /\ req[q].want = <<>> /\ u \in User /\ req[q] \in Row
        /\ \A p \in Request \ {q} : u \notin req[p].have
    BY InHand DEF Holds, IInv
  <1>2. Ended(q) /\ Told'
    <2>1. "pair" \in Between
      BY DEF Between
    <2> QED BY <1>1, <2>1, GotoEnds DEF Enter
  <1>3. TableTypes
    BY DEF IInv, Tables
  <1>4. ticket' = [ticket EXCEPT ![u] = row]
    BY DEF Enter
  <1>5. \A v \in User : /\ v = u => ticket'[v] = row
                        /\ v # u => ticket'[v] = ticket[v] /\ alone'[v] = alone[v]
    BY <1>3 DEF TableTypes, Enter
  <1>6. TableTypes'
    <2>1. ticket' \in [User -> TicketRow]
      <3>1. row \in TicketRow
        BY DEF State, TicketRow
      <3> QED BY <1>3, <1>4, <3>1 DEF TableTypes
    <2>2. alone' \in [User -> Nat]
      <3>1. Lesser(req[q].lag, PatienceTicks) \in Nat
        BY <1>1, TickAssumption DEF Row, Lesser
      <3> QED BY <1>1, <1>3, <3>1 DEF TableTypes, Enter
    <2>3. \A v \in User : ticket'[v].state = "matched" => ticket'[v].room \in Room
      BY <1>3, <1>5 DEF TableTypes
    <2> QED BY <1>3, <2>1, <2>2, <2>3 DEF TableTypes
  <1>7. \A v \in User, r \in Room : Matched(v, r)' <=> Matched(v, r) /\ v # u
    BY <1>5 DEF Matched
  <1>8. (RoomsFresh /\ StartedIsLocked)'
    BY <1>7 DEF IInv, Tables, RoomsFresh, StartedIsLocked
  <1>9. TicketsMatchSeats'
    <2> SUFFICES ASSUME NEW r \in Room, NEW v \in User, SeatHeld(r, v)', room'[r].restarts = 0
                 PROVE  v \in room'[r].seats <=> Matched(v, r)'
      BY DEF TicketsMatchSeats
    <2>1. SeatHeld(r, v) /\ room[r].restarts = 0
      BY DEF SeatHeld, Reserved
    <2>2. v \in room[r].seats <=> Matched(v, r)
      BY <2>1 DEF IInv, Tables, TicketsMatchSeats
    <2> QED BY <1>7, <2>1, <2>2
  <1>10. AgeIsServed'
    BY <1>5 DEF IInv, Tables, AgeIsServed
  <1>11. DrainEmptiesQueue'
    BY <1>1 DEF IInv, Transaction, Drained, DrainEmptiesQueue
  <1>12. Renewals
    BY <1>5 DEF Renewals
  <1>13. \A p \in Request \ {q} : Kept(p)
    BY <1>1, <1>5 DEF Kept, Reserved
  <1> QED BY <1>2, <1>6, <1>8, <1>9, <1>10, <1>11, <1>12, <1>13, EndKeeps DEF Tables

LEMMA InspectDecideKeeps ==
  ASSUME IInv, NEW q \in Request, InspectDecide(q)
  PROVE  IInv'
  <1> DEFINE u == req[q].user
             r0 == ticket[u].room
  <1>1. /\ req[q].pc = "inspecting" /\ req[q].pc # "idle" /\ req[q].want = <<>>
        /\ UNCHANGED <<room, open>> /\ "inspect" \in Between /\ "refresh" \in Between
    BY DEF InspectDecide, Holds, Between
  <1>2. CASE Keep /\ Again(q, "inspect", "refresh")
    BY <1>1, <1>2, QuietAgain DEF Keep
  <1>3. CASE Keep /\ Reply(q, "matched")
    BY <1>1, <1>3, QuietReply DEF Keep
  <1>4. CASE ~SeatHeld(r0, u) /\ Drop({u}) /\ Goto(q, "refresh")
    <2>1. u \in User /\ \A p \in Request \ {q} : u \notin req[p].have
      BY <1>1, InHand
    <2>2. \A r \in Room : Matched(u, r) => ~SeatHeld(r, u)
      BY <1>4 DEF Matched
    <2>3. Ended(q) /\ said' = Silence
      BY <1>1, <1>4, GotoEnds DEF Goto
    <2> QED BY <1>1, <1>4, <2>1, <2>2, <2>3, DropKeeps
  <1> QED BY <1>2, <1>3, <1>4 DEF InspectDecide

LEMMA RefreshDecideKeeps ==
  ASSUME IInv, NEW q \in Request, RefreshDecide(q)
  PROVE  IInv'
  <1> DEFINE u == req[q].user
             t == ticket[u]
             lag == req[q].lag
             Ticket == [state : {"waiting"}, room : Room \cup {None}, ttl : Int, age : Nat]
  <1>1. /\ Holds(q, "refreshing") /\ UNCHANGED <<room, open>>
        /\ req[q].pc = "refreshing" /\ req[q].pc # "idle" /\ req[q].want = <<>>
    BY DEF RefreshDecide, Holds
  <1>2. /\ u \in User /\ lag \in {0, 1} /\ Transaction(q)
        /\ t \in TicketRow
        /\ alone \in [User -> Nat] /\ alone[u] \in Nat
    BY <1>1, InHand DEF IInv, Row, Tables, TableTypes
  <1>3. Lesser(lag, PatienceTicks) \in Nat
        /\ (lag <= Lesser(lag, PatienceTicks) \/ PatienceTicks <= Lesser(lag, PatienceTicks))
    BY <1>2, TickAssumption DEF Lesser
  <1>4. \A row : Enter(q, row) =>
          alone'[u] = IF t.state = "waiting" /\ t.ttl >= 0 THEN alone[u] ELSE Lesser(lag, PatienceTicks)
    BY <1>2 DEF Enter
  <1>5. CASE Keep /\ Reply(q, "matched")
    BY <1>1, <1>5, QuietReply DEF Keep
  <1>6. CASE Keep /\ Again(q, "refresh", "lastread")
    <2>1. "refresh" \in Between /\ "lastread" \in Between
      BY DEF Between
    <2> QED BY <1>1, <1>6, <2>1, QuietAgain DEF Keep
  <1>7. CASE /\ t.state # "waiting" /\ (t.state = "matched" => ~SeatHeld(t.room, u))
             /\ Enter(q, Fresh(lag))
    <2>1. Fresh(lag) \in Ticket /\ Fresh(lag).ttl >= TicketTicks - 1 /\ Fresh(lag).age = lag
      BY <1>2, TickAssumption DEF Fresh
    <2>2. \A r \in Room : Matched(u, r) => ~SeatHeld(r, u)
      BY <1>7 DEF Matched
    <2>3. Fresh(lag).age <= alone'[u] \/ PatienceTicks <= alone'[u]
      BY <1>3, <1>4, <1>7, <2>1
    <2> HIDE DEF u, t, lag
    <2> QED BY <1>1, <1>7, <2>1, <2>2, <2>3, EnterKeeps DEF u
  <1>8. CASE t.state = "waiting" /\ Enter(q, Renewed(t, lag))
    <2> DEFINE row == [state |-> "waiting", room |-> t.room, ttl |-> TicketTicks - lag,
                       age |-> IF t.ttl + lag > 0 THEN t.age ELSE Lesser(lag, PatienceTicks)]
    <2>1. Renewed(t, lag) = row
      <3> DEFINE e == Renewed(t, lag)
      <3>1. DOMAIN e = {"state", "room", "ttl", "age"} /\ e = [x \in DOMAIN e |-> e[x]]
        BY <1>2 DEF Renewed, TicketRow
      <3>2. e.state = row.state /\ e.room = row.room
        BY <1>2, <1>8 DEF Renewed
      <3>3. e.ttl = row.ttl
        BY <1>2 DEF Renewed
      <3>4. e.age = row.age
        BY <1>2 DEF Renewed
      <3>5. DOMAIN row = {"state", "room", "ttl", "age"} /\ row = [x \in DOMAIN row |-> row[x]]
        OBVIOUS
      <3> HIDE DEF e, row
      <3>6. e = row
        BY <3>1, <3>2, <3>3, <3>4, <3>5
      <3> QED BY <3>6 DEF e
    <2>2. row \in Ticket /\ row.ttl >= TicketTicks - 1
      BY <1>2, <1>3, TickAssumption DEF TicketRow
    <2>3. row.age <= alone'[u] \/ PatienceTicks <= alone'[u]
      <3>1. CASE t.ttl >= 0
        <4>1. alone'[u] = alone[u]
          BY <1>4, <1>8, <3>1
        <4>2. t.age <= alone[u] \/ PatienceTicks <= alone[u]
          BY <1>2, <1>8, <3>1 DEF IInv, Tables, AgeIsServed
        <4>3. t.ttl + lag > 0 \/ Lesser(lag, PatienceTicks) = 0
          BY <1>2, <3>1, TickAssumption DEF Lesser, TicketRow
        <4> QED BY <1>2, <4>1, <4>2, <4>3
      <3>2. CASE ~(t.ttl >= 0)
        <4>1. alone'[u] = Lesser(lag, PatienceTicks)
          BY <1>4, <1>8, <3>2
        <4>2. ~(t.ttl + lag > 0)
          BY <1>2, <3>2 DEF TicketRow
        <4> QED BY <1>3, <4>1, <4>2
      <3> QED BY <3>1, <3>2
    <2>4. \A r \in Room : Matched(u, r) => ~SeatHeld(r, u)
      BY <1>8 DEF Matched
    <2> HIDE DEF row, u, t, lag
    <2> QED BY <1>1, <1>8, <2>1, <2>2, <2>3, <2>4, EnterKeeps DEF u
  <1>9. CASE /\ req[q].seen \in {"none", "conflict"} /\ t.state = "waiting"
             /\ Enter(q, [t EXCEPT !.ttl = Greater(@, TicketTicks - lag)])
    <2> DEFINE row == [state |-> "waiting", room |-> t.room,
                       ttl |-> Greater(t.ttl, TicketTicks - lag), age |-> t.age]
    <2>1. [t EXCEPT !.ttl = Greater(@, TicketTicks - lag)] = row
      BY <1>2, <1>9 DEF TicketRow
    <2>2. row \in Ticket /\ row.ttl >= TicketTicks - 1
      BY <1>2, TickAssumption DEF Greater, TicketRow
    <2>3. t.ttl >= 0
      BY <1>1, <1>2, <1>9, TickAssumption DEF Transaction, Young, TicketRow
    <2>4. row.age <= alone'[u] \/ PatienceTicks <= alone'[u]
      <3>1. alone'[u] = alone[u]
        BY <1>4, <1>9, <2>3
      <3>2. t.age <= alone[u] \/ PatienceTicks <= alone[u]
        BY <1>2, <1>9, <2>3 DEF IInv, Tables, AgeIsServed
      <3> QED BY <3>1, <3>2
    <2>5. \A r \in Room : Matched(u, r) => ~SeatHeld(r, u)
      BY <1>9 DEF Matched
    <2> HIDE DEF row, u, t, lag
    <2> QED BY <1>1, <1>9, <2>1, <2>2, <2>4, <2>5, EnterKeeps DEF u
  <1>10. \/ Keep /\ Reply(q, "matched")
         \/ Keep /\ Again(q, "refresh", "lastread")
         \/ /\ t.state # "waiting" /\ (t.state = "matched" => ~SeatHeld(t.room, u))
            /\ Enter(q, Fresh(lag))
         \/ t.state = "waiting" /\ Enter(q, Renewed(t, lag))
         \/ /\ req[q].seen \in {"none", "conflict"} /\ t.state = "waiting"
            /\ Enter(q, [t EXCEPT !.ttl = Greater(@, TicketTicks - lag)])
    BY DEF RefreshDecide, StillSeen
  <1> QED BY <1>5, <1>6, <1>7, <1>8, <1>9, <1>10

------------------------------------------------------------------------------
(* Reservations *)

LEMMA MatchedTicket ==
  ASSUME NEW r
  PROVE  [NoTicket EXCEPT !.state = "matched", !.room = r]
           = [state |-> "matched", room |-> r, ttl |-> 0, age |-> 0]
  <1> DEFINE e == [NoTicket EXCEPT !.state = "matched", !.room = r]
             t == [state |-> "matched", room |-> r, ttl |-> 0, age |-> 0]
  <1>1. /\ DOMAIN e = {"state", "room", "ttl", "age"} /\ e = [x \in DOMAIN e |-> e[x]]
        /\ DOMAIN t = {"state", "room", "ttl", "age"} /\ t = [x \in DOMAIN t |-> t[x]]
    BY DEF NoTicket
  <1>2. e.state = t.state /\ e.room = t.room
    BY DEF NoTicket
  <1>3. e.ttl = t.ttl /\ e.age = t.age
    BY DEF NoTicket
  <1> HIDE DEF e, t
  <1>4. e = t
    BY <1>1, <1>2, <1>3
  <1> QED BY <1>4 DEF e, t

LEMMA HeldRoom ==
  ASSUME NEW us, NEW bot
  PROVE  [NoRoom EXCEPT !.phase = "lobby", !.res = "reserved", !.hold = HoldTicks,
                        !.seats = us, !.bot = bot]
           = [phase |-> "lobby", res |-> "reserved", hold |-> HoldTicks, seats |-> us,
              departed |-> {}, bot |-> bot, restarts |-> 0]
  <1> DEFINE e == [NoRoom EXCEPT !.phase = "lobby", !.res = "reserved", !.hold = HoldTicks,
                                 !.seats = us, !.bot = bot]
             h == [phase |-> "lobby", res |-> "reserved", hold |-> HoldTicks, seats |-> us,
                   departed |-> {}, bot |-> bot, restarts |-> 0]
             D == {"phase", "res", "hold", "seats", "departed", "bot", "restarts"}
  <1>1. /\ DOMAIN e = D /\ e = [x \in DOMAIN e |-> e[x]]
        /\ DOMAIN h = D /\ h = [x \in DOMAIN h |-> h[x]]
    BY DEF NoRoom
  <1>2. e.phase = h.phase /\ e.res = h.res
    BY DEF NoRoom
  <1>3. e.hold = h.hold
    BY DEF NoRoom
  <1>4. e.seats = h.seats /\ e.departed = h.departed
    BY DEF NoRoom
  <1>5. e.bot = h.bot
    BY DEF NoRoom
  <1>6. e.restarts = h.restarts
    BY DEF NoRoom
  <1> HIDE DEF e, h
  <1>7. e = h
    BY <1>1, <1>2, <1>3, <1>4, <1>5, <1>6
  <1> QED BY <1>7 DEF e, h

\* A new room with the tickets that waited.
LEMMA ReserveKeeps ==
  ASSUME IInv, NEW q \in Request, NEW us \in SUBSET User, NEW bot \in BOOLEAN,
         Reserve(us, bot), Reply(q, "matched"), UNCHANGED open,
         \A u \in us : ticket[u].state = "waiting",
         \A p \in Request \ {q}, u \in us : u \notin req[p].have
  PROVE  IInv'
  <1> DEFINE new(r) == [state |-> "matched", room |-> r, ttl |-> 0, age |-> 0]
             held == [phase |-> "lobby", res |-> "reserved", hold |-> HoldTicks, seats |-> us,
                      departed |-> {}, bot |-> bot, restarts |-> 0]
  <1>1. TableTypes /\ Ended(q) /\ Told'
    BY ReplyEnds DEF IInv, Tables
  <1>2. \A r : [NoTicket EXCEPT !.state = "matched", !.room = r] = new(r)
    BY MatchedTicket
  <1>3. [NoRoom EXCEPT !.phase = "lobby", !.res = "reserved", !.hold = HoldTicks,
                       !.seats = us, !.bot = bot] = held
    BY HeldRoom
  <1>4. PICK r0 \in Room :
          /\ room[r0].phase = "none"
          /\ room' = [room EXCEPT ![r0] = held]
          /\ ticket' = [u \in User |-> IF u \in us THEN new(r0) ELSE ticket[u]]
          /\ alone' = [u \in User |-> IF u \in us THEN 0 ELSE alone[u]]
    <2> HIDE DEF new, held
    <2> QED BY <1>2, <1>3, Zenon DEF Reserve
  <1>5. /\ new(r0) \in TicketRow
        /\ new(r0).state = "matched" /\ new(r0).room = r0
    BY DEF State, TicketRow
  <1>6. /\ held \in RoomRow
        /\ held.phase = "lobby" /\ held.seats = us
    BY TickAssumption DEF RoomRow
  <1> HIDE DEF new, held
  <1>7. \A u \in User : /\ u \in us => ticket'[u] = new(r0) /\ alone'[u] = 0
                        /\ u \notin us => ticket'[u] = ticket[u] /\ alone'[u] = alone[u]
    BY <1>4
  <1>8. room'[r0] = held /\ \A r \in Room : r # r0 => room'[r] = room[r]
    BY <1>1, <1>4 DEF TableTypes
  <1>9. TableTypes'
    <2>1. ticket' \in [User -> TicketRow]
      BY <1>1, <1>4, <1>5 DEF TableTypes
    <2>2. alone' \in [User -> Nat]
      BY <1>1, <1>4 DEF TableTypes
    <2>3. \A u \in User : ticket'[u].state = "matched" => ticket'[u].room \in Room
      BY <1>1, <1>5, <1>7 DEF TableTypes
    <2>4. room' \in [Room -> RoomRow]
      BY <1>1, <1>4, <1>6 DEF TableTypes
    <2> QED BY <1>1, <2>1, <2>2, <2>3, <2>4 DEF TableTypes
  <1>10. /\ \A u \in User, r \in Room : r # r0 => (Matched(u, r)' <=> Matched(u, r))
         /\ \A u \in User : Matched(u, r0)' <=> u \in us
    <2>1. \A u \in User : ~Matched(u, r0)
      BY <1>4 DEF IInv, Tables, RoomsFresh
    <2> QED BY <1>5, <1>7, <2>1 DEF Matched
  <1>11. (RoomsFresh /\ StartedIsLocked)'
    BY <1>6, <1>8, <1>10 DEF IInv, Tables, RoomsFresh, StartedIsLocked
  <1>12. TicketsMatchSeats'
    <2> SUFFICES ASSUME NEW r \in Room, NEW u \in User, SeatHeld(r, u)', room'[r].restarts = 0
                 PROVE  u \in room'[r].seats <=> Matched(u, r)'
      BY DEF TicketsMatchSeats
    <2>1. CASE r = r0
      BY <1>6, <1>8, <1>10, <2>1
    <2>2. CASE r # r0
      <3>1. SeatHeld(r, u) /\ room[r].restarts = 0
        BY <1>8, <2>2 DEF SeatHeld, Reserved
      <3>2. u \in room[r].seats <=> Matched(u, r)
        BY <3>1 DEF IInv, Tables, TicketsMatchSeats
      <3> QED BY <1>8, <1>10, <2>2, <3>2
    <2> QED BY <2>1, <2>2
  <1>13. AgeIsServed'
    BY <1>5, <1>7 DEF IInv, Tables, AgeIsServed
  <1>14. DrainEmptiesQueue'
    BY <1>5, <1>7 DEF IInv, Tables, DrainEmptiesQueue
  <1>15. Renewals
    BY <1>5, <1>7 DEF Renewals
  <1>16. \A p \in Request \ {q} : Kept(p)
    <2>1. ~Reserved(r0)
      BY <1>4 DEF Reserved
    <2> QED BY <1>7, <1>8, <2>1 DEF Kept, Reserved
  <1> QED BY <1>1, <1>9, <1>11, <1>12, <1>13, <1>14, <1>15, <1>16, EndKeeps DEF Tables

LEMMA PairDecideKeeps ==
  ASSUME IInv, NEW q \in Request, PairDecide(q)
  PROVE  IInv'
  <1> DEFINE u == req[q].user
             v == req[q].other
  <1>1. /\ req[q].pc = "pairing" /\ req[q].pc # "idle" /\ UNCHANGED open
        /\ Transaction(q) /\ "synthetic" \in Between
    BY DEF PairDecide, IInv, Between
  <1>2. /\ u \in User /\ v \in User /\ u # v /\ u \in Nat /\ v \in Nat
    BY <1>1, UserAssumption DEF Transaction, Named, Pairing
  <1>3. CASE UNCHANGED <<ticket, room, alone>> /\ Goto(q, "synthetic")
    BY <1>1, <1>3, QuietGoto
  <1>4. CASE /\ req[q].want = <<>> /\ \A w \in req[q].have : LiveFor(q, w)
             /\ Reserve({u, v}, FALSE) /\ Reply(q, "matched")
    <2>1. \A x, y : <<x>> # <<>> /\ <<x, y>> # <<>>
      OBVIOUS
    <2>2. u < v \/ v < u
      BY <1>2
    <2>3. req[q].have = {u, v}
      BY <1>1, <1>4, <2>1, <2>2 DEF Transaction, Pairing, LocksTwo
    <2>4. \A w \in {u, v} : ticket[w].state = "waiting"
      BY <1>4, <2>3 DEF LiveFor
    <2>5. \A p \in Request \ {q}, w \in {u, v} : w \notin req[p].have
      BY <2>3 DEF IInv, Exclusive
    <2>6. {u, v} \in SUBSET User
      BY <1>2
    <2> HIDE DEF u, v
    <2> QED BY <1>1, <1>4, <2>4, <2>5, <2>6, ReserveKeeps
  <1> QED BY <1>3, <1>4 DEF PairDecide

LEMMA SyntheticSeatKeeps ==
  ASSUME IInv, NEW q \in Request, SyntheticSeat(q)
  PROVE  IInv'
  <1> DEFINE u == req[q].user
  <1>1. /\ req[q].pc = "seating" /\ req[q].pc # "idle" /\ UNCHANGED open
        /\ Transaction(q) /\ Reserve({u}, TRUE) /\ Reply(q, "matched")
    BY DEF SyntheticSeat, IInv
  <1>2. u \in User /\ ticket[u].state = "waiting" /\ req[q].have = {u}
    BY <1>1 DEF Transaction, Named, Assigning
  <1>3. \A p \in Request \ {q}, w \in {u} : w \notin req[p].have
    BY <1>2 DEF IInv, Exclusive
  <1>4. {u} \in SUBSET User
    BY <1>2
  <1> HIDE DEF u
  <1> QED BY <1>1, <1>2, <1>3, <1>4, ReserveKeeps

------------------------------------------------------------------------------
(* Cancellations *)

LEMMA CancelWaitingKeeps ==
  ASSUME IInv, NEW q \in Request, Holds(q, "cancelling"), CancelWaiting(q), UNCHANGED <<room, open>>
  PROVE  IInv'
  <1> DEFINE u == req[q].user
  <1>1. /\ req[q].pc = "cancelling" /\ req[q].pc # "idle" /\ req[q].want = <<>>
        /\ "cancel" \in Between /\ "cancelonce" \in Between
    BY DEF Holds, Between
  <1>2. u \in User /\ \A p \in Request \ {q} : u \notin req[p].have
    BY <1>1, InHand
  <1>3. CASE Keep /\ Again(q, "cancel", "cancelonce")
    BY <1>1, <1>3, QuietAgain DEF Keep
  <1>4. CASE ticket[u].state # "matched" /\ Drop({u}) /\ Reply(q, "cancelled")
    <2>1. \A r \in Room : Matched(u, r) => ~SeatHeld(r, u)
      BY <1>4 DEF Matched
    <2>2. Ended(q) /\ said'.user = u
      BY <1>4, ReplyEnds DEF Reply
    <2> QED BY <1>2, <1>4, <2>1, <2>2, DropKeeps
  <1> QED BY <1>3, <1>4 DEF CancelWaiting

LEMMA CancelMatchedKeeps ==
  ASSUME IInv, NEW q \in Request, Holds(q, "cancelling"), CancelMatched(q), UNCHANGED <<room, open>>
  PROVE  IInv'
  <1> DEFINE u == req[q].user
             r0 == ticket[u].room
  <1>1. /\ req[q].pc = "cancelling" /\ req[q].pc # "idle" /\ req[q].want = <<>>
        /\ req[q].seen = "matched" /\ "cancel" \in Between /\ "cancelonce" \in Between
    BY DEF Holds, Between, CancelMatched
  <1>2. u \in User /\ (\A p \in Request \ {q} : u \notin req[p].have) /\ Transaction(q) /\ req[q] \in Row
    BY <1>1, InHand DEF IInv
  <1>3. CASE Keep /\ Again(q, "cancel", "cancelonce")
    BY <1>1, <1>3, QuietAgain DEF Keep
  <1>4. CASE Keep /\ Reply(q, "kept")
    BY <1>4, QuietReply DEF Keep
  <1>5. CASE /\ ~Reserved(r0) /\ (room[r0].phase = "active" => u \in room[r0].departed)
             /\ Drop({u}) /\ Reply(q, "cancelled")
    <2>1. \A r \in Room : Matched(u, r) => ~SeatHeld(r, u)
      BY <1>5 DEF Matched, SeatHeld
    <2>2. Ended(q) /\ said'.user = u
      BY <1>5, ReplyEnds DEF Reply
    <2> QED BY <1>2, <1>5, <2>1, <2>2, DropKeeps
  <1>6. CASE /\ StillSeen(q) /\ Reserved(r0) /\ req' = [req EXCEPT ![q].pc = "releasing"]
             /\ said' = Silence /\ Keep
    <2> DEFINE row == [req[q] EXCEPT !.pc = "releasing"]
    <2>1. row \in Row
      BY <1>2 DEF Row, Inside
    <2>2. req' = [req EXCEPT ![q] = row]
      BY <1>6
    <2>3. /\ req'[q].pc = "releasing" /\ req'[q].user = u /\ req'[q].want = <<>>
          /\ req'[q].have = req[q].have /\ req'[q].in = req[q].in /\ row.have = req[q].have
      BY <1>1, <1>2, <1>6 DEF IInv, Row
    <2>4. \A x, y : <<x>> # <<>> /\ <<x, y>> # <<>>
      OBVIOUS
    <2>5. req[q].in \in Room /\ req[q].have = {req[q].in, u}
      BY <1>1, <1>2, <2>4 DEF Transaction, Standing, LocksTwo
    <2>6. Matched(u, req[q].in) /\ Reserved(req[q].in)
      BY <1>1, <1>6 DEF StillSeen, Matched
    <2>7. UNCHANGED <<ticket, room, open, alone>>
      BY <1>6 DEF Keep
    <2>8. Releasing(q)'
      BY <2>3, <2>5, <2>6, <2>7 DEF Releasing, Matched, Reserved
    <2>9. (Resting(q) /\ Named(q) /\ Standing(q) /\ Young(q) /\ Pairing(q) /\ Assigning(q) /\ Drained(q))'
      BY <1>2, <2>3 DEF Resting, Named, Standing, Young, Pairing, Assigning, Drained, Between
    <2>10. \A p \in Request \ {q} : row.have \cap req[p].have = {}
      BY <2>3 DEF IInv, Exclusive
    <2>11. Told'
      BY <1>6 DEF Told, Silence
    <2> HIDE DEF row
    <2> QED BY <2>1, <2>2, <2>7, <2>8, <2>9, <2>10, <2>11, ReadOnly, OneMoves DEF Transaction
  <1> QED BY <1>3, <1>4, <1>5, <1>6 DEF CancelMatched

LEMMA CancelOnceKeeps ==
  ASSUME IInv, NEW q \in Request, CancelOnce(q)
  PROVE  IInv'
  <1> DEFINE u == req[q].user
  <1>1. u \in User /\ (\A p \in Request : u \notin req[p].have) /\ UNCHANGED <<room, open>>
    BY DEF CancelOnce, IInv, Transaction, Named, Locked
  <1>2. CASE Keep /\ Reply(q, "kept")
    BY <1>1, <1>2, QuietReply DEF Keep
  <1>3. CASE ticket[u].state # "matched" /\ Drop({u}) /\ Reply(q, "cancelled")
    <2>1. \A r \in Room : Matched(u, r) => ~SeatHeld(r, u)
      BY <1>3 DEF Matched
    <2>2. Ended(q) /\ said'.user = u
      BY <1>3, ReplyEnds DEF Reply
    <2> QED BY <1>1, <1>3, <2>1, <2>2, DropKeeps
  <1> QED BY <1>2, <1>3 DEF CancelOnce

\* The room is released with every ticket that names it.
LEMMA CancelReservedKeeps ==
  ASSUME IInv, NEW q \in Request, CancelReserved(q)
  PROVE  IInv'
  <1> DEFINE u0 == req[q].user
             r0 == req[q].in
             row == [room[r0] EXCEPT !.res = "ended", !.hold = 0, !.seats = {}]
  <1>1. /\ req[q].pc = "releasing" /\ (\A v \in Theirs(r0) \ {u0} : ~Locked(v))
        /\ room' = [room EXCEPT ![r0] = row] /\ Drop(Theirs(r0)) /\ Reply(q, "cancelled")
        /\ UNCHANGED open /\ Transaction(q) /\ TableTypes
    BY DEF CancelReserved, IInv, Tables
  <1>2. /\ u0 \in User /\ r0 \in Room /\ req[q].have = {r0, u0} /\ Matched(u0, r0) /\ Reserved(r0)
    BY <1>1 DEF Transaction, Named, Releasing
  <1>3. row \in RoomRow /\ row.phase = "lobby" /\ row.hold = 0 /\ row.res = "ended"
    <2>1. room[r0] \in RoomRow /\ room[r0].phase = "lobby"
      BY <1>1, <1>2 DEF TableTypes, Reserved
    <2> QED BY <2>1 DEF RoomRow
  <1> HIDE DEF row
  <1>4. \A v \in User : /\ v \in Theirs(r0) => ticket'[v] = NoTicket
                        /\ v \notin Theirs(r0) => ticket'[v] = ticket[v] /\ alone'[v] = alone[v]
    BY <1>1 DEF Drop
  <1>5. NoTicket \in TicketRow
        /\ NoTicket.state = "none"
    BY DEF NoTicket, State, TicketRow
  <1>6. room'[r0] = row /\ \A r \in Room : r # r0 => room'[r] = room[r]
    BY <1>1, <1>2 DEF TableTypes
  <1>7. TableTypes'
    <2>1. ticket' \in [User -> TicketRow]
      BY <1>1, <1>5 DEF Drop, TableTypes
    <2>2. alone' \in [User -> Nat]
      BY <1>1 DEF Drop, TableTypes
    <2>3. \A v \in User : ticket'[v].state = "matched" => ticket'[v].room \in Room
      BY <1>1, <1>4, <1>5 DEF TableTypes
    <2>4. room' \in [Room -> RoomRow]
      BY <1>1, <1>3 DEF TableTypes
    <2> QED BY <1>1, <2>1, <2>2, <2>3, <2>4 DEF TableTypes
  <1>8. \A v \in User, r \in Room : Matched(v, r)' <=> Matched(v, r) /\ r # r0
    BY <1>4, <1>5 DEF Matched, Theirs
  <1>9. (RoomsFresh /\ StartedIsLocked)'
    BY <1>3, <1>6, <1>8 DEF IInv, Tables, RoomsFresh, StartedIsLocked
  <1>10. TicketsMatchSeats'
    <2> SUFFICES ASSUME NEW r \in Room, NEW v \in User, SeatHeld(r, v)', room'[r].restarts = 0
                 PROVE  v \in room'[r].seats <=> Matched(v, r)'
      BY DEF TicketsMatchSeats
    <2>1. r # r0
      BY <1>3, <1>6 DEF SeatHeld, Reserved
    <2>2. SeatHeld(r, v) /\ room[r].restarts = 0
      BY <1>6, <2>1 DEF SeatHeld, Reserved
    <2>3. v \in room[r].seats <=> Matched(v, r)
      BY <2>2 DEF IInv, Tables, TicketsMatchSeats
    <2> QED BY <1>6, <1>8, <2>1, <2>3
  <1>11. AgeIsServed'
    BY <1>4, <1>5 DEF IInv, Tables, AgeIsServed
  <1>12. DrainEmptiesQueue'
    BY <1>1, <1>4, <1>5 DEF IInv, Tables, DrainEmptiesQueue
  <1>13. Renewals
    BY <1>4, <1>5 DEF Renewals
  <1>14. \A p \in Request \ {q} : Kept(p)
    <2> SUFFICES ASSUME NEW p \in Request \ {q} PROVE Kept(p)
      OBVIOUS
    <2>1. r0 \notin req[p].have /\ u0 \notin req[p].have
      BY <1>2 DEF IInv, Exclusive
    <2>2. \A v \in Theirs(r0) : v \notin req[p].have
      BY <1>1, <2>1 DEF Locked
    <2> QED BY <1>4, <1>6, <2>1, <2>2 DEF Kept, Reserved
  <1>15. Ended(q)
    BY <1>1, ReplyEnds
  <1>16. Told'
    BY <1>1, <1>2, <1>4, <1>5 DEF Reply, Told, Theirs
  <1> QED BY <1>1, <1>7, <1>9, <1>10, <1>11, <1>12, <1>13, <1>14, <1>15, <1>16, EndKeeps DEF Tables

LEMMA CancelDecideKeeps ==
  ASSUME IInv, NEW q \in Request, CancelDecide(q)
  PROVE  IInv'
  BY CancelWaitingKeeps, CancelMatchedKeeps DEF CancelDecide

------------------------------------------------------------------------------
(* Steps that end no request *)

LEMMA ArriveKeeps ==
  ASSUME IInv, NEW q \in Request, NEW u \in User, NEW pc \in Between, Arrive(q, u, pc)
  PROVE  IInv'
  <1> DEFINE row == AtRest(u, pc, 0)
  <1>1. row \in Row /\ row.have = {} /\ row.want = <<>> /\ row.pc = pc /\ row.user = u
    BY AtRestIsRow
  <1>2. req' = [req EXCEPT ![q] = row]
    <2>1. req' = [req EXCEPT ![q] = [NoRequest EXCEPT !.user = u, !.pc = pc]]
      BY DEF Arrive
    <2> QED BY <2>1, AtRestIs
  <1> HIDE DEF row
  <1>3. Ended(q)
    BY <1>1, <1>2 DEF Ended
  <1>4. Told' /\ UNCHANGED <<ticket, room, open, alone>>
    BY DEF Arrive, Told, Silence
  <1> QED BY <1>3, <1>4, QuietEnd

LEMMA AllRest ==
  ASSUME IInv, UNCHANGED req, said' = Silence, \A p \in Request : Kept(p), Renewals,
         UNCHANGED open, Tables'
  PROVE  IInv'
  <1>1. \A p \in Request : Transaction(p)'
    BY OthersKeep
  <1>2. Told'
    BY DEF Told, Silence
  <1> QED BY <1>1, <1>2 DEF IInv, Exclusive

Holding(row, u) ==
  \/ row.phase = "active" /\ u \notin row.departed
  \/ row.phase = "lobby" /\ row.res = "reserved" /\ row.hold > 0

\* The engine gives no seat to anybody who had none.
LEMMA EngineKeeps ==
  ASSUME IInv, NEW r \in Room, NEW row \in RoomRow, room' = [room EXCEPT ![r] = row],
         said' = Silence, UNCHANGED <<ticket, open, req, alone>>, ~Locked(r) \/ ~Reserved(r),
         row.phase = "none" => row = NoRoom /\ \A u \in User : ~Matched(u, r),
         row.phase \in {"active", "finished"} => row.res # "reserved",
         \A u \in User : Holding(row, u) /\ row.restarts = 0 =>
           SeatHeld(r, u) /\ room[r].restarts = 0 /\ row.seats = room[r].seats
  PROVE  IInv'
  <1>1. TableTypes
    BY DEF IInv, Tables
  <1>2. room'[r] = row /\ \A x \in Room : x # r => room'[x] = room[x]
    BY <1>1 DEF TableTypes
  <1>3. TableTypes'
    BY <1>1 DEF TableTypes, RoomRow
  <1>4. \A u \in User, x \in Room : Matched(u, x)' <=> Matched(u, x)
    BY DEF Matched
  <1>5. (RoomsFresh /\ StartedIsLocked)'
    BY <1>2, <1>4 DEF IInv, Tables, RoomsFresh, StartedIsLocked
  <1>6. TicketsMatchSeats'
    <2> SUFFICES ASSUME NEW x \in Room, NEW u \in User, SeatHeld(x, u)', room'[x].restarts = 0
                 PROVE  u \in room'[x].seats <=> Matched(u, x)'
      BY DEF TicketsMatchSeats
    <2>1. SeatHeld(x, u) /\ room[x].restarts = 0 /\ room'[x].seats = room[x].seats
      BY <1>2 DEF SeatHeld, Reserved, Holding
    <2>2. u \in room[x].seats <=> Matched(u, x)
      BY <2>1 DEF IInv, Tables, TicketsMatchSeats
    <2> QED BY <1>4, <2>1, <2>2
  <1>7. (AgeIsServed /\ DrainEmptiesQueue)' /\ Renewals
    BY DEF IInv, Tables, AgeIsServed, DrainEmptiesQueue, Renewals
  <1>8. \A p \in Request : Kept(p)
    BY <1>2 DEF Kept, Locked, Reserved
  <1> QED BY <1>3, <1>5, <1>6, <1>7, <1>8, AllRest DEF Tables

LEMMA EngineStepKeeps ==
  ASSUME IInv, NEW r \in Room, EngineStep(r)
  PROVE  IInv'
  <1>1. /\ room[r] \in RoomRow
        /\ room[r].phase \in {"active", "finished"} => room[r].res # "reserved"
    BY DEF IInv, Tables, TableTypes, StartedIsLocked, RoomRow
  <1>2. CASE AutoStart(r)
    <2> DEFINE row == [room[r] EXCEPT !.phase = "active", !.res = "locked", !.hold = 0, !.departed = {}]
    <2>1. row \in RoomRow
      BY <1>1 DEF RoomRow
    <2>2. /\ row.phase = "active" /\ row.res = "locked" /\ row.seats = room[r].seats
          /\ row.restarts = room[r].restarts
      BY <1>1 DEF RoomRow
    <2>3. InRoom(r, row) /\ \A u \in User : SeatHeld(r, u)
      BY <1>2 DEF AutoStart, SeatHeld
    <2> HIDE DEF row
    <2> QED BY <2>1, <2>2, <2>3, EngineKeeps DEF InRoom
  <1>3. CASE EndReservation(r)
    <2> DEFINE row == [room[r] EXCEPT !.res = "ended", !.hold = 0, !.seats = {}]
    <2>1. row \in RoomRow
      BY <1>1 DEF RoomRow
    <2>2. InRoom(r, row) /\ room[r].phase = "lobby"
      BY <1>3 DEF EndReservation, Reserved
    <2>3. row.phase = "lobby" /\ row.res # "reserved"
      BY <1>1, <2>2 DEF RoomRow
    <2> HIDE DEF row
    <2> QED BY <2>1, <2>2, <2>3, EngineKeeps DEF InRoom, Holding
  <1>4. CASE Finish(r)
    <2> DEFINE row == [room[r] EXCEPT !.phase = "finished"]
    <2>1. row \in RoomRow /\ row.phase = "finished" /\ row.res = room[r].res
      BY <1>1 DEF RoomRow
    <2>2. InRoom(r, row) /\ room[r].phase = "active"
      BY <1>4 DEF Finish
    <2> HIDE DEF row
    <2> QED BY <1>1, <2>1, <2>2, EngineKeeps DEF InRoom, Holding
  <1>5. CASE Abort(r)
    <2> DEFINE row == [room[r] EXCEPT !.phase = "lobby", !.res = "none", !.departed = {}]
    <2>1. row \in RoomRow /\ row.phase = "lobby" /\ row.res = "none"
      BY <1>1 DEF RoomRow
    <2>2. InRoom(r, row)
      BY <1>5 DEF Abort
    <2> HIDE DEF row
    <2> QED BY <2>1, <2>2, EngineKeeps DEF InRoom, Holding
  <1>6. CASE Rematch(r)
    <2> DEFINE row == [room[r] EXCEPT !.phase = "lobby", !.departed = {}]
    <2>1. row \in RoomRow /\ row.phase = "lobby" /\ row.res = room[r].res
      BY <1>1 DEF RoomRow
    <2>2. InRoom(r, row) /\ room[r].phase = "finished"
      BY <1>6 DEF Rematch
    <2> HIDE DEF row
    <2> QED BY <1>1, <2>1, <2>2, EngineKeeps DEF InRoom, Holding
  <1>7. CASE HostStart(r)
    <2> DEFINE n == room[r].restarts + 1
               row == [room[r] EXCEPT !.phase = "active", !.res = "locked", !.departed = {},
                                      !.restarts = n]
    <2>4. n \in Nat /\ n # 0
      BY <1>1 DEF RoomRow
    <2>5. InRoom(r, row)
      BY <1>7 DEF HostStart
    <2> HIDE DEF n
    <2>1. row \in RoomRow
      BY <1>1, <2>4 DEF RoomRow
    <2>2. row.phase = "active" /\ row.res = "locked" /\ row.restarts # 0
      BY <1>1, <2>4 DEF RoomRow
    <2> HIDE DEF row
    <2> QED BY <2>1, <2>2, <2>5, EngineKeeps DEF InRoom
  <1>8. CASE Forget(r)
    <2>1. NoRoom \in RoomRow /\ NoRoom.phase = "none"
      BY DEF NoRoom, RoomRow
    <2>2. ~Reserved(r) /\ \A u \in User : ~Matched(u, r)
      BY <1>8 DEF Forget
    <2>3. /\ room' = [room EXCEPT ![r] = NoRoom] /\ said' = Silence
          /\ UNCHANGED <<ticket, open, req, alone>>
      BY <1>8 DEF Forget
    <2> QED BY <2>1, <2>2, <2>3, EngineKeeps DEF Holding
  <1>9. ASSUME NEW u \in User, Forfeit(r, u) PROVE IInv'
    <2> DEFINE row == [room[r] EXCEPT !.departed = room[r].departed \cup {u}]
    <2>1. row \in RoomRow
      BY <1>1 DEF RoomRow
    <2>2. /\ row.phase = room[r].phase /\ row.res = room[r].res /\ row.seats = room[r].seats
          /\ row.restarts = room[r].restarts /\ row.departed = room[r].departed \cup {u}
      BY <1>1 DEF RoomRow
    <2>3. InRoom(r, row) /\ room[r].phase = "active"
      BY <1>9 DEF Forfeit
    <2>4. \A v \in User : Holding(row, v) => SeatHeld(r, v)
      BY <2>2, <2>3 DEF Holding, SeatHeld
    <2> HIDE DEF row
    <2> QED BY <1>1, <2>1, <2>2, <2>3, <2>4, EngineKeeps DEF InRoom
  <1>10. ASSUME NEW u \in User, LeaveLobby(r, u) PROVE IInv'
    <2> DEFINE row == [room[r] EXCEPT !.seats = room[r].seats \ {u}]
    <2>1. row \in RoomRow
      BY <1>1 DEF RoomRow
    <2>2. row.phase = room[r].phase /\ row.res = room[r].res
      BY <1>1 DEF RoomRow
    <2>3. InRoom(r, row) /\ room[r].phase = "lobby" /\ ~Reserved(r)
      BY <1>10 DEF LeaveLobby
    <2> HIDE DEF row
    <2> QED BY <2>1, <2>2, <2>3, EngineKeeps DEF InRoom, Holding, Reserved
  <1> QED BY <1>2, <1>3, <1>4, <1>5, <1>6, <1>7, <1>8, <1>9, <1>10 DEF EngineStep

LEMMA GatesKeep ==
  ASSUME IInv, Drain \/ Reopen
  PROVE  IInv'
  <1>1. UNCHANGED <<room, req>> /\ said' = Silence /\ open' \in BOOLEAN
        /\ \A p \in Request : req[p].pc \in Between
    BY DEF Drain, Reopen
  <1>2. Tables'
    <2>1. CASE Drain
      <3> DEFINE us == {u \in User : ticket[u].state = "waiting"}
      <3>1. Drop(us) /\ us \in SUBSET User /\ \A u \in User \ us : ticket[u].state # "waiting"
        BY <2>1 DEF Drain
      <3>2. \A u \in us, r \in Room : Matched(u, r) => ~SeatHeld(r, u)
        BY DEF Matched
      <3> HIDE DEF us
      <3> QED BY <1>1, <3>1, <3>2, DropTables
    <2>2. CASE Reopen
      BY <2>2 DEF Reopen, IInv, Tables, TableTypes, RoomsFresh, StartedIsLocked, TicketsMatchSeats,
                  AgeIsServed, DrainEmptiesQueue, Matched, SeatHeld, Reserved
    <2> QED BY <2>1, <2>2
  <1>3. \A p \in Request : Transaction(p)'
    <2> SUFFICES ASSUME NEW p \in Request PROVE Transaction(p)'
      OBVIOUS
    <2>1. Transaction(p) /\ req'[p] = req[p] /\ req[p].pc \in Between
      BY <1>1 DEF IInv
    <2>2. req[p].pc \notin Inside
      BY <2>1 DEF Between, Inside
    <2> QED BY <2>1, <2>2 DEF Transaction, Resting, Named, Standing, Young, Pairing, Assigning,
                             Releasing, Drained, Inside
  <1>4. Told' /\ Exclusive'
    BY <1>1 DEF IInv, Told, Silence, Exclusive
  <1> QED BY <1>1, <1>2, <1>3, <1>4 DEF IInv

LEMMA CrashKeeps ==
  ASSUME IInv, Crash
  PROVE  IInv'
  <1>1. /\ req' = [q \in Request |-> NoRequest] /\ said' = Silence
        /\ UNCHANGED <<ticket, room, open, alone>>
    BY DEF Crash
  <1>2. req' \in [Request -> Row] /\ Exclusive' /\ Told'
    BY <1>1, NoRequestIsRow DEF Exclusive, Told, Silence
  <1>3. \A p \in Request : Transaction(p)'
    <2> SUFFICES ASSUME NEW p \in Request PROVE Transaction(p)'
      OBVIOUS
    <2>1. req'[p] = NoRequest
      BY <1>1
    <2> QED BY <2>1, NoRequestIsRow
            DEF Transaction, Resting, Named, Standing, Young, Pairing, Assigning, Releasing, Drained
  <1> QED BY <1>1, <1>2, <1>3, ReadOnly DEF IInv

\* A second of the clock: a transaction that is under way keeps the time of its start.
LEMMA TickKeeps ==
  ASSUME IInv, Tick
  PROVE  IInv'
  <1> DEFINE old(u) == [ticket[u] EXCEPT !.ttl = Greater(-1, @ - 1),
                                         !.age = Lesser(@ + 1, PatienceTicks)]
  <1>1. /\ \A q \in Request : req[q].lag = 0
        /\ ticket' = [u \in User |-> IF ticket[u].state # "waiting" THEN ticket[u] ELSE old(u)]
        /\ alone' = [u \in User |-> IF ticket[u].state # "waiting" \/ ticket[u].ttl <= 0 THEN 0
                                    ELSE Lesser(alone[u] + 1, PatienceTicks)]
        /\ room' = [r \in Room |-> [room[r] EXCEPT !.hold = Greater(0, @ - 1)]]
        /\ req' = [q \in Request |-> IF req[q].pc \in Inside THEN [req[q] EXCEPT !.lag = 1] ELSE req[q]]
        /\ said' = Silence /\ UNCHANGED open
    BY DEF Tick
  <1>2. TableTypes /\ PatienceTicks \in Nat
    BY TickAssumption DEF IInv, Tables
  <1>3. ASSUME NEW u \in User
        PROVE  /\ old(u) \in TicketRow
               /\ old(u).state = ticket[u].state /\ old(u).room = ticket[u].room
               /\ old(u).ttl \in Int /\ old(u).ttl >= ticket[u].ttl - 1
               /\ (old(u).ttl >= 0 => ticket[u].ttl > 0)
               /\ old(u).age <= PatienceTicks /\ old(u).age <= ticket[u].age + 1
               /\ old(u).age \in Nat
               /\ (ticket[u].ttl > 0 => old(u).ttl >= 0)
    <2>1. /\ ticket[u] \in TicketRow
          /\ ticket[u].ttl \in Int /\ ticket[u].age \in Nat
      BY <1>2 DEF TableTypes, TicketRow
    <2> DEFINE n == Greater(-1, ticket[u].ttl - 1)
               m == Lesser(ticket[u].age + 1, PatienceTicks)
    <2>2. /\ n \in Int /\ n >= ticket[u].ttl - 1 /\ (n >= 0 => ticket[u].ttl > 0)
          /\ (ticket[u].ttl > 0 => n >= 0)
      BY <2>1 DEF Greater
    <2>3. m \in Nat /\ m <= PatienceTicks /\ m <= ticket[u].age + 1
      BY <1>2, <2>1 DEF Lesser
    <2>4. old(u) = [ticket[u] EXCEPT !.ttl = n, !.age = m]
      OBVIOUS
    <2> HIDE DEF old, n, m
    <2>5. old(u) \in TicketRow
      BY <2>1, <2>2, <2>3, <2>4 DEF TicketRow
    <2>6. /\ old(u).state = ticket[u].state /\ old(u).room = ticket[u].room
          /\ old(u).ttl = n /\ old(u).age = m
      BY <2>1, <2>4
    <2> QED BY <2>2, <2>3, <2>5, <2>6
  <1> HIDE DEF old
  <1>4. \A u \in User : ticket'[u] = IF ticket[u].state # "waiting" THEN ticket[u] ELSE old(u)
    BY <1>1
  <1>5. \A u \in User : ticket'[u].state = ticket[u].state /\ ticket'[u].room = ticket[u].room
    BY <1>3, <1>4
  <1>6. ASSUME NEW r \in Room
        PROVE  /\ room'[r] \in RoomRow /\ room'[r].phase = room[r].phase
               /\ room'[r].res = room[r].res /\ room'[r].seats = room[r].seats
               /\ room'[r].departed = room[r].departed /\ room'[r].restarts = room[r].restarts
               /\ room'[r].bot = room[r].bot
               /\ (room'[r].hold > 0 => room[r].hold > 0)
               /\ (room[r].phase = "none" => room'[r] = room[r])
    <2>1. room[r] \in RoomRow /\ room[r].hold \in Nat
      BY <1>2 DEF TableTypes, RoomRow
    <2> DEFINE n == Greater(0, room[r].hold - 1)
    <2>2. n \in Nat /\ (n > 0 => room[r].hold > 0) /\ (room[r].hold = 0 => n = 0)
      BY <2>1 DEF Greater
    <2>3. room'[r] = [room[r] EXCEPT !.hold = n]
      BY <1>1
    <2> HIDE DEF n
    <2>4. room[r].phase = "none" => room[r].hold = 0
      BY DEF IInv, Tables, RoomsFresh, NoRoom
    <2>5. room[r].hold = 0 => [room[r] EXCEPT !.hold = n] = room[r]
      BY <2>1, <2>2 DEF RoomRow
    <2>6. /\ room'[r] \in RoomRow /\ room'[r].phase = room[r].phase
          /\ room'[r].res = room[r].res /\ room'[r].seats = room[r].seats
          /\ room'[r].departed = room[r].departed /\ room'[r].restarts = room[r].restarts
          /\ room'[r].bot = room[r].bot /\ room'[r].hold = n
      BY <2>1, <2>2, <2>3 DEF RoomRow
    <2> QED BY <2>2, <2>3, <2>4, <2>5, <2>6
  <1>7. TableTypes'
    <2>1. ticket' \in [User -> TicketRow]
      BY <1>1, <1>2, <1>3 DEF TableTypes
    <2>2. alone' \in [User -> Nat]
      <3>1. \A u \in User : Lesser(alone[u] + 1, PatienceTicks) \in Nat
        BY <1>2 DEF Lesser, TableTypes
      <3> QED BY <1>1, <3>1
    <2>3. \A u \in User : ticket'[u].state = "matched" => ticket'[u].room \in Room
      BY <1>2, <1>5 DEF TableTypes
    <2>4. room' \in [Room -> RoomRow]
      <3>1. room' = [r \in Room |-> room'[r]]
        BY <1>1
      <3> QED BY <1>6, <3>1
    <2> QED BY <1>1, <1>2, <2>1, <2>2, <2>3, <2>4 DEF TableTypes, RoomRow
  <1>8. \A u \in User, r \in Room : Matched(u, r)' <=> Matched(u, r)
    BY <1>5 DEF Matched
  <1>9. (RoomsFresh /\ StartedIsLocked)'
    BY <1>6, <1>8 DEF IInv, Tables, RoomsFresh, StartedIsLocked
  <1>10. TicketsMatchSeats'
    <2> SUFFICES ASSUME NEW r \in Room, NEW u \in User, SeatHeld(r, u)', room'[r].restarts = 0
                 PROVE  u \in room'[r].seats <=> Matched(u, r)'
      BY DEF TicketsMatchSeats
    <2>1. SeatHeld(r, u) /\ room[r].restarts = 0 /\ room'[r].seats = room[r].seats
      BY <1>6 DEF SeatHeld, Reserved
    <2>2. u \in room[r].seats <=> Matched(u, r)
      BY <2>1 DEF IInv, Tables, TicketsMatchSeats
    <2> QED BY <1>8, <2>1, <2>2
  <1>11. AgeIsServed'
    <2> SUFFICES ASSUME NEW u \in User, ticket'[u].state = "waiting", ticket'[u].ttl >= 0
                 PROVE  ticket'[u].age <= alone'[u] \/ PatienceTicks <= alone'[u]
      BY DEF AgeIsServed
    <2>1. ticket[u].state = "waiting" /\ ticket'[u] = old(u)
      BY <1>4, <1>5
    <2>2. /\ ticket[u].ttl \in Int /\ ticket[u].age \in Nat /\ alone[u] \in Nat /\ ticket[u].ttl > 0
          /\ old(u).age \in Nat /\ old(u).age <= PatienceTicks /\ old(u).age <= ticket[u].age + 1
      BY <1>2, <1>3, <2>1 DEF TableTypes, TicketRow
    <2>3. alone'[u] = Lesser(alone[u] + 1, PatienceTicks)
      BY <1>1, <2>1, <2>2
    <2>4. ticket[u].age <= alone[u] \/ PatienceTicks <= alone[u]
      BY <2>1, <2>2 DEF IInv, Tables, AgeIsServed
    <2> QED BY <1>2, <2>1, <2>2, <2>3, <2>4 DEF Lesser
  <1>12. DrainEmptiesQueue'
    BY <1>1, <1>5 DEF IInv, Tables, DrainEmptiesQueue
  <1>13. ASSUME NEW p \in Request
         PROVE  /\ req'[p] \in Row /\ req'[p].user = req[p].user /\ req'[p].pc = req[p].pc
                /\ req'[p].seen = req[p].seen /\ req'[p].in = req[p].in
                /\ req'[p].other = req[p].other /\ req'[p].want = req[p].want
                /\ req'[p].have = req[p].have
                /\ (req[p].pc \in Inside => req'[p].lag = 1)
    BY <1>1 DEF IInv, Row
  <1>14. req' \in [Request -> Row]
    <2>1. req' = [q \in Request |-> req'[q]]
      BY <1>1
    <2> QED BY <1>13, <2>1
  <1>15. Exclusive' /\ Told'
    BY <1>1, <1>13 DEF IInv, Exclusive, Told, Silence
  <1>16. ASSUME NEW p \in Request PROVE Transaction(p)'
    <2>1. Transaction(p) /\ req[p] \in Row /\ req[p].lag = 0
      BY <1>1 DEF IInv
    <2>2. (Resting(p) /\ Named(p) /\ Standing(p) /\ Pairing(p) /\ Drained(p))'
      BY <1>1, <1>13, <2>1
      DEF Transaction, Resting, Named, Standing, Pairing, Drained, LocksOne, LocksTwo
    <2>3. Young(p)'
      <3> DEFINE u == req[p].user
      <3> SUFFICES ASSUME req[p].pc = "refreshing", req[p].seen \in {"none", "conflict"},
                          ticket'[u].state = "waiting"
                   PROVE  ticket'[u].ttl >= TicketTicks - 1 - 1
        BY <1>13 DEF Young, Inside
      <3>1. u \in User
        BY <2>1 DEF Transaction, Named
      <3>2. ticket[u].state = "waiting" /\ ticket'[u] = old(u) /\ ticket[u].ttl >= TicketTicks - 1
        BY <1>4, <1>5, <2>1, <3>1, TickAssumption DEF Transaction, Young
      <3>3. old(u).ttl \in Int /\ ticket[u].ttl \in Int /\ old(u).ttl >= ticket[u].ttl - 1
        BY <1>2, <1>3, <3>1 DEF TableTypes, TicketRow
      <3> QED BY <3>2, <3>3, TickAssumption
    <2>4. Assigning(p)'
      <3> DEFINE u == req[p].user
      <3>1. CASE req[p].pc = "seating"
        <4>1. u \in User /\ ticket[u].state = "waiting" /\ ticket[u].ttl + 0 > 0 /\ alone[u] >= PatienceTicks
              /\ req[p].want = <<>> /\ req[p].have = {u}
          BY <2>1, <3>1 DEF Transaction, Named, Assigning
        <4>2. ticket'[u] = old(u) /\ ticket[u].ttl \in Int /\ alone[u] \in Nat
          BY <1>2, <1>4, <4>1 DEF TableTypes, TicketRow
        <4>3. ticket'[u].ttl + 1 > 0
          BY <1>3, <4>1, <4>2
        <4>4. alone'[u] >= PatienceTicks
          BY <1>1, <1>2, <4>1, <4>2 DEF Lesser
        <4>5. req'[p].lag = 1
          BY <1>13, <3>1 DEF Inside
        <4> QED BY <1>5, <1>13, <3>1, <4>1, <4>3, <4>4, <4>5 DEF Assigning
      <3>2. CASE req[p].pc # "seating"
        BY <1>13, <2>1, <3>2 DEF Transaction, Assigning, LocksOne
      <3> QED BY <3>1, <3>2
    <2>5. Releasing(p)'
      <3>1. CASE req[p].pc = "releasing"
        <4>1. req[p].user \in User /\ req[p].in \in Room
          BY <2>1, <3>1 DEF Transaction, Named, Releasing
        <4> QED BY <1>6, <1>8, <1>13, <2>1, <3>1, <4>1 DEF Transaction, Releasing, Reserved
      <3>2. CASE req[p].pc # "releasing"
        BY <1>13, <3>2 DEF Releasing
      <3> QED BY <3>1, <3>2
    <2> QED BY <2>2, <2>3, <2>4, <2>5 DEF Transaction
  <1> QED BY <1>7, <1>9, <1>10, <1>11, <1>12, <1>14, <1>15, <1>16 DEF IInv, Tables

------------------------------------------------------------------------------
(* Every step *)

LEMMA ServeKeeps ==
  ASSUME IInv, NEW q \in Request, Serve(q)
  PROVE  IInv'
  BY LockKeeps, InspectPeekKeeps, InspectDecideKeeps, RefusedKeeps, RefreshPeekKeeps,
     InsertConflictKeeps, RefreshDecideKeeps, PairPeekKeeps, PairDecideKeeps, SyntheticPeekKeeps, SyntheticLookKeeps,
     SyntheticSeatKeeps, CancelPeekKeeps, CancelDecideKeeps, CancelReservedKeeps, CancelOnceKeeps
  DEF Serve

LEMMA InitHolds == Init => IInv
  <1> SUFFICES ASSUME Init PROVE IInv
    OBVIOUS
  <1>1. /\ NoTicket \in TicketRow
        /\ NoTicket.state = "none"
    BY DEF NoTicket, State, TicketRow
  <1>2. NoRoom \in RoomRow /\ NoRoom.phase = "none"
    BY DEF NoRoom, RoomRow
  <1>3. /\ \A u \in User : ticket[u] = NoTicket
        /\ \A r \in Room : room[r] = NoRoom
        /\ \A p \in Request : req[p] = NoRequest
        /\ open = TRUE /\ said = Silence
    BY DEF Init
  <1>4. TableTypes
    <2>1. ticket \in [User -> TicketRow]
      BY <1>1 DEF Init
    <2>2. room \in [Room -> RoomRow]
      BY <1>2 DEF Init
    <2>3. alone \in [User -> Nat]
      BY DEF Init
    <2> QED BY <1>1, <1>3, <2>1, <2>2, <2>3 DEF TableTypes, RoomRow
  <1>5. Tables
    BY <1>1, <1>2, <1>3, <1>4
    DEF Tables, RoomsFresh, StartedIsLocked, TicketsMatchSeats, AgeIsServed, DrainEmptiesQueue,
        Matched, SeatHeld, Reserved
  <1>6. req \in [Request -> Row]
    BY NoRequestIsRow DEF Init
  <1>7. Exclusive /\ Told
    BY <1>3, NoRequestIsRow DEF Exclusive, Told, Silence
  <1>8. \A p \in Request : Transaction(p)
    BY <1>3, NoRequestIsRow
    DEF Transaction, Resting, Named, Standing, Young, Pairing, Assigning, Releasing, Drained
  <1> QED BY <1>5, <1>6, <1>7, <1>8 DEF IInv

LEMMA NextHolds == IInv /\ [Next]_vars => IInv'
  <1> SUFFICES ASSUME IInv, [Next]_vars PROVE IInv'
    OBVIOUS
  <1>1. CASE UNCHANGED vars
    <2>1. UNCHANGED <<ticket, room, open, alone>> /\ UNCHANGED req /\ UNCHANGED said
      BY <1>1 DEF vars
    <2>2. Tables' /\ Renewals /\ \A p \in Request : Kept(p)
      BY <2>1, ReadOnly
    <2>3. \A p \in Request : Transaction(p)'
      BY <2>1, <2>2, OthersKeep
    <2>4. Told' /\ Exclusive'
      BY <2>1 DEF IInv, Told, Exclusive
    <2> QED BY <2>1, <2>2, <2>3, <2>4 DEF IInv
  <1>2. CASE Next
    <2>1. ASSUME NEW q \in Request, NEW u \in User, StartPoll(q, u) \/ StartCancel(q, u)
          PROVE  IInv'
      <3>1. "inspect" \in Between /\ "cancel" \in Between
        BY DEF Between
      <3> QED BY <2>1, <3>1, ArriveKeeps DEF StartPoll, StartCancel
    <2> QED BY <1>2, <2>1, ServeKeeps, EngineStepKeeps, GatesKeep, TickKeeps, CrashKeeps DEF Next
  <1> QED BY <1>1, <1>2

THEOREM Invariance == Spec => []IInv
  BY InitHolds, NextHolds, PTL DEF Spec

------------------------------------------------------------------------------
(* The bounds of the tables *)

Bounds ==
  /\ \A u \in User : /\ -1 <= ticket[u].ttl /\ ticket[u].ttl <= TicketTicks
                     /\ ticket[u].age <= PatienceTicks /\ alone[u] <= PatienceTicks
  /\ \A r \in Room : room[r].hold <= HoldTicks /\ room[r].restarts <= MaxRestarts
  /\ said \in [user : User \cup {None}, answer : Answers]

LEMMA BoundsSuffice == IInv /\ Bounds => TypeOK
  <1> SUFFICES ASSUME IInv, Bounds PROVE TypeOK
    OBVIOUS
  <1>1. TableTypes /\ req \in [Request -> Row]
    BY DEF IInv, Tables
  <1>2. \A u \in User : ticket[u] \in [state : State, room : Room \cup {None},
                                       ttl : -1 .. TicketTicks, age : 0 .. PatienceTicks]
    <2> SUFFICES ASSUME NEW u \in User
                 PROVE  ticket[u] \in [state : State, room : Room \cup {None},
                                       ttl : -1 .. TicketTicks, age : 0 .. PatienceTicks]
      OBVIOUS
    <2>1. ticket[u] \in TicketRow
      BY <1>1 DEF TableTypes
    <2>2. ticket[u].ttl \in -1 .. TicketTicks /\ ticket[u].age \in 0 .. PatienceTicks
      BY <2>1, TickAssumption DEF Bounds, TicketRow
    <2> QED BY <2>1, <2>2 DEF TicketRow
  <1>3. \A r \in Room : room[r] \in [phase : {"none", "lobby", "active", "finished"},
                                     res : {"none", "reserved", "locked", "ended"},
                                     hold : 0 .. HoldTicks, seats : SUBSET User,
                                     departed : SUBSET User, bot : BOOLEAN,
                                     restarts : 0 .. MaxRestarts]
    <2> SUFFICES ASSUME NEW r \in Room
                 PROVE  room[r] \in [phase : {"none", "lobby", "active", "finished"},
                                     res : {"none", "reserved", "locked", "ended"},
                                     hold : 0 .. HoldTicks, seats : SUBSET User,
                                     departed : SUBSET User, bot : BOOLEAN,
                                     restarts : 0 .. MaxRestarts]
      OBVIOUS
    <2>1. room[r] \in RoomRow
      BY <1>1 DEF TableTypes
    <2>2. room[r].hold \in 0 .. HoldTicks /\ room[r].restarts \in 0 .. MaxRestarts
      BY <2>1, TickAssumption, BoundAssumption DEF Bounds, RoomRow
    <2> QED BY <2>1, <2>2 DEF RoomRow
  <1>4. \A u \in User : alone[u] \in 0 .. PatienceTicks
    BY <1>1, TickAssumption DEF TableTypes, Bounds
  <1>5. \A q \in Request : /\ req[q].pc \in Between \cup Inside
                           /\ req[q].have \subseteq User \cup Room
                           /\ req[q].lag \in {0, 1}
                           /\ req[q].pc \in Between => req[q].have = {}
    BY <1>1 DEF IInv, Transaction, Resting, Row
  <1>6. /\ ticket \in [User -> [state : {"none", "waiting", "matched"}, room : Room \cup {None},
                                ttl : -1 .. TicketTicks, age : 0 .. PatienceTicks]]
    BY <1>1, <1>2 DEF TableTypes, State
  <1>7. room \in [Room -> [phase : {"none", "lobby", "active", "finished"},
                           res : {"none", "reserved", "locked", "ended"},
                           hold : 0 .. HoldTicks, seats : SUBSET User, departed : SUBSET User,
                           bot : BOOLEAN, restarts : 0 .. MaxRestarts]]
    BY <1>1, <1>3 DEF TableTypes
  <1>8. alone \in [User -> 0 .. PatienceTicks]
    BY <1>1, <1>4 DEF TableTypes
  <1> QED BY <1>1, <1>5, <1>6, <1>7, <1>8 DEF TypeOK, TableTypes, Bounds

\* The three tables stay within their bounds, whatever is answered.
TableBounds ==
  /\ \A u \in User : /\ -1 <= ticket'[u].ttl /\ ticket'[u].ttl <= TicketTicks
                     /\ ticket'[u].age <= PatienceTicks /\ alone'[u] <= PatienceTicks
  /\ \A r \in Room : room'[r].hold <= HoldTicks /\ room'[r].restarts <= MaxRestarts

LEMMA UnchangedBounds ==
  ASSUME Bounds, UNCHANGED <<ticket, room, alone>>
  PROVE  TableBounds
  BY DEF Bounds, TableBounds

LEMMA DropBounds ==
  ASSUME Bounds, NEW us, Drop(us),
         \A r \in Room : /\ room'[r].hold <= HoldTicks /\ room'[r].restarts <= MaxRestarts
  PROVE  TableBounds
  <1>1. \A u \in User : \/ ticket'[u] = NoTicket /\ alone'[u] = 0
                        \/ ticket'[u] = ticket[u] /\ alone'[u] = alone[u]
    BY DEF Drop
  <1>2. NoTicket.ttl = 0 /\ NoTicket.age = 0
    BY DEF NoTicket
  <1> QED BY <1>1, <1>2, TickAssumption DEF Bounds, TableBounds

LEMMA EnterBounds ==
  ASSUME IInv, Bounds, NEW q \in Request, req[q].user \in User, NEW row, Enter(q, row),
         UNCHANGED room,
         -1 <= row.ttl, row.ttl <= TicketTicks, row.age <= PatienceTicks
  PROVE  TableBounds
  <1>1. /\ ticket \in [User -> TicketRow] /\ alone \in [User -> Nat] /\ req[q].lag \in {0, 1}
    BY DEF IInv, Tables, TableTypes, Row
  <1>2. Lesser(req[q].lag, PatienceTicks) <= PatienceTicks
    BY <1>1, TickAssumption DEF Lesser
  <1>3. \A u \in User : /\ u # req[q].user => ticket'[u] = ticket[u]
                        /\ u = req[q].user => ticket'[u] = row
    BY <1>1 DEF Enter
  <1>4. \A u \in User : alone'[u] \in {alone[u], Lesser(req[q].lag, PatienceTicks)}
    BY <1>1 DEF Enter
  <1> QED BY <1>2, <1>3, <1>4 DEF Bounds, TableBounds

LEMMA ReserveBounds ==
  ASSUME IInv, Bounds, NEW us, NEW bot, Reserve(us, bot)
  PROVE  TableBounds
  <1> DEFINE new(r) == [NoTicket EXCEPT !.state = "matched", !.room = r]
             held == [NoRoom EXCEPT !.phase = "lobby", !.res = "reserved", !.hold = HoldTicks,
                                    !.seats = us, !.bot = bot]
  <1>1. \A r : new(r).ttl = 0 /\ new(r).age = 0
    BY MatchedTicket
  <1>2. held.hold = HoldTicks /\ held.restarts = 0
    BY HeldRoom
  <1> HIDE DEF new, held
  <1>3. PICK r0 \in Room :
          /\ room' = [room EXCEPT ![r0] = held]
          /\ ticket' = [u \in User |-> IF u \in us THEN new(r0) ELSE ticket[u]]
          /\ alone' = [u \in User |-> IF u \in us THEN 0 ELSE alone[u]]
    BY Zenon DEF Reserve, new, held
  <1>4. \A u \in User : \/ ticket'[u] = new(r0) /\ alone'[u] = 0
                        \/ ticket'[u] = ticket[u] /\ alone'[u] = alone[u]
    BY <1>3
  <1>5. \A r \in Room : room'[r] = held \/ room'[r] = room[r]
    BY <1>3 DEF IInv, Tables, TableTypes
  <1> QED BY <1>1, <1>2, <1>4, <1>5, TickAssumption, BoundAssumption DEF Bounds, TableBounds

LEMMA EngineBounds ==
  ASSUME IInv, Bounds, NEW r \in Room, EngineStep(r)
  PROVE  TableBounds
  <1>1. /\ room \in [Room -> RoomRow] /\ room[r] \in RoomRow
        /\ room[r].hold <= HoldTicks /\ room[r].restarts <= MaxRestarts
    BY DEF IInv, Tables, TableTypes, Bounds
  <1>2. UNCHANGED <<ticket, alone>>
    BY DEF EngineStep, AutoStart, EndReservation, Finish, Abort, Rematch, HostStart, Forget, Forfeit,
           LeaveLobby, InRoom
  <1>3. \A x \in Room : x # r => room'[x] = room[x]
    BY <1>1 DEF EngineStep, AutoStart, EndReservation, Finish, Abort, Rematch, HostStart, Forget,
                Forfeit, LeaveLobby, InRoom
  <1>4. room'[r].hold <= HoldTicks /\ room'[r].restarts <= MaxRestarts
    <2>1. CASE AutoStart(r) \/ EndReservation(r)
      <3>1. room'[r].hold = 0
        BY <1>1, <2>1 DEF AutoStart, EndReservation, InRoom, RoomRow
      <3>2. room'[r].restarts = room[r].restarts
        BY <1>1, <2>1 DEF AutoStart, EndReservation, InRoom, RoomRow
      <3> QED BY <1>1, <3>1, <3>2, TickAssumption
    <2>2. CASE Finish(r) \/ Abort(r) \/ Rematch(r)
      BY <1>1, <2>2 DEF Finish, Abort, Rematch, InRoom, RoomRow
    <2>3. CASE HostStart(r)
      <3>1. room[r].restarts \in Nat /\ room[r].restarts < MaxRestarts
        BY <1>1, <2>3 DEF HostStart, RoomRow
      <3>2. room'[r].hold = room[r].hold /\ room'[r].restarts = room[r].restarts + 1
        BY <1>1, <2>3 DEF HostStart, InRoom, RoomRow
      <3> QED BY <1>1, <3>1, <3>2, BoundAssumption
    <2>4. CASE Forget(r)
      <3>1. room'[r] = NoRoom
        BY <1>1, <2>4 DEF Forget
      <3> QED BY <3>1, TickAssumption, BoundAssumption DEF NoRoom
    <2>5. CASE \E u \in User : Forfeit(r, u) \/ LeaveLobby(r, u)
      BY <1>1, <2>5 DEF Forfeit, LeaveLobby, InRoom, RoomRow
    <2> QED BY <2>1, <2>2, <2>3, <2>4, <2>5 DEF EngineStep
  <1> QED BY <1>2, <1>3, <1>4 DEF Bounds, TableBounds

LEMMA TickBounds ==
  ASSUME IInv, Bounds, Tick
  PROVE  TableBounds
  <1>1. TableTypes
    BY DEF IInv, Tables
  <1>2. ASSUME NEW u \in User
        PROVE  /\ -1 <= ticket'[u].ttl /\ ticket'[u].ttl <= TicketTicks
               /\ ticket'[u].age <= PatienceTicks /\ alone'[u] <= PatienceTicks
    <2>1. /\ ticket[u] \in TicketRow /\ ticket[u].ttl \in Int /\ ticket[u].age \in Nat
          /\ alone[u] \in Nat
      BY <1>1 DEF TableTypes, TicketRow
    <2>2. /\ -1 <= ticket[u].ttl /\ ticket[u].ttl <= TicketTicks /\ ticket[u].age <= PatienceTicks
          /\ alone[u] <= PatienceTicks
      BY DEF Bounds
    <2>3. /\ -1 <= Greater(-1, ticket[u].ttl - 1) /\ Greater(-1, ticket[u].ttl - 1) <= TicketTicks
          /\ Lesser(ticket[u].age + 1, PatienceTicks) <= PatienceTicks
          /\ Lesser(alone[u] + 1, PatienceTicks) <= PatienceTicks
      BY <2>1, <2>2, TickAssumption DEF Greater, Lesser
    <2>4. \/ ticket'[u] = ticket[u]
          \/ /\ ticket'[u].ttl = Greater(-1, ticket[u].ttl - 1)
             /\ ticket'[u].age = Lesser(ticket[u].age + 1, PatienceTicks)
      BY <2>1 DEF Tick, TicketRow
    <2>5. alone'[u] \in {0, Lesser(alone[u] + 1, PatienceTicks)}
      BY DEF Tick
    <2> QED BY <2>2, <2>3, <2>4, <2>5, TickAssumption
  <1>3. ASSUME NEW r \in Room
        PROVE  room'[r].hold <= HoldTicks /\ room'[r].restarts <= MaxRestarts
    <2>1. room[r] \in RoomRow /\ room[r].hold \in Nat
      BY <1>1 DEF TableTypes, RoomRow
    <2>2. room[r].hold <= HoldTicks /\ room[r].restarts <= MaxRestarts
      BY DEF Bounds
    <2>3. room'[r].hold = Greater(0, room[r].hold - 1) /\ room'[r].restarts = room[r].restarts
      BY <2>1 DEF Tick, RoomRow
    <2> QED BY <2>1, <2>2, <2>3, TickAssumption DEF Greater
  <1> QED BY <1>2, <1>3 DEF TableBounds

LEMMA RefreshBounds ==
  ASSUME IInv, Bounds, NEW q \in Request, RefreshDecide(q)
  PROVE  TableBounds
  <1> DEFINE u == req[q].user
             t == ticket[u]
             lag == req[q].lag
  <1>1. /\ req[q].pc = "refreshing" /\ req[q].want = <<>> /\ UNCHANGED room
    BY DEF RefreshDecide, Holds
  <1>2. u \in User /\ lag \in {0, 1} /\ t \in TicketRow /\ t.ttl \in Int /\ t.age \in Nat
    BY <1>1, InHand DEF IInv, Row, Tables, TableTypes, TicketRow
  <1>3. -1 <= t.ttl /\ t.ttl <= TicketTicks /\ t.age <= PatienceTicks
    BY <1>2 DEF Bounds
  <1>4. CASE Keep
    BY <1>1, <1>4, UnchangedBounds DEF Keep
  <1>5. CASE Enter(q, Fresh(lag))
    <2>1. Fresh(lag).ttl = TicketTicks - lag /\ Fresh(lag).age = lag
      BY DEF Fresh
    <2>2. -1 <= TicketTicks - lag /\ TicketTicks - lag <= TicketTicks /\ lag <= PatienceTicks
      BY <1>2, TickAssumption
    <2> HIDE DEF u, t, lag
    <2> QED BY <1>1, <1>2, <1>5, <2>1, <2>2, EnterBounds DEF u
  <1>6. CASE Enter(q, Renewed(t, lag))
    <2>1. /\ Renewed(t, lag).ttl = TicketTicks - lag
          /\ Renewed(t, lag).age \in {t.age, Lesser(lag, PatienceTicks)}
      BY <1>2 DEF Renewed, TicketRow
    <2>2. /\ -1 <= TicketTicks - lag /\ TicketTicks - lag <= TicketTicks
          /\ Lesser(lag, PatienceTicks) <= PatienceTicks
      BY <1>2, TickAssumption DEF Lesser
    <2> HIDE DEF u, t, lag
    <2> QED BY <1>1, <1>2, <1>3, <1>6, <2>1, <2>2, EnterBounds DEF u
  <1>7. CASE Enter(q, [t EXCEPT !.ttl = Greater(@, TicketTicks - lag)])
    <2> DEFINE row == [t EXCEPT !.ttl = Greater(@, TicketTicks - lag)]
    <2>1. row.ttl = Greater(t.ttl, TicketTicks - lag) /\ row.age = t.age
      BY <1>2 DEF TicketRow
    <2>2. /\ -1 <= Greater(t.ttl, TicketTicks - lag)
          /\ Greater(t.ttl, TicketTicks - lag) <= TicketTicks
      BY <1>2, <1>3, TickAssumption DEF Greater
    <2>3. Enter(q, row)
      BY <1>7
    <2> HIDE DEF u, t, lag, row
    <2> QED BY <1>1, <1>2, <1>3, <2>1, <2>2, <2>3, EnterBounds DEF u
  <1> QED BY <1>4, <1>5, <1>6, <1>7 DEF RefreshDecide

LEMMA SaidKept ==
  ASSUME IInv, Bounds, [Next]_vars
  PROVE  said' \in [user : User \cup {None}, answer : Answers]
  <1> DEFINE Right == said' \in [user : User \cup {None}, answer : Answers]
  <1>1. said' = Silence \/ UNCHANGED said => Right
    BY DEF Silence, Answers, Bounds
  <1>2. ASSUME NEW q \in Request, NEW a \in Answers, Reply(q, a) PROVE Right
    <2>1. req[q].user \in User \cup {None}
      BY DEF IInv, Row
    <2> QED BY <1>2, <2>1 DEF Reply
  <1>3. {"matched", "waiting", "cancelled", "kept", "refused", "gone"} \subseteq Answers
    BY DEF Answers
  <1>4. \A q, pc, ex : Again(q, pc, ex) => said' = Silence
    BY DEF Again, Goto
  <1>5. ASSUME NEW q \in Request, Serve(q) PROVE Right
    <2>1. CASE Lock(q) \/ InspectPeek(q) \/ RefreshPeek(q) \/ PairPeek(q) \/ SyntheticPeek(q)
               \/ InsertConflict(q)
      BY <1>1, <2>1 DEF InsertConflict, Lock, InspectPeek, RefreshPeek, PairPeek, SyntheticPeek, Peek, Goto
    <2>2. CASE InspectDecide(q)
      BY <1>1, <1>2, <1>3, <1>4, <2>2 DEF InspectDecide, Goto
    <2>3. CASE Refused(q)
      BY <1>2, <1>3, <2>3 DEF Refused
    <2>4. CASE LastRead(q)
      <3> DEFINE a == CASE ticket[req[q].user].state = "none" -> "gone"
                        [] ticket[req[q].user].state = "matched" -> "matched"
                        [] OTHER -> "waiting"
      <3>1. a \in {"gone", "matched", "waiting"} /\ Reply(q, a)
        BY <2>4 DEF LastRead
      <3> HIDE DEF a
      <3> QED BY <1>2, <1>3, <3>1
    <2>5. CASE RefreshDecide(q)
      BY <1>1, <1>2, <1>3, <1>4, <2>5 DEF RefreshDecide, Enter, Goto
    <2>6. CASE PairDecide(q) \/ SyntheticLook(q) \/ SyntheticSeat(q)
      BY <1>1, <1>2, <1>3, <2>6 DEF PairDecide, SyntheticLook, SyntheticSeat, Goto
    <2>7. CASE CancelPeek(q)
      <3>1. req[q].user \in User
        BY <2>7 DEF CancelPeek, IInv, Transaction, Named
      <3>2. ticket[req[q].user].state \in State
        BY <3>1 DEF IInv, Tables, TableTypes, TicketRow
      <3>3. Reply(q, "cancelled") \/ said' = Silence
        BY <2>7, <3>2 DEF CancelPeek, Peek, State
      <3> QED BY <1>1, <1>2, <1>3, <3>3
    <2>8. CASE CancelDecide(q)
      BY <1>1, <1>2, <1>3, <1>4, <2>8 DEF CancelDecide, CancelWaiting, CancelMatched
    <2>9. CASE CancelReserved(q) \/ CancelOnce(q)
      BY <1>2, <1>3, <2>9 DEF CancelReserved, CancelOnce
    <2> HIDE DEF Right
    <2> QED BY <1>5, <2>1, <2>2, <2>3, <2>4, <2>5, <2>6, <2>7, <2>8, <2>9 DEF Serve
  <1>6. ASSUME NEW r \in Room, EngineStep(r) PROVE said' = Silence
    BY <1>6 DEF EngineStep, AutoStart, EndReservation, Finish, Abort, Rematch, HostStart, Forget,
                Forfeit, LeaveLobby, InRoom
  <1>7. \A q, u : StartPoll(q, u) \/ StartCancel(q, u) => said' = Silence
    BY DEF StartPoll, StartCancel, Arrive
  <1>8. Drain \/ Reopen \/ Tick \/ Crash => said' = Silence
    BY DEF Drain, Reopen, Tick, Crash
  <1>9. UNCHANGED vars => UNCHANGED said
    BY DEF vars
  <1> HIDE DEF Right
  <1>10. Right
    BY <1>1, <1>5, <1>6, <1>7, <1>8, <1>9 DEF Next
  <1> QED BY <1>10 DEF Right

LEMMA BoundsKept == IInv /\ Bounds /\ [Next]_vars => Bounds'
  <1> SUFFICES ASSUME IInv, Bounds, [Next]_vars PROVE Bounds'
    OBVIOUS
  <1>1. ASSUME NEW q \in Request, Serve(q) PROVE TableBounds
    <2>1. CASE UNCHANGED <<ticket, room, alone>>
      BY <2>1, UnchangedBounds
    <2>2. CASE RefreshDecide(q)
      BY <2>2, RefreshBounds
    <2>3. CASE \E us, bot : Reserve(us, bot)
      BY <2>3, ReserveBounds
    <2>4. CASE UNCHANGED room /\ \E us : Drop(us)
      BY <2>4, DropBounds DEF Bounds
    <2>5. CASE CancelReserved(q)
      <3> DEFINE r0 == req[q].in
      <3>1. room \in [Room -> RoomRow] /\ Drop(Theirs(r0))
        BY <2>5 DEF CancelReserved, IInv, Tables, TableTypes
      <3>2. r0 \in Room
        BY <2>5 DEF CancelReserved, IInv, Transaction, Releasing
      <3>3. \A r \in Room : r # r0 => room'[r] = room[r]
        BY <2>5, <3>1 DEF CancelReserved
      <3>4. room'[r0].hold = 0 /\ room'[r0].restarts = room[r0].restarts
        BY <2>5, <3>1, <3>2 DEF CancelReserved, RoomRow
      <3> QED BY <3>1, <3>2, <3>3, <3>4, DropBounds, TickAssumption DEF Bounds
    <2>6. CASE Lock(q) \/ InspectPeek(q) \/ InspectDecide(q)
      BY <2>1, <2>4, <2>6 DEF Lock, InspectPeek, InspectDecide, Peek, Keep
    <2>7. CASE Refused(q) \/ RefreshPeek(q) \/ LastRead(q) \/ PairPeek(q) \/ SyntheticPeek(q)
               \/ SyntheticLook(q) \/ InsertConflict(q)
      BY <2>1, <2>7 DEF InsertConflict, Refused, RefreshPeek, LastRead, PairPeek, SyntheticPeek, SyntheticLook, Peek
    <2>8. CASE PairDecide(q) \/ SyntheticSeat(q)
      BY <2>1, <2>3, <2>8 DEF PairDecide, SyntheticSeat
    <2>9. CASE CancelDecide(q) \/ CancelOnce(q)
      BY <2>1, <2>4, <2>9 DEF CancelDecide, CancelWaiting, CancelMatched, CancelOnce, Keep
    <2>10. CASE CancelPeek(q)
      <3>1. req[q].user \in User
        BY <2>10 DEF CancelPeek, IInv, Transaction, Named
      <3>2. ticket[req[q].user].state \in State
        BY <3>1 DEF IInv, Tables, TableTypes, TicketRow
      <3> QED BY <2>1, <2>10, <3>2 DEF CancelPeek, Peek, State
    <2> QED BY <1>1, <2>2, <2>5, <2>6, <2>7, <2>8, <2>9, <2>10 DEF Serve
  <1>2. ASSUME NEW r \in Room, EngineStep(r) PROVE TableBounds
    BY <1>2, EngineBounds
  <1>3. Drain => TableBounds
    BY DropBounds DEF Drain, Bounds
  <1>4. Reopen \/ Crash \/ UNCHANGED vars => TableBounds
    BY UnchangedBounds DEF Reopen, Crash, vars
  <1>5. ASSUME NEW q, NEW u, StartPoll(q, u) \/ StartCancel(q, u) PROVE TableBounds
    BY <1>5, UnchangedBounds DEF StartPoll, StartCancel, Arrive
  <1>6. TableBounds
    BY <1>1, <1>2, <1>3, <1>4, <1>5, TickBounds DEF Next
  <1> QED BY <1>6, SaidKept DEF TableBounds, Bounds

------------------------------------------------------------------------------
(* The theorems *)

\* Every variable stays within its declared values.
THEOREM TypeCorrect == Spec => []TypeOK
  <1>1. Init => Bounds
    <2> SUFFICES ASSUME Init PROVE Bounds
      OBVIOUS
    <2>1. /\ \A u \in User : ticket[u] = NoTicket /\ alone[u] = 0
          /\ \A r \in Room : room[r] = NoRoom
          /\ said = Silence
      BY DEF Init
    <2>2. NoTicket.ttl = 0 /\ NoTicket.age = 0 /\ NoRoom.hold = 0 /\ NoRoom.restarts = 0
      BY DEF NoTicket, NoRoom
    <2>3. said \in [user : User \cup {None}, answer : Answers]
      BY <2>1 DEF Silence, Answers
    <2> QED BY <2>1, <2>2, <2>3, TickAssumption, BoundAssumption DEF Bounds
  <1> QED BY <1>1, InitHolds, NextHolds, BoundsKept, BoundsSuffice, PTL DEF Spec

\* No requests wait for each other's row locks in a circle, however many there are: whoever
\* holds a ticket and waits is pairing, and waits for a later account.
THEOREM NoLockCycleHolds == Spec => []NoLockCycle
  BY Invariance, NoCircle, PTL

\* In a room that holds a place for an account, until the host restarts it, the account has
\* a seat exactly when its ticket names the room.
THEOREM TicketsMatchSeatsHolds == Spec => []TicketsMatchSeats
  <1>1. IInv => TicketsMatchSeats
    BY DEF IInv, Tables
  <1> QED BY <1>1, Invariance, PTL

\* Who was told "cancelled" has no ticket, and no seat that a live reservation or the first
\* match of a room holds.
THEOREM CancelledIsFreeHolds == Spec => []CancelledIsFree
  <1>1. IInv => CancelledIsFree
    <2> SUFFICES ASSUME IInv, said.answer = "cancelled" PROVE CancelledIsFree
      BY DEF CancelledIsFree
    <2>1. said.user \in User /\ ticket[said.user].state = "none" /\ TicketsMatchSeats
      BY DEF IInv, Told, Tables
    <2>2. \A r \in Room : ~Matched(said.user, r)
      BY <2>1 DEF Matched
    <2> QED BY <2>1, <2>2 DEF TicketsMatchSeats, CancelledIsFree
  <1> QED BY <1>1, Invariance, PTL

\* While the server drains no ticket waits: every transaction that could still join or pair
\* was waited for, and the ones that come later ask again.
THEOREM DrainEmptiesQueueHolds == Spec => []DrainEmptiesQueue
  <1>1. IInv => DrainEmptiesQueue
    BY DEF IInv, Tables
  <1> QED BY <1>1, Invariance, PTL

\* The seats of a new room with a synthetic opponent.
ItsTurn ==
  \A r \in Room : room[r].phase = "none" /\ room'[r].bot =>
    \A u \in room'[r].seats : alone[u] >= PatienceTicks

LEMMA TurnKept == IInv /\ [Next]_vars => ItsTurn
  <1> SUFFICES ASSUME IInv, [Next]_vars PROVE ItsTurn
    OBVIOUS
  <1>1. room \in [Room -> RoomRow] /\ \A r \in Room : room[r].phase = "none" => ~room[r].bot
    BY DEF IInv, Tables, TableTypes, RoomsFresh, NoRoom
  <1>2. CASE UNCHANGED room
    BY <1>1, <1>2 DEF ItsTurn
  <1>3. ASSUME NEW us, NEW bot \in BOOLEAN, Reserve(us, bot),
               bot => \A u \in us : alone[u] >= PatienceTicks
        PROVE  ItsTurn
    <2> DEFINE held == [NoRoom EXCEPT !.phase = "lobby", !.res = "reserved", !.hold = HoldTicks,
                                      !.seats = us, !.bot = bot]
    <2>1. held.seats = us /\ held.bot = bot
      BY HeldRoom
    <2> HIDE DEF held
    <2>2. PICK r0 \in Room : room' = [room EXCEPT ![r0] = held]
      BY <1>3, Zenon DEF Reserve, held
    <2>3. \A r \in Room : r # r0 => room'[r] = room[r]
      BY <1>1, <2>2
    <2>4. room'[r0] = held
      BY <1>1, <2>2
    <2> QED BY <1>1, <1>3, <2>1, <2>3, <2>4 DEF ItsTurn
  <1>4. ASSUME NEW q \in Request, Serve(q) PROVE ItsTurn
    <2>1. CASE PairDecide(q)
      BY <1>2, <1>3, <2>1 DEF PairDecide
    <2>2. CASE SyntheticSeat(q)
      <3>1. req[q].pc = "seating" /\ Reserve({req[q].user}, TRUE) /\ Transaction(q)
        BY <2>2 DEF SyntheticSeat, IInv
      <3>2. \A u \in {req[q].user} : alone[u] >= PatienceTicks
        BY <3>1 DEF Transaction, Assigning
      <3> QED BY <1>3, <3>1, <3>2
    <2>3. CASE CancelReserved(q)
      <3> DEFINE r0 == req[q].in
      <3>1. room[r0].phase = "lobby" /\ r0 \in Room
        BY <2>3 DEF CancelReserved, IInv, Transaction, Releasing, Reserved
      <3>2. \A r \in Room : r # r0 => room'[r] = room[r]
        BY <1>1, <2>3 DEF CancelReserved
      <3> QED BY <1>1, <3>1, <3>2 DEF ItsTurn
    <2>4. CASE Lock(q) \/ InspectPeek(q) \/ InspectDecide(q) \/ Refused(q) \/ RefreshPeek(q)
               \/ RefreshDecide(q) \/ LastRead(q) \/ PairPeek(q) \/ SyntheticPeek(q)
               \/ SyntheticLook(q) \/ CancelDecide(q) \/ CancelOnce(q) \/ InsertConflict(q)
      BY <1>2, <2>4 DEF InsertConflict, Lock, InspectPeek, InspectDecide, Refused, RefreshPeek, RefreshDecide,
           LastRead, PairPeek, SyntheticPeek, SyntheticLook, CancelDecide, CancelOnce, Peek
    <2>5. CASE CancelPeek(q)
      <3>1. req[q].user \in User
        BY <2>5 DEF CancelPeek, IInv, Transaction, Named
      <3>2. ticket[req[q].user].state \in State
        BY <3>1 DEF IInv, Tables, TableTypes, TicketRow
      <3> QED BY <1>2, <2>5, <3>2 DEF CancelPeek, Peek, State
    <2> QED BY <1>4, <2>1, <2>2, <2>3, <2>4, <2>5 DEF Serve
  <1>5. ASSUME NEW x \in Room, EngineStep(x) PROVE ItsTurn
    <2>1. CASE Forget(x)
      <3>1. room[x].phase # "none" /\ \A r \in Room : r # x => room'[r] = room[r]
        BY <1>1, <2>1 DEF Forget
      <3> QED BY <1>1, <3>1 DEF ItsTurn
    <2>2. CASE ~Forget(x)
      <3>1. room[x].phase # "none" /\ \A r \in Room : r # x => room'[r] = room[r]
        BY <1>1, <1>5, <2>2 DEF EngineStep, AutoStart, EndReservation, Finish, Abort, Rematch,
             HostStart, Forfeit, LeaveLobby, InRoom, Reserved
      <3> QED BY <1>1, <3>1 DEF ItsTurn
    <2> QED BY <2>1, <2>2
  <1>6. CASE Tick
    <2>1. \A r \in Room : room'[r].bot = room[r].bot
      BY <1>1, <1>6 DEF Tick, RoomRow
    <2> QED BY <1>1, <2>1 DEF ItsTurn
  <1>7. CASE Drain \/ Reopen \/ Crash \/ UNCHANGED vars
    BY <1>2, <1>7 DEF Drain, Reopen, Crash, vars
  <1>8. ASSUME NEW q, NEW u, StartPoll(q, u) \/ StartCancel(q, u) PROVE ItsTurn
    BY <1>2, <1>8 DEF StartPoll, StartCancel, Arrive
  <1> QED BY <1>4, <1>5, <1>6, <1>7, <1>8 DEF Next

\* Only who has been queued for the whole fallback time without a lapse is given a synthetic
\* opponent.
THEOREM SyntheticWaitsItsTurnHolds == Spec => SyntheticWaitsItsTurn
  BY Invariance, TurnKept, PTL DEF Spec, ItsTurn, SyntheticWaitsItsTurn
=============================================================================
