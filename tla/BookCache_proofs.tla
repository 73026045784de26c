--------------------------- MODULE BookCache_proofs ---------------------------
(***************************************************************************)
(* Safety of BookCache for any number of processes and requests and any    *)
(* length of the lease and of the freshness.                               *)
(***************************************************************************)
EXTENDS BookCache, SequenceTheorems, TLAPS

USE NoneAssumption, TicksAssumption

-----------------------------------------------------------------------------
(* The inductive invariant *)

\* A request that has started runs in a process.
Placed == \A q \in Request : req[q].pc \in Steps => req[q].at \in Process

\* Nobody has an answer before the end.
Unanswered == \A q \in Request : req[q].pc # "done" => req[q].answer = "none"

\* Every book in sight has been published.
BooksStored ==
  /\ row.book # None => row.book \in stored
  /\ \A q \in Request : /\ req[q].row.book # None => req[q].row.book \in stored
                        /\ req[q].ok => q \in stored

\* A book is never taken away.
WarmHasBook == \A q \in Request : req[q].warm => row.book # None

\* Who pays within its lease is the one the row names, with the same time left.
HolderPays ==
  \A q \in Request : Paying(q) /\ req[q].left > 0 =>
                       row.token = q /\ row.lease = req[q].left

\* The bound on claims: their answer comes within the lease.
ClaimedInTime == \A q \in Request : req[q].pc = "claimed" => req[q].left > 0

Unclaimed == {"new", "read", "decide", "joined", "asleep", "claim"}

\* A request claims once, and the row's token is the last claim.
ClaimOrder ==
  /\ \A q \in Request : req[q].pc \in Unclaimed => \A i \in 1..Len(order) : order[i] # q
  /\ \A i, j \in 1..Len(order) : order[i] = order[j] => i = j
  /\ row.token # None => Len(order) > 0 /\ order[Len(order)] = row.token

IInv ==
  /\ TypeOK
  /\ Placed /\ Unanswered
  /\ ServedWasStored /\ BooksStored
  /\ BookMeansNoFailure /\ WarmHasBook
  /\ HolderPays /\ ClaimedInTime
  /\ OwnerIsJoinable
  /\ ClaimOrder

-----------------------------------------------------------------------------
(* Typing *)

RequestType ==
  [pc : Steps \cup {"new", "done"}, at : Process \cup {None}, row : RowType,
   warm : BOOLEAN, left : 0..LeaseTicks, ok : BOOLEAN,
   answer : {"none", "ok", "failed", "error"}, book : Request \cup {None}]

LEMMA EmptyRowType == EmptyRow \in RowType
BY DEF EmptyRow, RowType

LEMMA FinishedType ==
  ASSUME NEW q \in Request, NEW answer \in {"ok", "failed", "error"},
         NEW book \in Request \cup {None}
  PROVE  Finished(q, answer, book) \in RequestType
<1>1. (req[q].warm /\ answer = "failed") \in BOOLEAN  BY ZenonT(20)
<1> QED BY <1>1, EmptyRowType DEF Finished, RequestType

LEMMA FloorType == ASSUME NEW n \in Nat, NEW m \in 0..n PROVE Floor(m) \in 0..n
BY DEF Floor

\* What the steps of getSpellBook write into a request.
LEMMA UpdateType ==
  ASSUME NEW r \in RequestType
  PROVE  /\ \A pc \in Steps : [r EXCEPT !.pc = pc] \in RequestType
         /\ \A pc \in Steps, x \in RowType : [r EXCEPT !.pc = pc, !.row = x] \in RequestType
         /\ \A p \in Process, b \in BOOLEAN :
              [r EXCEPT !.pc = "read", !.at = p, !.warm = b] \in RequestType
         /\ [r EXCEPT !.pc = "claimed", !.left = LeaseTicks] \in RequestType
         /\ \A b \in BOOLEAN : [r EXCEPT !.pc = "latest", !.ok = b] \in RequestType
<1>1. \A pc \in Steps : [r EXCEPT !.pc = pc] \in RequestType
  BY DEF RequestType
<1>2. \A pc \in Steps, x \in RowType : [r EXCEPT !.pc = pc, !.row = x] \in RequestType
  BY DEF RequestType
<1>3. \A p \in Process, b \in BOOLEAN :
        [r EXCEPT !.pc = "read", !.at = p, !.warm = b] \in RequestType
  BY DEF RequestType, Steps
<1>4. [r EXCEPT !.pc = "claimed", !.left = LeaseTicks] \in RequestType
  <2>1. LeaseTicks \in 0..LeaseTicks  OBVIOUS
  <2> QED BY <2>1 DEF RequestType, Steps
<1>5. \A b \in BOOLEAN : [r EXCEPT !.pc = "latest", !.ok = b] \in RequestType
  BY DEF RequestType, Steps
<1> QED BY <1>1, <1>2, <1>3, <1>4, <1>5

LEMMA BecomeType ==
  ASSUME TypeOK, NEW q \in Request, NEW r \in RequestType, Become(q, r)
  PROVE  req' \in [Request -> RequestType]
BY DEF Become, TypeOK, RequestType

LEMMA ResolveType ==
  ASSUME TypeOK, NEW q \in Request, NEW answer \in {"ok", "failed", "error"},
         NEW book \in Request \cup {None}, Resolve(q, answer, book)
  PROVE  req' \in [Request -> RequestType] /\ pending' \in [Process -> Request \cup {None}]
<1>1. \A x \in Request : Finished(x, answer, book) \in RequestType  BY FinishedType
<1>2. \A x \in Request : req[x] \in RequestType  BY DEF TypeOK, RequestType
<1> QED BY <1>1, <1>2 DEF Resolve, TypeOK

LEMMA TypeStep == TypeOK /\ [Next]_vars => TypeOK'
<1> SUFFICES ASSUME TypeOK, [Next]_vars PROVE TypeOK'
  OBVIOUS
<1> DEFINE Shape == /\ row' \in RowType /\ pending' \in [Process -> Request \cup {None}]
                    /\ req' \in [Request -> RequestType]
                    /\ stored' \subseteq Request /\ order' \in Seq(Request)
<1>0. SUFFICES Shape  BY DEF TypeOK, RequestType
<1>a. /\ row \in RowType /\ pending \in [Process -> Request \cup {None}]
      /\ req \in [Request -> RequestType]
      /\ stored \subseteq Request /\ order \in Seq(Request)
  BY DEF TypeOK, RequestType
<1>b. \A q \in Request, pc \in Steps : Goto(q, pc) => req' \in [Request -> RequestType]
  <2> TAKE q \in Request, pc \in Steps
  <2>1. [req[q] EXCEPT !.pc = pc] \in RequestType  BY <1>a, UpdateType
  <2> QED BY <2>1, BecomeType DEF Goto
<1>c. \A q \in Request : Take(q) => row' \in RowType /\ order' \in Seq(Request)
  <2> TAKE q \in Request
  <2> HAVE Take(q)
  <2>1. LeaseTicks \in 0..LeaseTicks  OBVIOUS
  <2>2. row' \in RowType  BY <1>a, <2>1 DEF Take, RowType
  <2>3. order' \in Seq(Request)  BY <1>a, AppendProperties DEF Take
  <2> QED BY <2>2, <2>3
<1>d. \A q \in Request : PublishRow(q) => row' \in RowType /\ stored' \subseteq Request
  BY <1>a DEF PublishRow, RowType
<1>e. \A q \in Request : ClearRow(q) => row' \in RowType
  <2> TAKE q \in Request
  <2> HAVE ClearRow(q)
  <2>1. 0 \in 0..LeaseTicks  OBVIOUS
  <2>2. [row EXCEPT !.token = None, !.lease = 0] \in RowType  BY <1>a, <2>1 DEF RowType
  <2> QED BY <1>a, <2>2 DEF ClearRow
<1>f. \A q \in Request, answer \in {"ok", "failed"}, book \in Request \cup {None} :
        Answer(q, answer, book) => Shape
  BY <1>a, FinishedType, BecomeType DEF Answer
<1>1. ASSUME NEW q \in Request, NEW p \in Process, Start(q, p) PROVE Shape
  <2>1. (row.book # None) \in BOOLEAN  BY ZenonT(20)
  <2>2. [req[q] EXCEPT !.pc = "read", !.at = p, !.warm = (row.book # None)] \in RequestType
    BY <1>a, <2>1, UpdateType
  <2> QED BY <1>a, <1>1, <2>2, BecomeType DEF Start
<1>2. ASSUME NEW q \in Request, Proceed(q) PROVE Shape
  <2> USE <1>a
  <2>0. [req[q] EXCEPT !.pc = "decide", !.row = row] \in RequestType
    BY UpdateType DEF Steps
  <2>1. CASE Read(q)      BY <2>0, <2>1, BecomeType DEF Read
  <2>2. CASE Decide(q)
    <3> DEFINE seen == req[q].row
    <3>1. seen \in RowType  BY DEF RequestType
    <3>2. ASSUME seen.book # None, Answer(q, "ok", seen.book) PROVE Shape
      <4>1. seen.book \in Request \cup {None}  BY <3>1 DEF RowType
      <4> QED BY <3>2, <4>1, <1>f
    <3>3. ASSUME NEW pc \in Steps, Goto(q, pc), UNCHANGED <<row, pending, stored, order>>
          PROVE Shape
      BY <3>3, <1>b
    <3>4. ASSUME Become(q, [req[q] EXCEPT !.pc = "claim", !.row = EmptyRow]),
                 UNCHANGED <<row, pending, stored, order>>
          PROVE Shape
      <4>1. [req[q] EXCEPT !.pc = "claim", !.row = EmptyRow] \in RequestType
        BY EmptyRowType, UpdateType DEF Steps
      <4> QED BY <3>4, <4>1, BecomeType
    <3> QED BY <2>2, <3>2, <3>3, <3>4 DEF Decide, BookIsFresh, Steps
  <2>3. CASE Wake(q)
    <3>1. CASE Answer(q, "failed", None)  BY <3>1, <1>f
    <3>2. CASE /\ Become(q, [req[q] EXCEPT !.pc = "decide", !.row = row])
               /\ UNCHANGED <<row, pending, stored, order>>
      BY <2>0, <3>2, BecomeType
    <3> QED BY <2>3, <3>1, <3>2 DEF Wake
  <2>4. CASE Claim(q)
    <3>1. CASE Goto(q, "read") /\ UNCHANGED <<row, order>>
      BY <2>4, <3>1, <1>b DEF Claim, Steps
    <3>2. CASE Take(q) /\ Become(q, [req[q] EXCEPT !.pc = "claimed", !.left = LeaseTicks])
      <4>1. [req[q] EXCEPT !.pc = "claimed", !.left = LeaseTicks] \in RequestType
        BY UpdateType
      <4> QED BY <2>4, <3>2, <4>1, <1>c, BecomeType DEF Claim
    <3> QED BY <2>4, <3>1, <3>2 DEF Claim
  <2>5. CASE Launch(q)    BY <2>5, <1>b DEF Launch, Steps
  <2>6. CASE Generate(q)  BY <2>6, <1>b DEF Generate, Steps
  <2>7. CASE Publish(q)
    <3>1. (row.token = q) \in BOOLEAN  BY ZenonT(20)
    <3>2. [req[q] EXCEPT !.pc = "latest", !.ok = (row.token = q)] \in RequestType
      BY <3>1, UpdateType
    <3> QED BY <2>7, <3>2, <1>d, BecomeType DEF Publish
  <2>8. CASE Clear(q)     BY <2>8, <1>b, <1>e DEF Clear, Steps
  <2>9. CASE Settle(q)
    <3>1. row.book \in Request \cup {None}  BY DEF RowType
    <3> QED BY <2>9, <3>1, ResolveType DEF Settle, OwnOutcome
  <2> QED BY <1>2, <2>1, <2>2, <2>3, <2>4, <2>5, <2>6, <2>7, <2>8, <2>9 DEF Proceed
<1>3. ASSUME NEW q \in Request, Fault(q) PROVE Shape
  <2>1. req' \in [Request -> RequestType] /\ pending' \in [Process -> Request \cup {None}]
    BY <1>3, ResolveType DEF Fault
  <2>2. /\ row' \in RowType /\ stored' \subseteq Request /\ order' \in Seq(Request)
    BY <1>a, <1>3, <1>c, <1>d, <1>e DEF Fault
  <2> QED BY <2>1, <2>2
<1>4. ASSUME NEW p \in Process, Crash(p) PROVE Shape
  <2>1. \A x \in Request : Finished(x, "error", None) \in RequestType  BY FinishedType
  <2> QED BY <1>a, <1>4, <2>1 DEF Crash
<1>5. CASE Tick
  <2>1. \A r \in RowType : Floor(r.lease) \in 0..LeaseTicks /\ Floor(r.fresh) \in 0..FreshTicks
    BY FloorType DEF RowType
  <2>2. \A r \in RowType :
          [r EXCEPT !.lease = Floor(r.lease), !.fresh = Floor(r.fresh)] \in RowType
    BY <2>1 DEF RowType
  <2>3. row' \in RowType  BY <1>a, <1>5, <2>2 DEF Tick
  <2>4. ASSUME NEW q \in Request PROVE req'[q] \in RequestType
    <3>1. req[q] \in RequestType  BY <1>a
    <3>2. req[q].row \in RowType /\ req[q].left \in 0..LeaseTicks  BY <3>1 DEF RequestType
    <3>3. Floor(req[q].left) \in 0..LeaseTicks  BY <3>2, FloorType
    <3>4. PICK r \in RowType :
            req'[q] = [req[q] EXCEPT !.left = Floor(req[q].left), !.row = r]
      BY <1>5, <2>2, <3>2 DEF Tick
    <3> QED BY <3>1, <3>3, <3>4 DEF RequestType
  <2>5. req' = [q \in Request |-> req'[q]]  BY <1>5 DEF Tick
  <2>6. req' \in [Request -> RequestType]  BY <2>4, <2>5
  <2> QED BY <1>a, <1>5, <2>3, <2>6 DEF Tick
<1>6. CASE UNCHANGED vars  BY <1>a, <1>6 DEF vars
<1> QED BY <1>1, <1>2, <1>3, <1>4, <1>5, <1>6 DEF Next

-----------------------------------------------------------------------------
\* Time changes nothing in a request but what is left of leases and freshness.
LEMMA TickFields ==
  ASSUME TypeOK, Tick
  PROVE  \A x \in Request :
           /\ req'[x].pc = req[x].pc /\ req'[x].at = req[x].at
           /\ req'[x].answer = req[x].answer /\ req'[x].book = req[x].book
           /\ req'[x].ok = req[x].ok /\ req'[x].warm = req[x].warm
           /\ req'[x].left = Floor(req[x].left)
           /\ req'[x].row.book = req[x].row.book
<1> TAKE x \in Request
<1>1. req[x] \in RequestType  BY DEF TypeOK, RequestType
<1>2. req[x].row \in RowType  BY <1>1 DEF RequestType
<1> DEFINE r == [req[x].row EXCEPT !.lease = Floor(req[x].row.lease),
                                   !.fresh = Floor(req[x].row.fresh)]
<1>3. r.book = req[x].row.book  BY <1>2 DEF RowType
<1>4. req'[x] = [req[x] EXCEPT !.left = Floor(req[x].left), !.row = r]  BY DEF Tick
<1> HIDE DEF r
<1>5. req'[x].row = r  BY <1>1, <1>4 DEF RequestType
<1>6. /\ req'[x].pc = req[x].pc /\ req'[x].at = req[x].at
      /\ req'[x].answer = req[x].answer /\ req'[x].book = req[x].book
      /\ req'[x].ok = req[x].ok /\ req'[x].warm = req[x].warm
      /\ req'[x].left = Floor(req[x].left)
  BY <1>1, <1>4 DEF RequestType
<1> QED BY <1>3, <1>5, <1>6

-----------------------------------------------------------------------------
(* Books *)

Books == ServedWasStored /\ BooksStored /\ BookMeansNoFailure /\ WarmHasBook

\* Requests that are answered with what may be answered, others left as they are.
LEMMA BooksEnd ==
  ASSUME TypeOK, Books, row.book # None => row'.book # None,
         row'.book # None => row'.book \in stored', stored \subseteq stored',
         NEW answer, NEW book,
         answer = "ok" => book \in stored',
         answer = "failed" => row.book = None,
         \A x \in Request : req'[x] = req[x] \/ req'[x] = Finished(x, answer, book)
  PROVE  Books'
<1>1. ASSUME NEW x \in Request
      PROVE  /\ req'[x].answer = "ok" => req'[x].book \in stored'
             /\ req'[x].row.book # None => req'[x].row.book \in stored'
             /\ req'[x].ok => x \in stored'
             /\ req'[x].answer = "failed" => ~req'[x].warm
             /\ req'[x].warm => row'.book # None
  <2>1. CASE req'[x] = req[x]
    BY <2>1 DEF Books, ServedWasStored, BooksStored, BookMeansNoFailure, WarmHasBook
  <2>2. CASE req'[x] = Finished(x, answer, book)
    <3>1. req'[x].answer = answer /\ req'[x].book = book  BY <2>2 DEF Finished
    <3>2. req'[x].row.book = None  BY <2>2 DEF Finished, EmptyRow
    <3>3. req'[x].ok = FALSE  BY <2>2 DEF Finished
    <3>4. req'[x].warm = (req[x].warm /\ answer = "failed")  BY <2>2 DEF Finished
    <3>5. req'[x].warm => req[x].warm /\ answer = "failed"  BY <3>4, ZenonT(20)
    <3>6. req[x].warm => row.book # None  BY DEF Books, WarmHasBook
    <3> QED BY <3>1, <3>2, <3>3, <3>5, <3>6
  <2> QED BY <2>1, <2>2
<1> QED BY <1>1
        DEF Books, ServedWasStored, BooksStored, BookMeansNoFailure, WarmHasBook

\* A request that goes on, having read the row or published.
LEMMA BooksMove ==
  ASSUME TypeOK, Books, row.book # None => row'.book # None,
         row'.book # None => row'.book \in stored', stored \subseteq stored',
         NEW q \in Request, \A x \in Request \ {q} : req'[x] = req[x],
         req'[q].answer = req[q].answer, req'[q].book = req[q].book,
         req'[q].row.book # None => req'[q].row.book \in stored',
         req'[q].ok => q \in stored',
         req'[q].warm => row'.book # None, req'[q].answer = "failed" => ~req'[q].warm
  PROVE  Books'
BY DEF Books, ServedWasStored, BooksStored, BookMeansNoFailure, WarmHasBook

LEMMA BooksStep ==
  ASSUME TypeOK, Unanswered, Books, [Next]_vars
  PROVE  Books'
<1> DEFINE Same == UNCHANGED <<row, stored>>
<1>a. req \in [Request -> RequestType]  BY DEF TypeOK, RequestType
<1>b. row.book # None => row.book \in stored  BY DEF Books, BooksStored
<1>c. \A q \in Request, pc \in Steps : Goto(q, pc) /\ Same => Books'
  <2> TAKE q \in Request, pc \in Steps
  <2> HAVE Goto(q, pc) /\ Same
  <2>1. /\ \A x \in Request \ {q} : req'[x] = req[x]
        /\ req'[q] = [req[q] EXCEPT !.pc = pc]
    BY <1>a DEF Goto, Become
  <2>2. /\ req'[q].answer = req[q].answer /\ req'[q].book = req[q].book
        /\ req'[q].row = req[q].row /\ req'[q].ok = req[q].ok /\ req'[q].warm = req[q].warm
    BY <1>a, <2>1 DEF RequestType
  <2> QED BY <1>b, <2>1, <2>2, BooksMove
          DEF Books, BooksStored, BookMeansNoFailure, WarmHasBook
<1>d. \A q \in Request, answer \in {"ok", "failed"}, book \in Request \cup {None} :
        /\ Answer(q, answer, book)
        /\ answer = "ok" => book \in stored
        /\ answer = "failed" => row.book = None
        => Books'
  BY <1>a, <1>b, BooksEnd DEF Answer, Become
<1>1. ASSUME NEW q \in Request, NEW p \in Process, Start(q, p) PROVE Books'
  <2>1. /\ \A x \in Request \ {q} : req'[x] = req[x]
        /\ req'[q] = [req[q] EXCEPT !.pc = "read", !.at = p, !.warm = (row.book # None)]
    BY <1>a, <1>1 DEF Start, Become
  <2>2. /\ req'[q].answer = req[q].answer /\ req'[q].book = req[q].book
        /\ req'[q].row = req[q].row /\ req'[q].ok = req[q].ok
    BY <1>a, <2>1 DEF RequestType
  <2>3. req'[q].warm = (row.book # None)  BY <1>a, <2>1 DEF RequestType
  <2>4. req[q].answer = "none"  BY <1>1 DEF Start, Unanswered
  <2> QED BY <1>1, <1>b, <2>1, <2>2, <2>3, <2>4, BooksMove DEF Start, Books, BooksStored
<1>r. ASSUME NEW q \in Request, NEW pc, NEW r, r.book # None => r.book \in stored,
             Become(q, [req[q] EXCEPT !.pc = pc, !.row = r]), Same
      PROVE  Books'
  <2>1. /\ \A x \in Request \ {q} : req'[x] = req[x]
        /\ req'[q] = [req[q] EXCEPT !.pc = pc, !.row = r]
    BY <1>a, <1>r DEF Become
  <2>2. /\ req'[q].answer = req[q].answer /\ req'[q].book = req[q].book
        /\ req'[q].row = r /\ req'[q].ok = req[q].ok /\ req'[q].warm = req[q].warm
    BY <1>a, <2>1 DEF RequestType
  <2> QED BY <1>b, <1>r, <2>1, <2>2, BooksMove
          DEF Books, BooksStored, BookMeansNoFailure, WarmHasBook
<1>2. ASSUME NEW q \in Request, Read(q) PROVE Books'
  BY <1>2, <1>b, <1>r DEF Read
<1>3. ASSUME NEW q \in Request, Decide(q) PROVE Books'
  <2>1. CASE /\ req[q].row.book # None /\ Answer(q, "ok", req[q].row.book)
    <3>1. req[q].row.book \in Request \cup {None}  BY <1>a DEF RequestType, RowType
    <3>2. req[q].row.book \in stored  BY <2>1 DEF Books, BooksStored
    <3> QED BY <1>d, <2>1, <3>1, <3>2
  <2>2. CASE \E pc \in Steps : Goto(q, pc) /\ Same  BY <1>c, <2>2
  <2>3. CASE Become(q, [req[q] EXCEPT !.pc = "claim", !.row = EmptyRow]) /\ Same
    BY <1>r, <2>3 DEF EmptyRow
  <2> QED BY <1>3, <2>1, <2>2, <2>3 DEF Decide, BookIsFresh, Steps
<1>4. ASSUME NEW q \in Request, Wake(q) PROVE Books'
  <2>1. CASE row.book = None /\ Answer(q, "failed", None)  BY <1>d, <2>1
  <2>2. CASE Become(q, [req[q] EXCEPT !.pc = "decide", !.row = row]) /\ Same
    BY <1>b, <1>r, <2>2
  <2> QED BY <1>4, <2>1, <2>2 DEF Wake
<1>5. ASSUME NEW q \in Request, Claim(q) PROVE Books'
  <2>1. CASE Goto(q, "read") /\ Same  BY <1>c, <2>1 DEF Steps
  <2>2. CASE Take(q) /\ Become(q, [req[q] EXCEPT !.pc = "claimed", !.left = LeaseTicks])
    <3>1. /\ \A x \in Request \ {q} : req'[x] = req[x]
          /\ req'[q] = [req[q] EXCEPT !.pc = "claimed", !.left = LeaseTicks]
      BY <1>a, <2>2 DEF Become
    <3>2. /\ req'[q].answer = req[q].answer /\ req'[q].book = req[q].book
          /\ req'[q].row = req[q].row /\ req'[q].ok = req[q].ok
          /\ req'[q].warm = req[q].warm
      BY <1>a, <3>1 DEF RequestType
    <3>3. row'.book = row.book  BY <2>2 DEF Take, TypeOK, RowType
    <3>4. stored' = stored  BY <1>5 DEF Claim
    <3> QED BY <1>b, <3>1, <3>2, <3>3, <3>4, BooksMove
            DEF Books, BooksStored, BookMeansNoFailure, WarmHasBook
  <2> QED BY <1>5, <2>1, <2>2 DEF Claim
<1>6. ASSUME NEW q \in Request, Launch(q) PROVE Books'
  BY <1>6, <1>c DEF Launch, Steps
<1>7. ASSUME NEW q \in Request, Generate(q) PROVE Books'
  BY <1>7, <1>c DEF Generate, Steps
<1>p. \A q \in Request : PublishRow(q) =>
         /\ row.book # None => row'.book # None
         /\ row'.book # None => row'.book \in stored'
         /\ stored \subseteq stored'
         /\ row.token = q => q \in stored'
  BY <1>b DEF PublishRow
<1>8. ASSUME NEW q \in Request, Publish(q) PROVE Books'
  <2>1. /\ \A x \in Request \ {q} : req'[x] = req[x]
        /\ req'[q] = [req[q] EXCEPT !.pc = "latest", !.ok = (row.token = q)]
    BY <1>a, <1>8 DEF Publish, Become
  <2>2. /\ req'[q].answer = req[q].answer /\ req'[q].book = req[q].book
        /\ req'[q].row = req[q].row /\ req'[q].warm = req[q].warm
    BY <1>a, <2>1 DEF RequestType
  <2>3. req'[q].ok = (row.token = q)  BY <1>a, <2>1 DEF RequestType
  <2>4. PublishRow(q)  BY <1>8 DEF Publish
  <2> QED BY <1>p, <2>1, <2>2, <2>3, <2>4, BooksMove
          DEF Books, BooksStored, BookMeansNoFailure, WarmHasBook
<1>k. \A q \in Request : ClearRow(q) => row'.book = row.book
  BY DEF ClearRow, TypeOK, RowType
<1>9. ASSUME NEW q \in Request, Clear(q) PROVE Books'
  <2>1. /\ \A x \in Request \ {q} : req'[x] = req[x]
        /\ req'[q] = [req[q] EXCEPT !.pc = "latest"]
    BY <1>a, <1>9 DEF Clear, Goto, Become
  <2>2. /\ req'[q].answer = req[q].answer /\ req'[q].book = req[q].book
        /\ req'[q].row = req[q].row /\ req'[q].warm = req[q].warm /\ req'[q].ok = req[q].ok
    BY <1>a, <2>1 DEF RequestType
  <2>3. row'.book = row.book /\ stored' = stored  BY <1>9, <1>k DEF Clear
  <2> QED BY <1>b, <2>1, <2>2, <2>3, BooksMove
          DEF Books, BooksStored, BookMeansNoFailure, WarmHasBook
<1>e. ASSUME NEW q \in Request, NEW answer, NEW book, Resolve(q, answer, book)
      PROVE  \A x \in Request : req'[x] = req[x] \/ req'[x] = Finished(x, answer, book)
  BY <1>e DEF Resolve
<1>10. ASSUME NEW q \in Request, Settle(q) PROVE Books'
  <2>1. CASE row.book # None /\ Resolve(q, "ok", row.book)
    BY <1>10, <1>b, <1>e, <2>1, BooksEnd DEF Settle
  <2>2. CASE row.book = None /\ OwnOutcome(q)
    <3>1. CASE req[q].ok
      <4>1. Resolve(q, "ok", q)  BY <2>2, <3>1 DEF OwnOutcome
      <4>2. q \in stored  BY <3>1 DEF Books, BooksStored
      <4> QED BY <1>10, <1>b, <1>e, <4>1, <4>2, BooksEnd DEF Settle
    <3>2. CASE ~req[q].ok
      <4>1. Resolve(q, "failed", None)  BY <2>2, <3>2 DEF OwnOutcome
      <4> QED BY <1>10, <1>b, <1>e, <2>2, <4>1, BooksEnd DEF Settle
    <3> QED BY <3>1, <3>2
  <2> QED BY <1>10, <2>1, <2>2 DEF Settle
<1>11. ASSUME NEW q \in Request, Fault(q) PROVE Books'
  <2>1. Resolve(q, "error", None)  BY <1>11 DEF Fault
  <2>2. /\ row.book # None => row'.book # None
        /\ row'.book # None => row'.book \in stored'
        /\ stored \subseteq stored'
    <3>1. CASE PublishRow(q)  BY <1>p, <3>1
    <3>2. CASE ClearRow(q) /\ stored' = stored  BY <1>b, <1>k, <3>2
    <3>3. CASE Take(q) /\ stored' = stored
      <4>1. row'.book = row.book  BY <3>3 DEF Take, TypeOK, RowType
      <4> QED BY <1>b, <3>3, <4>1
    <3>4. CASE Same  BY <1>b, <3>4
    <3> QED BY <1>11, <3>1, <3>2, <3>3, <3>4 DEF Fault
  <2> QED BY <1>e, <2>1, <2>2, BooksEnd
<1>12. ASSUME NEW p \in Process, Crash(p) PROVE Books'
  <2>1. \A x \in Request : req'[x] = req[x] \/ req'[x] = Finished(x, "error", None)
    BY <1>12 DEF Crash
  <2> QED BY <1>12, <1>b, <2>1, BooksEnd DEF Crash
<1>13. CASE Tick
  <2>1. \A x \in Request : /\ req'[x].answer = req[x].answer /\ req'[x].book = req[x].book
                           /\ req'[x].ok = req[x].ok /\ req'[x].warm = req[x].warm
                           /\ req'[x].row.book = req[x].row.book
    BY <1>13, TickFields
  <2>2. row'.book = row.book /\ stored' = stored  BY <1>13 DEF Tick, TypeOK, RowType
  <2> QED BY <2>1, <2>2
          DEF Books, ServedWasStored, BooksStored, BookMeansNoFailure, WarmHasBook
<1>14. CASE UNCHANGED vars
  BY <1>14 DEF vars, Books, ServedWasStored, BooksStored, BookMeansNoFailure, WarmHasBook
<1> QED BY <1>1, <1>2, <1>3, <1>4, <1>5, <1>6, <1>7, <1>8, <1>9, <1>10, <1>11, <1>12,
           <1>13, <1>14 DEF Next, Proceed

-----------------------------------------------------------------------------
(* Attempts *)

Attempts == Placed /\ Unanswered /\ HolderPays /\ ClaimedInTime /\ OwnerIsJoinable

\* Requests that end leave those that go on with what they have.
LEMMA AttemptsEnd ==
  ASSUME TypeOK, Attempts, NEW answer, NEW book,
         \A x \in Request :
           \/ req'[x] = Finished(x, answer, book)
           \/ /\ req'[x] = req[x]
              /\ Paying(x) /\ req[x].left > 0 =>
                   row'.token = row.token /\ row'.lease = row.lease
              /\ req[x].pc = "generating" /\ row'.token = x =>
                   row.token = x /\ pending'[req[x].at] = pending[req[x].at]
  PROVE  Attempts'
<1>1. ASSUME NEW x \in Request
      PROVE  /\ req'[x].pc \in Steps => req'[x].at \in Process
             /\ req'[x].pc # "done" => req'[x].answer = "none"
             /\ Paying(x)' /\ req'[x].left > 0 =>
                  row'.token = x /\ row'.lease = req'[x].left
             /\ req'[x].pc = "claimed" => req'[x].left > 0
             /\ req'[x].pc = "generating" /\ row'.token = x => pending'[req'[x].at] = x
  <2>1. CASE req'[x] = Finished(x, answer, book)
    <3>1. req'[x].pc = "done"  BY <2>1 DEF Finished
    <3> QED BY <3>1 DEF Paying, Steps
  <2>2. CASE req'[x] # Finished(x, answer, book)
    BY <2>2 DEF Attempts, Placed, Unanswered, HolderPays, ClaimedInTime, OwnerIsJoinable,
                Paying
  <2> QED BY <2>1, <2>2
<1> QED BY <1>1
        DEF Attempts, Placed, Unanswered, HolderPays, ClaimedInTime, OwnerIsJoinable

\* One request goes on and takes no attempt from another.
LEMMA AttemptsMove ==
  ASSUME TypeOK, Attempts, NEW q \in Request,
         \A x \in Request \ {q} : req'[x] = req[x],
         \A x \in Request \ {q} :
           /\ Paying(x) /\ req[x].left > 0 =>
                row'.token = row.token /\ row'.lease = row.lease
           /\ req[x].pc = "generating" /\ row'.token = x =>
                row.token = x /\ pending'[req[x].at] = pending[req[x].at],
         req'[q].pc \in Steps, req'[q].at \in Process, req'[q].answer = "none",
         Paying(q)' /\ req'[q].left > 0 => row'.token = q /\ row'.lease = req'[q].left,
         req'[q].pc = "claimed" => req'[q].left > 0,
         req'[q].pc = "generating" /\ row'.token = q => pending'[req'[q].at] = q
  PROVE  Attempts'
<1>1. ASSUME NEW x \in Request
      PROVE  /\ req'[x].pc \in Steps => req'[x].at \in Process
             /\ req'[x].pc # "done" => req'[x].answer = "none"
             /\ Paying(x)' /\ req'[x].left > 0 =>
                  row'.token = x /\ row'.lease = req'[x].left
             /\ req'[x].pc = "claimed" => req'[x].left > 0
             /\ req'[x].pc = "generating" /\ row'.token = x => pending'[req'[x].at] = x
  <2>1. CASE x = q  BY <2>1
  <2>2. CASE x # q
    BY <2>2 DEF Attempts, Placed, Unanswered, HolderPays, ClaimedInTime, OwnerIsJoinable,
                Paying
  <2> QED BY <2>1, <2>2
<1> QED BY <1>1
        DEF Attempts, Placed, Unanswered, HolderPays, ClaimedInTime, OwnerIsJoinable

LEMMA AttemptsStep ==
  ASSUME TypeOK, Attempts, [Next]_vars
  PROVE  Attempts'
<1> DEFINE Same == UNCHANGED <<row, pending>>
           Idle == {"read", "decide", "joined", "asleep", "claim", "publish", "clear",
                    "latest"}
<1>a. req \in [Request -> RequestType]  BY DEF TypeOK, RequestType
<1>b. \A q \in Request : req[q].pc # "done" => req[q].answer = "none"
  BY DEF Attempts, Unanswered
<1>c. \A q \in Request : req[q].pc \in Steps => req[q].at \in Process
  BY DEF Attempts, Placed
<1>d. ASSUME NEW q \in Request, NEW r, Become(q, r), Same,
             r.pc \in Idle, r.at \in Process, r.answer = "none"
      PROVE  Attempts'
  <2>1. req'[q] = r /\ \A x \in Request \ {q} : req'[x] = req[x]
    BY <1>a, <1>d DEF Become
  <2>2. ~Paying(q)' /\ req'[q].pc \in Steps  BY <1>d, <2>1 DEF Paying, Steps
  <2> QED BY <1>d, <2>1, <2>2, AttemptsMove DEF Paying
<1>g. ASSUME NEW q \in Request, NEW pc \in Idle, req[q].pc \in Steps, Goto(q, pc), Same
      PROVE  Attempts'
  <2> DEFINE r == [req[q] EXCEPT !.pc = pc]
  <2>1. r.pc = pc /\ r.at = req[q].at /\ r.answer = req[q].answer
    BY <1>a DEF RequestType
  <2>2. req[q].pc # "done"  BY <1>g DEF Steps
  <2>3. Become(q, r)  BY <1>g DEF Goto
  <2> HIDE DEF r
  <2> QED BY <1>b, <1>c, <1>d, <1>g, <2>1, <2>2, <2>3
<1>h. ASSUME NEW q \in Request, NEW pc \in Idle, NEW y, req[q].pc \in Steps,
             Become(q, [req[q] EXCEPT !.pc = pc, !.row = y]), Same
      PROVE  Attempts'
  <2> DEFINE r == [req[q] EXCEPT !.pc = pc, !.row = y]
  <2>1. r.pc = pc /\ r.at = req[q].at /\ r.answer = req[q].answer
    BY <1>a DEF RequestType
  <2>2. req[q].pc # "done"  BY <1>h DEF Steps
  <2>3. Become(q, r)  BY <1>h
  <2> HIDE DEF r
  <2> QED BY <1>b, <1>c, <1>d, <1>h, <2>1, <2>2, <2>3
<1>f. ASSUME NEW q \in Request, NEW answer, NEW book, Answer(q, answer, book)
      PROVE  Attempts'
  BY <1>a, <1>f, AttemptsEnd DEF Answer, Become
<1>1. ASSUME NEW q \in Request, NEW p \in Process, Start(q, p) PROVE Attempts'
  <2> DEFINE r == [req[q] EXCEPT !.pc = "read", !.at = p, !.warm = (row.book # None)]
  <2>1. r.pc = "read" /\ r.at = p /\ r.answer = req[q].answer
    BY <1>a DEF RequestType
  <2>2. Become(q, r) /\ Same /\ req[q].pc = "new"  BY <1>1 DEF Start
  <2> HIDE DEF r
  <2> QED BY <1>b, <1>d, <2>1, <2>2
<1>2. ASSUME NEW q \in Request, Read(q) PROVE Attempts'
  <2>1. req[q].pc \in Steps  BY <1>2 DEF Read, Steps
  <2>2. Become(q, [req[q] EXCEPT !.pc = "decide", !.row = row]) /\ Same  BY <1>2 DEF Read
  <2> QED BY <1>h, <2>1, <2>2
<1>3. ASSUME NEW q \in Request, Decide(q) PROVE Attempts'
  <2>0. req[q].pc \in Steps  BY <1>3 DEF Decide, Steps
  <2>1. CASE \E book : Answer(q, "ok", book)  BY <1>f, <2>1
  <2>2. CASE \E pc \in Idle : Goto(q, pc) /\ Same  BY <1>g, <2>0, <2>2
  <2>3. CASE Become(q, [req[q] EXCEPT !.pc = "claim", !.row = EmptyRow]) /\ Same
    BY <1>h, <2>0, <2>3
  <2> QED BY <1>3, <2>1, <2>2, <2>3 DEF Decide
<1>4. ASSUME NEW q \in Request, Wake(q) PROVE Attempts'
  <2>0. req[q].pc \in Steps  BY <1>4 DEF Wake, Steps
  <2>1. CASE Answer(q, "failed", None)  BY <1>f, <2>1
  <2>2. CASE Become(q, [req[q] EXCEPT !.pc = "decide", !.row = row]) /\ Same
    BY <1>h, <2>0, <2>2
  <2> QED BY <1>4, <2>1, <2>2 DEF Wake
<1>x. ASSUME NEW x \in Request, Paying(x), req[x].left > 0 PROVE LeaseIsLive(row)
  BY <1>x DEF Attempts, HolderPays, LeaseIsLive
<1>5. ASSUME NEW q \in Request, Claim(q) PROVE Attempts'
  <2>0. req[q].pc \in Steps  BY <1>5 DEF Claim, Steps
  <2>1. CASE Goto(q, "read") /\ Same  BY <1>g, <2>0, <2>1
  <2>2. CASE /\ ~LeaseIsLive(row) /\ Take(q) /\ UNCHANGED pending
             /\ Become(q, [req[q] EXCEPT !.pc = "claimed", !.left = LeaseTicks])
    <3> DEFINE r == [req[q] EXCEPT !.pc = "claimed", !.left = LeaseTicks]
    <3>1. /\ r.pc = "claimed" /\ r.at = req[q].at /\ r.answer = req[q].answer
          /\ r.left = LeaseTicks
      BY <1>a DEF RequestType
    <3>2. req'[q] = r /\ \A x \in Request \ {q} : req'[x] = req[x]
      BY <1>a, <2>2 DEF Become
    <3>3. row'.token = q /\ row'.lease = LeaseTicks  BY <2>2 DEF Take, TypeOK, RowType
    <3>4. \A x \in Request : ~(Paying(x) /\ req[x].left > 0)  BY <1>x, <2>2
    <3>5. req[q].answer = "none"  BY <1>5, <1>b DEF Claim
    <3> HIDE DEF r
    <3> QED BY <1>c, <2>0, <3>1, <3>2, <3>3, <3>4, <3>5, AttemptsMove DEF Steps
  <2> QED BY <1>5, <2>1, <2>2 DEF Claim
<1>6. ASSUME NEW q \in Request, Launch(q) PROVE Attempts'
  <2> DEFINE r == [req[q] EXCEPT !.pc = "generating"]
  <2>1. /\ r.pc = "generating" /\ r.at = req[q].at /\ r.answer = req[q].answer
        /\ r.left = req[q].left
    BY <1>a DEF RequestType
  <2>2. req'[q] = r /\ \A x \in Request \ {q} : req'[x] = req[x]
    BY <1>a, <1>6 DEF Launch, Goto, Become
  <2>3. req[q].at \in Process /\ req[q].answer = "none"
    BY <1>6, <1>b, <1>c DEF Launch, Steps
  <2>4. row.token = q /\ row.lease = req[q].left
    BY <1>6 DEF Launch, Attempts, HolderPays, ClaimedInTime, Paying
  <2>5. row' = row  BY <1>6 DEF Launch
  <2>6. pending'[req[q].at] = q  BY <1>6, <2>3 DEF Launch, TypeOK
  <2> HIDE DEF r
  <2> QED BY <2>1, <2>2, <2>3, <2>4, <2>5, <2>6, AttemptsMove DEF Steps
<1>7. ASSUME NEW q \in Request, Generate(q) PROVE Attempts'
  BY <1>7, <1>g DEF Generate, Steps
<1>o. ASSUME NEW q \in Request, req[q].pc \in {"publish", "clear"},
             PublishRow(q) \/ ClearRow(q), NEW x \in Request
      PROVE  /\ Paying(x) /\ req[x].left > 0 =>
                  row'.token = row.token /\ row'.lease = row.lease
             /\ row'.token = x => row.token = x
  <2>1. CASE row.token = q
    <3>1. row'.token = None
      <4>1. CASE PublishRow(q)  BY <2>1, <4>1 DEF PublishRow
      <4>2. CASE ClearRow(q)    BY <2>1, <4>2 DEF ClearRow, TypeOK, RowType
      <4> QED BY <1>o, <4>1, <4>2
    <3>2. Paying(x) /\ req[x].left > 0 => x = q
      BY <2>1 DEF Attempts, HolderPays
    <3> QED BY <1>o, <3>1, <3>2 DEF Paying
  <2>2. CASE row.token # q
    BY <1>o, <2>2 DEF PublishRow, ClearRow
  <2> QED BY <2>1, <2>2
<1>8. ASSUME NEW q \in Request, Publish(q) PROVE Attempts'
  <2> DEFINE r == [req[q] EXCEPT !.pc = "latest", !.ok = (row.token = q)]
  <2>1. r.pc = "latest" /\ r.at = req[q].at /\ r.answer = req[q].answer
    BY <1>a DEF RequestType
  <2>2. req'[q] = r /\ \A x \in Request \ {q} : req'[x] = req[x]
    BY <1>a, <1>8 DEF Publish, Become
  <2>3. req[q].at \in Process /\ req[q].answer = "none"
    BY <1>8, <1>b, <1>c DEF Publish, Steps
  <2>4. PublishRow(q) /\ pending' = pending  BY <1>8 DEF Publish
  <2> HIDE DEF r
  <2>5. ~Paying(q)' /\ req'[q].pc \in Steps  BY <2>1, <2>2 DEF Paying, Steps
  <2> QED BY <1>8, <1>o, <2>1, <2>2, <2>3, <2>4, <2>5, AttemptsMove DEF Publish, Paying
<1>9. ASSUME NEW q \in Request, Clear(q) PROVE Attempts'
  <2> DEFINE r == [req[q] EXCEPT !.pc = "latest"]
  <2>1. r.pc = "latest" /\ r.at = req[q].at /\ r.answer = req[q].answer
    BY <1>a DEF RequestType
  <2>2. req'[q] = r /\ \A x \in Request \ {q} : req'[x] = req[x]
    BY <1>a, <1>9 DEF Clear, Goto, Become
  <2>3. req[q].at \in Process /\ req[q].answer = "none"
    BY <1>9, <1>b, <1>c DEF Clear, Steps
  <2>4. ClearRow(q) /\ pending' = pending  BY <1>9 DEF Clear
  <2> HIDE DEF r
  <2>5. ~Paying(q)' /\ req'[q].pc \in Steps  BY <2>1, <2>2 DEF Paying, Steps
  <2> QED BY <1>9, <1>o, <2>1, <2>2, <2>3, <2>4, <2>5, AttemptsMove DEF Clear, Paying
<1>e. ASSUME NEW q \in Request, NEW answer, NEW book, Resolve(q, answer, book)
      PROVE  \A x \in Request :
               \/ req'[x] = Finished(x, answer, book)
               \/ /\ req'[x] = req[x] /\ x # q
                  /\ \A p \in Process : pending[p] = x => pending'[p] = x
  BY <1>e DEF Resolve, TypeOK
<1>j. \A x \in Request : req[x].pc = "generating" /\ row.token = x =>
                            req[x].at \in Process /\ pending[req[x].at] = x
  BY <1>c DEF Attempts, OwnerIsJoinable, Steps
<1>10. ASSUME NEW q \in Request, Settle(q) PROVE Attempts'
  <2>1. PICK answer, book : Resolve(q, answer, book)
    BY <1>10 DEF Settle, OwnOutcome
  <2>2. row' = row  BY <1>10 DEF Settle
  <2> QED BY <1>e, <1>j, <2>1, <2>2, AttemptsEnd
<1>11. ASSUME NEW q \in Request, Fault(q) PROVE Attempts'
  <2>1. Resolve(q, "error", None)  BY <1>11 DEF Fault
  <2>2. ASSUME NEW x \in Request, x # q
        PROVE  /\ Paying(x) /\ req[x].left > 0 =>
                    row'.token = row.token /\ row'.lease = row.lease
               /\ row'.token = x => row.token = x
    <3>1. CASE req[q].pc = "publish" /\ PublishRow(q)  BY <1>o, <3>1
    <3>2. CASE req[q].pc = "clear" /\ ClearRow(q)  BY <1>o, <3>2
    <3>3. CASE ~LeaseIsLive(row) /\ Take(q)
      <4>1. row'.token = q  BY <3>3 DEF Take, TypeOK, RowType
      <4> QED BY <1>x, <2>2, <3>3, <4>1
    <3>4. CASE row' = row  BY <3>4
    <3> QED BY <1>11, <3>1, <3>2, <3>3, <3>4 DEF Fault
  <2> QED BY <1>e, <1>j, <2>1, <2>2, AttemptsEnd
<1>12. ASSUME NEW p \in Process, Crash(p) PROVE Attempts'
  <2>1. ASSUME NEW x \in Request
        PROVE  \/ req'[x] = Finished(x, "error", None)
               \/ /\ req'[x] = req[x]
                  /\ req[x].pc = "generating" => pending'[req[x].at] = pending[req[x].at]
    <3>1. CASE req[x].at = p /\ req[x].pc # "done"  BY <1>12, <3>1 DEF Crash
    <3>2. CASE ~(req[x].at = p /\ req[x].pc # "done")
      BY <1>12, <1>c, <3>2 DEF Crash, TypeOK, Steps
    <3> QED BY <3>1, <3>2
  <2>2. row' = row  BY <1>12 DEF Crash
  <2> QED BY <2>1, <2>2, AttemptsEnd
<1>13. CASE Tick
  <2>1. row'.token = row.token /\ row'.lease = Floor(row.lease) /\ pending' = pending
    BY <1>13 DEF Tick, TypeOK, RowType
  <2>2. \A x \in Request : req[x].left \in Nat  BY <1>a DEF RequestType
  <2>3. \A x \in Request : req[x].pc = "claimed" => req[x].left > 1
    BY <1>13 DEF Tick, ClaimsReturnInTime
  <2>4. \A n \in Nat : (Floor(n) > 0 => n > 0) /\ (n > 1 => Floor(n) > 0)  BY DEF Floor
  <2>5. ASSUME NEW x \in Request
        PROVE  /\ req'[x].pc = req[x].pc /\ req'[x].at = req[x].at
               /\ req'[x].answer = req[x].answer /\ req'[x].left = Floor(req[x].left)
    BY <1>13, TickFields
  <2> QED BY <2>1, <2>2, <2>3, <2>4, <2>5
          DEF Attempts, Placed, Unanswered, HolderPays, ClaimedInTime, OwnerIsJoinable,
              Paying
<1>14. CASE UNCHANGED vars
  BY <1>14 DEF vars, Attempts, Placed, Unanswered, HolderPays, ClaimedInTime,
               OwnerIsJoinable, Paying
<1> QED BY <1>1, <1>2, <1>3, <1>4, <1>5, <1>6, <1>7, <1>8, <1>9, <1>10, <1>11, <1>12,
           <1>13, <1>14 DEF Next, Proceed

-----------------------------------------------------------------------------
(* The order of claims *)

\* Nobody claims, and nobody gets the token.
LEMMA OrderKept ==
  ASSUME ClaimOrder, order' = order, row'.token \in {row.token, None},
         \A x \in Request : req'[x].pc \in Unclaimed => req[x].pc \in Unclaimed
  PROVE  ClaimOrder'
BY DEF ClaimOrder

\* A request claims for the first time.
LEMMA OrderGrows ==
  ASSUME TypeOK, ClaimOrder, NEW q \in Request, Take(q), req[q].pc = "claim",
         req'[q].pc \notin Unclaimed,
         \A x \in Request : req'[x].pc \in Unclaimed => req[x].pc \in Unclaimed
  PROVE  ClaimOrder'
<1>1. order \in Seq(Request)  BY DEF TypeOK
<1>2. /\ order' = Append(order, q)
      /\ Len(order') = Len(order) + 1 /\ Len(order) \in Nat
      /\ order'[Len(order) + 1] = q
      /\ \A i \in 1..Len(order) : order'[i] = order[i]
  BY <1>1, AppendProperties, LenProperties DEF Take
<1>3. row'.token = q  BY DEF Take, TypeOK, RowType
<1>4. \A i \in 1..Len(order) : order[i] # q  BY DEF ClaimOrder, Unclaimed
<1>5. ASSUME NEW x \in Request, req'[x].pc \in Unclaimed, NEW i \in 1..Len(order')
      PROVE  order'[i] # x
  BY <1>2, <1>5 DEF ClaimOrder
<1>6. ASSUME NEW i \in 1..Len(order'), NEW j \in 1..Len(order'), order'[i] = order'[j]
      PROVE  i = j
  <2>1. i \in 1..Len(order) \/ i = Len(order) + 1  BY <1>2
  <2>2. j \in 1..Len(order) \/ j = Len(order) + 1  BY <1>2
  <2> QED BY <1>2, <1>4, <1>6, <2>1, <2>2 DEF ClaimOrder
<1> QED BY <1>2, <1>3, <1>5, <1>6 DEF ClaimOrder

LEMMA OrderStep ==
  ASSUME TypeOK, ClaimOrder, [Next]_vars
  PROVE  ClaimOrder'
<1>a. req \in [Request -> RequestType]  BY DEF TypeOK, RequestType
<1>b. ASSUME NEW q \in Request, NEW r, Become(q, r),
             r.pc \in Unclaimed => req[q].pc \in Unclaimed
      PROVE  \A x \in Request : req'[x].pc \in Unclaimed => req[x].pc \in Unclaimed
  BY <1>a, <1>b DEF Become
<1>g. ASSUME NEW q \in Request, NEW pc, Goto(q, pc),
             pc \in Unclaimed => req[q].pc \in Unclaimed
      PROVE  \A x \in Request : req'[x].pc \in Unclaimed => req[x].pc \in Unclaimed
  <2> DEFINE r == [req[q] EXCEPT !.pc = pc]
  <2>1. r.pc = pc  BY <1>a DEF RequestType
  <2>2. Become(q, r)  BY <1>g DEF Goto
  <2> HIDE DEF r
  <2> QED BY <1>b, <1>g, <2>1, <2>2
<1>h. ASSUME NEW q \in Request, NEW pc, NEW y, req[q].pc \in Unclaimed,
             Become(q, [req[q] EXCEPT !.pc = pc, !.row = y])
      PROVE  \A x \in Request : req'[x].pc \in Unclaimed => req[x].pc \in Unclaimed
  BY <1>b, <1>h
<1>f. ASSUME NEW q \in Request, NEW answer, NEW book, Answer(q, answer, book)
      PROVE  \A x \in Request : req'[x].pc \in Unclaimed => req[x].pc \in Unclaimed
  <2>1. Finished(q, answer, book).pc \notin Unclaimed  BY DEF Finished, Unclaimed
  <2> QED BY <1>b, <1>f, <2>1 DEF Answer
<1>e. ASSUME NEW q \in Request, NEW answer, NEW book, Resolve(q, answer, book)
      PROVE  /\ \A x \in Request : req'[x].pc \in Unclaimed => req[x].pc \in Unclaimed
             /\ req'[q].pc \notin Unclaimed
  <2>1. \A x \in Request : Finished(x, answer, book).pc = "done"  BY DEF Finished
  <2>2. "done" \notin Unclaimed  BY DEF Unclaimed
  <2> QED BY <1>e, <2>1, <2>2 DEF Resolve
<1>1. ASSUME NEW q \in Request, NEW p \in Process, Start(q, p) PROVE ClaimOrder'
  <2>1. req[q].pc \in Unclaimed  BY <1>1 DEF Start, Unclaimed
  <2> QED BY <1>1, <1>b, <2>1, OrderKept DEF Start
<1>2. ASSUME NEW q \in Request, Read(q) PROVE ClaimOrder'
  <2>1. req[q].pc \in Unclaimed  BY <1>2 DEF Read, Unclaimed
  <2> QED BY <1>2, <1>b, <2>1, OrderKept DEF Read
<1>3. ASSUME NEW q \in Request, Decide(q) PROVE ClaimOrder'
  <2>1. req[q].pc \in Unclaimed /\ row' = row /\ order' = order
    BY <1>3 DEF Decide, Answer, Unclaimed
  <2>2. \A x \in Request : req'[x].pc \in Unclaimed => req[x].pc \in Unclaimed
    <3>1. CASE \E book : Answer(q, "ok", book)  BY <1>f, <3>1
    <3>2. CASE \E pc : Goto(q, pc)  BY <1>g, <2>1, <3>2
    <3>3. CASE \E r : Become(q, r)  BY <1>b, <2>1, <3>3
    <3> QED BY <1>3, <3>1, <3>2, <3>3 DEF Decide
  <2> QED BY <2>1, <2>2, OrderKept
<1>4. ASSUME NEW q \in Request, Wake(q) PROVE ClaimOrder'
  <2>1. req[q].pc \in Unclaimed /\ row' = row /\ order' = order
    BY <1>4 DEF Wake, Answer, Unclaimed
  <2>2. \A x \in Request : req'[x].pc \in Unclaimed => req[x].pc \in Unclaimed
    <3>1. CASE Answer(q, "failed", None)  BY <1>f, <3>1
    <3>2. CASE \E r : Become(q, r)  BY <1>b, <2>1, <3>2
    <3> QED BY <1>4, <3>1, <3>2 DEF Wake
  <2> QED BY <2>1, <2>2, OrderKept
<1>5. ASSUME NEW q \in Request, Claim(q) PROVE ClaimOrder'
  <2>1. req[q].pc = "claim" /\ req[q].pc \in Unclaimed  BY <1>5 DEF Claim, Unclaimed
  <2>2. CASE Goto(q, "read") /\ UNCHANGED <<row, order>>
    BY <1>g, <2>1, <2>2, OrderKept
  <2>3. CASE Take(q) /\ Become(q, [req[q] EXCEPT !.pc = "claimed", !.left = LeaseTicks])
    <3>1. req'[q].pc = "claimed"  BY <1>a, <2>3 DEF Become, RequestType
    <3>2. req'[q].pc \notin Unclaimed  BY <3>1 DEF Unclaimed
    <3> QED BY <1>b, <2>1, <2>3, <3>2, OrderGrows
  <2> QED BY <1>5, <2>2, <2>3 DEF Claim
<1>6. ASSUME NEW q \in Request, Launch(q) PROVE ClaimOrder'
  BY <1>6, <1>g, OrderKept DEF Launch, Unclaimed
<1>7. ASSUME NEW q \in Request, Generate(q) PROVE ClaimOrder'
  BY <1>7, <1>g, OrderKept DEF Generate, Unclaimed
<1>p. \A q \in Request : PublishRow(q) \/ ClearRow(q) => row'.token \in {row.token, None}
  <2> TAKE q \in Request
  <2>1. CASE PublishRow(q)  BY <2>1 DEF PublishRow
  <2>2. CASE ClearRow(q)    BY <2>2 DEF ClearRow, TypeOK, RowType
  <2> QED BY <2>1, <2>2
<1>8. ASSUME NEW q \in Request, Publish(q) PROVE ClaimOrder'
  <2>1. Become(q, [req[q] EXCEPT !.pc = "latest", !.ok = (row.token = q)])
    BY <1>8 DEF Publish
  <2>2. [req[q] EXCEPT !.pc = "latest", !.ok = (row.token = q)].pc = "latest"
    BY <1>a DEF RequestType
  <2> QED BY <1>8, <1>b, <1>p, <2>1, <2>2, OrderKept DEF Publish, Unclaimed
<1>9. ASSUME NEW q \in Request, Clear(q) PROVE ClaimOrder'
  BY <1>9, <1>g, <1>p, OrderKept DEF Clear, Unclaimed
<1>10. ASSUME NEW q \in Request, Settle(q) PROVE ClaimOrder'
  BY <1>10, <1>e, OrderKept DEF Settle, OwnOutcome
<1>11. ASSUME NEW q \in Request, Fault(q) PROVE ClaimOrder'
  <2>1. Resolve(q, "error", None)  BY <1>11 DEF Fault
  <2>2. CASE req[q].pc = "claim" /\ Take(q)
    BY <1>e, <2>1, <2>2, OrderGrows
  <2>3. CASE (PublishRow(q) \/ ClearRow(q) \/ row' = row) /\ order' = order
    BY <1>e, <1>p, <2>1, <2>3, OrderKept
  <2> QED BY <1>11, <2>2, <2>3 DEF Fault
<1>12. ASSUME NEW p \in Process, Crash(p) PROVE ClaimOrder'
  <2>1. \A x \in Request : req'[x].pc \in Unclaimed => req[x].pc \in Unclaimed
    BY <1>12 DEF Crash, Finished, Unclaimed
  <2> QED BY <1>12, <2>1, OrderKept DEF Crash
<1>13. CASE Tick
  <2>1. row'.token = row.token /\ order' = order  BY <1>13 DEF Tick, TypeOK, RowType
  <2> QED BY <1>13, <2>1, TickFields, OrderKept
<1>14. CASE UNCHANGED vars  BY <1>14, OrderKept DEF vars
<1> QED BY <1>1, <1>2, <1>3, <1>4, <1>5, <1>6, <1>7, <1>8, <1>9, <1>10, <1>11, <1>12,
           <1>13, <1>14 DEF Next, Proceed

-----------------------------------------------------------------------------
(* Theorems *)

LEMMA InitInvariant == Init => IInv
<1> SUFFICES ASSUME Init PROVE IInv  OBVIOUS
<1>1. NewRequest \in RequestType
  <2>1. 0 \in 0..LeaseTicks  OBVIOUS
  <2> QED BY <2>1, EmptyRowType DEF NewRequest, RequestType
<1>2. TypeOK
  <2>1. row \in RowType /\ pending \in [Process -> Request \cup {None}]
    BY EmptyRowType DEF Init
  <2>2. req \in [Request -> RequestType]  BY <1>1 DEF Init
  <2>3. stored \subseteq Request /\ order \in Seq(Request)  BY DEF Init
  <2> QED BY <2>1, <2>2, <2>3 DEF TypeOK, RequestType
<1>3. \A q \in Request : /\ req[q].pc = "new" /\ req[q].answer = "none" /\ req[q].ok = FALSE
                         /\ req[q].warm = FALSE /\ req[q].row.book = None
  BY DEF Init, NewRequest, EmptyRow
<1>4. row.book = None /\ row.token = None /\ Len(order) = 0  BY DEF Init, EmptyRow
<1> QED BY <1>2, <1>3, <1>4
        DEF IInv, Placed, Unanswered, ServedWasStored, BooksStored, BookMeansNoFailure,
            WarmHasBook, HolderPays, ClaimedInTime, OwnerIsJoinable, ClaimOrder, Paying, Steps

LEMMA StepInvariant == IInv /\ [Next]_vars => IInv'
BY TypeStep, BooksStep, AttemptsStep, OrderStep DEF IInv, Books, Attempts

LEMMA Invariance == Spec => []IInv
BY InitInvariant, StepInvariant, PTL DEF Spec

\* The shape of every variable, for any processes, requests and lease.
THEOREM TypeCorrect == Spec => []TypeOK
<1>1. IInv => TypeOK  BY DEF IInv
<1> QED BY <1>1, Invariance, PTL

\* No two requests, of whatever processes, pay for the theme within their leases at once.
THEOREM PaidOnce == Spec => []SingleFlight
<1>1. IInv => SingleFlight  BY DEF IInv, HolderPays, SingleFlight
<1> QED BY <1>1, Invariance, PTL

\* Only published books are served.
THEOREM ServedFromTheRow == Spec => []ServedWasStored
<1>1. IInv => ServedWasStored  BY DEF IInv
<1> QED BY <1>1, Invariance, PTL

\* A request that came when there was a book never gets a failure.
THEOREM NoFailureWithBook == Spec => []BookMeansNoFailure
<1>1. IInv => BookMeansNoFailure  BY DEF IInv
<1> QED BY <1>1, Invariance, PTL

\* The attempt that holds the token is the one its process lets others join.
THEOREM OwnerJoinable == Spec => []OwnerIsJoinable
<1>1. IInv => OwnerIsJoinable  BY DEF IInv
<1> QED BY <1>1, Invariance, PTL

\* A superseded attempt never replaces the book of a later one.
THEOREM NewestWins == Spec => NewestBookStays
<1>1. ASSUME IInv, [Next]_vars, row'.book # row.book
      PROVE  ~ClaimedBefore(row'.book, row.book)
  <2>1. PICK q \in Request : row.token = q /\ row'.book = q
    <3>1. PICK q \in Request : PublishRow(q) /\ row.token = q
      <4>1. \A q \in Request : /\ ClearRow(q) => row'.book = row.book
                               /\ Take(q) => row'.book = row.book
        BY <1>1 DEF ClearRow, Take, IInv, TypeOK, RowType
      <4>2. Tick => row'.book = row.book  BY <1>1 DEF Tick, IInv, TypeOK, RowType
      <4>3. \E q \in Request : PublishRow(q)
        BY <1>1, <4>1, <4>2
           DEF Next, Proceed, vars, Start, Read, Decide, Answer, Wake, Claim, Launch,
               Generate, Publish, Clear, Settle, Fault, Crash
      <4> QED BY <1>1, <4>3 DEF PublishRow
    <3> QED BY <3>1 DEF PublishRow
  <2>2. /\ Len(order) > 0 /\ order[Len(order)] = q
        /\ \A i, j \in 1..Len(order) : order[i] = order[j] => i = j
    BY <1>1, <2>1 DEF IInv, ClaimOrder
  <2>3. Len(order) \in Nat  BY <1>1, LenProperties DEF IInv, TypeOK
  <2>4. ASSUME NEW i \in 1..Len(order), NEW j \in 1..Len(order), i < j, order[i] = q
        PROVE  FALSE
    <3>1. i = Len(order)  BY <2>2, <2>3, <2>4
    <3> QED BY <2>3, <2>4, <3>1
  <2> QED BY <2>1, <2>4 DEF ClaimedBefore
<1>2. IInv /\ [Next]_vars => [row'.book # row.book => ~ClaimedBefore(row'.book, row.book)]_vars
  BY <1>1
<1> QED BY <1>2, Invariance, PTL DEF Spec, NewestBookStays
=============================================================================
