-------------------------- MODULE CombatOrder_proofs -------------------------
(***************************************************************************)
(* When things happen in a match, for every value of the constants: the    *)
(* casts of a window were made inside it, seats fall in the order of the   *)
(* clock, a result carries an instant of the match.  What is consumed:     *)
(* each completion once, each share of damage in whole units.  And how it  *)
(* ends: a decided fight is settled, its ranks are fair and they stand.    *)
(***************************************************************************)
EXTENDS Combat_proofs

USE TimeAssumption, ValueAssumption DEF None

-----------------------------------------------------------------------------
(* Arithmetic *)

\* Division rounds down.
LEMMA DivBounds ==
  ASSUME NEW a \in Int, NEW b \in Nat \ {0}
  PROVE  /\ a \div b \in Int
         /\ (a \div b) * b <= a
         /\ a < (a \div b) * b + b
  OBVIOUS

\* Larger multiples of the same number have larger factors.
LEMMA TimesMonotone ==
  ASSUME NEW m \in Int, NEW n \in Int, NEW b \in Nat \ {0}, m <= n
  PROVE  m * b <= n * b
  OBVIOUS

\* An instant lies in the window that is named for it.
LEMMA WindowHolds ==
  ASSUME NEW at \in Int
  PROVE  /\ WindowStart(at) \in Int
         /\ WindowStart(at) <= at
         /\ at < WindowStart(at) + Batch
<1>1. Opening \in Int /\ at - Opening \in Int  OBVIOUS
<1>2. /\ ((at - Opening) \div Batch) \in Int
      /\ ((at - Opening) \div Batch) * Batch <= at - Opening
      /\ at - Opening < ((at - Opening) \div Batch) * Batch + Batch
  BY <1>1, DivBounds
<1> QED BY <1>1, <1>2, WindowStartType DEF WindowStart

\* Later instants lie in later windows, or in the same one.
LEMMA WindowsInOrder ==
  ASSUME NEW a \in Int, NEW b \in Int, a <= b
  PROVE  WindowStart(a) <= WindowStart(b)
<1> DEFINE m == (a - Opening) \div Batch
           n == (b - Opening) \div Batch
<1>0. a - Opening \in Int /\ b - Opening \in Int  OBVIOUS
<1>1. /\ m \in Int /\ m * Batch <= a - Opening /\ a - Opening < m * Batch + Batch
      /\ n \in Int /\ n * Batch <= b - Opening /\ b - Opening < n * Batch + Batch
  BY <1>0, DivBounds
<1>2. WindowStart(a) = Opening + m * Batch /\ WindowStart(b) = Opening + n * Batch
  BY DEF WindowStart
<1> HIDE DEF m, n
<1>3. m <= n
  <2> SUFFICES ASSUME n + 1 <= m PROVE FALSE  BY <1>1
  <2>1. (n + 1) * Batch <= m * Batch  BY <1>1, TimesMonotone
  <2>2. (n + 1) * Batch = n * Batch + Batch  BY <1>1
  <2>3. m * Batch \in Int /\ n * Batch \in Int  BY <1>1
  <2> QED BY <1>0, <1>1, <2>1, <2>2, <2>3
<1>4. m * Batch <= n * Batch /\ m * Batch \in Int /\ n * Batch \in Int
  BY <1>1, <1>3, TimesMonotone
<1> QED BY <1>2, <1>4

-----------------------------------------------------------------------------
(* What each kind of step does to a seat and to the window *)

\* A row keeps everything a fight has decided about it.
SameRow(p) ==
  /\ seat'[p].out = seat[p].out /\ seat'[p].idx = seat[p].idx
  /\ seat'[p].draft = seat[p].draft /\ seat'[p].recoveries = seat[p].recoveries

\* The window a cast finds or opens.
CastWindow(at) == IF volley = NoVolley THEN OpenWindow(at) ELSE volley

\* A cast moves its own cursor and adds its damage to the window.
LEMMA CastParts ==
  ASSUME TypeOK, WindowOpen, NEW p \in Player, NEW at \in Int,
         Cardinality(Standing(seat)) >= 2, CommitCast(p, at)
  PROVE  /\ \A q \in Player \ {p} : seat'[q] = seat[q]
         /\ seat'[p].out = seat[p].out /\ seat'[p].recoveries = seat[p].recoveries
         /\ seat'[p].idx = seat[p].idx + 1 /\ seat'[p].draft = 0
         /\ CastWindow(at) \in VolleyRecord
         /\ volley'.endsAt = CastWindow(at).endsAt
         /\ volley'.roster = CastWindow(at).roster
         /\ volley'.at = CastWindow(at).at \cup {at}
         /\ volley'.total = CastWindow(at).total + Power(seat[p].idx) * HealthScale
         /\ volley'.power = [CastWindow(at).power EXCEPT ![p] =
                               CastWindow(at).power[p] + Power(seat[p].idx) * HealthScale]
         /\ volley'.casts = [CastWindow(at).casts EXCEPT ![p] = CastWindow(at).casts[p] + 1]
<1> DEFINE units == Power(seat[p].idx) * HealthScale
           window == CastWindow(at)
           power == [window.power EXCEPT ![p] = window.power[p] + units]
           casts == [window.casts EXCEPT ![p] = window.casts[p] + 1]
<1>0. seat \in [Player -> SeatRecord]
  BY DEF TypeOK, SeatRecord
<1>1. window \in VolleyRecord
  BY WindowEffect DEF CastWindow
<1>2. seat' = [seat EXCEPT ![p] = [seat[p] EXCEPT !.idx = seat[p].idx + 1,
                                                  !.opened = at, !.draft = 0]]
  BY DEF CommitCast
<1>3. volley' = [window EXCEPT !.total = window.total + units, !.power = power,
                               !.casts = casts, !.at = window.at \cup {at}]
  BY DEF CommitCast, CastWindow
<1> HIDE DEF window, units
<1>4. volley' = [endsAt |-> window.endsAt, roster |-> window.roster,
                 total |-> window.total + units, power |-> power, casts |-> casts,
                 at |-> window.at \cup {at}]
  BY <1>1, <1>3 DEF VolleyRecord
<1> HIDE DEF power, casts
<1>5. /\ volley'.endsAt = window.endsAt /\ volley'.roster = window.roster
      /\ volley'.at = window.at \cup {at} /\ volley'.total = window.total + units
      /\ volley'.power = power /\ volley'.casts = casts
  BY <1>4
<1>6. /\ \A q \in Player \ {p} : seat'[q] = seat[q]
      /\ seat'[p].out = seat[p].out /\ seat'[p].recoveries = seat[p].recoveries
      /\ seat'[p].idx = seat[p].idx + 1 /\ seat'[p].draft = 0
  BY <1>0, <1>2 DEF SeatRecord
<1> QED BY <1>1, <1>5, <1>6 DEF window, units, power, casts

\* A landing lets seats fall at the instant the window ended.
LEMMA LandParts ==
  ASSUME TypeOK, Land
  PROVE  \A p \in Player :
           /\ seat'[p].out = seat[p].out \/ (seat[p].out = None /\ seat'[p].out = volley.endsAt)
           /\ seat'[p].idx = seat[p].idx /\ seat'[p].draft = seat[p].draft
           /\ seat'[p].recoveries = seat[p].recoveries
<1> SUFFICES ASSUME NEW p \in Player
             PROVE  /\ \/ seat'[p].out = seat[p].out
                       \/ seat[p].out = None /\ seat'[p].out = volley.endsAt
                    /\ seat'[p].idx = seat[p].idx /\ seat'[p].draft = seat[p].draft
                    /\ seat'[p].recoveries = seat[p].recoveries
  OBVIOUS
<1>0. seat[p] \in SeatRecord
  BY DEF TypeOK, SeatRecord
<1>1. CASE ~(p \in volley.roster /\ seat[p].out = None /\ Incoming(p) # 0)
  <2>1. seat'[p] = seat[p]  BY <1>1 DEF Land
  <2> QED BY <2>1
<1>2. CASE p \in volley.roster /\ seat[p].out = None /\ Incoming(p) # 0
  <2> DEFINE hp == seat[p].hp - Lower(seat[p].hp, Incoming(p))
             out == IF seat[p].hp <= Incoming(p) THEN volley.endsAt ELSE None
  <2>1. seat'[p] = [seat[p] EXCEPT !.hp = hp, !.out = out]
    BY <1>2 DEF Land
  <2>2. out = volley.endsAt \/ out = None  OBVIOUS
  <2> HIDE DEF hp, out
  <2> QED BY <1>0, <1>2, <2>1, <2>2 DEF SeatRecord
<1> QED BY <1>1, <1>2

\* A leave takes one standing seat out of the fight, at the reading the leave began with.
LEMMA ForfeitParts ==
  ASSUME TypeOK, NEW p \in Player, Forfeit(p)
  PROVE  /\ volley' = volley /\ departed' = departed \cup {p}
         /\ \A q \in Player : seat'[q].out = IF q = p /\ seat[q].out = None
                                               THEN job.now ELSE seat[q].out
         /\ \A q \in Player : /\ seat'[q].idx = seat[q].idx
                              /\ seat'[q].draft = seat[q].draft
                              /\ seat'[q].recoveries = seat[q].recoveries
<1>0. seat \in [Player -> SeatRecord]
  BY DEF TypeOK, SeatRecord
<1>1. seat' = [seat EXCEPT ![p] =
        IF seat[p].out = None THEN [seat[p] EXCEPT !.hp = 0, !.out = job.now] ELSE seat[p]]
  BY DEF Forfeit
<1>2. ASSUME NEW q \in Player
      PROVE  /\ seat'[q].out = IF q = p /\ seat[q].out = None THEN job.now ELSE seat[q].out
             /\ seat'[q].idx = seat[q].idx /\ seat'[q].draft = seat[q].draft
             /\ seat'[q].recoveries = seat[q].recoveries
  BY <1>0, <1>1 DEF SeatRecord
<1> QED BY <1>2 DEF Forfeit

\* Opening the fight and refusing an early completion.
LEMMA OpenParts ==
  ASSUME TypeOK, OpenFight
  PROVE  \A p \in Player : SameRow(p)
<1> SUFFICES ASSUME NEW p \in Player PROVE SameRow(p)  OBVIOUS
<1>1. seat[p] \in SeatRecord  BY DEF TypeOK, SeatRecord
<1>2. seat'[p] = IF seat[p].out = None THEN [seat[p] EXCEPT !.opened = clock] ELSE seat[p]
  BY DEF OpenFight
<1> QED BY <1>1, <1>2 DEF SameRow, SeatRecord

LEMMA RejectParts ==
  ASSUME TypeOK, NEW p \in Player, RejectEarly(p)
  PROVE  /\ volley' = volley
         /\ \A q \in Player \ {p} : seat'[q] = seat[q]
         /\ seat'[p].out = seat[p].out /\ seat'[p].idx = seat[p].idx
         /\ seat'[p].draft = seat[p].draft + 1
         /\ seat'[p].recoveries = seat[p].recoveries + 1
<1>0. seat \in [Player -> SeatRecord]
  BY DEF TypeOK, SeatRecord
<1>1. seat' = [seat EXCEPT ![p] = [seat[p] EXCEPT !.draft = seat[p].draft + 1,
                                                  !.recoveries = seat[p].recoveries + 1]]
  BY <1>0 DEF RejectEarly
<1> QED BY <1>0, <1>1 DEF RejectEarly, SeatRecord

-----------------------------------------------------------------------------
(* The order of instants: an inductive invariant *)

\* Nobody falls in the future.
OutIsPast == \A p \in Player : seat[p].out # None => 0 <= seat[p].out /\ seat[p].out <= clock

\* A leave works with a past reading of the clock, one that no fall is later than.
LeaveTime ==
  job.kind = "leave" =>
    /\ job.now <= clock
    /\ phase = "playing" => Opening <= job.now
    /\ \A p \in Player : seat[p].out <= job.now

\* The fight, and the scripted opponent in it, act after the opening.
FightTime ==
  /\ phase = "playing" => Opening <= clock
  /\ nextAction # None => Opening <= nextAction

\* A window ends inside the match and after all that happened before it; its casts are past,
\* lie in it, and come before the next scripted action.
WindowTime ==
  volley # NoVolley =>
    /\ Opening <= volley.endsAt /\ volley.at # {}
    /\ \A p \in Player : seat[p].out <= volley.endsAt
    /\ \A t \in volley.at :
         /\ t <= clock
         /\ nextAction # None => t <= nextAction
         /\ WindowStart(t) < volley.endsAt /\ t < volley.endsAt
         /\ volley.endsAt <= Lower(Deadline, WindowStart(t) + Batch)
    /\ Standing(seat) \subseteq volley.roster
    /\ \A p \in Player : volley.casts[p] > 0 => p \in volley.roster

\* Combat fells nobody before the fight, or after its deadline.
FallTime ==
  \A p \in Player \ departed :
    /\ seat[p].out <= Deadline
    /\ phase = "countdown" \/ job.kind = "opened" => seat[p].out = None

TimeInv == OutIsPast /\ LeaveTime /\ FightTime /\ WindowTime /\ FallTime /\ EndsInItsTime

\* The types these facts need.
LEMMA TimeTypes ==
  ASSUME IInv
  PROVE  /\ clock \in Nat /\ job.now \in Nat /\ nextAction \in Int /\ Deadline \in Nat
         /\ seat \in [Player -> SeatRecord] /\ \A p \in Player : seat[p].out \in Int
         /\ volley \in VolleyRecord /\ volley.endsAt \in Int /\ volley.roster \subseteq Player
         /\ \A t \in volley.at : t \in Int /\ WindowStart(t) \in Int
         /\ job.kind \in {"idle", "opened", "leave"}
<1>1. seat \in [Player -> SeatRecord] /\ volley \in VolleyRecord
  BY DEF IInv, TypeOK, SeatRecord, VolleyRecord
<1>2. \A p \in Player : seat[p].out \in Int  BY <1>1 DEF SeatRecord
<1>3. /\ volley.endsAt \in Int /\ volley.roster \subseteq Player
      /\ \A t \in volley.at : t \in Int
  BY <1>1 DEF VolleyRecord
<1> QED BY <1>1, <1>2, <1>3, WindowStartType DEF IInv, TypeOK, Deadline

\* A step that fells nobody and leaves the window and the result as they were.
LEMMA TimeKept ==
  ASSUME IInv, TimeInv, IInv', UNCHANGED <<volley, phase, result>>,
         clock <= clock', departed \subseteq departed',
         \A p \in Player : seat'[p].out = seat[p].out,
         \/ nextAction' = None
         \/ nextAction' = nextAction
         \/ Opening <= nextAction' /\ \A t \in volley.at : t <= nextAction',
         job'.kind = "leave" => \/ job' = job
                                \/ job'.now = clock',
         job'.kind = "opened" => job.kind = "opened"
  PROVE  TimeInv'
<1>0. /\ clock \in Nat /\ job.now \in Nat /\ nextAction \in Int /\ Deadline \in Nat
      /\ \A p \in Player : seat[p].out \in Int
      /\ volley.endsAt \in Int /\ \A t \in volley.at : t \in Int /\ WindowStart(t) \in Int
  BY TimeTypes
<1>1. clock' \in Nat /\ job'.now \in Nat /\ nextAction' \in Int
  BY DEF IInv, TypeOK
<1>2. OutIsPast'
  BY <1>0, <1>1 DEF TimeInv, OutIsPast
<1>3. LeaveTime'
  <2>1. CASE job' = job
    BY <1>0, <1>1, <2>1 DEF TimeInv, LeaveTime
  <2>2. CASE job'.now = clock'
    BY <1>0, <1>1, <2>2 DEF TimeInv, LeaveTime, OutIsPast, FightTime
  <2>3. CASE job'.kind # "leave"
    BY <2>3 DEF LeaveTime
  <2> QED BY <2>1, <2>2, <2>3
<1>4. FightTime'
  BY <1>0, <1>1 DEF TimeInv, FightTime
<1>5. WindowTime'
  <2>1. \/ volley = NoVolley
        \/ \A t \in volley.at : t <= clock' /\ (nextAction' # None => t <= nextAction')
    BY <1>0, <1>1 DEF TimeInv, WindowTime
  <2>2. Standing(seat') = Standing(seat)  BY DEF Standing
  <2>3. \A t : WindowStart(t)' = WindowStart(t)  BY DEF WindowStart
  <2>4. Deadline' = Deadline  BY DEF Deadline
  <2> QED BY <1>0, <1>1, <2>1, <2>2, <2>3, <2>4 DEF TimeInv, WindowTime, Lower
<1>6. FallTime'
  BY <1>0, <1>1 DEF TimeInv, FallTime, Deadline
<1>7. EndsInItsTime'
  BY <1>0, <1>1 DEF TimeInv, EndsInItsTime, Deadline
<1> QED BY <1>2, <1>3, <1>4, <1>5, <1>6, <1>7 DEF TimeInv

\* A settlement: its instant lies in the match, and no fall in combat is later.
LEMMA TimeFinish ==
  ASSUME IInv, TimeInv, NEW reason, NEW at \in Int, Finish(reason, at), volley' = NoVolley,
         clock' = clock, departed \subseteq departed',
         Opening <= at, at <= Deadline,
         \A p \in Player \ departed' : seat'[p].out <= at,
         \A p \in Player : \/ seat'[p].out = seat[p].out
                           \/ /\ 0 <= seat'[p].out /\ seat'[p].out <= clock
                              /\ job'.kind = "leave" => seat'[p].out <= job'.now,
         job'.kind = "leave" => job' = job,
         job'.kind # "opened",
         IInv'
  PROVE  TimeInv'
<1>0. /\ clock \in Nat /\ job.now \in Nat /\ Deadline \in Nat /\ Deadline' = Deadline
      /\ \A p \in Player : seat[p].out \in Int
  BY TimeTypes DEF Deadline
<1>a. job'.now \in Nat /\ \A p \in Player : seat'[p].out \in Int
  BY DEF IInv, TypeOK
<1>1. /\ phase' = "finished" /\ nextAction' = None
      /\ result'.at = at
  BY FinishEffect DEF Finish
<1>2. OutIsPast'
  BY <1>0 DEF TimeInv, OutIsPast
<1>3. LeaveTime'
  BY <1>0, <1>a, <1>1 DEF TimeInv, LeaveTime
<1>4. FightTime' /\ WindowTime'
  BY <1>1 DEF FightTime, WindowTime
<1>5. FallTime'
  BY <1>0, <1>a, <1>1 DEF FallTime
<1>6. EndsInItsTime'
  BY <1>0, <1>1 DEF EndsInItsTime
<1> QED BY <1>2, <1>3, <1>4, <1>5, <1>6 DEF TimeInv

\* The window that a cast finds or opens contains the instant of the cast.
LEMMA CastWindowTime ==
  ASSUME IInv, TimeInv, NEW at \in Int, Opening <= at, at < Deadline, at <= clock,
         Cardinality(Standing(seat)) >= 2,
         volley # NoVolley => at < volley.endsAt /\ \A t \in volley.at : t <= at,
         volley = NoVolley => \A p \in Player : seat[p].out <= at
  PROVE  /\ CastWindow(at).endsAt \in Int
         /\ Opening <= CastWindow(at).endsAt
         /\ \A p \in Player : seat[p].out <= CastWindow(at).endsAt
         /\ WindowStart(at) < CastWindow(at).endsAt /\ at < CastWindow(at).endsAt
         /\ CastWindow(at).endsAt <= Lower(Deadline, WindowStart(at) + Batch)
         /\ CastWindow(at).at = volley.at
         /\ CastWindow(at).casts = volley.casts
         /\ Standing(seat) \subseteq CastWindow(at).roster
<1>0. /\ Deadline \in Nat /\ \A p \in Player : seat[p].out \in Int
      /\ volley.endsAt \in Int /\ \A t \in volley.at : t \in Int /\ WindowStart(t) \in Int
  BY TimeTypes
<1>1. WindowStart(at) \in Int /\ WindowStart(at) <= at /\ at < WindowStart(at) + Batch
  BY WindowHolds
<1>2. CASE volley # NoVolley
  <2>1. CastWindow(at) = volley  BY <1>2 DEF CastWindow
  <2>2. PICK t \in volley.at : TRUE  BY <1>2 DEF TimeInv, WindowTime
  <2>3. volley.endsAt <= Lower(Deadline, WindowStart(t) + Batch) /\ t <= at
    BY <1>2 DEF TimeInv, WindowTime
  <2>4. WindowStart(t) <= WindowStart(at)
    BY <1>0, <2>3, WindowsInOrder
  <2>5. volley.endsAt <= Lower(Deadline, WindowStart(at) + Batch)
    BY <1>0, <1>1, <2>2, <2>3, <2>4 DEF Lower
  <2>6. /\ Opening <= volley.endsAt /\ \A p \in Player : seat[p].out <= volley.endsAt
        /\ Standing(seat) \subseteq volley.roster
    BY <1>2 DEF TimeInv, WindowTime
  <2> QED BY <1>0, <1>1, <1>2, <2>1, <2>5, <2>6
<1>3. CASE volley = NoVolley
  <2> DEFINE roster == {p \in Player : seat[p].out = None \/ seat[p].out > WindowStart(at)}
             ends == Lower(Deadline, WindowStart(at) + Batch)
  <2>1. CastWindow(at) = [NoVolley EXCEPT !.endsAt = ends, !.roster = roster]
    BY <1>3 DEF CastWindow, OpenWindow
  <2>2. CastWindow(at) = [endsAt |-> ends, roster |-> roster, total |-> 0,
                          power |-> [p \in Player |-> 0], casts |-> [p \in Player |-> 0],
                          at |-> {}]
    BY <2>1 DEF NoVolley
  <2>3. ends \in Int /\ at < ends /\ WindowStart(at) < ends
    BY <1>0, <1>1 DEF Lower
  <2>4. Standing(seat) \subseteq roster  BY DEF Standing
  <2>5. \A p \in Player : seat[p].out <= ends
    BY <1>0, <1>3, <2>3
  <2>6. volley.at = {} /\ volley.casts = [p \in Player |-> 0]  BY <1>3 DEF NoVolley
  <2>7. ends <= Lower(Deadline, WindowStart(at) + Batch)  BY <2>3
  <2> HIDE DEF roster, ends
  <2>8. /\ CastWindow(at).endsAt = ends /\ CastWindow(at).roster = roster
        /\ CastWindow(at).at = {} /\ CastWindow(at).casts = [p \in Player |-> 0]
    BY <2>2
  <2> QED BY <2>3, <2>4, <2>5, <2>6, <2>7, <2>8
<1> QED BY <1>2, <1>3

\* A cast, of a player at the engine's reading or of the script at its planned instant.
LEMMA TimeCast ==
  ASSUME IInv, IInv', TimeInv, NEW p \in Player, NEW at \in Int, CommitCast(p, at),
         phase = "playing", UNCHANGED <<phase, clock, job, departed>>,
         Opening <= at, at < Deadline, at <= clock,
         Cardinality(Standing(seat)) >= 2, seat[p].out = None,
         volley # NoVolley => at < volley.endsAt /\ \A t \in volley.at : t <= at,
         volley = NoVolley => \A q \in Player : seat[q].out <= at,
         nextAction' = None \/ at <= nextAction'
  PROVE  TimeInv'
<1>0. /\ clock \in Nat /\ job.now \in Nat /\ Deadline \in Nat /\ Deadline' = Deadline
      /\ \A q \in Player : seat[q].out \in Int
      /\ volley \in VolleyRecord
      /\ \A t \in volley.at : t \in Int /\ WindowStart(t) \in Int
  BY TimeTypes DEF Deadline
<1>1. nextAction' \in Int  BY DEF IInv, TypeOK
<1>2. /\ CastWindow(at).endsAt \in Int
      /\ Opening <= CastWindow(at).endsAt
      /\ \A q \in Player : seat[q].out <= CastWindow(at).endsAt
      /\ WindowStart(at) < CastWindow(at).endsAt /\ at < CastWindow(at).endsAt
      /\ CastWindow(at).endsAt <= Lower(Deadline, WindowStart(at) + Batch)
      /\ CastWindow(at).at = volley.at
      /\ CastWindow(at).casts = volley.casts
      /\ Standing(seat) \subseteq CastWindow(at).roster
  BY CastWindowTime
<1>3. /\ \A q \in Player \ {p} : seat'[q] = seat[q]
      /\ seat'[p].out = seat[p].out
      /\ volley'.endsAt = CastWindow(at).endsAt
      /\ volley'.roster = CastWindow(at).roster
      /\ volley'.at = CastWindow(at).at \cup {at}
      /\ volley'.casts = [CastWindow(at).casts EXCEPT ![p] = CastWindow(at).casts[p] + 1]
  BY CastParts DEF IInv
<1>4. \A q \in Player : seat'[q].out = seat[q].out  BY <1>3
<1>5. OutIsPast'  BY <1>0, <1>4 DEF TimeInv, OutIsPast
<1>6. LeaveTime'  BY <1>0, <1>4 DEF TimeInv, LeaveTime
<1>7. FightTime'  BY <1>0, <1>1 DEF TimeInv, FightTime
<1>8. WindowTime'
  <2>1. \A t : WindowStart(t)' = WindowStart(t)  BY DEF WindowStart
  <2>2. Standing(seat') = Standing(seat)  BY <1>4 DEF Standing
  <2>3. ASSUME NEW t \in volley'.at
        PROVE  /\ t <= clock'
               /\ nextAction' # None => t <= nextAction'
               /\ WindowStart(t) < volley'.endsAt /\ t < volley'.endsAt
               /\ volley'.endsAt <= Lower(Deadline, WindowStart(t) + Batch)
    <3>1. CASE t = at
      BY <1>1, <1>2, <1>3, <3>1
    <3>2. CASE t \in volley.at
      <4>1. volley # NoVolley  BY <3>2 DEF NoVolley
      <4>2. CastWindow(at) = volley  BY <4>1 DEF CastWindow
      <4>3. /\ t <= at /\ t <= clock
            /\ WindowStart(t) < volley.endsAt /\ t < volley.endsAt
            /\ volley.endsAt <= Lower(Deadline, WindowStart(t) + Batch)
        BY <3>2, <4>1 DEF TimeInv, WindowTime
      <4> QED BY <1>0, <1>1, <1>3, <3>2, <4>2, <4>3
    <3> QED BY <1>2, <1>3, <3>1, <3>2
  <2>4. \A q \in Player : volley'.casts[q] > 0 => q \in volley'.roster
    <3>1. p \in volley'.roster  BY <1>2, <1>3 DEF Standing
    <3>2. \A q \in Player : volley.casts[q] > 0 => q \in volley'.roster
      <4>1. CASE volley = NoVolley
        BY <4>1, NoVolleyType
      <4>2. CASE volley # NoVolley
        BY <1>3, <4>2 DEF CastWindow, TimeInv, WindowTime
      <4> QED BY <4>1, <4>2
    <3>3. volley.casts \in [Player -> Nat]  BY <1>0 DEF VolleyRecord
    <3> QED BY <1>2, <1>3, <3>1, <3>2, <3>3
  <2>5. volley'.at # {} /\ Standing(seat') \subseteq volley'.roster
    BY <1>2, <1>3, <2>2
  <2>6. Opening <= volley'.endsAt /\ \A q \in Player : seat'[q].out <= volley'.endsAt
    BY <1>2, <1>3, <1>4
  <2> QED BY <1>0, <2>1, <2>3, <2>4, <2>5, <2>6 DEF WindowTime, Lower, Standing
<1>9. FallTime'  BY <1>0, <1>4 DEF TimeInv, FallTime
<1>10. EndsInItsTime'  BY DEF EndsInItsTime
<1> QED BY <1>5, <1>6, <1>7, <1>8, <1>9, <1>10 DEF TimeInv

\* A landing after which the fight goes on.
LEMMA TimeLand ==
  ASSUME IInv, IInv', TimeInv, NEW now \in Nat, now <= clock,
         phase = "playing", VolleyDue(now), Land, PlayOn, UNCHANGED <<clock, job, departed>>,
         job.kind # "opened", job.kind = "leave" => job.now = now
  PROVE  TimeInv'
<1>0. /\ clock \in Nat /\ job.now \in Nat /\ Deadline \in Nat /\ Deadline' = Deadline
      /\ \A q \in Player : seat[q].out \in Int
      /\ volley.endsAt \in Int
  BY TimeTypes DEF Deadline
<1>1. /\ volley # NoVolley /\ volley.endsAt <= now /\ volley' = NoVolley
      /\ phase' = phase /\ nextAction' = nextAction /\ result' = result
  BY DEF VolleyDue, Land, PlayOn
<1>2. Opening <= volley.endsAt /\ volley.endsAt <= Deadline
  BY <1>1 DEF TimeInv, WindowTime, IInv, WindowOpen
<1>3. \A p \in Player : \/ seat'[p].out = seat[p].out
                        \/ seat[p].out = None /\ seat'[p].out = volley.endsAt
  BY LandParts DEF IInv
<1>4. OutIsPast'
  BY <1>0, <1>1, <1>2, <1>3 DEF TimeInv, OutIsPast
<1>5. LeaveTime'
  BY <1>0, <1>1, <1>3 DEF TimeInv, LeaveTime
<1>6. FightTime' /\ WindowTime'
  BY <1>1 DEF TimeInv, FightTime, WindowTime
<1>7. FallTime'
  BY <1>0, <1>1, <1>2, <1>3 DEF TimeInv, FallTime
<1>8. EndsInItsTime'
  BY <1>1 DEF EndsInItsTime
<1> QED BY <1>4, <1>5, <1>6, <1>7, <1>8 DEF TimeInv

\* One piece of due work, at the reading of the clock of whoever drains it.
LEMMA TimeAdvance ==
  ASSUME IInv, IInv', TimeInv, NEW now \in Nat, now <= clock, AdvanceCombat(now),
         UNCHANGED <<clock, job>>, job.kind # "opened", job.kind = "leave" => job.now = now,
         Opening <= now, \A p \in Player : seat[p].out <= now
  PROVE  TimeInv'
<1>0. /\ clock \in Nat /\ nextAction \in Int /\ Deadline \in Nat
      /\ \A q \in Player : seat[q].out \in Int
      /\ volley.endsAt \in Int /\ \A t \in volley.at : t \in Int
  BY TimeTypes
<1>1. phase = "playing" /\ Due(now) /\ departed' = departed
  BY DEF AdvanceCombat, Due
<1>2. volley # NoVolley => /\ Opening <= volley.endsAt /\ volley.endsAt <= Deadline
                           /\ \A p \in Player : seat[p].out <= volley.endsAt
                           /\ \A t \in volley.at : /\ nextAction # None => t <= nextAction
                                                   /\ t < volley.endsAt
  BY DEF TimeInv, WindowTime, IInv, WindowOpen
<1>3. CASE OpponentFirst(now)
  <2>1. UNCHANGED <<phase, result, landed, thrown>>
    BY <1>3 DEF AdvanceCombat
  <2>2. PICK o \in Scripted : OpponentAct(o)
    BY <1>3 DEF AdvanceCombat
  <2>3. o \in Player /\ Cardinality(Player) = 2  BY SeatAssumption
  <2>4. /\ nextAction # None /\ nextAction < Deadline /\ nextAction <= now
        /\ Opening <= nextAction
        /\ volley = NoVolley \/ nextAction < volley.endsAt
    BY <1>3 DEF OpponentFirst, OpponentDue, TimeInv, FightTime
  <2>5. CASE UNCHANGED <<seat, volley>> /\ nextAction' = None
    BY <1>0, <1>1, <2>1, <2>5, TimeKept
  <2>6. CASE UNCHANGED <<seat, volley>> /\ nextAction' = Lower(Deadline, nextAction + MaxDelay)
    <3>1. Opening <= nextAction'
      BY <1>0, <2>4, <2>6 DEF Lower, Deadline
    <3>2. \A t \in volley.at : t <= nextAction'
      <4>1. CASE volley = NoVolley  BY <4>1 DEF NoVolley
      <4>2. CASE volley # NoVolley
        BY <1>0, <1>2, <2>4, <2>6, <4>2 DEF Lower
      <4> QED BY <4>1, <4>2
    <3> QED BY <1>0, <1>1, <2>1, <2>6, <3>1, <3>2, TimeKept
  <2>7. CASE /\ Standing(seat) = Player /\ CommitCast(o, nextAction)
             /\ nextAction' = None \/ nextAction <= nextAction'
    <3>1. \A q \in Player : seat[q].out = None  BY <2>7 DEF Standing
    <3>2. Cardinality(Standing(seat)) >= 2  BY <2>3, <2>7
    <3>3. volley # NoVolley => nextAction < volley.endsAt /\ \A t \in volley.at : t <= nextAction
      BY <1>2, <2>4
    <3>4. volley = NoVolley => \A q \in Player : seat[q].out <= nextAction
      BY <1>0, <2>4, <3>1
    <3>5. nextAction <= clock  BY <1>0, <2>4
    <3> QED BY <1>0, <1>1, <2>1, <2>3, <2>4, <2>7, <3>1, <3>2, <3>3, <3>4, <3>5, TimeCast
  <2>8. \/ UNCHANGED <<seat, volley>> /\ nextAction' = None
        \/ UNCHANGED <<seat, volley>> /\ nextAction' = Lower(Deadline, nextAction + MaxDelay)
        \/ /\ Standing(seat) = Player /\ CommitCast(o, nextAction)
           /\ nextAction' = None \/ nextAction <= nextAction'
    BY <1>0, <2>2 DEF OpponentAct
  <2> QED BY <2>5, <2>6, <2>7, <2>8
<1>4. CASE ~OpponentFirst(now)
  <2>1. Settlement(now)  BY <1>4 DEF AdvanceCombat
  <2>2. \A p \in Player \ departed' : seat[p].out <= Deadline
    BY <1>1 DEF TimeInv, FallTime
  <2>3. CASE VolleyDue(now)
    <3>1. volley # NoVolley /\ volley.endsAt <= now /\ Land /\ volley' = NoVolley
      BY <2>1, <2>3 DEF Settlement, VolleyDue, Land
    <3>2. \A p \in Player : \/ seat'[p].out = seat[p].out
                            \/ seat[p].out = None /\ seat'[p].out = volley.endsAt
      BY <3>1, LandParts DEF IInv
    <3>3. \A p \in Player : \/ seat'[p].out = seat[p].out
                            \/ /\ 0 <= seat'[p].out /\ seat'[p].out <= clock
                               /\ job'.kind = "leave" => seat'[p].out <= job'.now
      BY <1>0, <1>2, <3>1, <3>2
    <3>4. CASE Finish("elimination", volley.endsAt)
      <4>1. \A p \in Player \ departed' : seat'[p].out <= volley.endsAt
        BY <1>0, <1>2, <3>1, <3>2
      <4> QED BY <1>0, <1>1, <1>2, <3>1, <3>3, <3>4, <4>1, TimeFinish
    <3>5. CASE Finish("timeout", Deadline)
      <4>1. \A p \in Player \ departed' : seat'[p].out <= Deadline
        BY <1>0, <1>2, <2>2, <3>1, <3>2
      <4>2. Opening <= Deadline  BY DEF Deadline
      <4> QED BY <1>0, <1>1, <3>1, <3>3, <3>5, <4>1, <4>2, TimeFinish
    <3>6. CASE PlayOn
      BY <1>1, <2>3, <3>1, <3>6, TimeLand
    <3> QED BY <2>1, <2>3, <3>4, <3>5, <3>6 DEF Settlement
  <2>4. CASE ~VolleyDue(now)
    <3>1. seat' = seat /\ volley' = volley  BY <2>1, <2>4 DEF Settlement
    <3>2. now >= Deadline => volley = NoVolley
      BY <1>0, <1>2, <2>4 DEF VolleyDue
    <3>3. volley = NoVolley
      BY <2>1, <2>4, <3>2 DEF Settlement
    <3>4. CASE Finish("elimination", Lower(now, Deadline))
      <4> DEFINE at == Lower(now, Deadline)
      <4>1. at \in Int /\ Opening <= at /\ at <= Deadline
        BY <1>0 DEF Lower, Deadline
      <4>2. \A p \in Player \ departed' : seat'[p].out <= at
        BY <2>2, <3>1 DEF Lower
      <4> HIDE DEF at
      <4> QED BY <1>1, <3>1, <3>3, <3>4, <4>1, <4>2, TimeFinish DEF at
    <3>5. CASE Finish("timeout", Deadline)
      <4>2. Opening <= Deadline  BY DEF Deadline
      <4> QED BY <1>0, <1>1, <2>2, <3>1, <3>3, <3>5, <4>2, TimeFinish
    <3> QED BY <2>1, <2>4, <3>4, <3>5 DEF Settlement
  <2> QED BY <2>3, <2>4
<1> QED BY <1>3, <1>4

\* The fight opens: a window of time begins in which nobody has fallen in combat yet.
LEMMA TimeOpen ==
  ASSUME IInv, IInv', TimeInv, OpenFight
  PROVE  TimeInv'
<1>0. clock \in Nat /\ \A q \in Player : seat[q].out \in Int
  BY TimeTypes
<1>1. /\ phase = "countdown" /\ phase' = "playing" /\ Opening <= clock /\ clock' = clock
      /\ volley' = volley /\ departed' = departed /\ job'.kind = "opened"
  BY <1>0 DEF OpenFight, Idle
<1>2. volley = NoVolley  BY <1>1 DEF IInv, WindowOpen
<1>3. \A p \in Player : seat'[p].out = seat[p].out
  BY OpenParts DEF IInv, SameRow
<1>4. OutIsPast' /\ FallTime'
  BY <1>0, <1>1, <1>3 DEF TimeInv, OutIsPast, FallTime, Deadline
<1>5. LeaveTime' /\ WindowTime' /\ EndsInItsTime'
  BY <1>1, <1>2 DEF LeaveTime, WindowTime, EndsInItsTime
<1>6. nextAction' = nextAction \/ Opening <= nextAction'
  <2>1. CASE Scripted = {}  BY <2>1 DEF OpenFight
  <2>2. CASE Scripted # {}
    <3>1. PICK delay \in 1..MaxDelay : nextAction' = Opening + delay
      BY <2>2 DEF OpenFight
    <3> QED BY <3>1
  <2> QED BY <2>1, <2>2
<1>7. FightTime'
  BY <1>1, <1>6 DEF TimeInv, FightTime
<1> QED BY <1>4, <1>5, <1>7 DEF TimeInv

\* The check that follows the opening.
LEMMA TimeCheck ==
  ASSUME IInv, IInv', TimeInv, CheckOpening
  PROVE  TimeInv'
<1>0. clock \in Nat /\ Deadline \in Nat /\ Opening <= Deadline
      /\ \A q \in Player : seat[q].out \in Int
  BY TimeTypes DEF Deadline
<1>1. /\ job.kind = "opened" /\ job'.kind = "idle" /\ clock' = clock
      /\ seat' = seat /\ volley' = volley /\ departed' = departed
  BY DEF CheckOpening, Idle
<1>2. volley = NoVolley  BY <1>1 DEF IInv, FreshFight
<1>3. \A p \in Player \ departed' : seat[p].out = None
  BY <1>1 DEF TimeInv, FallTime
<1>4. CASE Finish("timeout", Deadline)
  BY <1>0, <1>1, <1>2, <1>3, <1>4, TimeFinish
<1>5. CASE Finish("elimination", Opening)
  BY <1>0, <1>1, <1>2, <1>3, <1>5, TimeFinish
<1>6. CASE PlayOn
  BY <1>0, <1>1, <1>6, TimeKept DEF PlayOn
<1> QED BY <1>4, <1>5, <1>6 DEF CheckOpening

\* A leave is answered.
LEMMA TimeLeave ==
  ASSUME IInv, IInv', TimeInv, NEW p \in Player, EndLeave(p)
  PROVE  TimeInv'
<1>0. /\ clock \in Nat /\ job.now \in Nat /\ Deadline \in Nat /\ Deadline' = Deadline
      /\ \A q \in Player : seat[q].out \in Int
      /\ volley.endsAt \in Int
  BY TimeTypes DEF Deadline
<1>1. /\ job.kind = "leave" /\ ~Due(job.now) /\ job'.kind = "idle" /\ clock' = clock
      /\ job.now <= clock /\ \A q \in Player : seat[q].out <= job.now
      /\ phase = "playing" => Opening <= job.now
  BY DEF EndLeave, Idle, TimeInv, LeaveTime
<1>2. CASE LeaveFinished(p)
  BY <1>0, <1>1, <1>2, TimeKept DEF LeaveFinished, PlayOn
<1>3. CASE phase # "finished" /\ Forfeit(p)
  <2>1. /\ volley' = volley /\ departed' = departed \cup {p}
        /\ \A q \in Player : seat'[q].out = IF q = p /\ seat[q].out = None
                                              THEN job.now ELSE seat[q].out
    BY <1>3, ForfeitParts DEF IInv
  <2>2. phase = "playing" => /\ job.now < Deadline
                             /\ volley # NoVolley => job.now < volley.endsAt
    BY <1>0, <1>1 DEF Due, VolleyDue
  <2>3. \A q \in Player : seat'[q].out <= job.now
    BY <1>0, <1>1, <2>1
  <2>4. CASE phase = "playing" /\ volley = NoVolley /\ Finish("elimination", job.now)
    BY <1>0, <1>1, <2>1, <2>2, <2>3, <2>4, TimeFinish
  <2>5. CASE PlayOn
    <3>1. phase' = phase /\ nextAction' = nextAction /\ result' = result  BY <2>5 DEF PlayOn
    <3>2. OutIsPast'
      BY <1>0, <1>1, <2>1 DEF TimeInv, OutIsPast
    <3>3. LeaveTime' /\ EndsInItsTime'
      BY <1>1, <1>3, <3>1 DEF LeaveTime, EndsInItsTime
    <3>4. FightTime'
      BY <1>1, <3>1 DEF TimeInv, FightTime
    <3>5. WindowTime'
      <4>1. CASE volley = NoVolley  BY <2>1, <4>1 DEF WindowTime
      <4>2. CASE volley # NoVolley
        <5>1. phase = "playing" /\ WindowTime  BY <4>2 DEF IInv, WindowOpen, TimeInv
        <5>2. \A q \in Player : seat'[q].out <= volley.endsAt
          BY <1>0, <2>2, <2>3, <4>2, <5>1, IInv' DEF IInv, TypeOK
        <5>3. Standing(seat') \subseteq Standing(seat)
          BY <1>0, <2>1 DEF Standing
        <5>4. \A t : WindowStart(t)' = WindowStart(t)  BY DEF WindowStart
        <5> QED BY <1>0, <1>1, <2>1, <3>1, <4>2, <5>1, <5>2, <5>3, <5>4 DEF WindowTime, Lower
      <4> QED BY <4>1, <4>2
    <3>6. FallTime'
      BY <1>0, <1>1, <2>1, <3>1 DEF TimeInv, FallTime
    <3> QED BY <3>2, <3>3, <3>4, <3>5, <3>6 DEF TimeInv
  <2> QED BY <1>3, <2>4, <2>5 DEF Forfeit
<1> QED BY <1>2, <1>3 DEF EndLeave

\* A completion is adjudicated, with nothing due at the reading it is judged by.
LEMMA TimeJudge ==
  ASSUME IInv, IInv', TimeInv, NEW p \in Player, NEW m \in net[p], Judge(p, m)
  PROVE  TimeInv'
<1>0. /\ clock \in Nat /\ nextAction \in Int /\ Deadline \in Nat
      /\ \A q \in Player : seat[q].out \in Int
      /\ volley.endsAt \in Int /\ \A t \in volley.at : t \in Int
  BY TimeTypes
<1>1. /\ job.kind = "idle" /\ phase = "playing" /\ ~Retry /\ seat[p].out = None
      /\ clock' = clock /\ job' = job /\ departed' = departed
  BY DEF Judge, Current, Idle
<1>2. /\ clock < Deadline /\ Opening <= clock
      /\ volley # NoVolley => clock < volley.endsAt
      /\ nextAction # None => clock < nextAction
  BY <1>0, <1>1 DEF Retry, VolleyDue, TimeInv, FightTime
<1>3. \A q \in Player : seat[q].out <= clock
  BY <1>0 DEF TimeInv, OutIsPast
<1>4. CASE volley = NoVolley /\ UNCHANGED <<seat, volley>>
           /\ Finish("elimination", Lower(clock, Deadline))
  <2>1. Lower(clock, Deadline) = clock  BY <1>0, <1>2 DEF Lower
  <2> QED BY <1>0, <1>1, <1>2, <1>3, <1>4, <2>1, TimeFinish
<1>5. CASE RejectEarly(p)
  <2>1. \A q \in Player : seat'[q].out = seat[q].out
    BY <1>5, RejectParts DEF IInv
  <2>2. UNCHANGED <<volley, phase, result, nextAction>>
    BY <1>5 DEF RejectEarly
  <2> QED BY <1>0, <1>1, <2>1, <2>2, TimeKept
<1>6. CASE Standing(seat) # {p} /\ CommitCast(p, clock) /\ PlayOn
  <2>1. p \in Standing(seat) /\ Standing(seat) \in SUBSET Player  BY <1>1 DEF Standing
  <2>2. PICK q \in Standing(seat) : q # p  BY <1>6, <2>1
  <2>3. Cardinality(Standing(seat)) >= 2  BY <2>1, <2>2, TwoSeats
  <2>4. \A t \in volley.at : t <= clock
    <3>1. volley # NoVolley \/ volley.at = {}  BY DEF NoVolley
    <3> QED BY <3>1 DEF TimeInv, WindowTime
  <2>5. nextAction' = None \/ clock <= nextAction'
    BY <1>0, <1>2, <1>6 DEF PlayOn
  <2> QED BY <1>0, <1>1, <1>2, <1>3, <1>6, <2>3, <2>4, <2>5, TimeCast DEF PlayOn
<1> QED BY <1>4, <1>5, <1>6 DEF Judge

LEMMA TimeInitial == Init => TimeInv
<1> SUFFICES ASSUME Init PROVE TimeInv  OBVIOUS
<1>1. \A p \in Player : seat[p].out = None  BY DEF Init
<1> QED BY <1>1, TimeTypes
       DEF Init, Idle, TimeInv, OutIsPast, LeaveTime, FightTime, WindowTime, FallTime,
           EndsInItsTime, Deadline

LEMMA TimeStep == IInv /\ TimeInv /\ [Next]_vars => TimeInv'
<1> SUFFICES ASSUME IInv, TimeInv, [Next]_vars PROVE TimeInv'  OBVIOUS
<1>0. IInv'  BY StepInvariant
<1>1. clock \in Nat /\ job.now \in Nat /\ \A q \in Player : seat[q].out \in Int  BY TimeTypes
<1>2. CASE Tick
  BY <1>0, <1>1, <1>2, TimeKept DEF Tick, match
<1>3. CASE Crash
  BY <1>0, <1>1, <1>3, TimeKept DEF Crash, match, Idle
<1>4. CASE OpenFight  BY <1>0, <1>4, TimeOpen
<1>5. CASE CheckOpening  BY <1>0, <1>5, TimeCheck
<1>6. CASE Advance
  <2>1. /\ phase = "playing" /\ AdvanceCombat(clock) /\ job.kind = "idle"
        /\ clock' = clock /\ job' = job
    BY <1>6 DEF Advance, AdvanceCombat, Due, Idle
  <2>2. Opening <= clock /\ \A p \in Player : seat[p].out <= clock
    BY <1>1, <2>1 DEF TimeInv, FightTime, OutIsPast
  <2> QED BY <1>0, <1>1, <2>1, <2>2, TimeAdvance
<1>7. CASE DrainForLeave
  <2>1. /\ phase = "playing" /\ AdvanceCombat(job.now) /\ job.kind = "leave"
        /\ clock' = clock /\ job' = job
    BY <1>7 DEF DrainForLeave, AdvanceCombat, Due
  <2>2. Opening <= job.now /\ job.now <= clock /\ \A p \in Player : seat[p].out <= job.now
    BY <2>1 DEF TimeInv, LeaveTime
  <2> QED BY <1>0, <1>1, <2>1, <2>2, TimeAdvance
<1>8. ASSUME NEW p \in Player, Type(p) PROVE TimeInv'
  BY <1>0, <1>1, <1>8, TimeKept DEF Type, match
<1>9. ASSUME NEW p \in Player, BeginLeave(p) PROVE TimeInv'
  BY <1>0, <1>1, <1>9, TimeKept DEF BeginLeave, match
<1>10. ASSUME NEW p \in Player, EndLeave(p) PROVE TimeInv'
  BY <1>0, <1>10, TimeLeave
<1>11. ASSUME NEW p \in Player, NEW m \in net[p], Judge(p, m) PROVE TimeInv'
  BY <1>0, <1>11, TimeJudge
<1>12. CASE UNCHANGED vars
  BY <1>0, <1>1, <1>12, TimeKept DEF vars
<1> QED BY <1>2, <1>3, <1>4, <1>5, <1>6, <1>7, <1>8, <1>9, <1>10, <1>11, <1>12 DEF Next

LEMMA TimeInvariance == Spec => []TimeInv
<1> QED BY TimeInitial, TimeStep, Invariance, PTL DEF Spec

-----------------------------------------------------------------------------
(* The order of instants: theorems *)

\* In every match, of any length, batch and pace: the casts of a window were made inside
\* it, it aims at every seat that stands, and its damage has somebody to be shared by.
THEOREM WindowsCohere == Spec => []WindowIsCoherent
<1>1. IInv /\ TimeInv => WindowIsCoherent
  BY DEF IInv, TimeInv, WindowOpen, WindowTime, WindowIsCoherent
<1> QED BY <1>1, Invariance, TimeInvariance, PTL

\* In every match the result names an instant of the match, and no fall in combat is later.
THEOREM ResultIsInTime == Spec => []EndsInItsTime
<1>1. TimeInv => EndsInItsTime  BY DEF TimeInv
<1> QED BY <1>1, TimeInvariance, PTL

\* What makes a seat fall: the end of the open window, or the reading of a leave.
LEMMA AdvanceFalls ==
  ASSUME IInv, NEW now \in Nat, AdvanceCombat(now), NEW q \in Player,
         seat[q].out = None, seat'[q].out # None
  PROVE  volley # NoVolley /\ seat'[q].out = volley.endsAt
<1>1. CASE OpponentFirst(now)
  <2>1. PICK o \in Scripted : OpponentAct(o)  BY <1>1 DEF AdvanceCombat
  <2>2. o \in Player /\ Cardinality(Player) = 2  BY SeatAssumption
  <2>3. CASE UNCHANGED seat  BY <2>3
  <2>4. CASE Standing(seat) = Player /\ CommitCast(o, nextAction)
    <3>1. Cardinality(Standing(seat)) >= 2 /\ nextAction \in Int
      BY <2>2, <2>4 DEF IInv, TypeOK
    <3>2. seat'[q].out = seat[q].out
      BY <2>2, <2>4, <3>1, CastParts DEF IInv
    <3> QED BY <3>2
  <2> QED BY <2>1, <2>3, <2>4 DEF OpponentAct
<1>2. CASE ~OpponentFirst(now)
  <2>1. Settlement(now)  BY <1>2 DEF AdvanceCombat
  <2>2. VolleyDue(now) /\ Land  BY <2>1 DEF Settlement
  <2> QED BY <2>2, LandParts DEF VolleyDue, IInv
<1> QED BY <1>1, <1>2

LEMMA FallCauses ==
  ASSUME IInv, [Next]_vars, NEW q \in Player, seat[q].out = None, seat'[q].out # None
  PROVE  \/ volley # NoVolley /\ seat'[q].out = volley.endsAt
         \/ job.kind = "leave" /\ seat'[q].out = job.now
<1>1. CASE seat' = seat  BY <1>1
<1>2. CASE Tick \/ Crash \/ CheckOpening \/ (\E p \in Player : Type(p) \/ BeginLeave(p))
           \/ UNCHANGED vars
  BY <1>1, <1>2 DEF Tick, Crash, CheckOpening, Type, BeginLeave, match, vars
<1>3. CASE OpenFight
  BY <1>3, OpenParts DEF IInv, SameRow
<1>4. CASE Advance \/ DrainForLeave
  <2>1. clock \in Nat /\ job.now \in Nat  BY TimeTypes
  <2> QED BY <1>4, <2>1, AdvanceFalls DEF Advance, DrainForLeave
<1>5. CASE \E p \in Player : EndLeave(p)
  <2>1. PICK p \in Player : EndLeave(p)  BY <1>5
  <2>2. Forfeit(p) /\ job.kind = "leave"  BY <1>1, <2>1 DEF EndLeave, LeaveFinished
  <2> QED BY <2>2, ForfeitParts DEF IInv
<1>6. CASE \E p \in Player : \E m \in net[p] : Judge(p, m)
  <2>1. PICK p \in Player : \E m \in net[p] : Judge(p, m)  BY <1>6
  <2>2. CASE RejectEarly(p)
    <3>1. seat'[q].out = seat[q].out  BY <2>2, RejectParts DEF IInv
    <3> QED BY <3>1
  <2>3. CASE Standing(seat) # {p} /\ seat[p].out = None /\ CommitCast(p, clock)
    <3>1. p \in Standing(seat) /\ Standing(seat) \in SUBSET Player  BY <2>3 DEF Standing
    <3>2. PICK r \in Standing(seat) : r # p  BY <2>3, <3>1
    <3>3. Cardinality(Standing(seat)) >= 2  BY <3>1, <3>2, TwoSeats
    <3>4. clock \in Int  BY TimeTypes
    <3>5. seat'[q].out = seat[q].out  BY <2>3, <3>3, <3>4, CastParts DEF IInv
    <3> QED BY <3>5
  <2> QED BY <1>1, <2>1, <2>2, <2>3 DEF Judge, Current
<1> QED BY <1>2, <1>3, <1>4, <1>5, <1>6 DEF Next

\* In every match, seats that fall later in the room's order of events carry an instant that
\* is no earlier: neither a late timer nor a leave can place a fall before an older one.
THEOREM FallsKeepOrder == Spec => FallsInOrder
<1>1. IInv /\ TimeInv /\ [Next]_vars =>
        [\A p, q \in Player :
           seat[p].out # None /\ seat[q].out = None /\ seat'[q].out # None
             => seat'[q].out >= seat[p].out]_vars
  <2> SUFFICES ASSUME IInv, TimeInv, [Next]_vars, NEW p \in Player, NEW q \in Player,
                      seat[p].out # None, seat[q].out = None, seat'[q].out # None
               PROVE  seat'[q].out >= seat[p].out
    OBVIOUS
  <2>1. seat[p].out \in Int /\ volley.endsAt \in Int /\ job.now \in Nat  BY TimeTypes
  <2>2. volley # NoVolley => seat[p].out <= volley.endsAt  BY DEF TimeInv, WindowTime
  <2>3. job.kind = "leave" => seat[p].out <= job.now  BY DEF TimeInv, LeaveTime
  <2> QED BY <2>1, <2>2, <2>3, FallCauses
<1> QED BY <1>1, Invariance, TimeInvariance, PTL DEF Spec, FallsInOrder

-----------------------------------------------------------------------------
(* A decided fight is settled by whoever decided it *)

\* As long as the process has not been lost, a running fight with no damage pending is a
\* fight of two seats or more.  (Between the two transactions of its opening it may not be.)
DuelGoesOn ==
  phase = "playing" /\ job.kind # "opened" /\ volley = NoVolley /\ crashes = 0
    => Cardinality(Standing(seat)) > 1

\* A cast leaves damage pending.
LEMMA CastPends ==
  ASSUME IInv, NEW p \in Player, NEW at \in Int, Cardinality(Standing(seat)) >= 2,
         CommitCast(p, at)
  PROVE  volley' # NoVolley
<1>1. volley'.at = CastWindow(at).at \cup {at}  BY CastParts DEF IInv
<1> QED BY <1>1 DEF NoVolley

LEMMA DuelKept ==
  ASSUME DuelGoesOn, \A p \in Player : seat'[p].out = seat[p].out,
         UNCHANGED <<phase, volley>>, crashes' = 0 => crashes = 0 /\ job.kind # "opened"
  PROVE  DuelGoesOn'
<1>1. Standing(seat') = Standing(seat)  BY DEF Standing
<1> QED BY <1>1 DEF DuelGoesOn, Standing

LEMMA DuelAdvance ==
  ASSUME IInv, DuelGoesOn, NEW now \in Nat, AdvanceCombat(now), UNCHANGED crashes,
         job.kind # "opened"
  PROVE  DuelGoesOn'
<1>1. CASE OpponentFirst(now)
  <2>1. PICK o \in Scripted : OpponentAct(o)  BY <1>1 DEF AdvanceCombat
  <2>2. o \in Player /\ Cardinality(Player) = 2  BY SeatAssumption
  <2>3. CASE UNCHANGED <<seat, volley>>
    <3>1. phase' = phase  BY <1>1 DEF AdvanceCombat
    <3> QED BY <2>3, <3>1, DuelKept
  <2>4. CASE Standing(seat) = Player /\ CommitCast(o, nextAction)
    <3>1. Cardinality(Standing(seat)) >= 2 /\ nextAction \in Int
      BY <2>2, <2>4 DEF IInv, TypeOK
    <3> QED BY <2>2, <2>4, <3>1, CastPends DEF DuelGoesOn
  <2> QED BY <2>1, <2>3, <2>4 DEF OpponentAct
<1>2. CASE ~OpponentFirst(now)
  <2>1. Settlement(now)  BY <1>2 DEF AdvanceCombat
  <2>2. now \in Nat /\ Deadline \in Nat  BY TimeTypes
  <2>3. CASE PlayOn /\ ~Decided
    <3>1. Standing(seat') \in SUBSET Player  BY DEF Standing
    <3>2. Cardinality(Standing(seat')) > 1  BY <2>3, <3>1, SeatsFinite DEF Decided
    <3> QED BY <3>2 DEF DuelGoesOn, Standing
  <2>4. ASSUME NEW reason, NEW at, volley' = NoVolley, Finish(reason, at)
        PROVE  DuelGoesOn'
    BY <2>4, FinishEffect DEF DuelGoesOn
  <2>5. CASE VolleyDue(now)
    <3>1. volley' = NoVolley  BY <2>1, <2>5 DEF Settlement, Land
    <3> QED BY <2>1, <2>3, <2>4, <2>5, <3>1 DEF Settlement
  <2>6. CASE ~VolleyDue(now)
    <3>1. volley' = volley  BY <2>1, <2>6 DEF Settlement
    <3>2. now >= Deadline => volley = NoVolley
      BY <2>2, <2>6, TimeTypes DEF VolleyDue, IInv, WindowOpen
    <3> QED BY <2>1, <2>4, <2>6, <3>1, <3>2 DEF Settlement
  <2> QED BY <2>5, <2>6
<1> QED BY <1>1, <1>2

LEMMA DuelStep == IInv /\ DuelGoesOn /\ [Next]_vars => DuelGoesOn'
<1> SUFFICES ASSUME IInv, DuelGoesOn, [Next]_vars PROVE DuelGoesOn'  OBVIOUS
<1>0. clock \in Nat /\ job.now \in Nat /\ crashes \in Nat  BY TimeTypes DEF IInv, TypeOK
<1>1. CASE Tick \/ (\E p \in Player : Type(p)) \/ UNCHANGED vars
  <2>1. UNCHANGED <<phase, seat, volley, job, crashes>>
    BY <1>1 DEF Tick, Type, match, vars
  <2> QED BY <2>1 DEF DuelGoesOn, Standing
<1>2. CASE Crash
  <2>1. crashes' # 0  BY <1>0, <1>2 DEF Crash
  <2> QED BY <2>1 DEF DuelGoesOn
<1>3. CASE OpenFight
  BY <1>3 DEF OpenFight, DuelGoesOn
<1>4. ASSUME NEW reason, NEW at, volley' = NoVolley, Finish(reason, at)
      PROVE  DuelGoesOn'
  BY <1>4, FinishEffect DEF DuelGoesOn
<1>5. ASSUME ~Decided PROVE DuelGoesOn'
  <2>1. Standing(seat') \in SUBSET Player  BY DEF Standing
  <2>2. Cardinality(Standing(seat')) > 1  BY <1>5, <2>1, SeatsFinite DEF Decided
  <2> QED BY <2>2 DEF DuelGoesOn, Standing
<1>6. CASE CheckOpening
  <2>1. volley' = NoVolley  BY <1>6 DEF CheckOpening, IInv, FreshFight
  <2> QED BY <1>4, <1>5, <1>6, <2>1 DEF CheckOpening
<1>7. CASE Advance
  BY <1>0, <1>7, DuelAdvance DEF Advance, Idle
<1>8. CASE DrainForLeave
  BY <1>0, <1>8, DuelAdvance DEF DrainForLeave
<1>9. CASE \E p \in Player : BeginLeave(p)
  BY <1>9, DuelKept DEF BeginLeave, match, Idle
<1>10. CASE \E p \in Player : EndLeave(p)
  <2>1. PICK p \in Player : EndLeave(p)  BY <1>10
  <2>2. CASE phase = "finished" /\ LeaveFinished(p)
    BY <2>2 DEF LeaveFinished, PlayOn, DuelGoesOn
  <2>3. CASE Forfeit(p)
    <3>1. volley' = volley  BY <2>3 DEF Forfeit
    <3>2. CASE volley = NoVolley /\ Finish("elimination", job.now)
      BY <1>4, <3>1, <3>2
    <3>3. CASE ~(phase = "playing" /\ Decided /\ volley = NoVolley) /\ PlayOn
      BY <1>5, <3>1, <3>3 DEF PlayOn, DuelGoesOn
    <3> QED BY <2>3, <3>2, <3>3 DEF Forfeit
  <2> QED BY <2>1, <2>2, <2>3 DEF EndLeave
<1>11. CASE \E p \in Player : \E m \in net[p] : Judge(p, m)
  <2>1. PICK p \in Player : \E m \in net[p] : Judge(p, m)  BY <1>11
  <2>2. CASE volley = NoVolley /\ volley' = volley /\ Finish("elimination", Lower(clock, Deadline))
    BY <1>4, <2>2
  <2>3. CASE RejectEarly(p)
    <3>1. \A q \in Player : seat'[q].out = seat[q].out
      BY <2>3, RejectParts DEF IInv
    <3>2. UNCHANGED <<phase, volley, crashes>> /\ job.kind # "opened"
      BY <2>1, <2>3 DEF Judge, RejectEarly, Idle
    <3> QED BY <3>1, <3>2, DuelKept
  <2>4. CASE Standing(seat) # {p} /\ seat[p].out = None /\ CommitCast(p, clock)
    <3>1. p \in Standing(seat) /\ Standing(seat) \in SUBSET Player  BY <2>4 DEF Standing
    <3>2. PICK r \in Standing(seat) : r # p  BY <2>4, <3>1
    <3>3. Cardinality(Standing(seat)) >= 2  BY <3>1, <3>2, TwoSeats
    <3>4. clock \in Int  BY TimeTypes
    <3>5. volley' # NoVolley  BY <2>4, <3>3, <3>4, CastPends
    <3> QED BY <3>5 DEF DuelGoesOn
  <2> QED BY <2>1, <2>2, <2>3, <2>4 DEF Judge, Current
<1> QED BY <1>1, <1>2, <1>3, <1>6, <1>7, <1>8, <1>9, <1>10, <1>11 DEF Next

\* While the process lives, an engine that has come to rest never leaves a decided fight
\* running until its clock, in any match (transitions.ts, leave.ts).
THEOREM DuelsAreSettled == Spec => [](crashes = 0 => NoIdleDuel)
<1>1. Init => DuelGoesOn  BY DEF Init, DuelGoesOn
<1>2. DuelGoesOn => (crashes = 0 => NoIdleDuel)
  BY DEF DuelGoesOn, NoIdleDuel, Idle
<1> QED BY <1>1, <1>2, DuelStep, Invariance, PTL DEF Spec

-----------------------------------------------------------------------------
(* Each completion is consumed once *)

\* The completion names a position the cursor has passed: an earlier spell, or an earlier
\* draft of the spell the cursor is at.
Passed(m, s) == m[1] < s.idx \/ (m[1] = s.idx /\ m[2] < s.draft)

\* Behind every step of a cursor there is a completion of its own, one it has passed.
Consumed ==
  \A p \in Human :
    /\ IsFiniteSet(net[p])
    /\ \E S \in SUBSET net[p] : /\ Cardinality(S) = seat[p].idx + seat[p].recoveries
                                /\ \A m \in S : Passed(m, seat[p])

SameCursor(p) ==
  /\ seat'[p].idx = seat[p].idx /\ seat'[p].draft = seat[p].draft
  /\ seat'[p].recoveries = seat[p].recoveries

LEMMA ConsumedKept ==
  ASSUME Consumed,
         \A p \in Human : SameCursor(p) /\ net[p] \subseteq net'[p] /\ IsFiniteSet(net'[p])
  PROVE  Consumed'
<1> SUFFICES ASSUME NEW p \in Human
             PROVE  \E S \in SUBSET net'[p] :
                      /\ Cardinality(S) = seat'[p].idx + seat'[p].recoveries
                      /\ \A m \in S : Passed(m, seat'[p])
  BY DEF Consumed, Human, Passed
<1>1. PICK S \in SUBSET net[p] : /\ Cardinality(S) = seat[p].idx + seat[p].recoveries
                                 /\ \A m \in S : Passed(m, seat[p])
  BY DEF Consumed
<1>2. \A m \in S : Passed(m, seat'[p])  BY <1>1 DEF Passed, SameCursor
<1> QED BY <1>1, <1>2 DEF SameCursor

\* The completion the cursor is at is a new one, and the cursor passes it.
LEMMA ConsumedOne ==
  ASSUME IInv, Consumed, NEW p \in Player, NEW m \in net[p], net' = net,
         m[1] = seat[p].idx, m[2] = seat[p].draft,
         \A q \in Player \ {p} : SameCursor(q),
         \/ /\ seat'[p].idx = seat[p].idx + 1 /\ seat'[p].draft = 0
            /\ seat'[p].recoveries = seat[p].recoveries
         \/ /\ seat'[p].idx = seat[p].idx /\ seat'[p].draft = seat[p].draft + 1
            /\ seat'[p].recoveries = seat[p].recoveries + 1
  PROVE  Consumed'
<1> SUFFICES ASSUME NEW q \in Human
             PROVE  \E S \in SUBSET net[q] :
                      /\ Cardinality(S) = seat'[q].idx + seat'[q].recoveries
                      /\ \A n \in S : Passed(n, seat'[q])
  BY DEF Consumed, Human, Passed
<1>1. /\ IsFiniteSet(net[q])
      /\ net[q] \subseteq Nat \X Nat
      /\ seat[q].idx \in Nat /\ seat[q].draft \in Nat /\ seat[q].recoveries \in Nat
      /\ q \in Player
  BY TimeTypes DEF Consumed, IInv, TypeOK, Human, SeatRecord
<1>2. PICK S \in SUBSET net[q] : /\ Cardinality(S) = seat[q].idx + seat[q].recoveries
                                 /\ \A n \in S : Passed(n, seat[q])
  BY DEF Consumed
<1>3. CASE q # p
  <2>1. SameCursor(q)  BY <1>1, <1>3
  <2>2. \A n \in S : Passed(n, seat'[q])  BY <1>2, <2>1 DEF Passed, SameCursor
  <2> QED BY <1>2, <2>1, <2>2 DEF SameCursor
<1>4. CASE q = p
  <2>1. IsFiniteSet(S)  BY <1>1, <1>2, FS_Subset
  <2>2. m \notin S
    BY <1>1, <1>2, <1>4 DEF Passed
  <2>3. Cardinality(S \cup {m}) = Cardinality(S) + 1
    BY <2>1, <2>2, FS_AddElement
  <2>4. S \cup {m} \in SUBSET net[q]  BY <1>4
  <2>5. Cardinality(S \cup {m}) = seat'[q].idx + seat'[q].recoveries
    BY <1>1, <1>2, <1>4, <2>3
  <2>6. ASSUME NEW n \in S \cup {m} PROVE Passed(n, seat'[q])
    <3>1. n[1] \in Nat /\ n[2] \in Nat  BY <1>1, <2>4
    <3>2. Passed(n, seat[q]) \/ n = m  BY <1>2
    <3> QED BY <1>1, <1>4, <3>1, <3>2 DEF Passed
  <2> QED BY <2>4, <2>5, <2>6
<1> QED BY <1>3, <1>4

LEMMA ConsumedAdvance ==
  ASSUME IInv, Consumed, NEW now \in Nat, AdvanceCombat(now), net' = net
  PROVE  Consumed'
<1>0. \A q \in Human : q \in Player /\ IsFiniteSet(net'[q])  BY DEF Consumed, Human
<1>1. CASE OpponentFirst(now)
  <2>1. PICK o \in Scripted : OpponentAct(o)  BY <1>1 DEF AdvanceCombat
  <2>2. o \in Player /\ Cardinality(Player) = 2  BY SeatAssumption
  <2>3. CASE UNCHANGED seat
    BY <1>0, <2>3, ConsumedKept DEF SameCursor
  <2>4. CASE Standing(seat) = Player /\ CommitCast(o, nextAction)
    <3>1. Cardinality(Standing(seat)) >= 2 /\ nextAction \in Int
      BY <2>2, <2>4 DEF IInv, TypeOK
    <3>2. \A q \in Player \ {o} : seat'[q] = seat[q]
      BY <2>2, <2>4, <3>1, CastParts DEF IInv
    <3>3. \A q \in Human : SameCursor(q)
      BY <3>2 DEF Human, SameCursor
    <3> QED BY <1>0, <3>3, ConsumedKept
  <2> QED BY <2>1, <2>3, <2>4 DEF OpponentAct
<1>2. CASE ~OpponentFirst(now)
  <2>1. Settlement(now)  BY <1>2 DEF AdvanceCombat
  <2>2. CASE seat' = seat
    BY <1>0, <2>2, ConsumedKept DEF SameCursor
  <2>3. CASE Land
    <3>1. \A q \in Player : SameCursor(q)  BY <2>3, LandParts DEF IInv, SameCursor
    <3> QED BY <1>0, <3>1, ConsumedKept
  <2> QED BY <2>1, <2>2, <2>3 DEF Settlement
<1> QED BY <1>1, <1>2

LEMMA ConsumedStep == IInv /\ Consumed /\ [Next]_vars => Consumed'
<1> SUFFICES ASSUME IInv, Consumed, [Next]_vars PROVE Consumed'  OBVIOUS
<1>0. /\ clock \in Nat /\ job.now \in Nat
      /\ \A q \in Human : q \in Player /\ IsFiniteSet(net[q])
      /\ net \in [Player -> SUBSET (Nat \X Nat)]
  BY TimeTypes DEF Consumed, IInv, TypeOK, Human
<1>1. CASE UNCHANGED <<seat, net>>
  BY <1>0, <1>1, ConsumedKept DEF SameCursor
<1>2. CASE Tick \/ Crash \/ CheckOpening \/ (\E p \in Player : BeginLeave(p))
           \/ UNCHANGED vars
  BY <1>1, <1>2 DEF Tick, Crash, CheckOpening, BeginLeave, match, vars
<1>3. CASE OpenFight
  <2>1. net' = net /\ \A q \in Human : SameCursor(q)
    BY <1>0, <1>3, OpenParts DEF OpenFight, IInv, SameRow, SameCursor
  <2> QED BY <1>0, <2>1, ConsumedKept
<1>4. CASE Advance \/ DrainForLeave
  BY <1>0, <1>4, ConsumedAdvance DEF Advance, DrainForLeave
<1>5. CASE \E p \in Player : Type(p)
  <2>1. PICK p \in Player : Type(p)  BY <1>5
  <2>2. /\ net' = [net EXCEPT ![p] = net[p] \cup {<<seat[p].idx, seat[p].draft>>}]
        /\ seat' = seat
    BY <2>1 DEF Type, match
  <2>3. \A q \in Human : net[q] \subseteq net'[q] /\ IsFiniteSet(net'[q])
    BY <1>0, <2>2, FS_AddElement
  <2> QED BY <2>2, <2>3, ConsumedKept DEF SameCursor
<1>6. CASE \E p \in Player : EndLeave(p)
  <2>1. PICK p \in Player : EndLeave(p)  BY <1>6
  <2>2. net' = net  BY <2>1 DEF EndLeave
  <2>3. CASE LeaveFinished(p)
    BY <1>1, <2>2, <2>3 DEF LeaveFinished
  <2>4. CASE Forfeit(p)
    <3>1. \A q \in Player : SameCursor(q)  BY <2>4, ForfeitParts DEF IInv, SameCursor
    <3> QED BY <1>0, <2>2, <3>1, ConsumedKept
  <2> QED BY <2>1, <2>3, <2>4 DEF EndLeave
<1>7. CASE \E p \in Player : \E m \in net[p] : Judge(p, m)
  <2>1. PICK p \in Player : \E m \in net[p] : Judge(p, m)  BY <1>7
  <2>2. PICK m \in net[p] : Judge(p, m)  BY <2>1
  <2>3. net' = net /\ m[1] = seat[p].idx /\ m[2] = seat[p].draft /\ seat[p].out = None
    BY <2>2 DEF Judge, Current
  <2>4. CASE seat' = seat
    BY <1>1, <2>3, <2>4
  <2>5. CASE RejectEarly(p)
    <3>1. /\ \A q \in Player \ {p} : SameCursor(q)
          /\ seat'[p].idx = seat[p].idx /\ seat'[p].draft = seat[p].draft + 1
          /\ seat'[p].recoveries = seat[p].recoveries + 1
      BY <2>5, RejectParts DEF IInv, SameCursor
    <3> QED BY <2>3, <3>1, ConsumedOne
  <2>6. CASE Standing(seat) # {p} /\ CommitCast(p, clock)
    <3>1. p \in Standing(seat) /\ Standing(seat) \in SUBSET Player  BY <2>3 DEF Standing
    <3>2. PICK r \in Standing(seat) : r # p  BY <2>6, <3>1
    <3>3. Cardinality(Standing(seat)) >= 2  BY <3>1, <3>2, TwoSeats
    <3>4. clock \in Int  BY <1>0
    <3>5. /\ \A q \in Player \ {p} : SameCursor(q)
          /\ seat'[p].idx = seat[p].idx + 1 /\ seat'[p].draft = 0
          /\ seat'[p].recoveries = seat[p].recoveries
      BY <2>6, <3>3, <3>4, CastParts DEF IInv, SameCursor
    <3> QED BY <2>3, <3>5, ConsumedOne
  <2> QED BY <2>2, <2>4, <2>5, <2>6 DEF Judge
<1> QED BY <1>2, <1>3, <1>4, <1>5, <1>6, <1>7 DEF Next

LEMMA ConsumedBounds == IInv /\ Consumed => CompletionsConsumedOnce
<1> SUFFICES ASSUME IInv, Consumed, NEW p \in Human
             PROVE  seat[p].idx + seat[p].recoveries <= Cardinality(net[p])
  BY DEF CompletionsConsumedOnce
<1>1. PICK S \in SUBSET net[p] : Cardinality(S) = seat[p].idx + seat[p].recoveries
  BY DEF Consumed
<1>2. IsFiniteSet(net[p])  BY DEF Consumed
<1> QED BY <1>1, <1>2, FS_Subset

\* In every match each completion a client typed moves its cursor or its draft once at most,
\* however often, late and out of order its frames arrive (combat.ts judge).
THEOREM CompletionsOnce == Spec => []CompletionsConsumedOnce
<1>1. Init => Consumed
  <2> SUFFICES ASSUME Init, NEW p \in Human
               PROVE  /\ IsFiniteSet(net[p])
                      /\ \E S \in SUBSET net[p] :
                           /\ Cardinality(S) = seat[p].idx + seat[p].recoveries
                           /\ \A m \in S : Passed(m, seat[p])
    BY DEF Consumed
  <2>1. net[p] = {} /\ seat[p].idx = 0 /\ seat[p].recoveries = 0  BY DEF Init, Human
  <2>2. IsFiniteSet({}) /\ Cardinality({}) = 0  BY FS_EmptySet
  <2> QED BY <2>1, <2>2
<1> QED BY <1>1, ConsumedStep, ConsumedBounds, Invariance, PTL DEF Spec

-----------------------------------------------------------------------------
(* Damage is shared in whole units *)

\* The damage of a window, in all and of each caster, is a whole number of points.
WholePoints == volley.total % 6 = 0 /\ \A p \in Player : volley.power[p] % 6 = 0

\* Six units make a point, and a point can be shared by one, two or three.
LEMMA PointsAdd ==
  ASSUME NEW a \in Nat, a % 6 = 0, NEW n \in Nat
  PROVE  (a + n * 6) % 6 = 0
  OBVIOUS

LEMMA PointsShare ==
  ASSUME NEW a \in Nat, NEW b \in Nat, a % 6 = 0, b % 6 = 0, b <= a, NEW d \in {1, 2, 3}
  PROVE  (a - b) % d = 0
<1>1. CASE d = 1  BY <1>1
<1>2. CASE d = 2  BY <1>2
<1>3. CASE d = 3  BY <1>3
<1> QED BY <1>1, <1>2, <1>3

\* What a step can do to the window.
LEMMA WindowMoves ==
  ASSUME IInv, [Next]_vars
  PROVE  \/ volley' = volley
         \/ volley' = NoVolley
         \/ \E p \in Player, at \in Int :
              Cardinality(Standing(seat)) >= 2 /\ CommitCast(p, at)
<1>0. clock \in Int /\ nextAction \in Int  BY TimeTypes
<1>1. CASE Tick \/ Crash \/ OpenFight \/ CheckOpening \/ UNCHANGED vars
  BY <1>1 DEF Tick, Crash, OpenFight, CheckOpening, match, vars
<1>2. CASE \E p \in Player : Type(p) \/ BeginLeave(p) \/ EndLeave(p)
  BY <1>2 DEF Type, BeginLeave, EndLeave, LeaveFinished, Forfeit, match
<1>3. ASSUME NEW now \in Nat, AdvanceCombat(now)
      PROVE  \/ volley' = volley
             \/ volley' = NoVolley
             \/ \E p \in Player, at \in Int :
                  Cardinality(Standing(seat)) >= 2 /\ CommitCast(p, at)
  <2>1. CASE OpponentFirst(now)
    <3>1. PICK o \in Scripted : OpponentAct(o)  BY <1>3, <2>1 DEF AdvanceCombat
    <3>2. o \in Player /\ Cardinality(Player) = 2  BY SeatAssumption
    <3>3. volley' = volley \/ (Standing(seat) = Player /\ CommitCast(o, nextAction))
      BY <3>1 DEF OpponentAct
    <3>4. Cardinality(Player) >= 2  BY <3>2
    <3> QED BY <1>0, <3>2, <3>3, <3>4
  <2>2. CASE ~OpponentFirst(now)
    BY <1>3, <2>2 DEF AdvanceCombat, Settlement, Land
  <2> QED BY <2>1, <2>2
<1>4. CASE Advance \/ DrainForLeave
  BY <1>3, <1>4, TimeTypes DEF Advance, DrainForLeave
<1>5. CASE \E p \in Player : \E m \in net[p] : Judge(p, m)
  <2>1. PICK p \in Player : \E m \in net[p] : Judge(p, m)  BY <1>5
  <2>2. volley' = volley \/ (/\ Standing(seat) # {p} /\ seat[p].out = None
                             /\ CommitCast(p, clock))
    BY <2>1 DEF Judge, Current, RejectEarly
  <2>3. CASE Standing(seat) # {p} /\ seat[p].out = None /\ CommitCast(p, clock)
    <3>1. p \in Standing(seat) /\ Standing(seat) \in SUBSET Player  BY <2>3 DEF Standing
    <3>2. PICK r \in Standing(seat) : r # p  BY <2>3, <3>1
    <3>3. Cardinality(Standing(seat)) >= 2  BY <3>1, <3>2, TwoSeats
    <3> QED BY <1>0, <2>3, <3>3
  <2> QED BY <2>2, <2>3
<1> QED BY <1>1, <1>2, <1>4, <1>5 DEF Next

LEMMA PointsStep == IInv /\ WholePoints /\ [Next]_vars => WholePoints'
<1> SUFFICES ASSUME IInv, WholePoints, [Next]_vars PROVE WholePoints'  OBVIOUS
<1>1. CASE volley' = volley  BY <1>1 DEF WholePoints
<1>2. CASE volley' = NoVolley  BY <1>2, NoVolleyType DEF WholePoints
<1>3. ASSUME NEW p \in Player, NEW at \in Int, Cardinality(Standing(seat)) >= 2,
             CommitCast(p, at)
      PROVE  WholePoints'
  <2> DEFINE window == CastWindow(at)
             units == Power(seat[p].idx) * HealthScale
  <2>1. /\ window \in VolleyRecord
        /\ volley'.total = window.total + units
        /\ volley'.power = [window.power EXCEPT ![p] = window.power[p] + units]
    BY <1>3, CastParts DEF IInv
  <2>2. window.total % 6 = 0 /\ \A q \in Player : window.power[q] % 6 = 0
    <3>1. CASE volley # NoVolley  BY <3>1 DEF CastWindow, WholePoints
    <3>2. CASE volley = NoVolley
      <4>1. window.total = NoVolley.total /\ window.power = NoVolley.power
        BY <3>2 DEF CastWindow, OpenWindow, NoVolley
      <4> QED BY <4>1, NoVolleyType
    <3> QED BY <3>1, <3>2
  <2>3. Power(seat[p].idx) \in Nat /\ units = Power(seat[p].idx) * 6
    BY TimeTypes, PowerType DEF SeatRecord, HealthScale
  <2> HIDE DEF window, units
  <2>4. window.total \in Nat /\ window.power \in [Player -> Nat]  BY <2>1 DEF VolleyRecord
  <2>5. volley'.total % 6 = 0  BY <2>1, <2>2, <2>3, <2>4, PointsAdd
  <2>6. ASSUME NEW q \in Player PROVE volley'.power[q] % 6 = 0
    BY <2>1, <2>2, <2>3, <2>4, PointsAdd
  <2> QED BY <2>5, <2>6 DEF WholePoints
<1> QED BY <1>1, <1>2, <1>3, WindowMoves

LEMMA PointsDivide == IInv /\ WholePoints => SharesAreExact
<1> SUFFICES ASSUME IInv, WholePoints, volley # NoVolley, NEW p \in Player
             PROVE  (volley.total - volley.power[p]) % (Cardinality(volley.roster) - 1) = 0
  BY DEF SharesAreExact
<1>1. /\ volley.total \in Nat /\ volley.power[p] \in Nat /\ volley.power[p] <= volley.total
      /\ volley.total % 6 = 0 /\ volley.power[p] % 6 = 0
      /\ volley.roster \in SUBSET Player /\ Cardinality(volley.roster) >= 2
  BY TimeTypes DEF IInv, WindowOpen, WholePoints, VolleyRecord
<1>2. Cardinality(volley.roster) <= Cardinality(Player) /\ Cardinality(Player) \in Nat
  BY <1>1, SeatsFinite, SeatAssumption, FS_Subset
<1>3. Cardinality(volley.roster) - 1 \in {1, 2, 3}
  BY <1>1, <1>2, SeatsFinite, RoomAssumption
<1> QED BY <1>1, <1>3, PointsShare

\* In a room of any size the game allows, for any spells, the damage of a window divides
\* evenly among those it is shared by (volleys.ts, HEALTH_SCALE).
THEOREM SharesDivide == Spec => []SharesAreExact
<1>1. Init => WholePoints  BY NoVolleyType DEF Init, WholePoints
<1> QED BY <1>1, PointsStep, PointsDivide, Invariance, PTL DEF Spec

-----------------------------------------------------------------------------
(* Ranks *)

\* The seats that did strictly better than p.
Above(f, p) == {q \in Player : Better(f, q, p)}

\* Doing better is transitive, and what is level with a seat is below whatever is above it.
LEMMA BetterOrder ==
  ASSUME NEW f \in [Player -> SeatRecord], NEW p \in Player, NEW q \in Player, NEW r \in Player
  PROVE  /\ ~Better(f, p, p)
         /\ Better(f, p, q) /\ Better(f, q, r) => Better(f, p, r)
         /\ Better(f, p, r) => Better(f, p, q) \/ Better(f, q, r)
<1>1. \A s \in Player : f[s].out \in Int /\ f[s].hp \in Int  BY DEF SeatRecord
<1> QED BY <1>1 DEF Better

\* Strictly more seats are above the one that did worse, and equally many above equals.
LEMMA AboveOrder ==
  ASSUME NEW f \in [Player -> SeatRecord], NEW p \in Player, NEW q \in Player
  PROVE  /\ Cardinality(Above(f, p)) \in 0 .. Cardinality(Player) - 1
         /\ Better(f, q, p) => Cardinality(Above(f, q)) < Cardinality(Above(f, p))
         /\ ~Better(f, q, p) /\ ~Better(f, p, q) => Above(f, q) = Above(f, p)
<1>0. /\ Above(f, p) \in SUBSET Player /\ Above(f, q) \in SUBSET Player
      /\ IsFiniteSet(Above(f, p)) /\ Cardinality(Above(f, p)) \in Nat
      /\ IsFiniteSet(Above(f, q)) /\ Cardinality(Above(f, q)) \in Nat
      /\ Cardinality(Player) \in Nat
  BY SeatsFinite, SeatAssumption, FS_CardinalityType DEF Above
<1>1. Cardinality(Above(f, p)) < Cardinality(Player)
  <2>1. p \notin Above(f, p)  BY BetterOrder DEF Above
  <2>2. Above(f, p) \subseteq Player \ {p}  BY <1>0, <2>1
  <2>3. /\ IsFiniteSet(Player \ {p})
        /\ Cardinality(Player \ {p}) = Cardinality(Player) - 1
    BY SeatAssumption, FS_RemoveElement
  <2>4. Cardinality(Above(f, p)) <= Cardinality(Player \ {p})  BY <2>2, <2>3, FS_Subset
  <2> QED BY <1>0, <2>3, <2>4
<1>2. ASSUME Better(f, q, p)
      PROVE  Cardinality(Above(f, q)) < Cardinality(Above(f, p))
  <2>1. Above(f, q) \subseteq Above(f, p)  BY <1>2, BetterOrder DEF Above
  <2>2. q \in Above(f, p) /\ q \notin Above(f, q)  BY <1>2, BetterOrder DEF Above
  <2>3. Above(f, q) \subseteq Above(f, p) \ {q}  BY <2>1, <2>2
  <2>4. /\ IsFiniteSet(Above(f, p) \ {q})
        /\ Cardinality(Above(f, p) \ {q}) = Cardinality(Above(f, p)) - 1
    BY <1>0, <2>2, FS_RemoveElement
  <2>5. Cardinality(Above(f, q)) <= Cardinality(Above(f, p) \ {q})
    BY <2>3, <2>4, FS_Subset
  <2> QED BY <1>0, <2>4, <2>5
<1>3. ASSUME ~Better(f, q, p), ~Better(f, p, q)
      PROVE  Above(f, q) = Above(f, p)
  BY <1>3, BetterOrder DEF Above
<1> QED BY <1>0, <1>1, <1>2, <1>3

\* What a settlement has recorded is what the seats still show: the ranks a snapshot works
\* out again later are those in the history (match.ts, snapshots.ts).  Where the match was
\* decided by eliminations one seat at most stands among those that play for a rank.
Outcome ==
  phase = "finished" =>
    /\ result.reason \in {"elimination", "timeout", "bot_concession", "inactivity"}
    /\ result.rank = Ranks(seat, result.reason)
    /\ result.reason = "elimination" =>
         \A p \in Human, q \in Player : seat[p].out = None /\ q # p => seat[q].out # None
    /\ result.reason \in {"bot_concession", "inactivity"} => opponent = "bot"

\* At most one of a decided set of seats stands.
LEMMA OneStands ==
  ASSUME Decided, NEW p \in Player, NEW q \in Player, q # p, seat'[p].out = None
  PROVE  seat'[q].out # None
<1> SUFFICES ASSUME seat'[q].out = None PROVE FALSE  OBVIOUS
<1>1. Standing(seat') \in SUBSET Player /\ p \in Standing(seat') /\ q \in Standing(seat')
  BY DEF Standing
<1>2. Cardinality(Standing(seat')) >= 2  BY <1>1, TwoSeats
<1> QED BY <1>1, <1>2, SeatsFinite DEF Decided

\* A bot has one opponent.
LEMMA OneHuman ==
  ASSUME Scripted # {}, NEW p \in Human, NEW q \in Human
  PROVE  p = q
<1> SUFFICES ASSUME p # q PROVE FALSE  OBVIOUS
<1>1. PICK s \in Scripted : TRUE  OBVIOUS
<1>2. /\ Scripted \subseteq Player /\ IsFiniteSet(Player) /\ Cardinality(Player) = 2
      /\ p \in Player /\ q \in Player /\ p # s /\ q # s
  BY SeatAssumption DEF Human
<1>3. Cardinality(Player \ {s}) = 1
  <2>1. s \in Player  BY <1>2
  <2>2. Cardinality(Player \ {s}) = Cardinality(Player) - 1
    BY <1>2, <2>1, FS_RemoveElement
  <2> QED BY <1>2, <2>2
<1>4. Cardinality(Player \ {s}) >= 2
  BY <1>2, TwoSeats
<1> QED BY <1>3, <1>4

LEMMA FinishOutcome ==
  ASSUME IInv, NEW reason \in {"elimination", "timeout"}, NEW at, Finish(reason, at),
         volley' = NoVolley, opponent' = opponent, reason = "elimination" => Decided
  PROVE  Outcome'
<1> DEFINE final == TerminalReason(seat', reason, at)
<1>1. /\ phase' = "finished"
      /\ result'.reason = final /\ result'.rank = Ranks(seat', final)
  BY DEF Finish
<1>2. final \in {"elimination", "timeout", "bot_concession", "inactivity"}
  BY DEF TerminalReason
<1>3. final \in {"bot_concession", "inactivity"} => opponent = "bot"
  BY DEF TerminalReason
<1>4. ASSUME final = "elimination", NEW p \in Human, NEW q \in Player,
             seat'[p].out = None, q # p
      PROVE  seat'[q].out # None
  <2>1. CASE reason = "elimination"
    BY <1>4, <2>1, OneStands DEF Human
  <2>2. CASE reason = "timeout"
    <3>1. opponent = "bot" /\ \E r \in Human : seat'[r].out # None
      BY <1>4, <2>2 DEF TerminalReason
    <3>2. Scripted # {}  BY <3>1 DEF IInv, TypeOK, OpponentKind
    <3> QED BY <1>4, <3>1, <3>2, OneHuman
  <2> QED BY <2>1, <2>2
<1> HIDE DEF final
<1>5. Ranks(seat, result.reason)' = Ranks(seat', final)
  BY <1>1 DEF Ranks, Better
<1> QED BY <1>1, <1>2, <1>3, <1>4, <1>5 DEF Outcome, Human

\* How a match comes to be settled.
LEMMA AdvanceSettles ==
  ASSUME IInv, NEW now \in Nat, AdvanceCombat(now), phase' # phase
  PROVE  \E reason \in {"elimination", "timeout"} : \E at :
           Finish(reason, at) /\ volley' = NoVolley /\ (reason = "elimination" => Decided)
<1>1. ~OpponentFirst(now) /\ Settlement(now)  BY DEF AdvanceCombat
<1>2. ~PlayOn  BY DEF PlayOn
<1>3. volley' = NoVolley
  <2>1. CASE VolleyDue(now)  BY <1>1, <2>1 DEF Settlement, Land
  <2>2. CASE ~VolleyDue(now)
    <3>1. now >= Deadline => volley = NoVolley
      BY <2>2, TimeTypes DEF VolleyDue, IInv, WindowOpen
    <3> QED BY <1>1, <2>2, <3>1 DEF Settlement
  <2> QED BY <2>1, <2>2
<1>4. \/ Decided /\ Finish("elimination", volley.endsAt)
      \/ Decided /\ Finish("elimination", Lower(now, Deadline))
      \/ Finish("timeout", Deadline)
  BY <1>1, <1>2 DEF Settlement
<1> QED BY <1>3, <1>4

LEMMA SettlementCauses ==
  ASSUME IInv, [Next]_vars, phase # "finished", phase' = "finished"
  PROVE  \E reason \in {"elimination", "timeout"} : \E at :
           Finish(reason, at) /\ volley' = NoVolley /\ (reason = "elimination" => Decided)
<1>1. ~PlayOn /\ phase' # phase  BY DEF PlayOn
<1>2. CASE CheckOpening
  <2>1. volley' = NoVolley  BY <1>2 DEF CheckOpening, IInv, FreshFight
  <2> QED BY <1>1, <1>2, <2>1 DEF CheckOpening
<1>3. CASE Advance \/ DrainForLeave
  BY <1>1, <1>3, AdvanceSettles, TimeTypes DEF Advance, DrainForLeave
<1>4. CASE \E p \in Player : EndLeave(p)
  <2>1. PICK p \in Player : EndLeave(p)  BY <1>4
  <2>2. Forfeit(p)  BY <1>1, <2>1 DEF EndLeave, LeaveFinished
  <2> QED BY <1>1, <2>2 DEF Forfeit
<1>5. CASE \E p \in Player : \E m \in net[p] : Judge(p, m)
  <2>1. PICK p \in Player : \E m \in net[p] : Judge(p, m)  BY <1>5
  <2>2. /\ Standing(seat) = {p} /\ volley = NoVolley /\ UNCHANGED <<seat, volley>>
        /\ Finish("elimination", Lower(clock, Deadline))
    BY <1>1, <2>1 DEF Judge, RejectEarly
  <2>3. Standing(seat') = {p}  BY <2>2 DEF Standing
  <2>4. Decided  BY <2>3, FS_Singleton DEF Decided
  <2> QED BY <2>2, <2>4
<1> QED
  BY <1>1, <1>2, <1>3, <1>4, <1>5
     DEF Next, Tick, Crash, OpenFight, Type, BeginLeave, match, vars

LEMMA OpponentKept == [Next]_vars => opponent' = opponent
  BY DEF Next, Tick, Crash, OpenFight, CheckOpening, Advance, DrainForLeave, Type,
         BeginLeave, EndLeave, Judge, vars

LEMMA OutcomeStep == IInv /\ Outcome /\ [Next]_vars => Outcome'
<1> SUFFICES ASSUME IInv, Outcome, [Next]_vars PROVE Outcome'  OBVIOUS
<1>1. opponent' = opponent  BY OpponentKept
<1>2. CASE phase = "finished"
  <2>1. UNCHANGED <<phase, seat, result>>  BY <1>2, StepEffect DEF Effect
  <2>2. Ranks(seat, result.reason)' = Ranks(seat, result.reason)
    BY <2>1 DEF Ranks, Better
  <2> QED BY <1>1, <1>2, <2>1, <2>2 DEF Outcome, Human
<1>3. CASE phase # "finished" /\ phase' = "finished"
  BY <1>1, <1>3, SettlementCauses, FinishOutcome
<1>4. CASE phase' # "finished"
  BY <1>4 DEF Outcome
<1> QED BY <1>2, <1>3, <1>4

LEMMA OutcomeInvariance == Spec => []Outcome
<1>1. Init => Outcome  BY DEF Init, Outcome
<1> QED BY <1>1, OutcomeStep, Invariance, PTL DEF Spec

\* The ranks of a match that was decided by play: who did strictly better has the strictly
\* better rank, equals share theirs, and no rank exceeds the number of seats.
FairRanks ==
  phase = "finished" /\ result.reason \in {"elimination", "timeout"} =>
    \A p, q \in Human :
      /\ result.rank[p] \in 1 .. Cardinality(Player)
      /\ Better(seat, q, p) => result.rank[q] < result.rank[p]
      /\ ~Better(seat, q, p) /\ ~Better(seat, p, q) => result.rank[q] = result.rank[p]

\* Whoever still stands when eliminations end a match has won it.
SurvivorWins ==
  phase = "finished" /\ result.reason = "elimination" =>
    \A p \in Human : seat[p].out = None => result.rank[p] = 1

LEMMA OutcomeIsFair == IInv /\ Outcome => FairRanks /\ SurvivorWins
<1> SUFFICES ASSUME IInv, Outcome, phase = "finished",
                    result.reason \in {"elimination", "timeout"}
             PROVE  FairRanks /\ SurvivorWins
  BY DEF FairRanks, SurvivorWins
<1>1. \A p \in Human : result.rank[p] = 1 + Cardinality(Above(seat, p))
  BY DEF Outcome, Ranks, Above
<1>2. seat \in [Player -> SeatRecord] /\ Cardinality(Player) \in Nat
  BY TimeTypes, SeatAssumption, FS_CardinalityType
<1>3. ASSUME NEW p \in Human, NEW q \in Human
      PROVE  /\ result.rank[p] \in 1 .. Cardinality(Player)
             /\ Better(seat, q, p) => result.rank[q] < result.rank[p]
             /\ ~Better(seat, q, p) /\ ~Better(seat, p, q) => result.rank[q] = result.rank[p]
  <2>1. p \in Player /\ q \in Player  BY DEF Human
  <2>2. /\ Cardinality(Above(seat, p)) \in 0 .. Cardinality(Player) - 1
        /\ Cardinality(Above(seat, q)) \in 0 .. Cardinality(Player) - 1
        /\ Better(seat, q, p) => Cardinality(Above(seat, q)) < Cardinality(Above(seat, p))
        /\ ~Better(seat, q, p) /\ ~Better(seat, p, q) => Above(seat, q) = Above(seat, p)
    BY <1>2, <2>1, AboveOrder
  <2> QED BY <1>1, <1>2, <2>2
<1>4. ASSUME NEW p \in Human, seat[p].out = None, result.reason = "elimination"
      PROVE  result.rank[p] = 1
  <2>1. p \in Player /\ ~Better(seat, p, p)  BY <1>2, BetterOrder DEF Human
  <2>2. \A q \in Player : q # p => seat[q].out # None  BY <1>4 DEF Outcome
  <2>3. Above(seat, p) = {}  BY <1>4, <2>1, <2>2 DEF Above, Better
  <2> QED BY <1>1, <2>3, FS_EmptySet
<1> QED BY <1>3, <1>4 DEF FairRanks, SurvivorWins

\* However a match went that eliminations or the clock have ended: who did strictly better
\* has the better rank, equals share theirs, and the one survivor of eliminations has won
\* (scoring.ts survivalRanks).
THEOREM RanksAreFair == Spec => [](FairRanks /\ SurvivorWins)
<1> QED BY OutcomeInvariance, OutcomeIsFair, Invariance, PTL

\* What a settled match has recorded stays what its seats show: ranks that a snapshot works
\* out again later are those in the history (match.ts, snapshots.ts).
THEOREM OutcomeStands == Spec => []Outcome
  BY OutcomeInvariance
=============================================================================
