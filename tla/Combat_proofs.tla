---------------------------- MODULE Combat_proofs ----------------------------
(***************************************************************************)
(* Safety of Combat for every value of its constants, and the proof that   *)
(* it implements CastLedger.                                               *)
(***************************************************************************)
EXTENDS Combat, FiniteSetTheorems, TLAPS

USE TimeAssumption, ValueAssumption DEF None

-----------------------------------------------------------------------------
(* The inductive invariant *)

SeatRecord == [hp : Int, out : Int, idx : Nat, opened : Int, draft : Nat, recoveries : Nat]

VolleyRecord == [endsAt : Int, roster : SUBSET Player, total : Nat, power : [Player -> Nat],
                 casts : [Player -> Nat], at : SUBSET Int]

\* Health is never below zero.
HealthLeft == \A p \in Player : seat[p].hp >= 0

\* A window is open only in a fight, ends within the match, is aimed at two seats or more,
\* and nobody's share of it exceeds the whole.
WindowOpen ==
  /\ volley # NoVolley => /\ phase = "playing"
                          /\ volley.endsAt <= Deadline
                          /\ Cardinality(volley.roster) >= 2
  /\ \A p \in Player : volley.power[p] <= volley.total

\* Between the two transactions that open combat nobody has acted yet.
FreshFight == job.kind = "opened" => phase = "playing" /\ volley = NoVolley

\* Who has left a match that goes on is out of it.
LeaversOut == \A p \in departed : phase # "finished" => seat[p].out # None

IInv ==
  /\ TypeOK
  /\ CastsAccounted
  /\ NeverUnsettled
  /\ HealthLeft
  /\ WindowOpen
  /\ FreshFight
  /\ LeaversOut

-----------------------------------------------------------------------------
(* Arithmetic and sets *)

\* A share of a non-negative total is a non-negative number.
LEMMA DivNat == \A a \in Nat, b \in Nat \ {0} : a \div b \in Nat
  OBVIOUS

\* Windows start at whole instants.
LEMMA WindowStartType == \A at \in Int : WindowStart(at) \in Int
<1> TAKE at \in Int
<1>1. at - Opening \in Int  OBVIOUS
<1>2. (at - Opening) \div Batch \in Int  BY <1>1
<1>3. ((at - Opening) \div Batch) * Batch \in Int  BY <1>2
<1> QED BY <1>3 DEF WindowStart

\* The damage of a spell is a whole number of points, and of units.
LEMMA PowerType == \A i \in Nat : Power(i) \in Nat /\ Power(i) * HealthScale \in Nat
<1> TAKE i \in Nat
<1>1. Len(Book) \in Nat \ {0}  BY BookAssumption
<1>2. i % Len(Book) \in 0 .. Len(Book) - 1  BY <1>1
<1>3. (i % Len(Book)) + 1 \in 1 .. Len(Book)  BY <1>1, <1>2
<1>4. Power(i) \in Nat  BY <1>3, BookAssumption DEF Power
<1> QED BY <1>4 DEF HealthScale

\* Seats form finite sets.
LEMMA SeatsFinite == \A s \in SUBSET Player : IsFiniteSet(s) /\ Cardinality(s) \in Nat
  BY SeatAssumption, FS_Subset, FS_CardinalityType

\* A set of seats with two different members has at least two.
LEMMA TwoSeats ==
  ASSUME NEW s \in SUBSET Player, NEW p \in s, NEW q \in s, p # q
  PROVE  Cardinality(s) >= 2
<1>1. IsFiniteSet({p}) /\ Cardinality({p}) = 1  BY FS_Singleton
<1>2. IsFiniteSet({p} \cup {q}) /\ Cardinality({p} \cup {q}) = 2
  BY <1>1, FS_AddElement, q \notin {p}
<1>3. {p} \cup {q} \subseteq s  OBVIOUS
<1>4. Cardinality({p} \cup {q}) <= Cardinality(s)  BY <1>3, SeatsFinite, FS_Subset
<1> QED BY <1>2, <1>4, SeatsFinite

-----------------------------------------------------------------------------
(* What a step does to seats and windows *)

\* What every step of the match keeps, whichever it is.
Progress ==
  /\ seat' \in [Player -> SeatRecord]
  /\ volley' \in VolleyRecord
  /\ landed' \in [Player -> Nat]
  /\ phase' \in Phase /\ nextAction' \in Int /\ DOMAIN result'.rank = Human
  /\ \A p \in Player : /\ 0 <= seat'[p].hp /\ seat'[p].hp <= seat[p].hp
                       /\ seat[p].out # None => seat'[p] = seat[p]
  /\ CastsAccounted'
  /\ WindowOpen'
  /\ NeverUnsettled'

\* A settlement with no open window succeeds.
LEMMA FinishEffect ==
  ASSUME NEW reason, NEW at, volley' = NoVolley, Finish(reason, at)
  PROVE  /\ phase' = "finished" /\ nextAction' = None /\ thrown' = thrown
         /\ DOMAIN result'.rank = Human
  BY DEF Finish, Ranks

\* The empty window.
LEMMA NoVolleyType ==
  /\ NoVolley \in VolleyRecord
  /\ \A p \in Player : NoVolley.power[p] = 0 /\ NoVolley.casts[p] = 0
  /\ NoVolley.total = 0
  BY DEF NoVolley, VolleyRecord

\* A window that a cast opens or joins.
LEMMA WindowEffect ==
  ASSUME TypeOK, WindowOpen, NEW at \in Int,
         Cardinality(Standing(seat)) >= 2,
         NEW window, window = IF volley = NoVolley THEN OpenWindow(at) ELSE volley
  PROVE  /\ window \in VolleyRecord
         /\ window.endsAt <= Deadline
         /\ Cardinality(window.roster) >= 2
         /\ window.casts = volley.casts
         /\ \A p \in Player : window.power[p] <= window.total
<1>1. CASE volley # NoVolley
  BY <1>1 DEF TypeOK, WindowOpen, VolleyRecord
<1>2. CASE volley = NoVolley
  <2>1. WindowStart(at) \in Int  BY WindowStartType
  <2> DEFINE roster == {p \in Player : seat[p].out = None \/ seat[p].out > WindowStart(at)}
             ends == Lower(Deadline, WindowStart(at) + Batch)
  <2>2. ends \in Int /\ ends <= Deadline  BY <2>1 DEF Lower, Deadline
  <2>3. Standing(seat) \subseteq roster  BY DEF Standing
  <2>4. Cardinality(roster) >= 2
    <3>1. Cardinality(Standing(seat)) <= Cardinality(roster)
      BY <2>3, SeatsFinite, FS_Subset
    <3> QED BY <3>1, <2>3, SeatsFinite
  <2>5. window = [NoVolley EXCEPT !.endsAt = ends, !.roster = roster]
    BY <1>2 DEF OpenWindow
  <2>6. window = [endsAt |-> ends, roster |-> roster, total |-> 0,
                  power |-> [p \in Player |-> 0], casts |-> [p \in Player |-> 0], at |-> {}]
    BY <2>5 DEF NoVolley
  <2> HIDE DEF roster, ends
  <2>7. roster \subseteq Player  BY DEF roster
  <2>8. window.casts = volley.casts  BY <2>6, <1>2 DEF NoVolley
  <2> QED BY <2>2, <2>4, <2>6, <2>7, <2>8 DEF VolleyRecord
<1> QED BY <1>1, <1>2

\* A seat whose cursor moves on.
LEMMA RowEdit ==
  ASSUME NEW s \in SeatRecord, NEW i \in Nat, NEW a \in Int
  PROVE  [s EXCEPT !.idx = i, !.opened = a, !.draft = 0] \in SeatRecord
<1> DEFINE r1 == [s EXCEPT !.idx = i]
           r2 == [r1 EXCEPT !.opened = a]
           r3 == [r2 EXCEPT !.draft = 0]
<1>1. [s EXCEPT !.idx = i, !.opened = a, !.draft = 0] = r3
  BY DEF SeatRecord
<1>2. r1 \in SeatRecord  BY DEF SeatRecord
<1> HIDE DEF r1
<1>3. r2 \in SeatRecord  BY <1>2 DEF SeatRecord
<1> HIDE DEF r2
<1>4. r3 \in SeatRecord  BY <1>3 DEF SeatRecord
<1> QED BY <1>1, <1>4

\* A cast: the cursor and the window move together.
LEMMA CommitEffect ==
  ASSUME TypeOK, HealthLeft, CastsAccounted, WindowOpen, phase = "playing", phase' = phase,
         NEW p \in Player, NEW at \in Int, seat[p].out = None,
         Cardinality(Standing(seat)) >= 2,
         CommitCast(p, at), landed' = landed
  PROVE  /\ seat' \in [Player -> SeatRecord]
         /\ volley' \in VolleyRecord
         /\ \A q \in Player : /\ seat'[q].hp = seat[q].hp
                              /\ seat[q].out # None => seat'[q] = seat[q]
                              /\ seat'[q].idx = IF q = p THEN seat[p].idx + 1 ELSE seat[q].idx
                              /\ seat'[q].out = seat[q].out
         /\ CastsAccounted'
         /\ WindowOpen'
<1> DEFINE units == Power(seat[p].idx) * HealthScale
           window == IF volley = NoVolley THEN OpenWindow(at) ELSE volley
           power == [window.power EXCEPT ![p] = window.power[p] + units]
           casts == [window.casts EXCEPT ![p] = window.casts[p] + 1]
<1>0. seat \in [Player -> SeatRecord] /\ volley \in VolleyRecord /\ landed \in [Player -> Nat]
  BY DEF TypeOK, SeatRecord, VolleyRecord
<1>1. units \in Nat  BY <1>0, PowerType DEF SeatRecord
<1>2. /\ window \in VolleyRecord
      /\ window.endsAt <= Deadline
      /\ Cardinality(window.roster) >= 2
      /\ window.casts = volley.casts
      /\ \A q \in Player : window.power[q] <= window.total
  BY WindowEffect
<1>3. seat' = [seat EXCEPT ![p] = [seat[p] EXCEPT !.idx = seat[p].idx + 1,
                                                  !.opened = at, !.draft = 0]]
  BY DEF CommitCast
<1>4. volley' = [window EXCEPT !.total = window.total + units, !.power = power,
                               !.casts = casts, !.at = window.at \cup {at}]
  BY DEF CommitCast
<1> HIDE DEF window, units
<1>5. volley' = [endsAt |-> window.endsAt, roster |-> window.roster,
                 total |-> window.total + units, power |-> power, casts |-> casts,
                 at |-> window.at \cup {at}]
  BY <1>2, <1>4 DEF VolleyRecord
<1>6. power \in [Player -> Nat] /\ casts \in [Player -> Nat]
  BY <1>1, <1>2 DEF VolleyRecord
<1>7. volley' \in VolleyRecord
  <2>1. window.total + units \in Nat /\ window.at \cup {at} \in SUBSET Int
    BY <1>1, <1>2 DEF VolleyRecord
  <2> HIDE DEF power, casts
  <2> QED BY <1>2, <1>5, <1>6, <2>1 DEF VolleyRecord
<1>8. [seat[p] EXCEPT !.idx = seat[p].idx + 1, !.opened = at, !.draft = 0] \in SeatRecord
  <2>1. seat[p] \in SeatRecord  BY <1>0
  <2>2. seat[p].idx + 1 \in Nat  BY <2>1 DEF SeatRecord
  <2> QED BY <2>1, <2>2, RowEdit
<1>9. seat' \in [Player -> SeatRecord]  BY <1>0, <1>3, <1>8
<1>10. \A q \in Player : /\ seat'[q].hp = seat[q].hp
                         /\ seat[q].out # None => seat'[q] = seat[q]
                         /\ seat'[q].idx = IF q = p THEN seat[p].idx + 1 ELSE seat[q].idx
                         /\ seat'[q].out = seat[q].out
  BY <1>0, <1>3 DEF SeatRecord
<1>11. CastsAccounted'
  <2>1. volley'.casts = casts  BY <1>5
  <2>2. \A q \in Player : casts[q] = IF q = p THEN volley.casts[p] + 1 ELSE volley.casts[q]
    BY <1>0, <1>2 DEF VolleyRecord
  <2> QED BY <1>0, <1>10, <2>1, <2>2 DEF CastsAccounted, VolleyRecord, SeatRecord
<1>12. WindowOpen'
  <2>1. volley'.endsAt <= Deadline /\ Cardinality(volley'.roster) >= 2
    BY <1>2, <1>5
  <2>2. \A q \in Player : power[q] <= window.total + units
    BY <1>1, <1>2 DEF VolleyRecord
  <2>3. volley'.power = power /\ volley'.total = window.total + units  BY <1>5
  <2>4. Deadline' = Deadline  BY DEF Deadline
  <2> QED BY <2>1, <2>2, <2>3, <2>4 DEF WindowOpen
<1> QED BY <1>7, <1>9, <1>10, <1>11, <1>12

\* A landing: health falls, nobody rises, everything pending has landed.
LEMMA LandEffect ==
  ASSUME TypeOK, HealthLeft, CastsAccounted, WindowOpen, volley # NoVolley, Land
  PROVE  /\ seat' \in [Player -> SeatRecord]
         /\ landed' \in [Player -> Nat]
         /\ volley' = NoVolley
         /\ \A p \in Player : /\ 0 <= seat'[p].hp /\ seat'[p].hp <= seat[p].hp
                              /\ seat[p].out # None => seat'[p] = seat[p]
                              /\ seat'[p].idx = seat[p].idx
                              /\ landed'[p] = seat[p].idx
         /\ CastsAccounted'
         /\ WindowOpen'
<1>0. seat \in [Player -> SeatRecord] /\ volley \in VolleyRecord /\ landed \in [Player -> Nat]
  BY DEF TypeOK, SeatRecord, VolleyRecord
<1>1. volley' = NoVolley  BY DEF Land
<1>2. ASSUME NEW p \in Player
      PROVE  /\ seat'[p] \in SeatRecord
             /\ 0 <= seat'[p].hp /\ seat'[p].hp <= seat[p].hp
             /\ seat[p].out # None => seat'[p] = seat[p]
             /\ seat'[p].idx = seat[p].idx
  <2>1. CASE ~(p \in volley.roster /\ seat[p].out = None /\ Incoming(p) # 0)
    <3>1. seat'[p] = seat[p]  BY <2>1 DEF Land
    <3> QED BY <1>0, <3>1 DEF HealthLeft, SeatRecord
  <2>2. CASE p \in volley.roster /\ seat[p].out = None /\ Incoming(p) # 0
    <3>1. Incoming(p) \in Nat
      <4>1. volley.total - volley.power[p] \in Nat
        BY <1>0 DEF WindowOpen, VolleyRecord
      <4>2. Cardinality(volley.roster) - 1 \in Nat \ {0}
        BY <1>0, SeatsFinite DEF WindowOpen, VolleyRecord
      <4> QED BY <4>1, <4>2, DivNat DEF Incoming
    <3> DEFINE hit == Lower(seat[p].hp, Incoming(p))
               out == IF seat[p].hp <= Incoming(p) THEN volley.endsAt ELSE None
    <3>2. seat'[p] = [seat[p] EXCEPT !.hp = seat[p].hp - hit, !.out = out]
      BY <2>2 DEF Land
    <3>3. seat[p].hp - hit \in Int /\ 0 <= seat[p].hp - hit /\ seat[p].hp - hit <= seat[p].hp
      BY <1>0, <3>1 DEF Lower, HealthLeft, SeatRecord
    <3>4. out \in Int  BY <1>0 DEF VolleyRecord
    <3> HIDE DEF hit, out
    <3> QED BY <1>0, <2>2, <3>2, <3>3, <3>4 DEF SeatRecord
  <2> QED BY <2>1, <2>2
<1>3. seat' \in [Player -> SeatRecord]
  <2>1. seat' = [p \in Player |-> seat'[p]]  BY DEF Land
  <2> QED BY <1>2, <2>1
<1>4. landed' \in [Player -> Nat] /\ \A p \in Player : landed'[p] = seat[p].idx
  <2>1. volley.casts \in [Player -> Nat]  BY <1>0 DEF VolleyRecord
  <2>2. landed' = [p \in Player |-> landed[p] + volley.casts[p]]  BY DEF Land
  <2>3. \A p \in Player : landed[p] + volley.casts[p] \in Nat  BY <1>0, <2>1
  <2> QED BY <2>2, <2>3 DEF CastsAccounted
<1>5. CastsAccounted'
  BY <1>0, <1>1, <1>2, <1>4, NoVolleyType DEF CastsAccounted, SeatRecord
<1>6. WindowOpen'
  BY <1>1, NoVolleyType DEF WindowOpen
<1> QED BY <1>1, <1>2, <1>3, <1>4, <1>5, <1>6

-----------------------------------------------------------------------------
(* Steps *)

\* Casts are accepted one at a time, land all together, and settle when none is pending.
Quiet ==
  /\ landed' = landed
  /\ \A p \in Player : seat'[p].idx = seat[p].idx
  /\ phase' # phase /\ phase' = "finished" => volley = NoVolley

Accepts(p) ==
  /\ landed' = landed
  /\ \A q \in Player : seat'[q].idx = IF q = p THEN seat[p].idx + 1 ELSE seat[q].idx
  /\ phase = "playing" /\ phase' = phase

Lands ==
  /\ phase = "playing"
  /\ \A p \in Player : seat'[p].idx = seat[p].idx /\ landed'[p] = seat[p].idx

\* What every step keeps, and what it may never do to a settled match.
Effect ==
  /\ Progress
  /\ Quiet \/ Lands \/ \E p \in Player : Accepts(p)
  /\ phase = "finished" => UNCHANGED <<phase, seat, volley, result, landed>>

\* A step that does not touch the match.
LEMMA IdleEffect ==
  ASSUME IInv, UNCHANGED <<phase, seat, volley, nextAction, result, landed, thrown>>
  PROVE  Effect
<1>1. /\ seat' = seat /\ volley' = volley /\ landed' = landed /\ phase' = phase
      /\ nextAction' = nextAction /\ result' = result /\ thrown' = thrown
  OBVIOUS
<1>2. CastsAccounted' /\ NeverUnsettled'
  BY <1>1 DEF IInv, CastsAccounted, NeverUnsettled
<1>3. WindowOpen'  BY <1>1 DEF IInv, WindowOpen, Deadline
<1>4. /\ seat' \in [Player -> SeatRecord]
      /\ volley' \in VolleyRecord
      /\ landed' \in [Player -> Nat]
      /\ phase' \in Phase /\ nextAction' \in Int /\ DOMAIN result'.rank = Human
  BY <1>1 DEF IInv, TypeOK, SeatRecord, VolleyRecord
<1>5. \A p \in Player : /\ 0 <= seat'[p].hp /\ seat'[p].hp <= seat[p].hp
                        /\ seat[p].out # None => seat'[p] = seat[p]
  BY <1>1, <1>4 DEF IInv, HealthLeft, SeatRecord
<1> QED BY <1>1, <1>2, <1>3, <1>4, <1>5 DEF Effect, Progress, Quiet

\* A step that changes seats but no window, cursor or standing casts.
LEMMA SeatEffect ==
  ASSUME IInv, UNCHANGED <<volley, landed>>, phase # "finished",
         phase' \in Phase, nextAction' \in Int, DOMAIN result'.rank = Human,
         NeverUnsettled', volley # NoVolley => phase' = phase,
         seat' \in [Player -> SeatRecord],
         \A p \in Player : /\ 0 <= seat'[p].hp /\ seat'[p].hp <= seat[p].hp
                           /\ seat[p].out # None => seat'[p] = seat[p]
                           /\ seat'[p].idx = seat[p].idx
  PROVE  Effect
<1>1. volley' \in VolleyRecord /\ landed' \in [Player -> Nat]
  BY DEF IInv, TypeOK, VolleyRecord
<1>2. CastsAccounted'  BY DEF IInv, CastsAccounted
<1>3. WindowOpen'  BY DEF IInv, WindowOpen, Deadline
<1> QED BY <1>1, <1>2, <1>3 DEF Effect, Progress, Quiet

\* A settlement or none, of a match whose window is closed and whose seats are unchanged.
LEMMA SettleEffect ==
  ASSUME IInv, UNCHANGED <<volley, landed, seat>>, phase = "playing",
         NEW reason, NEW at,
         \/ PlayOn
         \/ volley = NoVolley /\ Finish(reason, at)
  PROVE  Effect
<1>1. CASE PlayOn
  BY <1>1, IdleEffect DEF PlayOn
<1>2. CASE volley = NoVolley /\ Finish(reason, at)
  <2>1. /\ phase' = "finished" /\ nextAction' = None /\ thrown' = thrown
        /\ DOMAIN result'.rank = Human
    BY <1>2, FinishEffect
  <2>2. NeverUnsettled'  BY <2>1 DEF IInv, NeverUnsettled
  <2>3. seat' \in [Player -> SeatRecord]  BY DEF IInv, TypeOK, SeatRecord
  <2>4. \A p \in Player : /\ 0 <= seat'[p].hp /\ seat'[p].hp <= seat[p].hp
                          /\ seat[p].out # None => seat'[p] = seat[p]
                          /\ seat'[p].idx = seat[p].idx
    BY <2>3 DEF IInv, HealthLeft, SeatRecord
  <2> QED BY <1>2, <2>1, <2>2, <2>3, <2>4, SeatEffect DEF Phase
<1> QED BY <1>1, <1>2

\* A cast is accepted while the fight goes on.
LEMMA CastEffect ==
  ASSUME IInv, phase = "playing", UNCHANGED <<phase, result, landed, thrown>>,
         NEW p \in Player, NEW at \in Int, seat[p].out = None,
         Cardinality(Standing(seat)) >= 2, CommitCast(p, at), nextAction' \in Int
  PROVE  Effect
<1>1. /\ seat' \in [Player -> SeatRecord]
      /\ volley' \in VolleyRecord
      /\ \A q \in Player : /\ seat'[q].hp = seat[q].hp
                           /\ seat[q].out # None => seat'[q] = seat[q]
      /\ Accepts(p)
      /\ CastsAccounted'
      /\ WindowOpen'
  BY CommitEffect DEF IInv, Accepts
<1>2. /\ landed' \in [Player -> Nat] /\ phase' \in Phase /\ DOMAIN result'.rank = Human
      /\ seat \in [Player -> SeatRecord] /\ HealthLeft
  BY DEF IInv, TypeOK, SeatRecord
<1>3. NeverUnsettled'  BY DEF IInv, NeverUnsettled
<1>4. \A q \in Player : 0 <= seat'[q].hp /\ seat'[q].hp <= seat[q].hp
  BY <1>1, <1>2 DEF HealthLeft, SeatRecord
<1> QED BY <1>1, <1>2, <1>3, <1>4 DEF Effect, Progress

\* Landing what is due, and the settlement that may follow in the same transaction.
LEMMA LandingEffect ==
  ASSUME IInv, phase = "playing", volley # NoVolley, Land,
         NEW reason, NEW at, Finish(reason, at) \/ PlayOn
  PROVE  Effect
<1>1. /\ seat' \in [Player -> SeatRecord]
      /\ landed' \in [Player -> Nat]
      /\ volley' = NoVolley
      /\ \A p \in Player : /\ 0 <= seat'[p].hp /\ seat'[p].hp <= seat[p].hp
                           /\ seat[p].out # None => seat'[p] = seat[p]
      /\ Lands
      /\ CastsAccounted'
      /\ WindowOpen'
  BY LandEffect DEF IInv, Lands
<1>2. /\ phase' \in Phase /\ nextAction' \in Int /\ DOMAIN result'.rank = Human
      /\ thrown' = thrown
  <2>1. CASE PlayOn  BY <2>1 DEF PlayOn, IInv, TypeOK
  <2>2. CASE Finish(reason, at)
    BY <1>1, <2>2, FinishEffect DEF Phase
  <2> QED BY <2>1, <2>2
<1>3. NeverUnsettled'  BY <1>2 DEF IInv, NeverUnsettled
<1>4. volley' \in VolleyRecord  BY <1>1, NoVolleyType
<1> QED BY <1>1, <1>2, <1>3, <1>4 DEF Effect, Progress

\* One piece of due work.
LEMMA AdvanceEffect ==
  ASSUME IInv, NEW now \in Nat, AdvanceCombat(now)
  PROVE  Effect /\ departed' = departed /\ phase = "playing"
<1>1. phase = "playing" /\ Due(now) /\ departed' = departed
  BY DEF AdvanceCombat, Due
<1>2. CASE OpponentFirst(now)
  <2>1. UNCHANGED <<phase, result, landed, thrown>>
    BY <1>2 DEF AdvanceCombat
  <2>2. PICK o \in Scripted : OpponentAct(o)
    BY <1>2 DEF AdvanceCombat
  <2>3. o \in Player /\ Cardinality(Player) = 2  BY SeatAssumption
  <2>4. nextAction \in Int  BY DEF IInv, TypeOK
  <2>5. nextAction' \in Int
    BY <2>2, <2>4 DEF OpponentAct, Lower, Deadline
  <2>6. CASE UNCHANGED <<seat, volley>>
    <3>1. NeverUnsettled' /\ phase' \in Phase /\ DOMAIN result'.rank = Human
      BY <2>1 DEF IInv, TypeOK, NeverUnsettled
    <3>2. seat' \in [Player -> SeatRecord]  BY <2>6 DEF IInv, TypeOK, SeatRecord
    <3>3. \A p \in Player : /\ 0 <= seat'[p].hp /\ seat'[p].hp <= seat[p].hp
                            /\ seat[p].out # None => seat'[p] = seat[p]
                            /\ seat'[p].idx = seat[p].idx
      BY <2>6, <3>2 DEF IInv, HealthLeft, SeatRecord
    <3> QED BY <1>1, <2>1, <2>5, <2>6, <3>1, <3>2, <3>3, SeatEffect
  <2>7. CASE Standing(seat) = Player /\ CommitCast(o, nextAction)
    <3>1. seat[o].out = None  BY <2>3, <2>7 DEF Standing
    <3>2. Cardinality(Standing(seat)) >= 2  BY <2>3, <2>7
    <3> QED BY <1>1, <2>1, <2>3, <2>4, <2>5, <2>7, <3>1, <3>2, CastEffect
  <2> QED BY <1>1, <2>2, <2>6, <2>7 DEF OpponentAct
<1>3. CASE ~OpponentFirst(now)
  <2>1. Settlement(now)  BY <1>3 DEF AdvanceCombat
  <2>2. CASE VolleyDue(now)
    <3>1. volley # NoVolley /\ Land  BY <2>1, <2>2 DEF Settlement, VolleyDue
    <3>2. \/ Finish("elimination", volley.endsAt)
          \/ Finish("timeout", Deadline)
          \/ PlayOn
      BY <2>1, <2>2 DEF Settlement
    <3> QED BY <1>1, <3>1, <3>2, LandingEffect
  <2>3. CASE ~VolleyDue(now)
    <3>1. UNCHANGED <<seat, volley, landed>>  BY <2>1, <2>3 DEF Settlement
    <3>2. now >= Deadline => volley = NoVolley
      BY <2>3 DEF VolleyDue, IInv, WindowOpen, TypeOK, Deadline
    <3>3. /\ volley = NoVolley
          /\ \/ Finish("elimination", Lower(now, Deadline))
             \/ Finish("timeout", Deadline)
      BY <2>1, <2>3, <3>2 DEF Settlement
    <3> QED BY <1>1, <3>1, <3>3, SettleEffect
  <2> QED BY <1>1, <2>2, <2>3
<1> QED BY <1>1, <1>2, <1>3

\* Every step of the match.
LEMMA StepEffect ==
  ASSUME IInv, [Next]_vars
  PROVE  Effect
<1>0. /\ seat \in [Player -> SeatRecord] /\ nextAction \in Int /\ clock \in Nat
      /\ job.now \in Nat /\ DOMAIN result.rank = Human /\ HealthLeft
  BY DEF IInv, TypeOK, SeatRecord
<1>1. CASE UNCHANGED match
  BY <1>1, IdleEffect DEF match
<1>2. CASE OpenFight
  <2>1. /\ phase # "finished" /\ volley = NoVolley /\ phase' = "playing"
        /\ UNCHANGED <<volley, landed, result, thrown>>
    BY <1>2 DEF OpenFight, IInv, WindowOpen
  <2>2. nextAction' \in Int
    BY <1>0, <1>2 DEF OpenFight
  <2>3. ASSUME NEW p \in Player
        PROVE  /\ seat'[p] \in SeatRecord
               /\ 0 <= seat'[p].hp /\ seat'[p].hp <= seat[p].hp
               /\ seat[p].out # None => seat'[p] = seat[p]
               /\ seat'[p].idx = seat[p].idx
    <3>1. CASE seat[p].out # None
      <4>1. seat'[p] = seat[p]  BY <1>2, <3>1 DEF OpenFight
      <4> QED BY <1>0, <4>1 DEF HealthLeft, SeatRecord
    <3>2. CASE seat[p].out = None
      <4>1. seat'[p] = [seat[p] EXCEPT !.opened = clock]  BY <1>2, <3>2 DEF OpenFight
      <4>2. seat[p] \in SeatRecord  BY <1>0
      <4> QED BY <1>0, <3>2, <4>1, <4>2 DEF HealthLeft, SeatRecord
    <3> QED BY <3>1, <3>2
  <2>4. seat' \in [Player -> SeatRecord]
    <3>1. seat' = [p \in Player |-> seat'[p]]  BY <1>2 DEF OpenFight
    <3> QED BY <2>3, <3>1
  <2>5. NeverUnsettled' /\ DOMAIN result'.rank = Human /\ phase' \in Phase
    BY <1>0, <2>1 DEF IInv, NeverUnsettled, Phase
  <2> QED BY <2>1, <2>2, <2>3, <2>4, <2>5, SeatEffect
<1>3. CASE CheckOpening
  <2>1. phase = "playing" /\ volley = NoVolley /\ UNCHANGED <<seat, volley, landed>>
    BY <1>3 DEF CheckOpening, IInv, FreshFight
  <2>2. \/ Finish("timeout", Deadline)
        \/ Finish("elimination", Opening)
        \/ PlayOn
    BY <1>3 DEF CheckOpening
  <2> QED BY <2>1, <2>2, SettleEffect
<1>4. CASE Advance
  BY <1>0, <1>4, AdvanceEffect DEF Advance
<1>5. CASE DrainForLeave
  BY <1>0, <1>5, AdvanceEffect DEF DrainForLeave
<1>6. CASE \E p \in Player : EndLeave(p)
  <2>1. PICK p \in Player : EndLeave(p)  BY <1>6
  <2>2. CASE LeaveFinished(p)
    BY <2>1, <2>2, IdleEffect DEF LeaveFinished, PlayOn, EndLeave
  <2>3. CASE phase # "finished" /\ Forfeit(p)
    <3>1. UNCHANGED <<volley, landed>>  BY <2>1, <2>3 DEF Forfeit, EndLeave
    <3>2. ASSUME NEW q \in Player
          PROVE  /\ seat'[q] \in SeatRecord
                 /\ 0 <= seat'[q].hp /\ seat'[q].hp <= seat[q].hp
                 /\ seat[q].out # None => seat'[q] = seat[q]
                 /\ seat'[q].idx = seat[q].idx
      <4>1. CASE q # p \/ seat[q].out # None
        <5>1. seat'[q] = seat[q]  BY <1>0, <2>3, <4>1 DEF Forfeit
        <5> QED BY <1>0, <5>1 DEF HealthLeft, SeatRecord
      <4>2. CASE q = p /\ seat[q].out = None
        <5>1. seat'[q] = [seat[q] EXCEPT !.hp = 0, !.out = job.now]
          BY <1>0, <2>3, <4>2 DEF Forfeit
        <5>2. seat[q] \in SeatRecord /\ seat[q].hp >= 0  BY <1>0 DEF HealthLeft
        <5>3. seat'[q] = [hp |-> 0, out |-> job.now, idx |-> seat[q].idx,
                          opened |-> seat[q].opened, draft |-> seat[q].draft,
                          recoveries |-> seat[q].recoveries]
          BY <5>1, <5>2 DEF SeatRecord
        <5> QED BY <1>0, <4>2, <5>2, <5>3 DEF SeatRecord
      <4> QED BY <4>1, <4>2
    <3>3. seat' \in [Player -> SeatRecord]
      <4>1. seat' = [q \in Player |-> seat'[q]]  BY <1>0, <2>3 DEF Forfeit
      <4> QED BY <3>2, <4>1
    <3>4. CASE PlayOn
      BY <1>0, <2>3, <3>1, <3>2, <3>3, <3>4, SeatEffect
         DEF PlayOn, IInv, TypeOK, NeverUnsettled
    <3>5. CASE volley = NoVolley /\ Finish("elimination", job.now)
      <4>1. /\ phase' = "finished" /\ nextAction' = None /\ thrown' = thrown
            /\ DOMAIN result'.rank = Human
        BY <3>1, <3>5, FinishEffect
      <4>2. NeverUnsettled'  BY <4>1 DEF IInv, NeverUnsettled
      <4> QED BY <2>3, <3>1, <3>2, <3>3, <3>5, <4>1, <4>2, SeatEffect DEF Phase
    <3> QED BY <2>3, <3>4, <3>5 DEF Forfeit
  <2> QED BY <2>1, <2>2, <2>3 DEF EndLeave
<1>7. CASE \E p \in Player : \E m \in net[p] : Judge(p, m)
  <2>1. PICK p \in Player : \E m \in net[p] : Judge(p, m)  BY <1>7
  <2>2. PICK m \in net[p] : Judge(p, m)  BY <2>1
  <2>3. phase = "playing" /\ seat[p].out = None /\ landed' = landed
    BY <2>2 DEF Judge, Current
  <2>4. p \in Standing(seat)  BY <2>3 DEF Standing
  <2>5. CASE /\ volley = NoVolley /\ UNCHANGED <<seat, volley>>
             /\ Finish("elimination", Lower(clock, Deadline))
    BY <2>3, <2>5, SettleEffect
  <2>6. CASE RejectEarly(p)
    <3>1. /\ seat' = [seat EXCEPT ![p].draft = @ + 1, ![p].recoveries = @ + 1]
          /\ UNCHANGED <<volley, phase, result, nextAction, thrown>>
      BY <2>6 DEF RejectEarly
    <3>2. ASSUME NEW q \in Player
          PROVE  /\ seat'[q] \in SeatRecord
                 /\ seat'[q].hp = seat[q].hp
                 /\ seat[q].out # None => seat'[q] = seat[q]
                 /\ seat'[q].idx = seat[q].idx
      <4>1. CASE q # p
        BY <1>0, <3>1, <4>1
      <4>2. CASE q = p
        <5>1. seat'[p] = [seat[p] EXCEPT !.draft = seat[p].draft + 1,
                                         !.recoveries = seat[p].recoveries + 1]
          BY <1>0, <3>1
        <5>2. seat[p] \in SeatRecord  BY <1>0
        <5>3. seat'[p] = [hp |-> seat[p].hp, out |-> seat[p].out, idx |-> seat[p].idx,
                          opened |-> seat[p].opened, draft |-> seat[p].draft + 1,
                          recoveries |-> seat[p].recoveries + 1]
          BY <5>1, <5>2 DEF SeatRecord
        <5> QED BY <2>3, <4>2, <5>2, <5>3 DEF SeatRecord
      <4> QED BY <4>1, <4>2
    <3>3. seat' \in [Player -> SeatRecord]
      <4>1. seat' = [q \in Player |-> seat'[q]]  BY <1>0, <3>1
      <4> QED BY <3>2, <4>1
    <3>4. \A q \in Player : 0 <= seat'[q].hp /\ seat'[q].hp <= seat[q].hp
      BY <1>0, <3>2 DEF HealthLeft, SeatRecord
    <3>5. NeverUnsettled' /\ phase' \in Phase
      BY <3>1 DEF IInv, TypeOK, NeverUnsettled
    <3> QED BY <1>0, <2>3, <3>1, <3>2, <3>3, <3>4, <3>5, SeatEffect
  <2>7. CASE Standing(seat) # {p} /\ CommitCast(p, clock) /\ PlayOn
    <3>1. PICK q \in Standing(seat) : q # p  BY <2>4, <2>7
    <3>2. Cardinality(Standing(seat)) >= 2
      <4>1. Standing(seat) \in SUBSET Player  BY DEF Standing
      <4> QED BY <2>4, <3>1, <4>1, TwoSeats
    <3> QED BY <1>0, <2>3, <2>7, <3>2, CastEffect DEF PlayOn
  <2> QED BY <2>2, <2>5, <2>6, <2>7 DEF Judge
<1> QED
  <2>1. CASE Tick \/ Crash \/ (\E p \in Player : Type(p) \/ BeginLeave(p)) \/ UNCHANGED vars
    <3>1. UNCHANGED match  BY <2>1 DEF Tick, Crash, Type, BeginLeave, vars, match
    <3> QED BY <1>1, <3>1
  <2> QED BY <1>2, <1>3, <1>4, <1>5, <1>6, <1>7, <2>1 DEF Next

-----------------------------------------------------------------------------
(* Theorems *)

LEMMA InitInvariant == Init => IInv
<1> SUFFICES ASSUME Init PROVE IInv  OBVIOUS
<1>1. TypeOK
  <2>1. Health * HealthScale \in Nat  BY DEF HealthScale
  <2>2. seat \in [Player -> SeatRecord]  BY <2>1 DEF Init, SeatRecord
  <2>3. volley \in VolleyRecord  BY NoVolleyType DEF Init
  <2>4. job \in [kind : {"idle", "opened", "leave"}, who : SUBSET Human, now : Nat]
    BY DEF Init, Idle
  <2>5. net \in [Player -> SUBSET (Nat \X Nat)]  BY DEF Init
  <2>6. DOMAIN result.rank = Human  BY DEF Init, NoResult
  <2>7. landed \in [Player -> Nat]  BY DEF Init
  <2>9. opponent \in OpponentKind  BY DEF Init
  <2>8. /\ clock \in Nat /\ crashes \in Nat /\ nextAction \in Int /\ departed \subseteq Human
        /\ phase \in Phase /\ thrown \in BOOLEAN
    <3>1. /\ clock = 0 /\ crashes = 0 /\ nextAction = None /\ departed = {}
          /\ phase = "countdown" /\ thrown = FALSE
      BY DEF Init
    <3>2. thrown \in BOOLEAN  BY <3>1, Zenon
    <3>3. clock \in Nat /\ crashes \in Nat /\ nextAction \in Int  BY <3>1
    <3>4. departed \subseteq Human /\ phase \in Phase  BY <3>1 DEF Phase
    <3> QED BY <3>2, <3>3, <3>4
  <2> QED BY <2>2, <2>3, <2>4, <2>5, <2>6, <2>7, <2>8, <2>9
         DEF TypeOK, SeatRecord, VolleyRecord
<1>2. CastsAccounted  BY NoVolleyType DEF Init, CastsAccounted
<1>3. HealthLeft
  <2>1. Health * HealthScale >= 0  BY DEF HealthScale
  <2> QED BY <2>1 DEF Init, HealthLeft
<1>4. WindowOpen  BY NoVolleyType DEF Init, WindowOpen
<1> QED BY <1>1, <1>2, <1>3, <1>4
       DEF Init, IInv, NeverUnsettled, FreshFight, LeaversOut, Idle

\* The parts of the state that are not the match.
LEMMA RestType ==
  ASSUME TypeOK, [Next]_vars
  PROVE  /\ clock' \in Nat /\ crashes' \in Nat /\ opponent' \in OpponentKind
         /\ departed' \subseteq Human
         /\ net' \in [Player -> SUBSET (Nat \X Nat)]
         /\ job' \in [kind : {"idle", "opened", "leave"}, who : SUBSET Human, now : Nat]
<1>0. /\ clock \in Nat /\ crashes \in Nat /\ opponent \in OpponentKind
      /\ OpponentKind' = OpponentKind /\ departed \subseteq Human
      /\ net \in [Player -> SUBSET (Nat \X Nat)]
      /\ job \in [kind : {"idle", "opened", "leave"}, who : SUBSET Human, now : Nat]
      /\ seat \in [Player -> SeatRecord]
  BY DEF TypeOK, SeatRecord, OpponentKind
<1>1. CASE Tick  BY <1>0, <1>1 DEF Tick, match
<1>2. CASE Crash  BY <1>0, <1>2 DEF Crash, match, Idle
<1>3. CASE OpenFight  BY <1>0, <1>3 DEF OpenFight, Idle
<1>4. CASE CheckOpening  BY <1>0, <1>4 DEF CheckOpening, Idle
<1>5. CASE Advance  BY <1>0, <1>5 DEF Advance, AdvanceCombat
<1>6. CASE DrainForLeave  BY <1>0, <1>6 DEF DrainForLeave, AdvanceCombat
<1>7. CASE \E p \in Player : Type(p)
  <2>1. PICK p \in Player : Type(p)  BY <1>7
  <2>2. <<seat[p].idx, seat[p].draft>> \in Nat \X Nat  BY <1>0 DEF SeatRecord
  <2>3. net' \in [Player -> SUBSET (Nat \X Nat)]  BY <1>0, <2>1, <2>2 DEF Type
  <2> QED BY <1>0, <2>1, <2>3 DEF Type, match
<1>8. CASE \E p \in Player : BeginLeave(p)
  BY <1>0, <1>8 DEF BeginLeave, match
<1>9. CASE \E p \in Player : EndLeave(p)
  <2>1. PICK p \in Player : EndLeave(p)  BY <1>9
  <2>2. departed' = departed \cup {p}
    BY <2>1 DEF EndLeave, LeaveFinished, Forfeit
  <2>3. p \in Human  BY <1>0, <2>1 DEF EndLeave
  <2> QED BY <1>0, <2>1, <2>2, <2>3 DEF EndLeave, Idle
<1>10. CASE \E p \in Player : \E m \in net[p] : Judge(p, m)
  BY <1>0, <1>10 DEF Judge
<1>11. CASE UNCHANGED vars  BY <1>0, <1>11 DEF vars
<1> QED
  BY <1>1, <1>2, <1>3, <1>4, <1>5, <1>6, <1>7, <1>8, <1>9, <1>10, <1>11 DEF Next

LEMMA StepInvariant == IInv /\ [Next]_vars => IInv'
<1> SUFFICES ASSUME IInv, [Next]_vars PROVE IInv'  OBVIOUS
<1>1. Effect  BY StepEffect
<1>2. TypeOK /\ job.kind \in {"idle", "opened", "leave"}
      /\ seat \in [Player -> SeatRecord] /\ thrown = FALSE
  BY DEF IInv, TypeOK, SeatRecord, NeverUnsettled
<1>3. TypeOK'
  <2>1. /\ seat' \in [Player -> SeatRecord]
        /\ volley' \in VolleyRecord
        /\ landed' \in [Player -> Nat]
        /\ phase' \in Phase /\ nextAction' \in Int /\ DOMAIN result'.rank = Human
        /\ thrown' = FALSE
    BY <1>1 DEF Effect, Progress, NeverUnsettled
  <2> QED BY <1>2, <2>1, RestType DEF TypeOK, SeatRecord, VolleyRecord
<1>4. CastsAccounted' /\ NeverUnsettled' /\ WindowOpen' /\ HealthLeft'
  BY <1>1 DEF Effect, Progress, HealthLeft
<1>5. FreshFight'
  <2>1. CASE OpenFight
    BY <2>1 DEF OpenFight, FreshFight, IInv, WindowOpen
  <2>2. CASE job' = Idle
    BY <2>2 DEF FreshFight, Idle
  <2>3. CASE UNCHANGED <<job, phase, volley>>
    BY <2>3 DEF FreshFight, IInv
  <2>4. CASE job' = job /\ job.kind # "opened"
    BY <2>4 DEF FreshFight
  <2>5. CASE job'.kind = "leave"
    BY <2>5 DEF FreshFight
  <2>6. CASE Tick \/ (\E p \in Player : Type(p)) \/ UNCHANGED vars
    BY <2>3, <2>6 DEF Tick, Type, match, vars
  <2>7. CASE Crash \/ CheckOpening \/ \E p \in Player : EndLeave(p)
    BY <2>2, <2>7 DEF Crash, CheckOpening, EndLeave
  <2>8. CASE Advance \/ \E p \in Player : \E m \in net[p] : Judge(p, m)
    BY <2>4, <2>8 DEF Advance, Judge, Idle
  <2>9. CASE DrainForLeave
    BY <2>4, <2>9 DEF DrainForLeave
  <2>10. CASE \E p \in Player : BeginLeave(p)
    BY <2>5, <2>10 DEF BeginLeave
  <2> QED BY <2>1, <2>6, <2>7, <2>8, <2>9, <2>10 DEF Next
<1>6. LeaversOut'
  <2>1. phase = "finished" => phase' = "finished"
    BY <1>1 DEF Effect
  <2>2. \A p \in Player : seat[p].out # None => seat'[p].out # None
    BY <1>1 DEF Effect, Progress
  <2>3. departed \subseteq Player  BY <1>2 DEF TypeOK, Human
  <2>4. CASE departed' = departed
    BY <2>1, <2>2, <2>3, <2>4 DEF LeaversOut, IInv
  <2>5. CASE \E p \in Player : EndLeave(p)
    <3>1. PICK p \in Player : EndLeave(p)  BY <2>5
    <3>2. departed' = departed \cup {p}
      BY <3>1 DEF EndLeave, LeaveFinished, Forfeit
    <3>3. phase' # "finished" => seat'[p].out # None
      <4>1. CASE phase = "finished"  BY <2>1, <4>1
      <4>2. CASE phase # "finished"
        <5>1. seat' = [seat EXCEPT ![p] =
                IF seat[p].out = None THEN [seat[p] EXCEPT !.hp = 0, !.out = job.now] ELSE seat[p]]
          BY <1>2, <3>1, <4>2 DEF EndLeave, Forfeit
        <5>2. job.now \in Nat  BY <1>2 DEF TypeOK
        <5>3. seat[p] \in SeatRecord  BY <1>2
        <5>4. CASE seat[p].out = None
          BY <1>2, <5>1, <5>2, <5>3, <5>4 DEF SeatRecord
        <5>5. CASE seat[p].out # None
          BY <1>2, <5>1, <5>5
        <5> QED BY <5>4, <5>5
      <4> QED BY <4>1, <4>2
    <3> QED BY <2>1, <2>2, <2>3, <3>2, <3>3 DEF LeaversOut, IInv
  <2>6. CASE Tick \/ Crash \/ OpenFight \/ CheckOpening \/ UNCHANGED vars
    BY <2>4, <2>6 DEF Tick, Crash, OpenFight, CheckOpening, match, vars
  <2>7. CASE Advance \/ DrainForLeave
    BY <2>4, <2>7 DEF Advance, DrainForLeave, AdvanceCombat
  <2>8. CASE \E p \in Player : Type(p) \/ BeginLeave(p) \/ \E m \in net[p] : Judge(p, m)
    BY <2>4, <2>8 DEF Type, BeginLeave, Judge, match
  <2> QED BY <2>5, <2>6, <2>7, <2>8 DEF Next
<1> QED BY <1>3, <1>4, <1>5, <1>6 DEF IInv

LEMMA Invariance == Spec => []IInv
<1> QED BY InitInvariant, StepInvariant, PTL DEF Spec

\* The shape of every variable, for any seats, book, clock and policy.
THEOREM TypeCorrect == Spec => []TypeOK
<1>1. IInv => TypeOK  BY DEF IInv
<1> QED BY <1>1, Invariance, PTL

\* No accepted cast is lost or counted twice (casts.ts, volleys.ts), in any match.
THEOREM Accounted == Spec => []CastsAccounted
<1>1. IInv => CastsAccounted  BY DEF IInv
<1> QED BY <1>1, Invariance, PTL

\* finishMatchTx never throws room:unsettled_volley (match.ts), in any match.
THEOREM SettlementNeverThrows == Spec => []NeverUnsettled
<1>1. IInv => NeverUnsettled  BY DEF IInv
<1> QED BY <1>1, Invariance, PTL

\* Health only falls and who is out stays out, in any match.
THEOREM DeathIsFinal == Spec => NoResurrection
<1>1. IInv /\ [Next]_vars =>
        [\A p \in Player : /\ seat'[p].hp <= seat[p].hp
                           /\ seat[p].out # None => seat'[p] = seat[p]]_vars
  BY StepEffect DEF Effect, Progress
<1> QED BY <1>1, Invariance, PTL DEF Spec, NoResurrection

\* Nothing rewrites a settled match: no timer, frame, leave or crash, in any order.
THEOREM SettlementIsFinal == Spec => SettledForever
<1>1. IInv /\ [Next]_vars =>
        [phase = "finished" => UNCHANGED <<phase, seat, volley, result>>]_vars
  BY StepEffect DEF Effect
<1> QED BY <1>1, Invariance, PTL DEF Spec, SettledForever

\* A committed leave takes the account out of a match that goes on, for good.
THEOREM LeaveIsFinal == Spec => LeaverIsOut
<1>1. IInv /\ [Next]_vars =>
        [\A p \in departed : phase # "finished" =>
           seat[p].out # None /\ seat'[p].idx = seat[p].idx]_vars
  <2> SUFFICES ASSUME IInv, [Next]_vars, NEW p \in departed, phase # "finished"
               PROVE  seat[p].out # None /\ seat'[p].idx = seat[p].idx
    OBVIOUS
  <2>1. p \in Player  BY DEF IInv, TypeOK, Human
  <2>2. seat[p].out # None  BY DEF IInv, LeaversOut
  <2> QED BY <2>1, <2>2, StepEffect DEF Effect, Progress
<1> QED BY <1>1, Invariance, PTL DEF Spec, LeaverIsOut

-----------------------------------------------------------------------------
(* Combat implements the ledger of casts *)

LEMMA LedgerInitial == Init => Ledger!LedgerInit
  BY DEF Init, Ledger!LedgerInit

LEMMA LedgerStep == IInv /\ [Next]_vars => [Ledger!LedgerNext]_(Ledger!ledger)
<1> SUFFICES ASSUME IInv, [Next]_vars PROVE [Ledger!LedgerNext]_(Ledger!ledger)
  OBVIOUS
<1> DEFINE cursor == [p \in Player |-> seat[p].idx]
           settled == phase = "finished"
<1>1. Effect  BY StepEffect
<1>2. seat \in [Player -> SeatRecord] /\ landed \in [Player -> Nat]
  BY DEF IInv, TypeOK, SeatRecord
<1>3. settled => settled'  BY <1>1 DEF Effect
<1>4. volley = NoVolley => landed = cursor
  BY <1>2, NoVolleyType DEF IInv, CastsAccounted
<1>5. settled => UNCHANGED <<cursor, landed, settled>>
  BY <1>1 DEF Effect
<1>6. CASE Quiet
  <2>1. cursor' = cursor /\ landed' = landed  BY <1>6 DEF Quiet
  <2>2. CASE settled' = settled
    BY <2>1, <2>2 DEF Ledger!ledger
  <2>3. CASE settled' # settled
    <3>1. ~settled /\ settled' /\ landed = cursor
      BY <1>3, <1>4, <1>6, <2>3 DEF Quiet
    <3> QED BY <2>1, <3>1 DEF Ledger!LedgerNext, Ledger!Settle
  <2> QED BY <2>2, <2>3
<1>7. CASE \E p \in Player : Accepts(p)
  <2>1. PICK p \in Player : Accepts(p)  BY <1>7
  <2>2. landed' = landed /\ ~settled /\ settled' = settled  BY <2>1 DEF Accepts
  <2>3. cursor' = [cursor EXCEPT ![p] = cursor[p] + 1]
    BY <2>1 DEF Accepts
  <2> QED BY <2>2, <2>3 DEF Ledger!LedgerNext, Ledger!Accept
<1>8. CASE Lands
  <2>1. ~settled /\ cursor' = cursor  BY <1>8 DEF Lands
  <2>2. landed' = cursor
    BY <1>1, <1>2, <1>8 DEF Lands, Effect, Progress
  <2>3. CASE landed # cursor
    BY <2>1, <2>2, <2>3 DEF Ledger!LedgerNext, Ledger!Land
  <2>4. CASE landed = cursor
    <3>1. landed' = landed  BY <2>2, <2>4
    <3>2. CASE settled' = settled
      BY <2>1, <3>1, <3>2 DEF Ledger!ledger
    <3>3. CASE settled' # settled
      BY <2>1, <2>4, <3>1, <3>3 DEF Ledger!LedgerNext, Ledger!Settle
    <3> QED BY <3>2, <3>3
  <2> QED BY <2>3, <2>4
<1> QED BY <1>1, <1>6, <1>7, <1>8 DEF Effect

\* Every behaviour of combat is one of the ledger: casts are accepted one at a time, land
\* together, and the match settles once, with nothing pending.
THEOREM LedgerImplemented == Spec => ImplementsLedger
<1> QED BY LedgerInitial, LedgerStep, Invariance, PTL
       DEF Spec, ImplementsLedger, Ledger!LedgerSpec
=============================================================================
