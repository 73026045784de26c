-------------------------- MODULE DeployFlow_proofs --------------------------
(* For any executors, images and faults: the journal is ahead of every change, admission
   reopens on the record, no match is stopped unseen and migrations run alone.

   Steps of a command come in one order, none of them twice.  So what a command has done
   is what is not left to do, and each part of the invariant says what has been true
   since a certain step, as long as another is still to come. *)
EXTENDS DeployFlow, TLAPS

\* The place of every step in a command; two steps of one place only read, or never meet.
Place ==
  [vacant |-> 1, drain |-> 1, oneshot |-> 2, ready |-> 2, plan |-> 3, still |-> 3,
   stop |-> 4, migrate |-> 5, start |-> 6, verify |-> 7, observe |-> 8, closed |-> 8,
   record |-> 9, probe |-> 10, confirm |-> 11, reopen |-> 12, release |-> 13]

StepName == DOMAIN Place

Members(s) == {s[i] : i \in 1..Len(s)}

Sorted(s) ==
  /\ s \in Seq(StepName)
  /\ \A i, j \in 1..Len(s) : i < j => Place[s[i]] <= Place[s[j]] /\ s[i] # s[j]

LEMMA Places ==
  /\ StepName = {"vacant", "drain", "oneshot", "ready", "plan", "still", "stop", "migrate",
                 "start", "verify", "observe", "closed", "record", "probe", "confirm",
                 "reopen", "release"}
  /\ Place["vacant"] = 1 /\ Place["drain"] = 1 /\ Place["oneshot"] = 2 /\ Place["ready"] = 2
  /\ Place["plan"] = 3 /\ Place["still"] = 3 /\ Place["stop"] = 4 /\ Place["migrate"] = 5
  /\ Place["start"] = 6 /\ Place["verify"] = 7 /\ Place["observe"] = 8 /\ Place["closed"] = 8
  /\ Place["record"] = 9 /\ Place["probe"] = 10 /\ Place["confirm"] = 11
  /\ Place["reopen"] = 12 /\ Place["release"] = 13
  BY DEF Place, StepName

\* What is left after the first step of a sorted command.
LEMMA SortedTail ==
  ASSUME NEW s, Sorted(s), s # <<>>
  PROVE  /\ Sorted(Tail(s))
         /\ Head(s) \in StepName
         /\ Members(s) = {Head(s)} \cup Members(Tail(s))
         /\ Head(s) \notin Members(Tail(s))
         /\ \A x \in Members(Tail(s)) : x \in StepName /\ Place[Head(s)] <= Place[x]
  <1>1. Len(s) \in Nat /\ Len(s) > 0 /\ Len(Tail(s)) = Len(s) - 1 /\ Head(s) = s[1]
        /\ Tail(s) \in Seq(StepName)
    BY DEF Sorted
  <1>2. \A i \in 1..Len(Tail(s)) : Tail(s)[i] = s[i + 1]
    BY <1>1 DEF Sorted
  <1>3. Sorted(Tail(s))
    BY <1>1, <1>2 DEF Sorted
  <1>4. Members(s) = {Head(s)} \cup Members(Tail(s))
    <2>1. ASSUME NEW i \in 1..Len(s) PROVE s[i] \in {Head(s)} \cup Members(Tail(s))
      <3>1. CASE i = 1 BY <1>1, <3>1
      <3>2. CASE i # 1
        <4>1. i - 1 \in 1..Len(Tail(s)) /\ Tail(s)[i - 1] = s[i]
          BY <1>1, <1>2, <3>2
        <4> QED BY <4>1 DEF Members
      <3> QED BY <3>1, <3>2
    <2>2. ASSUME NEW i \in 1..Len(Tail(s)) PROVE Tail(s)[i] \in Members(s)
      <3>1. i + 1 \in 1..Len(s) /\ Tail(s)[i] = s[i + 1]
        BY <1>1, <1>2
      <3> QED BY <3>1 DEF Members
    <2>3. Head(s) \in Members(s)
      BY <1>1 DEF Members
    <2> QED BY <2>1, <2>2, <2>3 DEF Members
  <1>5. \A i \in 1..Len(Tail(s)) : /\ Tail(s)[i] \in StepName /\ s[1] # Tail(s)[i]
                                   /\ Place[s[1]] <= Place[Tail(s)[i]]
    <2> TAKE i \in 1..Len(Tail(s))
    <2>1. 1 \in 1..Len(s) /\ i + 1 \in 1..Len(s) /\ 1 < i + 1 /\ Tail(s)[i] = s[i + 1]
      BY <1>1, <1>2
    <2> QED BY <1>1, <2>1 DEF Sorted
  <1>6. \A x \in Members(Tail(s)) : x \in StepName /\ Head(s) # x /\ Place[Head(s)] <= Place[x]
    BY <1>1, <1>5 DEF Members
  <1>7. Head(s) \in StepName
    BY <1>1 DEF Sorted
  <1> QED BY <1>3, <1>4, <1>6, <1>7

\* One sorted part after another.
LEMMA SortedConcat ==
  ASSUME NEW a, NEW b, Sorted(a), Sorted(b),
         \A x \in Members(a), y \in Members(b) : Place[x] <= Place[y] /\ x # y
  PROVE  Sorted(a \o b) /\ Members(a \o b) = Members(a) \cup Members(b)
  <1>1. /\ a \in Seq(StepName) /\ b \in Seq(StepName) /\ a \o b \in Seq(StepName)
        /\ Len(a) \in Nat /\ Len(b) \in Nat /\ Len(a \o b) = Len(a) + Len(b)
    BY DEF Sorted
  <1>2. \A i \in 1..Len(a \o b) :
          \/ i \in 1..Len(a) /\ (a \o b)[i] = a[i]
          \/ i - Len(a) \in 1..Len(b) /\ (a \o b)[i] = b[i - Len(a)] /\ i \notin 1..Len(a)
    BY <1>1
  <1>3. ASSUME NEW i \in 1..Len(a \o b), NEW j \in 1..Len(a \o b), i < j
        PROVE  Place[(a \o b)[i]] <= Place[(a \o b)[j]] /\ (a \o b)[i] # (a \o b)[j]
    <2>1. CASE j \in 1..Len(a)
      <3>1. i \in 1..Len(a) /\ (a \o b)[i] = a[i] /\ (a \o b)[j] = a[j]
        BY <1>1, <1>2, <1>3, <2>1
      <3> QED BY <1>3, <2>1, <3>1 DEF Sorted
    <2>2. CASE j \notin 1..Len(a) /\ i \in 1..Len(a)
      <3>1. (a \o b)[i] \in Members(a) /\ (a \o b)[j] \in Members(b)
        BY <1>1, <1>2, <2>2 DEF Members
      <3> QED BY <3>1
    <2>3. CASE j \notin 1..Len(a) /\ i \notin 1..Len(a)
      <3>1. /\ i - Len(a) \in 1..Len(b) /\ j - Len(a) \in 1..Len(b)
            /\ (a \o b)[i] = b[i - Len(a)] /\ (a \o b)[j] = b[j - Len(a)]
            /\ i - Len(a) < j - Len(a)
        BY <1>1, <1>2, <1>3, <2>3
      <3> QED BY <3>1 DEF Sorted
    <2> QED BY <2>1, <2>2, <2>3
  <1>4. \A i \in 1..Len(a) : i \in 1..Len(a \o b) /\ (a \o b)[i] = a[i]
    BY <1>1
  <1>5. \A i \in 1..Len(b) : i + Len(a) \in 1..Len(a \o b) /\ (a \o b)[i + Len(a)] = b[i]
    BY <1>1
  <1>6. Members(a \o b) = Members(a) \cup Members(b)
    <2>1. Members(a \o b) \subseteq Members(a) \cup Members(b)
      BY <1>2 DEF Members
    <2>2. Members(a) \subseteq Members(a \o b)
      BY <1>4 DEF Members
    <2>3. Members(b) \subseteq Members(a \o b)
      BY <1>5 DEF Members
    <2> QED BY <2>1, <2>2, <2>3
  <1> QED BY <1>1, <1>3, <1>6 DEF Sorted

LEMMA Parts ==
  /\ Sorted(ResumeAfterChecks)
  /\ Members(ResumeAfterChecks) = {"probe", "confirm", "reopen", "release"}
  /\ Sorted(DrainApp) /\ Members(DrainApp) = {"drain", "ready"}
  BY Places DEF Sorted, Members, ResumeAfterChecks, DrainApp

LEMMA InstallSorted ==
  /\ Sorted(InstallSteps)
  /\ Members(InstallSteps) = {"vacant", "migrate", "start", "verify", "observe", "record",
                              "probe", "confirm", "reopen", "release"}
  <1> DEFINE a == <<"vacant", "migrate", "start", "verify", "observe", "record">>
  <1>1. Sorted(a) /\ Members(a) = {"vacant", "migrate", "start", "verify", "observe", "record"}
    BY Places DEF Sorted, Members
  <1> HIDE DEF a
  <1>2. \A x \in Members(a), y \in Members(ResumeAfterChecks) : Place[x] <= Place[y] /\ x # y
    BY <1>1, Parts, Places
  <1>3. Sorted(a \o ResumeAfterChecks)
        /\ Members(a \o ResumeAfterChecks) = Members(a) \cup Members(ResumeAfterChecks)
    BY <1>1, <1>2, Parts, SortedConcat
  <1> QED BY <1>1, <1>3, Parts DEF InstallSteps, a

LEMMA DeploySorted ==
  /\ Sorted(DeploySteps)
  /\ Members(DeploySteps) = {"drain", "ready", "plan", "still", "stop", "migrate", "start",
                             "verify", "closed", "record", "probe", "confirm", "reopen", "release"}
  <1> DEFINE a == <<"plan", "still", "stop", "migrate", "start", "verify", "closed", "record">>
  <1>1. /\ Sorted(a)
        /\ Members(a) = {"plan", "still", "stop", "migrate", "start", "verify", "closed", "record"}
    BY Places DEF Sorted, Members
  <1> HIDE DEF a
  <1>2. /\ \A x \in Members(DrainApp), y \in Members(a) : Place[x] <= Place[y] /\ x # y
        /\ \A x \in Members(DrainApp) \cup Members(a), y \in Members(ResumeAfterChecks) :
             Place[x] <= Place[y] /\ x # y
    BY <1>1, Parts, Places
  <1>3. Sorted(DrainApp \o a) /\ Members(DrainApp \o a) = Members(DrainApp) \cup Members(a)
    BY <1>1, <1>2, Parts, SortedConcat
  <1>4. /\ Sorted((DrainApp \o a) \o ResumeAfterChecks)
        /\ Members((DrainApp \o a) \o ResumeAfterChecks)
             = (Members(DrainApp) \cup Members(a)) \cup Members(ResumeAfterChecks)
    BY <1>2, <1>3, Parts, SortedConcat
  <1> QED BY <1>1, <1>4, Parts DEF DeploySteps, a

LEMMA RollbackSorted ==
  ASSUME NEW failed \in BOOLEAN
  PROVE  /\ Sorted(RollbackSteps(failed))
         /\ Members(RollbackSteps(failed))
              = (IF failed THEN {"oneshot"} ELSE {"drain", "ready", "still"})
                \cup {"plan", "stop", "start", "verify", "record", "probe", "confirm", "reopen",
                      "release"}
  <1> DEFINE a == <<"oneshot", "plan", "stop">>
             b == <<"still", "plan", "stop">>
             c == <<"start", "verify", "record">>
  <1>1. /\ Sorted(a) /\ Members(a) = {"oneshot", "plan", "stop"}
        /\ Sorted(b) /\ Members(b) = {"still", "plan", "stop"}
        /\ Sorted(c) /\ Members(c) = {"start", "verify", "record"}
    BY Places DEF Sorted, Members
  <1>2. Sorted(DrainApp \o b) /\ Members(DrainApp \o b) = {"drain", "ready", "still", "plan", "stop"}
    <2> HIDE DEF b
    <2>1. \A x \in Members(DrainApp), y \in Members(b) : Place[x] <= Place[y] /\ x # y
      BY <1>1, Parts, Places
    <2>2. Members(DrainApp \o b) = Members(DrainApp) \cup Members(b) /\ Sorted(DrainApp \o b)
      BY <1>1, <2>1, Parts, SortedConcat
    <2> QED BY <1>1, <2>2, Parts
  <1>3. ASSUME NEW f, Sorted(f), Members(f) \subseteq {"oneshot", "drain", "ready", "still", "plan", "stop"}
        PROVE  /\ Sorted((f \o c) \o ResumeAfterChecks)
               /\ Members((f \o c) \o ResumeAfterChecks)
                    = Members(f) \cup {"start", "verify", "record", "probe", "confirm", "reopen", "release"}
    <2> HIDE DEF c
    <2>1. /\ \A x \in Members(f), y \in Members(c) : Place[x] <= Place[y] /\ x # y
          /\ \A x \in Members(f) \cup Members(c), y \in Members(ResumeAfterChecks) :
               Place[x] <= Place[y] /\ x # y
      BY <1>1, <1>3, Parts, Places
    <2>2. Sorted(f \o c) /\ Members(f \o c) = Members(f) \cup Members(c)
      BY <1>1, <1>3, <2>1, SortedConcat
    <2>3. /\ Sorted((f \o c) \o ResumeAfterChecks)
          /\ Members((f \o c) \o ResumeAfterChecks)
               = (Members(f) \cup Members(c)) \cup Members(ResumeAfterChecks)
      BY <2>1, <2>2, Parts, SortedConcat
    <2> QED BY <1>1, <2>3, Parts
  <1>4. CASE failed
    <2> HIDE DEF a, b, c
    <2>1. RollbackSteps(failed) = (a \o c) \o ResumeAfterChecks
      BY <1>4 DEF RollbackSteps, a, c
    <2>2. /\ Sorted((a \o c) \o ResumeAfterChecks)
          /\ Members((a \o c) \o ResumeAfterChecks)
               = {"oneshot", "plan", "stop"}
                   \cup {"start", "verify", "record", "probe", "confirm", "reopen", "release"}
      BY <1>1, <1>3
    <2> QED BY <1>4, <2>1, <2>2
  <1>5. CASE ~failed
    <2> HIDE DEF a, b, c
    <2>1. RollbackSteps(failed) = ((DrainApp \o b) \o c) \o ResumeAfterChecks
      BY <1>5 DEF RollbackSteps, b, c
    <2> QED BY <1>2, <1>3, <1>5, <2>1
  <1> QED BY <1>4, <1>5

LEMMA DrainSorted ==
  /\ Sorted(DrainApp \o <<"release">>)
  /\ Members(DrainApp \o <<"release">>) = {"drain", "ready", "release"}
  <1> DEFINE a == <<"release">>
  <1>1. Sorted(a) /\ Members(a) = {"release"}
    BY Places DEF Sorted, Members
  <1> HIDE DEF a
  <1>2. \A x \in Members(DrainApp), y \in Members(a) : Place[x] <= Place[y] /\ x # y
    BY <1>1, Parts, Places
  <1>3. Sorted(DrainApp \o a) /\ Members(DrainApp \o a) = Members(DrainApp) \cup Members(a)
    BY <1>1, <1>2, Parts, SortedConcat
  <1> QED BY <1>1, <1>3, Parts DEF a

------------------------------------------------------------------------------
(* The invariant *)

Left(e) == Members(run[e].todo)

Command ==
  [todo : Seq(StepName), target : Image \cup {None}, plan : {None} \cup Journal,
   done : {None} \cup Journal, known : SUBSET {"revision", "epoch"}]

Types ==
  /\ journal \in {None} \cup Journal
  /\ app \in {None} \cup Container
  /\ mode \in {"open", "draining"} /\ work \in Nat
  /\ run \in [Executor -> Command]
  /\ \A e \in Executor : Sorted(run[e].todo)

\* Who is in the middle of a command holds the lock.
Exclusive == \A e \in Executor : run[e] # Idle => lock = e

GoodImage(i) == i \in proven \cup {None}

ServedIsProven == Serving => app.image \in proven

\* What the command will write before its change, if it announces one.
PlanIsGood(e) ==
  "plan" \in Left(e) =>
    IF run[e].plan = None THEN journal = None
    ELSE /\ run[e].plan.pending # None
         /\ GoodImage(run[e].plan.current) /\ GoodImage(run[e].plan.previous)

\* What it will write when it has verified the change.
DoneIsGood(e) ==
  /\ run[e].done # None =>
       /\ run[e].done.pending = None /\ run[e].done.current = run[e].target
       /\ GoodImage(run[e].done.previous)
  /\ "record" \in Left(e) => run[e].done # None /\ run[e].target # None

\* Nothing is changed that will not be recorded, nothing stopped that is not started.
Complete(e) ==
  /\ "stop" \in Left(e) => "start" \in Left(e)
  /\ Left(e) \cap {"plan", "stop", "start"} # {} => "record" \in Left(e)
  /\ "drain" \in Left(e) => "ready" \in Left(e)

Announced(e) ==
  "record" \in Left(e) /\ Left(e) \cap {"plan", "vacant"} = {} /\ journal # None
    => journal.pending # None

Verified(e) == "record" \in Left(e) /\ "verify" \notin Left(e) => run[e].target \in proven

Placed(e) ==
  "record" \in Left(e) /\ "start" \notin Left(e) => app # None /\ app.image = run[e].target

Recorded(e) ==
  run[e].done # None /\ Left(e) # {} /\ "record" \notin Left(e) =>
    journal = run[e].done /\ app # None /\ app.image = run[e].done.current

Vacated(e) == "migrate" \in Left(e) /\ Left(e) \cap {"stop", "vacant"} = {} => app = None

Shut(e) ==
  "record" \in Left(e) /\ Left(e) \cap {"drain", "vacant", "oneshot"} = {} =>
    ~(mode = "open" /\ trusted)

Drained(e) ==
  Left(e) \cap {"stop", "start"} # {} /\ Left(e) \cap {"ready", "oneshot"} = {}
    /\ "revision" \in run[e].known
  => mode = "draining" /\ work = 0

Good(e) ==
  /\ PlanIsGood(e) /\ DoneIsGood(e) /\ Complete(e) /\ Announced(e) /\ Verified(e)
  /\ Placed(e) /\ Recorded(e) /\ Vacated(e) /\ Shut(e) /\ Drained(e)

IInv ==
  /\ Types /\ Exclusive /\ ServedIsProven /\ JournalAhead /\ OpenOnTheRecord
  /\ \A e \in Executor : Good(e)

------------------------------------------------------------------------------
(* Who does what *)

LEMMA IdleIsGood ==
  ASSUME NEW e, run'[e] = Idle
  PROVE  Good(e)'
  <1>1. Left(e)' = {} /\ run'[e].done = None
    BY DEF Left, Members, Idle
  <1> QED BY <1>1 DEF Good, PlanIsGood, DoneIsGood, Complete, Announced, Verified, Placed, Recorded,
                     Vacated, Shut, Drained

LEMMA IdleIsCommand == Idle \in Command /\ Sorted(Idle.todo)
  BY DEF Idle, Command, Sorted, StepName

\* The executor that takes a step is alone, and what it has left to do gets shorter.
LEMMA Going ==
  ASSUME IInv, NEW e \in Executor, run[e].todo # <<>>, NEW g \in SUBSET {"revision", "epoch"}, NEW o,
         Proceed(e, g, o)
  PROVE  /\ run' \in [Executor -> Command]
         /\ \A x \in Executor : Sorted(run'[x].todo)
         /\ \A x \in Executor \ {e} : run[x] = Idle /\ run'[x] = Idle
         /\ lock = e
         /\ run'[e].target = run[e].target /\ run'[e].plan = run[e].plan
         /\ run'[e].done = run[e].done /\ run'[e].known = (run[e].known \ o) \cup g
         /\ Left(e) = {Head(run[e].todo)} \cup Left(e)'
         /\ Head(run[e].todo) \notin Left(e)'
         /\ Head(run[e].todo) \in StepName
         /\ \A y \in Left(e)' : y \in StepName /\ Place[Head(run[e].todo)] <= Place[y]
  <1>1. run[e] \in Command /\ Sorted(run[e].todo) /\ run[e] # Idle /\ lock = e
    BY DEF IInv, Types, Exclusive, Idle
  <1>2. \A x \in Executor \ {e} : run[x] = Idle
    BY <1>1 DEF IInv, Exclusive
  <1>3. run'[e] = [run[e] EXCEPT !.todo = Tail(@), !.known = (@ \ o) \cup g]
    BY DEF Proceed
  <1>4. \A x \in Executor \ {e} : run'[x] = Idle
    <2> SUFFICES ASSUME NEW x \in Executor \ {e} PROVE run'[x] = Idle
      OBVIOUS
    <2>1. run'[x] = [Idle EXCEPT !.known = @ \ o]
      BY <1>2 DEF Proceed
    <2> QED BY <2>1 DEF Idle
  <1>5. /\ Sorted(Tail(run[e].todo)) /\ Head(run[e].todo) \in StepName
        /\ Members(run[e].todo) = {Head(run[e].todo)} \cup Members(Tail(run[e].todo))
        /\ Head(run[e].todo) \notin Members(Tail(run[e].todo))
        /\ \A y \in Members(Tail(run[e].todo)) : y \in StepName /\ Place[Head(run[e].todo)] <= Place[y]
    BY <1>1, SortedTail
  <1>6. /\ run'[e].todo = Tail(run[e].todo)
        /\ run'[e].target = run[e].target /\ run'[e].plan = run[e].plan
        /\ run'[e].done = run[e].done /\ run'[e].known = (run[e].known \ o) \cup g
    BY <1>1, <1>3 DEF Command
  <1>7. Tail(run[e].todo) \in Seq(StepName)
    BY <1>5 DEF Sorted
  <1>8. run'[e] \in Command
    BY <1>1, <1>3, <1>7 DEF Command
  <1>9. DOMAIN run' = Executor /\ run' = [x \in Executor |-> run'[x]]
    BY DEF Proceed
  <1>10. run' \in [Executor -> Command] /\ \A x \in Executor : Sorted(run'[x].todo)
    BY <1>4, <1>5, <1>6, <1>8, <1>9, IdleIsCommand
  <1> QED BY <1>1, <1>2, <1>4, <1>5, <1>6, <1>10 DEF Left

LEMMA GoingOn ==
  ASSUME IInv, NEW e \in Executor, run[e].todo # <<>>, NEW g \in SUBSET {"revision", "epoch"}, NEW o,
         Proceed(e, g, o), UNCHANGED lock, Good(e)',
         journal' \in {None} \cup Journal, app' \in {None} \cup Container,
         mode' \in {"open", "draining"}, UNCHANGED work,
         ServedIsProven', JournalAhead', OpenOnTheRecord'
  PROVE  IInv'
  <1>1. Types'
    BY Going DEF IInv, Types
  <1>2. Exclusive'
    BY Going DEF Exclusive
  <1>3. \A x \in Executor : Good(x)'
    BY Going, IdleIsGood
  <1> QED BY <1>1, <1>2, <1>3 DEF IInv

\* Steps that only read.
LEMMA PassKeeps ==
  ASSUME IInv, NEW e \in Executor, run[e].todo # <<>>, NEW g \in SUBSET {"revision", "epoch"},
         Pass(e, g), Good(e)'
  PROVE  IInv'
  <1>1. Proceed(e, g, {}) /\ UNCHANGED <<journal, lock, app, mode, work, proven, trusted>>
    BY DEF Pass
  <1>2. ServedIsProven' /\ JournalAhead' /\ OpenOnTheRecord'
    BY <1>1 DEF IInv, ServedIsProven, Serving, JournalAhead, OpenOnTheRecord
  <1> QED BY <1>1, <1>2, GoingOn DEF IInv, Types

\* A step that is not the last of anything the invariant speaks of, and takes no reading.
LEMMA PlainPass ==
  ASSUME IInv, NEW e \in Executor, run[e].todo # <<>>, NEW g \in SUBSET {"revision", "epoch"},
         Pass(e, g), Head(run[e].todo) \in {"still", "closed", "probe", "confirm", "observe"},
         Head(run[e].todo) # "observe" => "revision" \notin g
  PROVE  IInv'
  <1>1. Proceed(e, g, {}) /\ UNCHANGED <<journal, lock, app, mode, work, proven, trusted>>
    BY DEF Pass
  <1>2. /\ run'[e].target = run[e].target /\ run'[e].plan = run[e].plan
        /\ run'[e].done = run[e].done /\ run'[e].known = (run[e].known \ {}) \cup g
        /\ Left(e) = {Head(run[e].todo)} \cup Left(e)'
        /\ \A y \in Left(e)' : y \in StepName /\ Place[Head(run[e].todo)] <= Place[y]
    BY <1>1, Going
  <1>3. Good(e)
    BY DEF IInv
  <1>4. (PlanIsGood(e) /\ DoneIsGood(e) /\ Complete(e))'
    BY <1>1, <1>2, <1>3 DEF Good, PlanIsGood, DoneIsGood, Complete, GoodImage
  <1>5. (Announced(e) /\ Verified(e) /\ Placed(e) /\ Recorded(e))'
    BY <1>1, <1>2, <1>3 DEF Good, Announced, Verified, Placed, Recorded
  <1>6. (Vacated(e) /\ Shut(e))'
    BY <1>1, <1>2, <1>3 DEF Good, Vacated, Shut
  <1>7. Drained(e)'
    <2>1. CASE Head(run[e].todo) = "observe"
      <3>1. Left(e)' \cap {"stop", "start"} = {}
        BY <1>2, <2>1, Places
      <3> QED BY <3>1 DEF Drained
    <2>2. CASE Head(run[e].todo) # "observe"
      BY <1>1, <1>2, <1>3, <2>2 DEF Good, Drained
    <2> QED BY <2>1, <2>2
  <1> QED BY <1>4, <1>5, <1>6, <1>7, PassKeeps DEF Good

\* An install begins where no container runs: an open admission or a settled journal would have one.
LEMMA VacantKeeps ==
  ASSUME IInv, NEW e \in Executor, Vacant(e)
  PROVE  IInv'
  <1>1. /\ run[e].todo # <<>> /\ Head(run[e].todo) = "vacant" /\ Pass(e, {}) /\ app = None
        /\ Proceed(e, {}, {}) /\ UNCHANGED <<journal, lock, app, mode, work, proven, trusted>>
    BY DEF Vacant, At, Pass, Knows, Ready
  <1>2. /\ run'[e].target = run[e].target /\ run'[e].plan = run[e].plan
        /\ run'[e].done = run[e].done /\ run'[e].known = (run[e].known \ {}) \cup {}
        /\ Left(e) = {Head(run[e].todo)} \cup Left(e)' /\ Head(run[e].todo) \notin Left(e)'
        /\ \A y \in Left(e)' : y \in StepName /\ Place[Head(run[e].todo)] <= Place[y]
    BY <1>1, Going
  <1>3. Good(e) /\ JournalAhead /\ OpenOnTheRecord /\ ServedIsProven
    BY DEF IInv
  <1>4. (PlanIsGood(e) /\ DoneIsGood(e) /\ Complete(e))'
    BY <1>1, <1>2, <1>3, Places DEF Good, PlanIsGood, DoneIsGood, Complete, GoodImage
  <1>5. (Announced(e) /\ Placed(e) /\ Recorded(e))'
    BY <1>1, <1>2, <1>3 DEF Good, Announced, Placed, Recorded, JournalAhead
  <1>6. (Verified(e) /\ Vacated(e) /\ Shut(e))'
    BY <1>1, <1>2, <1>3 DEF Good, Verified, Placed, Vacated, Shut, OpenOnTheRecord, ServedIsProven
  <1>7. Drained(e)'
    BY <1>1, <1>2, <1>3, Places DEF Good, Drained
  <1> QED BY <1>1, <1>4, <1>5, <1>6, <1>7, PassKeeps DEF Good

\* What drainApp has waited for.
LEMMA DrainReadyKeeps ==
  ASSUME IInv, NEW e \in Executor, DrainReady(e)
  PROVE  IInv'
  <1>1. /\ run[e].todo # <<>> /\ Head(run[e].todo) = "ready" /\ Pass(e, {}) /\ "revision" \in run[e].known /\ mode = "draining" /\ work = 0
        /\ Proceed(e, {}, {}) /\ UNCHANGED <<journal, lock, app, mode, work, proven, trusted>>
    BY DEF DrainReady, At, Pass, Knows, Ready
  <1>2. /\ run'[e].target = run[e].target /\ run'[e].plan = run[e].plan
        /\ run'[e].done = run[e].done /\ run'[e].known = (run[e].known \ {}) \cup {}
        /\ Left(e) = {Head(run[e].todo)} \cup Left(e)' /\ Head(run[e].todo) \notin Left(e)'
        /\ \A y \in Left(e)' : y \in StepName /\ Place[Head(run[e].todo)] <= Place[y]
    BY <1>1, Going
  <1>3. Good(e) /\ JournalAhead /\ OpenOnTheRecord /\ ServedIsProven
    BY DEF IInv
  <1>4. (PlanIsGood(e) /\ DoneIsGood(e) /\ Complete(e))'
    BY <1>1, <1>2, <1>3, Places DEF Good, PlanIsGood, DoneIsGood, Complete, GoodImage
  <1>5. (Announced(e) /\ Placed(e) /\ Recorded(e))'
    BY <1>1, <1>2, <1>3 DEF Good, Announced, Placed, Recorded, JournalAhead
  <1>6. (Verified(e) /\ Vacated(e) /\ Shut(e))'
    BY <1>1, <1>2, <1>3 DEF Good, Verified, Placed, Vacated, Shut, OpenOnTheRecord, ServedIsProven
  <1>7. Drained(e)'
    BY <1>1, <1>2, <1>3, Places DEF Good, Drained
  <1> QED BY <1>1, <1>4, <1>5, <1>6, <1>7, PassKeeps DEF Good

\* What a rollback of a failed update asks instead.
LEMMA OneShotKeeps ==
  ASSUME IInv, NEW e \in Executor, OneShot(e)
  PROVE  IInv'
  <1>1. /\ run[e].todo # <<>> /\ Head(run[e].todo) = "oneshot" /\ Pass(e, {"revision"}) /\ mode = "draining" /\ work = 0
        /\ Proceed(e, {"revision"}, {}) /\ UNCHANGED <<journal, lock, app, mode, work, proven, trusted>>
    BY DEF OneShot, At, Pass, Knows, Ready
  <1>2. /\ run'[e].target = run[e].target /\ run'[e].plan = run[e].plan
        /\ run'[e].done = run[e].done /\ run'[e].known = (run[e].known \ {}) \cup {"revision"}
        /\ Left(e) = {Head(run[e].todo)} \cup Left(e)' /\ Head(run[e].todo) \notin Left(e)'
        /\ \A y \in Left(e)' : y \in StepName /\ Place[Head(run[e].todo)] <= Place[y]
    BY <1>1, Going
  <1>3. Good(e) /\ JournalAhead /\ OpenOnTheRecord /\ ServedIsProven
    BY DEF IInv
  <1>4. (PlanIsGood(e) /\ DoneIsGood(e) /\ Complete(e))'
    BY <1>1, <1>2, <1>3, Places DEF Good, PlanIsGood, DoneIsGood, Complete, GoodImage
  <1>5. (Announced(e) /\ Placed(e) /\ Recorded(e))'
    BY <1>1, <1>2, <1>3 DEF Good, Announced, Placed, Recorded, JournalAhead
  <1>6. (Verified(e) /\ Vacated(e) /\ Shut(e))'
    BY <1>1, <1>2, <1>3 DEF Good, Verified, Placed, Vacated, Shut, OpenOnTheRecord, ServedIsProven
  <1>7. Drained(e)'
    BY <1>1, <1>2, <1>3, Places DEF Good, Drained
  <1> QED BY <1>1, <1>4, <1>5, <1>6, <1>7, PassKeeps DEF Good

\* An image that serves has been proven.
LEMMA VerifyKeeps ==
  ASSUME IInv, NEW e \in Executor, Verify(e)
  PROVE  IInv'
  <1>1. /\ run[e].todo # <<>> /\ Head(run[e].todo) = "verify" /\ Pass(e, {}) /\ Serving /\ app.image = run[e].target
        /\ Proceed(e, {}, {}) /\ UNCHANGED <<journal, lock, app, mode, work, proven, trusted>>
    BY DEF Verify, At, Pass, Knows, Ready
  <1>2. /\ run'[e].target = run[e].target /\ run'[e].plan = run[e].plan
        /\ run'[e].done = run[e].done /\ run'[e].known = (run[e].known \ {}) \cup {}
        /\ Left(e) = {Head(run[e].todo)} \cup Left(e)' /\ Head(run[e].todo) \notin Left(e)'
        /\ \A y \in Left(e)' : y \in StepName /\ Place[Head(run[e].todo)] <= Place[y]
    BY <1>1, Going
  <1>3. Good(e) /\ JournalAhead /\ OpenOnTheRecord /\ ServedIsProven
    BY DEF IInv
  <1>4. (PlanIsGood(e) /\ DoneIsGood(e) /\ Complete(e))'
    BY <1>1, <1>2, <1>3, Places DEF Good, PlanIsGood, DoneIsGood, Complete, GoodImage
  <1>5. (Announced(e) /\ Placed(e) /\ Recorded(e))'
    BY <1>1, <1>2, <1>3 DEF Good, Announced, Placed, Recorded, JournalAhead
  <1>6. (Verified(e) /\ Vacated(e) /\ Shut(e))'
    BY <1>1, <1>2, <1>3 DEF Good, Verified, Placed, Vacated, Shut, OpenOnTheRecord, ServedIsProven
  <1>7. Drained(e)'
    BY <1>1, <1>2, <1>3, Places DEF Good, Drained
  <1> QED BY <1>1, <1>4, <1>5, <1>6, <1>7, PassKeeps DEF Good

\* Entering maintenance closes admission and is still to be waited for.
LEMMA DrainKeeps ==
  ASSUME IInv, NEW e \in Executor, Drain(e)
  PROVE  IInv'
  <1>1. /\ run[e].todo # <<>> /\ Head(run[e].todo) = "drain" /\ mode' = "draining"
        /\ UNCHANGED <<journal, lock, app, work, proven, trusted>>
        /\ \E o \in {{}, {"revision"}} : Proceed(e, {"revision"}, o)
    BY DEF Drain, At, Switch
  <1>2. PICK o \in {{}, {"revision"}} : Proceed(e, {"revision"}, o)
    BY <1>1
  <1>3. /\ run'[e].target = run[e].target /\ run'[e].plan = run[e].plan
        /\ run'[e].done = run[e].done /\ run'[e].known = (run[e].known \ o) \cup {"revision"}
        /\ Left(e) = {Head(run[e].todo)} \cup Left(e)' /\ Head(run[e].todo) \notin Left(e)'
        /\ \A y \in Left(e)' : y \in StepName /\ Place[Head(run[e].todo)] <= Place[y]
    BY <1>1, <1>2, Going
  <1>4. Good(e) /\ JournalAhead /\ OpenOnTheRecord /\ ServedIsProven /\ Types
    BY DEF IInv
  <1>5. (PlanIsGood(e) /\ DoneIsGood(e) /\ Complete(e))'
    BY <1>1, <1>3, <1>4, Places DEF Good, PlanIsGood, DoneIsGood, Complete, GoodImage
  <1>6. (Announced(e) /\ Placed(e) /\ Recorded(e) /\ Verified(e))'
    BY <1>1, <1>3, <1>4 DEF Good, Announced, Placed, Recorded, Verified
  <1>7. (Vacated(e) /\ Shut(e) /\ Drained(e))'
    BY <1>1, <1>3, <1>4 DEF Good, Vacated, Shut, Drained, Complete
  <1>8. ServedIsProven' /\ JournalAhead' /\ OpenOnTheRecord'
    BY <1>1, <1>4 DEF ServedIsProven, Serving, JournalAhead, OpenOnTheRecord
  <1> QED BY <1>1, <1>2, <1>4, <1>5, <1>6, <1>7, <1>8, GoingOn DEF Good, Types

\* The plan announces the change while what it goes back to has served.
LEMMA PlanKeeps ==
  ASSUME IInv, NEW e \in Executor, Plan(e)
  PROVE  IInv'
  <1>1. /\ run[e].todo # <<>> /\ Head(run[e].todo) = "plan" /\ journal' = (IF run[e].plan = None THEN journal ELSE run[e].plan)
        /\ Proceed(e, {}, {}) /\ UNCHANGED <<lock, app, mode, work, proven, trusted>>
    BY DEF Plan, At, Pass, Knows, Switch
  <1>2. /\ run'[e].target = run[e].target /\ run'[e].plan = run[e].plan
        /\ run'[e].done = run[e].done /\ run'[e].known = (run[e].known \ {}) \cup {}
        /\ Left(e) = {Head(run[e].todo)} \cup Left(e)' /\ Head(run[e].todo) \notin Left(e)'
        /\ \A y \in Left(e)' : y \in StepName /\ Place[Head(run[e].todo)] <= Place[y]
    BY <1>1, Going
  <1>3. Good(e) /\ JournalAhead /\ OpenOnTheRecord /\ ServedIsProven /\ Types
    BY DEF IInv
  <1>a. run[e] \in Command /\ run[e].done \in {None} \cup Journal
        /\ run[e].plan \in {None} \cup Journal /\ run[e].target \in Image \cup {None}
    BY <1>3 DEF Types, Command
  <1>4. (PlanIsGood(e) /\ DoneIsGood(e) /\ Complete(e))'
    BY <1>1, <1>2, <1>3, Places DEF Good, PlanIsGood, DoneIsGood, Complete, GoodImage
  <1>5. (Announced(e) /\ Placed(e) /\ Recorded(e))'
    BY <1>1, <1>2, <1>3, <1>a, Places, DeployAssumption
    DEF Good, Announced, Placed, Recorded, Complete, PlanIsGood, DoneIsGood
  <1>6. (Verified(e) /\ Vacated(e) /\ Shut(e))'
    BY <1>1, <1>2, <1>3, Places DEF Good, Verified, Vacated, Shut
  <1>7. Drained(e)'
    BY <1>1, <1>2, <1>3, Places DEF Good, Drained, Complete
  <1>b. ~(mode = "open" /\ trusted)
    BY <1>1, <1>2, <1>3, Places DEF Good, Complete, Shut
  <1>8. ServedIsProven' /\ OpenOnTheRecord'
    BY <1>1, <1>3, <1>b DEF ServedIsProven, Serving, OpenOnTheRecord
  <1>9. JournalAhead'
    BY <1>1, <1>2, <1>3 DEF Good, PlanIsGood, GoodImage, JournalAhead
  <1>10. journal' \in {None} \cup Journal
    BY <1>1, <1>3, <1>a DEF Types
  <1> QED BY <1>1, <1>3, <1>4, <1>5, <1>6, <1>7, <1>8, <1>9, <1>10, GoingOn DEF Good, Types

\* What is stopped has been announced, behind closed doors.
LEMMA StopKeeps ==
  ASSUME IInv, NEW e \in Executor, Stop(e)
  PROVE  IInv'
  <1>1. /\ run[e].todo # <<>> /\ Head(run[e].todo) = "stop" /\ app' = None
        /\ Proceed(e, {}, {}) /\ UNCHANGED <<journal, lock, mode, work, proven, trusted>>
    BY DEF Stop, At, Pass, Knows, Switch
  <1>2. /\ run'[e].target = run[e].target /\ run'[e].plan = run[e].plan
        /\ run'[e].done = run[e].done /\ run'[e].known = (run[e].known \ {}) \cup {}
        /\ Left(e) = {Head(run[e].todo)} \cup Left(e)' /\ Head(run[e].todo) \notin Left(e)'
        /\ \A y \in Left(e)' : y \in StepName /\ Place[Head(run[e].todo)] <= Place[y]
    BY <1>1, Going
  <1>3. Good(e) /\ JournalAhead /\ OpenOnTheRecord /\ ServedIsProven /\ Types
    BY DEF IInv
  <1>a. run[e] \in Command /\ run[e].done \in {None} \cup Journal
        /\ run[e].plan \in {None} \cup Journal /\ run[e].target \in Image \cup {None}
    BY <1>3 DEF Types, Command
  <1>4. (PlanIsGood(e) /\ DoneIsGood(e) /\ Complete(e))'
    BY <1>1, <1>2, <1>3, Places DEF Good, PlanIsGood, DoneIsGood, Complete, GoodImage
  <1>5. (Announced(e) /\ Placed(e) /\ Recorded(e))'
    BY <1>1, <1>2, <1>3, <1>a, Places, DeployAssumption
    DEF Good, Announced, Placed, Recorded, Complete, PlanIsGood, DoneIsGood
  <1>6. (Verified(e) /\ Vacated(e) /\ Shut(e))'
    BY <1>1, <1>2, <1>3, Places DEF Good, Verified, Vacated, Shut
  <1>7. Drained(e)'
    BY <1>1, <1>2, <1>3, Places DEF Good, Drained, Complete
  <1>b. /\ ~(mode = "open" /\ trusted)
        /\ journal # None => journal.pending # None
    BY <1>1, <1>2, <1>3, Places DEF Good, Complete, Shut, Announced
  <1>8. ServedIsProven' /\ OpenOnTheRecord'
    BY <1>1, <1>3, <1>b DEF ServedIsProven, Serving, OpenOnTheRecord
  <1>9. JournalAhead'
    BY <1>1, <1>3, <1>b DEF JournalAhead
  <1> QED BY <1>1, <1>3, <1>4, <1>5, <1>6, <1>7, <1>8, <1>9, GoingOn DEF Good, Types

\* So has what is started.
LEMMA LaunchKeeps ==
  ASSUME IInv, NEW e \in Executor, Launch(e)
  PROVE  IInv'
  <1>1. /\ run[e].todo # <<>> /\ Head(run[e].todo) = "start" /\ app' = [image |-> run[e].target, serving |-> FALSE]
        /\ Proceed(e, {}, {}) /\ UNCHANGED <<journal, lock, mode, work, proven, trusted>>
    BY DEF Launch, At, Pass, Knows, Switch
  <1>2. /\ run'[e].target = run[e].target /\ run'[e].plan = run[e].plan
        /\ run'[e].done = run[e].done /\ run'[e].known = (run[e].known \ {}) \cup {}
        /\ Left(e) = {Head(run[e].todo)} \cup Left(e)' /\ Head(run[e].todo) \notin Left(e)'
        /\ \A y \in Left(e)' : y \in StepName /\ Place[Head(run[e].todo)] <= Place[y]
    BY <1>1, Going
  <1>3. Good(e) /\ JournalAhead /\ OpenOnTheRecord /\ ServedIsProven /\ Types
    BY DEF IInv
  <1>a. run[e] \in Command /\ run[e].done \in {None} \cup Journal
        /\ run[e].plan \in {None} \cup Journal /\ run[e].target \in Image \cup {None}
    BY <1>3 DEF Types, Command
  <1>b. run[e].target \in Image /\ app' \in Container /\ app' # None
        /\ app'.image = run[e].target /\ ~app'.serving
    <2>1. run[e].target # None
      BY <1>1, <1>2, <1>3 DEF Good, Complete, DoneIsGood
    <2>2. app' \in Container
      BY <1>1, <1>a, <2>1 DEF Container
    <2>3. app'.image = run[e].target /\ ~app'.serving
      BY <1>1
    <2> QED BY <1>a, <2>1, <2>2, <2>3, DeployAssumption
  <1>4. (PlanIsGood(e) /\ DoneIsGood(e) /\ Complete(e))'
    BY <1>1, <1>2, <1>3, Places DEF Good, PlanIsGood, DoneIsGood, Complete, GoodImage
  <1>5. (Announced(e) /\ Placed(e) /\ Recorded(e))'
    BY <1>1, <1>2, <1>3, <1>a, <1>b, Places, DeployAssumption
    DEF Good, Announced, Placed, Recorded, Complete, PlanIsGood, DoneIsGood
  <1>6. (Verified(e) /\ Vacated(e) /\ Shut(e))'
    BY <1>1, <1>2, <1>3, Places DEF Good, Verified, Vacated, Shut
  <1>7. Drained(e)'
    BY <1>1, <1>2, <1>3, Places DEF Good, Drained, Complete
  <1>c. /\ ~(mode = "open" /\ trusted)
        /\ journal # None => journal.pending # None
    BY <1>1, <1>2, <1>3, Places DEF Good, Complete, Shut, Announced
  <1>8. ServedIsProven' /\ OpenOnTheRecord'
    BY <1>1, <1>b, <1>c DEF ServedIsProven, Serving, OpenOnTheRecord
  <1>9. JournalAhead'
    BY <1>1, <1>3, <1>c DEF JournalAhead
  <1> QED BY <1>1, <1>3, <1>b, <1>4, <1>5, <1>6, <1>7, <1>8, <1>9, GoingOn DEF Good, Types

\* What is recorded runs and has been verified.
LEMMA RecordKeeps ==
  ASSUME IInv, NEW e \in Executor, Record(e)
  PROVE  IInv'
  <1>1. /\ run[e].todo # <<>> /\ Head(run[e].todo) = "record" /\ journal' = run[e].done
        /\ Proceed(e, {}, {}) /\ UNCHANGED <<lock, app, mode, work, proven, trusted>>
    BY DEF Record, At, Pass, Knows, Switch
  <1>2. /\ run'[e].target = run[e].target /\ run'[e].plan = run[e].plan
        /\ run'[e].done = run[e].done /\ run'[e].known = (run[e].known \ {}) \cup {}
        /\ Left(e) = {Head(run[e].todo)} \cup Left(e)' /\ Head(run[e].todo) \notin Left(e)'
        /\ \A y \in Left(e)' : y \in StepName /\ Place[Head(run[e].todo)] <= Place[y]
    BY <1>1, Going
  <1>3. Good(e) /\ JournalAhead /\ OpenOnTheRecord /\ ServedIsProven /\ Types
    BY DEF IInv
  <1>a. run[e] \in Command /\ run[e].done \in {None} \cup Journal
        /\ run[e].plan \in {None} \cup Journal /\ run[e].target \in Image \cup {None}
    BY <1>3 DEF Types, Command
  <1>4. (PlanIsGood(e) /\ DoneIsGood(e) /\ Complete(e))'
    BY <1>1, <1>2, <1>3, Places DEF Good, PlanIsGood, DoneIsGood, Complete, GoodImage
  <1>5. (Announced(e) /\ Placed(e) /\ Recorded(e))'
    BY <1>1, <1>2, <1>3, <1>a, Places, DeployAssumption
    DEF Good, Announced, Placed, Recorded, Complete, PlanIsGood, DoneIsGood
  <1>6. (Verified(e) /\ Vacated(e) /\ Shut(e))'
    BY <1>1, <1>2, <1>3, Places DEF Good, Verified, Vacated, Shut
  <1>7. Drained(e)'
    BY <1>1, <1>2, <1>3, Places DEF Good, Drained, Complete
  <1>b. /\ ~(mode = "open" /\ trusted) /\ run[e].done # None /\ run[e].target \in proven
        /\ app # None /\ app.image = run[e].target
        /\ run[e].done.current = run[e].target /\ GoodImage(run[e].done.previous)
    BY <1>1, <1>2, <1>3, Places DEF Good, DoneIsGood, Shut, Verified, Placed
  <1>8. ServedIsProven' /\ OpenOnTheRecord'
    BY <1>1, <1>3, <1>b DEF ServedIsProven, Serving, OpenOnTheRecord
  <1>9. JournalAhead'
    BY <1>1, <1>b DEF JournalAhead, GoodImage
  <1>10. journal' \in {None} \cup Journal
    BY <1>1, <1>a
  <1> QED BY <1>1, <1>3, <1>4, <1>5, <1>6, <1>7, <1>8, <1>9, <1>10, GoingOn DEF Good, Types

\* Admission reopens on what the command has recorded.
LEMMA ReopenKeeps ==
  ASSUME IInv, NEW e \in Executor, Reopen(e)
  PROVE  IInv'
  <1>1. /\ run[e].todo # <<>> /\ Head(run[e].todo) = "reopen" /\ mode' = "open" /\ trusted' = (run[e].done # None)
        /\ Proceed(e, {"revision"}, {"revision"}) /\ UNCHANGED <<journal, lock, app, work, proven>>
    BY DEF Reopen, At, Pass, Knows, Switch
  <1>2. /\ run'[e].target = run[e].target /\ run'[e].plan = run[e].plan
        /\ run'[e].done = run[e].done /\ run'[e].known = (run[e].known \ {"revision"}) \cup {"revision"}
        /\ Left(e) = {Head(run[e].todo)} \cup Left(e)' /\ Head(run[e].todo) \notin Left(e)'
        /\ \A y \in Left(e)' : y \in StepName /\ Place[Head(run[e].todo)] <= Place[y]
    BY <1>1, Going
  <1>3. Good(e) /\ JournalAhead /\ OpenOnTheRecord /\ ServedIsProven /\ Types
    BY DEF IInv
  <1>a. run[e] \in Command /\ run[e].done \in {None} \cup Journal
        /\ run[e].plan \in {None} \cup Journal /\ run[e].target \in Image \cup {None}
    BY <1>3 DEF Types, Command
  <1>4. (PlanIsGood(e) /\ DoneIsGood(e) /\ Complete(e))'
    BY <1>1, <1>2, <1>3, Places DEF Good, PlanIsGood, DoneIsGood, Complete, GoodImage
  <1>5. (Announced(e) /\ Placed(e) /\ Recorded(e))'
    BY <1>1, <1>2, <1>3, <1>a, Places, DeployAssumption
    DEF Good, Announced, Placed, Recorded, Complete, PlanIsGood, DoneIsGood
  <1>6. (Verified(e) /\ Vacated(e) /\ Shut(e))'
    BY <1>1, <1>2, <1>3, Places DEF Good, Verified, Vacated, Shut
  <1>7. Drained(e)'
    BY <1>1, <1>2, <1>3, Places DEF Good, Drained, Complete
  <1>8. ServedIsProven' /\ JournalAhead'
    BY <1>1, <1>3 DEF ServedIsProven, Serving, JournalAhead
  <1>9. OpenOnTheRecord'
    <2>1. CASE run[e].done = None
      BY <1>1, <2>1 DEF OpenOnTheRecord
    <2>2. CASE run[e].done # None
      <3>1. Left(e) # {} /\ "record" \notin Left(e)
        BY <1>1, <1>2, Places
      <3>2. /\ journal = run[e].done /\ app # None /\ app.image = run[e].done.current
            /\ run[e].done.pending = None
        BY <1>3, <2>2, <3>1 DEF Good, Recorded, DoneIsGood
      <3> QED BY <1>1, <2>2, <3>2 DEF OpenOnTheRecord
    <2> QED BY <2>1, <2>2
  <1> QED BY <1>1, <1>3, <1>4, <1>5, <1>6, <1>7, <1>8, <1>9, GoingOn DEF Good, Types

\* The migration runs alone, and closes admission if it was open.
LEMMA MigrateKeeps ==
  ASSUME IInv, NEW e \in Executor, Migrate(e)
  PROVE  IInv'
  <1>1. /\ run[e].todo # <<>> /\ Head(run[e].todo) = "migrate" /\ mode' = "draining"
        /\ UNCHANGED <<journal, lock, app, work, proven, trusted>>
        /\ \/ mode = "draining" /\ Proceed(e, {}, {})
           \/ Proceed(e, {}, {"revision"})
    BY DEF Migrate, At, Pass
  <1>2. PICK o \in {{}, {"revision"}} :
          Proceed(e, {}, o) /\ (mode = "draining" \/ o = {"revision"})
    BY <1>1
  <1>3. /\ run'[e].target = run[e].target /\ run'[e].plan = run[e].plan
        /\ run'[e].done = run[e].done /\ run'[e].known = (run[e].known \ o) \cup {}
        /\ Left(e) = {Head(run[e].todo)} \cup Left(e)' /\ Head(run[e].todo) \notin Left(e)'
        /\ \A y \in Left(e)' : y \in StepName /\ Place[Head(run[e].todo)] <= Place[y]
    BY <1>1, <1>2, Going
  <1>4. Good(e) /\ JournalAhead /\ OpenOnTheRecord /\ ServedIsProven /\ Types
    BY DEF IInv
  <1>5. (PlanIsGood(e) /\ DoneIsGood(e) /\ Complete(e))'
    BY <1>1, <1>3, <1>4, Places DEF Good, PlanIsGood, DoneIsGood, Complete, GoodImage
  <1>6. (Announced(e) /\ Placed(e) /\ Recorded(e) /\ Verified(e))'
    BY <1>1, <1>3, <1>4 DEF Good, Announced, Placed, Recorded, Verified
  <1>7. (Vacated(e) /\ Shut(e))'
    BY <1>1, <1>3, <1>4 DEF Good, Vacated, Shut
  <1>8. Drained(e)'
    BY <1>1, <1>2, <1>3, <1>4 DEF Good, Drained
  <1>9. ServedIsProven' /\ JournalAhead' /\ OpenOnTheRecord'
    BY <1>1, <1>4 DEF ServedIsProven, Serving, JournalAhead, OpenOnTheRecord
  <1> QED BY <1>1, <1>2, <1>4, <1>5, <1>6, <1>7, <1>8, <1>9, GoingOn DEF Good, Types

------------------------------------------------------------------------------
(* Commands begin and end *)

\* Nobody is in a command while the lock is free.
LEMMA FreeIsIdle ==
  ASSUME IInv, lock = None
  PROVE  \A x \in Executor : run[x] = Idle
  BY DeployAssumption DEF IInv, Exclusive

\* Where the rest stays, the invariant holds if it does of the one who begins.
LEMMA BeginKeeps ==
  ASSUME IInv, NEW e \in Executor, NEW c \in Command, Sorted(c.todo),
         lock = None, lock' = e, run' = [run EXCEPT ![e] = c],
         UNCHANGED <<journal, app, mode, work, proven, trusted>>, Good(e)'
  PROVE  IInv'
  <1>1. \A x \in Executor : run[x] = Idle
    BY FreeIsIdle
  <1>2. \A x \in Executor \ {e} : run'[x] = Idle
    BY <1>1 DEF IInv, Types
  <1>3. run'[e] = c /\ run' \in [Executor -> Command]
    BY DEF IInv, Types
  <1>4. Types'
    BY <1>2, <1>3, IdleIsCommand DEF IInv, Types
  <1>5. Exclusive'
    BY <1>2 DEF Exclusive
  <1>6. \A x \in Executor : Good(x)'
    BY <1>2, IdleIsGood
  <1>7. ServedIsProven' /\ JournalAhead' /\ OpenOnTheRecord'
    BY DEF IInv, ServedIsProven, Serving, JournalAhead, OpenOnTheRecord
  <1> QED BY <1>4, <1>5, <1>6, <1>7 DEF IInv

\* What a command may count on when it begins.
LEMMA Known ==
  ASSUME IInv
  PROVE  /\ Current \in Image \cup {None} /\ GoodImage(Current)
         /\ journal # None =>
              /\ journal \in Journal
              /\ journal.current \in Image /\ journal.previous \in Image \cup {None}
              /\ GoodImage(journal.current) /\ GoodImage(journal.previous)
         /\ app # None => app \in Container /\ app.image \in Image
         /\ \A i \in Image : i # None
         /\ \A j \in Journal : j # None
         /\ \A t \in Image, p \in Image \cup {None} : Done(t, p) \in Journal
  <1>1. journal \in {None} \cup Journal /\ app \in {None} \cup Container /\ JournalAhead
    BY DEF IInv, Types
  <1>2. journal # None =>
          /\ journal \in Journal
          /\ journal.current \in Image /\ journal.previous \in Image \cup {None}
          /\ GoodImage(journal.current) /\ GoodImage(journal.previous)
    BY <1>1 DEF Journal, JournalAhead, GoodImage
  <1>3. app # None => app \in Container /\ app.image \in Image
    BY <1>1 DEF Container
  <1>4. Current \in Image \cup {None} /\ GoodImage(Current)
    BY <1>2 DEF Current, GoodImage
  <1>5. \A t \in Image, p \in Image \cup {None} : Done(t, p) \in Journal
    BY DEF Done, Journal
  <1> QED BY <1>2, <1>3, <1>4, <1>5, DeployAssumption

LEMMA InstallKeeps ==
  ASSUME IInv, NEW e \in Executor, NEW i \in Image, StartInstall(e, i)
  PROVE  IInv'
  <1> DEFINE c == [todo |-> InstallSteps, target |-> i, plan |-> None, done |-> Done(i, Current),
                   known |-> {}]
  <1>1. /\ lock = None /\ lock' = e /\ run' = [run EXCEPT ![e] = c]
        /\ UNCHANGED <<journal, app, mode, work, proven, trusted>>
    BY DEF StartInstall, Begin
  <1>2. Done(i, Current) \in Journal /\ Done(i, Current) # None /\ i # None /\ GoodImage(Current)
    BY Known
  <1>3. c \in Command /\ Sorted(c.todo)
    BY <1>2, InstallSorted DEF Command, Sorted
  <1>4. run'[e] = c
    BY <1>1 DEF IInv, Types
  <1>5. /\ run'[e].target = i /\ run'[e].done = Done(i, Current) /\ run'[e].known = {}
        /\ Left(e)' = Members(InstallSteps)
    BY <1>4 DEF Left
  <1>6. (PlanIsGood(e) /\ Complete(e) /\ Announced(e) /\ Verified(e) /\ Placed(e))'
    BY <1>5, InstallSorted DEF PlanIsGood, Complete, Announced, Verified, Placed
  <1>7. (Recorded(e) /\ Vacated(e) /\ Shut(e) /\ Drained(e))'
    BY <1>5, InstallSorted DEF Recorded, Vacated, Shut, Drained
  <1>8. DoneIsGood(e)'
    BY <1>1, <1>2, <1>5 DEF DoneIsGood, Done, GoodImage
  <1> QED BY <1>1, <1>3, <1>6, <1>7, <1>8, BeginKeeps DEF Good

LEMMA DeployKeeps ==
  ASSUME IInv, NEW e \in Executor, NEW i \in Image, StartDeploy(e, i)
  PROVE  IInv'
  <1> DEFINE good == IF Pending THEN journal.current ELSE app.image
             before == IF journal = None THEN None ELSE journal.previous
             plan == [current |-> good, previous |-> before, pending |-> i]
             c == [todo |-> DeploySteps, target |-> i, plan |-> plan, done |-> Done(i, good),
                   known |-> {}]
  <1>1. /\ Serving /\ lock = None /\ lock' = e /\ run' = [run EXCEPT ![e] = c]
        /\ UNCHANGED <<journal, app, mode, work, proven, trusted>>
    BY DEF StartDeploy, Begin
  <1>2. /\ good \in Image /\ GoodImage(good)
        /\ before \in Image \cup {None} /\ GoodImage(before) /\ i # None
    BY <1>1, Known DEF IInv, ServedIsProven, Serving, Pending, GoodImage
  <1> HIDE DEF good, before
  <1>3. plan \in Journal /\ plan # None /\ Done(i, good) \in Journal /\ Done(i, good) # None
    BY <1>2, Known DEF Journal
  <1>4. c \in Command /\ Sorted(c.todo)
    BY <1>3, DeploySorted DEF Command, Sorted
  <1>5. run'[e] = c
    BY <1>1 DEF IInv, Types
  <1>6. /\ run'[e].target = i /\ run'[e].plan = plan /\ run'[e].done = Done(i, good)
        /\ run'[e].known = {} /\ Left(e)' = Members(DeploySteps)
    BY <1>5 DEF Left
  <1>7. (Complete(e) /\ Announced(e) /\ Verified(e) /\ Placed(e))'
    BY <1>6, DeploySorted DEF Complete, Announced, Verified, Placed
  <1>8. (Recorded(e) /\ Vacated(e) /\ Shut(e) /\ Drained(e))'
    BY <1>6, DeploySorted DEF Recorded, Vacated, Shut, Drained
  <1>9. PlanIsGood(e)' /\ DoneIsGood(e)'
    BY <1>1, <1>2, <1>3, <1>6 DEF PlanIsGood, DoneIsGood, Done, GoodImage
  <1> QED BY <1>1, <1>4, <1>7, <1>8, <1>9, BeginKeeps DEF Good

LEMMA RollbackKeeps ==
  ASSUME IInv, NEW e \in Executor, NEW i \in Image, StartRollback(e, i)
  PROVE  IInv'
  <1> DEFINE failed == app = None \/ Pending
             plan == IF journal = None THEN None ELSE [journal EXCEPT !.pending = i]
             before == IF Current = i THEN journal.previous ELSE Current
             c == [todo |-> RollbackSteps(failed), target |-> i, plan |-> plan,
                   done |-> Done(i, before), known |-> {}]
  <1>1. /\ lock = None /\ lock' = e /\ run' = [run EXCEPT ![e] = c]
        /\ UNCHANGED <<journal, app, mode, work, proven, trusted>>
    BY DEF StartRollback, Begin
  <1>2. before \in Image \cup {None} /\ GoodImage(before) /\ i # None
    BY Known DEF Current
  <1>3. /\ journal = None => plan = None
        /\ journal # None => /\ plan \in Journal /\ plan # None /\ plan.pending = i
                             /\ GoodImage(plan.current) /\ GoodImage(plan.previous)
    BY Known DEF Journal
  <1>4. failed \in BOOLEAN
    OBVIOUS
  <1> HIDE DEF before, plan, failed
  <1>5. Done(i, before) \in Journal /\ Done(i, before) # None
    BY <1>2, Known
  <1>6. c \in Command /\ Sorted(c.todo)
    BY <1>3, <1>4, <1>5, RollbackSorted DEF Command, Sorted
  <1>7. run'[e] = c
    BY <1>1 DEF IInv, Types
  <1>8. /\ run'[e].target = i /\ run'[e].plan = plan /\ run'[e].done = Done(i, before)
        /\ run'[e].known = {} /\ Left(e)' = Members(RollbackSteps(failed))
    BY <1>7 DEF Left
  <1>9. /\ {"plan", "stop", "start", "verify", "record"} \subseteq Left(e)'
        /\ Left(e)' \cap {"migrate", "vacant"} = {}
        /\ "oneshot" \in Left(e)' \/ {"drain", "ready"} \subseteq Left(e)'
        /\ "drain" \in Left(e)' => "ready" \in Left(e)'
    BY <1>4, <1>8, RollbackSorted
  <1>10. (Complete(e) /\ Announced(e) /\ Verified(e) /\ Placed(e))'
    BY <1>9 DEF Complete, Announced, Verified, Placed
  <1>11. (Recorded(e) /\ Vacated(e) /\ Shut(e) /\ Drained(e))'
    BY <1>8, <1>9 DEF Recorded, Vacated, Shut, Drained
  <1>12. PlanIsGood(e)' /\ DoneIsGood(e)'
    BY <1>1, <1>2, <1>3, <1>5, <1>8 DEF PlanIsGood, DoneIsGood, Done, GoodImage
  <1> QED BY <1>1, <1>6, <1>10, <1>11, <1>12, BeginKeeps DEF Good

\* Commands that change no container.
LEMMA MaintenanceKeeps ==
  ASSUME IInv, NEW e \in Executor, StartDrain(e) \/ StartResume(e)
  PROVE  IInv'
  <1>1. PICK s \in {DrainApp \o <<"release">>, ResumeAfterChecks}, k \in {{}, {"revision"}} :
          run' = [run EXCEPT ![e] = [todo |-> s, target |-> None, plan |-> None, done |-> None,
                                     known |-> k]]
    BY DEF StartDrain, StartResume, Begin, Idle
  <1>2. /\ lock = None /\ lock' = e
        /\ UNCHANGED <<journal, app, mode, work, proven, trusted>>
    BY DEF StartDrain, StartResume, Begin
  <1> DEFINE c == [todo |-> s, target |-> None, plan |-> None, done |-> None, known |-> k]
  <1>3. /\ Sorted(s)
        /\ Members(s) \in {{"drain", "ready", "release"}, {"probe", "confirm", "reopen", "release"}}
    BY <1>1, Parts, DrainSorted
  <1>4. c \in Command /\ Sorted(c.todo)
    BY <1>1, <1>3 DEF Command, Sorted
  <1>5. run'[e] = c
    BY <1>1 DEF IInv, Types
  <1>6. run'[e].done = None /\ Left(e)' = Members(s)
    BY <1>5 DEF Left
  <1>7. /\ Left(e)' \cap {"plan", "stop", "start", "record", "migrate"} = {}
        /\ "drain" \in Left(e)' => "ready" \in Left(e)'
    BY <1>3, <1>6
  <1>8. Good(e)'
    BY <1>6, <1>7 DEF Good, PlanIsGood, DoneIsGood, Complete, Announced, Verified, Placed,
                      Recorded, Vacated, Shut, Drained
  <1> QED BY <1>1, <1>2, <1>4, <1>8, BeginKeeps

\* However a command ends, what it has done so far holds without it.
LEMMA EndKeeps ==
  ASSUME IInv, NEW e \in Executor, run[e] # Idle, run' = [run EXCEPT ![e] = Idle],
         UNCHANGED <<journal, app, mode, work, proven, trusted>>
  PROVE  IInv'
  <1>1. \A x \in Executor : run'[x] = Idle
    BY DEF IInv, Exclusive, Types
  <1>2. run' \in [Executor -> Command]
    BY IdleIsCommand DEF IInv, Types
  <1>3. Types'
    BY <1>1, <1>2, IdleIsCommand DEF IInv, Types
  <1>4. Exclusive'
    BY <1>1 DEF Exclusive
  <1>5. \A x \in Executor : Good(x)'
    BY <1>1, IdleIsGood
  <1>6. ServedIsProven' /\ JournalAhead' /\ OpenOnTheRecord'
    BY DEF IInv, ServedIsProven, Serving, JournalAhead, OpenOnTheRecord
  <1> QED BY <1>3, <1>4, <1>5, <1>6 DEF IInv

\* The lock of an idle executor is nobody's.
LEMMA UnlockKeeps ==
  ASSUME IInv, NEW e \in Executor, Unlock(e)
  PROVE  IInv'
  <1>1. UNCHANGED <<journal, run, app, mode, work, proven, trusted>>
    BY DEF Unlock
  <1>2. Exclusive'
    BY DEF IInv, Exclusive, Unlock
  <1>3. \A x \in Executor : Good(x)'
    BY <1>1 DEF IInv, Good, PlanIsGood, DoneIsGood, Complete, Announced, Verified, Placed,
                Recorded, Vacated, Shut, Drained, Left, GoodImage
  <1>4. Types' /\ ServedIsProven' /\ JournalAhead' /\ OpenOnTheRecord'
    BY <1>1 DEF IInv, Types, ServedIsProven, Serving, JournalAhead, OpenOnTheRecord
  <1> QED BY <1>2, <1>3, <1>4 DEF IInv

------------------------------------------------------------------------------
(* What goes on around the commands *)

\* Others outdate a reading, and leave the rest of every command alone.
LEMMA Outdated ==
  ASSUME IInv, NEW w, Outdate(w)
  PROVE  /\ run' \in [Executor -> Command]
         /\ \A x \in Executor :
              /\ run'[x].todo = run[x].todo /\ run'[x].target = run[x].target
              /\ run'[x].plan = run[x].plan /\ run'[x].done = run[x].done
              /\ run'[x].known = run[x].known \ {w}
              /\ Left(x)' = Left(x)
              /\ run[x] = Idle => run'[x] = Idle
  <1>1. ASSUME NEW x \in Executor
        PROVE  /\ run'[x] = [run[x] EXCEPT !.known = @ \ {w}]
               /\ run'[x] \in Command
    BY DEF Outdate, IInv, Types, Command
  <1>2. DOMAIN run' = Executor /\ run' = [x \in Executor |-> run'[x]]
    BY DEF Outdate
  <1>3. run' \in [Executor -> Command]
    BY <1>1, <1>2
  <1>4. ASSUME NEW x \in Executor
        PROVE  /\ run'[x].todo = run[x].todo /\ run'[x].target = run[x].target
               /\ run'[x].plan = run[x].plan /\ run'[x].done = run[x].done
               /\ run'[x].known = run[x].known \ {w}
    BY <1>1 DEF IInv, Types, Command
  <1>5. ASSUME NEW x \in Executor, run[x] = Idle PROVE run'[x] = Idle
    <2>1. run'[x] = [Idle EXCEPT !.known = @ \ {w}]
      BY <1>1, <1>5
    <2> QED BY <2>1 DEF Idle
  <1> QED BY <1>3, <1>4, <1>5 DEF Left

\* A new epoch is of the image that runs.
LEMMA BootKeeps ==
  ASSUME IInv, Boot
  PROVE  IInv'
  <1>1. /\ app # None /\ app' = [app EXCEPT !.serving = TRUE]
        /\ proven' = proven \cup {app.image} /\ Outdate("epoch")
        /\ UNCHANGED <<journal, lock, mode, work, trusted>>
    BY DEF Boot
  <1>2. app' \in Container /\ app' # None /\ app'.image = app.image
    BY <1>1, Known, DeployAssumption DEF Container
  <1>3. Types' /\ Exclusive'
    BY <1>1, <1>2, Outdated DEF IInv, Types, Exclusive
  <1>4. ServedIsProven' /\ JournalAhead' /\ OpenOnTheRecord'
    BY <1>1, <1>2 DEF IInv, ServedIsProven, JournalAhead, OpenOnTheRecord
  <1>5. ASSUME NEW x \in Executor PROVE Good(x)'
    <2>1. Good(x)
      BY DEF IInv
    <2>2. (PlanIsGood(x) /\ DoneIsGood(x) /\ Complete(x) /\ Announced(x) /\ Shut(x))'
      BY <1>1, <2>1, Outdated
      DEF Good, PlanIsGood, DoneIsGood, Complete, Announced, Shut, GoodImage
    <2>3. (Verified(x) /\ Placed(x) /\ Recorded(x) /\ Vacated(x))'
      BY <1>1, <1>2, <2>1, Outdated DEF Good, Verified, Placed, Recorded, Vacated
    <2>4. Drained(x)'
      BY <1>1, <2>1, Outdated DEF Good, Drained
    <2> QED BY <2>2, <2>3, <2>4 DEF Good
  <1> QED BY <1>3, <1>4, <1>5 DEF IInv

\* A crash of the server leaves its container.
LEMMA AppCrashKeeps ==
  ASSUME IInv, AppCrash
  PROVE  IInv'
  <1>1. /\ app # None /\ app' = [app EXCEPT !.serving = FALSE]
        /\ UNCHANGED <<journal, lock, run, mode, work, proven, trusted>>
    BY DEF AppCrash, Serving
  <1>2. app' \in Container /\ app' # None /\ app'.image = app.image /\ ~app'.serving
    BY <1>1, Known, DeployAssumption DEF Container
  <1>3. Types' /\ Exclusive'
    BY <1>1, <1>2 DEF IInv, Types, Exclusive
  <1>4. ServedIsProven' /\ JournalAhead' /\ OpenOnTheRecord'
    BY <1>1, <1>2 DEF IInv, ServedIsProven, Serving, JournalAhead, OpenOnTheRecord
  <1>5. ASSUME NEW x \in Executor PROVE Good(x)'
    <2>1. Good(x) /\ Left(x)' = Left(x)
      BY <1>1 DEF IInv, Left
    <2>2. (PlanIsGood(x) /\ DoneIsGood(x) /\ Complete(x) /\ Announced(x) /\ Shut(x))'
      BY <1>1, <2>1 DEF Good, PlanIsGood, DoneIsGood, Complete, Announced, Shut, GoodImage
    <2>3. (Verified(x) /\ Placed(x) /\ Recorded(x) /\ Vacated(x) /\ Drained(x))'
      BY <1>1, <1>2, <2>1 DEF Good, Verified, Placed, Recorded, Vacated, Drained
    <2> QED BY <2>2, <2>3 DEF Good
  <1> QED BY <1>3, <1>4, <1>5 DEF IInv

\* Matches start only while admission is open, and end only where there are some.
LEMMA WorkKeeps ==
  ASSUME IInv, Admit \/ Settle \/ LeaseLapses
  PROVE  IInv'
  <1>1. UNCHANGED <<journal, lock, run, app, mode, proven, trusted>>
    BY DEF Admit, Settle, LeaseLapses
  <1>2. work' \in Nat /\ (mode = "draining" /\ work = 0 => work' = 0)
    BY DEF IInv, Types, Admit, Settle, LeaseLapses
  <1>3. Types' /\ Exclusive' /\ ServedIsProven' /\ JournalAhead' /\ OpenOnTheRecord'
    BY <1>1, <1>2
    DEF IInv, Types, Exclusive, ServedIsProven, Serving, JournalAhead, OpenOnTheRecord
  <1>4. ASSUME NEW x \in Executor PROVE Good(x)'
    <2>1. Good(x) /\ Left(x)' = Left(x)
      BY <1>1 DEF IInv, Left
    <2>2. (PlanIsGood(x) /\ DoneIsGood(x) /\ Complete(x) /\ Announced(x) /\ Shut(x))'
      BY <1>1, <2>1 DEF Good, PlanIsGood, DoneIsGood, Complete, Announced, Shut, GoodImage
    <2>3. (Verified(x) /\ Placed(x) /\ Recorded(x) /\ Vacated(x) /\ Drained(x))'
      BY <1>1, <1>2, <2>1 DEF Good, Verified, Placed, Recorded, Vacated, Drained
    <2> QED BY <2>2, <2>3 DEF Good
  <1> QED BY <1>3, <1>4 DEF IInv

\* A remote operator takes every reading of the revision away, and is not trusted.
LEMMA RemoteKeeps ==
  ASSUME IInv, Remote
  PROVE  IInv'
  <1>1. /\ mode' \in {"open", "draining"} /\ ~(mode' = "open" /\ trusted')
        /\ Outdate("revision") /\ UNCHANGED <<journal, lock, app, work, proven>>
    BY DEF Remote
  <1>2. Types' /\ Exclusive'
    BY <1>1, Outdated DEF IInv, Types, Exclusive
  <1>3. ServedIsProven' /\ JournalAhead' /\ OpenOnTheRecord'
    BY <1>1 DEF IInv, ServedIsProven, Serving, JournalAhead, OpenOnTheRecord
  <1>4. ASSUME NEW x \in Executor PROVE Good(x)'
    <2>1. Good(x)
      BY DEF IInv
    <2>2. (PlanIsGood(x) /\ DoneIsGood(x) /\ Complete(x) /\ Announced(x))'
      BY <1>1, <2>1, Outdated DEF Good, PlanIsGood, DoneIsGood, Complete, Announced, GoodImage
    <2>3. (Verified(x) /\ Placed(x) /\ Recorded(x) /\ Vacated(x))'
      BY <1>1, <2>1, Outdated DEF Good, Verified, Placed, Recorded, Vacated
    <2>4. Shut(x)' /\ Drained(x)'
      BY <1>1, Outdated DEF Shut, Drained
    <2> QED BY <2>2, <2>3, <2>4 DEF Good
  <1> QED BY <1>2, <1>3, <1>4 DEF IInv

------------------------------------------------------------------------------
(* Every behaviour *)

LEMMA InitIInv == Init => IInv
  <1> SUFFICES ASSUME Init PROVE IInv
    OBVIOUS
  <1>1. Types
    BY IdleIsCommand DEF Init, Types
  <1>2. \A e \in Executor : run[e] = Idle /\ Left(e) = {} /\ run[e].done = None
    <2>1. Members(<<>>) = {} /\ Idle.todo = <<>> /\ Idle.done = None
      BY DEF Members, Idle
    <2> QED BY <2>1 DEF Init, Left
  <1>3. Exclusive /\ ServedIsProven /\ JournalAhead /\ OpenOnTheRecord
    BY <1>2 DEF Init, Exclusive, ServedIsProven, Serving, JournalAhead, OpenOnTheRecord
  <1>4. \A e \in Executor : Good(e)
    BY <1>2 DEF Good, PlanIsGood, DoneIsGood, Complete, Announced, Verified, Placed, Recorded,
                Vacated, Shut, Drained
  <1> QED BY <1>1, <1>3, <1>4 DEF IInv

LEMMA StepKeeps ==
  ASSUME IInv, NEW e \in Executor, Step(e)
  PROVE  IInv'
  <1>1. CASE Vacant(e)
    BY <1>1, VacantKeeps
  <1>2. CASE Drain(e) \/ DrainReady(e) \/ OneShot(e)
    BY <1>2, DrainKeeps, DrainReadyKeeps, OneShotKeeps
  <1>3. CASE Plan(e) \/ Stop(e) \/ Migrate(e) \/ Launch(e)
    BY <1>3, PlanKeeps, StopKeeps, MigrateKeeps, LaunchKeeps
  <1>4. CASE Verify(e) \/ Record(e) \/ Reopen(e)
    BY <1>4, VerifyKeeps, RecordKeeps, ReopenKeeps
  <1>5. CASE StillDrained(e) \/ Closed(e) \/ Confirm(e)
    <2>1. run[e].todo # <<>> /\ Pass(e, {}) /\ Head(run[e].todo) \in {"still", "closed", "confirm"}
      BY <1>5 DEF StillDrained, Closed, Confirm, At
    <2> QED BY <2>1, PlainPass
  <1>6. CASE Observe(e)
    <2>1. run[e].todo # <<>> /\ Pass(e, {"revision"}) /\ Head(run[e].todo) = "observe"
      BY <1>6 DEF Observe, At
    <2> QED BY <2>1, PlainPass
  <1>7. CASE Probe(e)
    <2>1. run[e].todo # <<>> /\ Pass(e, {"epoch"}) /\ Head(run[e].todo) = "probe"
      BY <1>7 DEF Probe, At
    <2> QED BY <2>1, PlainPass
  <1>8. CASE Release(e) \/ Refuse(e)
    <2>1. run[e].todo # <<>>
      BY <1>8 DEF Release, Refuse, Refused, At
    <2>2. run[e] # Idle
      BY <2>1 DEF Idle
    <2> QED BY <1>8, <2>2, EndKeeps DEF Release, Refuse, End
  <1> QED BY <1>1, <1>2, <1>3, <1>4, <1>5, <1>6, <1>7, <1>8 DEF Step

LEMMA NextIInv == IInv /\ [Next]_vars => IInv'
  <1> SUFFICES ASSUME IInv, [Next]_vars PROVE IInv'
    OBVIOUS
  <1>1. ASSUME NEW e \in Executor, Commands(e) PROVE IInv'
    BY <1>1, InstallKeeps, DeployKeeps, RollbackKeeps, MaintenanceKeeps DEF Commands
  <1>2. ASSUME NEW e \in Executor, Fail(e) \/ Crash(e) PROVE IInv'
    BY <1>2, EndKeeps DEF Fail, Crash, End
  <1>3. CASE UNCHANGED vars
    <2>1. UNCHANGED <<journal, lock, run, app, mode, work, proven, trusted>>
      BY <1>3 DEF vars
    <2>2. \A x \in Executor : Good(x)'
      BY <2>1 DEF IInv, Good, PlanIsGood, DoneIsGood, Complete, Announced, Verified, Placed,
                  Recorded, Vacated, Shut, Drained, Left, GoodImage
    <2> QED BY <2>1, <2>2
        DEF IInv, Types, Exclusive, ServedIsProven, Serving, JournalAhead, OpenOnTheRecord
  <1> QED BY <1>1, <1>2, <1>3, StepKeeps, UnlockKeeps, BootKeeps, AppCrashKeeps, WorkKeeps,
             RemoteKeeps DEF Next

LEMMA AlwaysIInv == Spec => []IInv
  BY InitIInv, NextIInv, PTL DEF Spec

\* Wherever an install, an update or a rollback is lost, deploy-state.json tells how to go
\* on: the container that runs is its current image or was announced as pending, and what
\* it offers to go back to has served.  For any number of executors, images and faults.
THEOREM JournalAheadHolds == Spec => []JournalAhead
  BY AlwaysIInv, PTL DEF IInv

\* Admission that an install, an update or a rollback has reopened is open on the image
\* deploy-state.json records, with no update pending.
THEOREM OpenOnTheRecordHolds == Spec => []OpenOnTheRecord
  BY AlwaysIInv, PTL DEF IInv

\* stopApp and startApp take a container down over running matches only after somebody
\* else has reopened admission since the command's own drain.
THEOREM NoGameStoppedHolds == Spec => NoGameStopped
  <1> DEFINE A == \A e \in Executor :
                    app # None /\ (Stop(e) \/ Launch(e)) /\ work > 0 => ~Knows(e, "revision")
  <1>1. IInv /\ [Next]_vars => A
    <2> SUFFICES ASSUME IInv, NEW e \in Executor, app # None, Stop(e) \/ Launch(e), work > 0,
                        Knows(e, "revision")
                 PROVE  FALSE
      BY Zenon
    <2>1. run[e].todo # <<>> /\ Head(run[e].todo) \in {"stop", "start"}
      BY DEF Stop, Launch, At
    <2>2. Proceed(e, {}, {})
      BY DEF Stop, Launch
    <2>3. /\ Head(run[e].todo) \in Left(e)
          /\ \A y \in Left(e) : y = Head(run[e].todo) \/ Place[Head(run[e].todo)] <= Place[y]
      BY <2>1, <2>2, Going
    <2>4. Left(e) \cap {"ready", "oneshot"} = {}
      BY <2>1, <2>3, Places
    <2>5. Drained(e)
      BY DEF IInv, Good
    <2> QED BY <2>1, <2>3, <2>4, <2>5 DEF Drained, Knows, IInv, Types
  <1>2. IInv /\ [Next]_vars => [A]_vars
    BY <1>1
  <1>3. IInv /\ IInv' /\ [Next]_vars => [A]_vars
    BY <1>2
  <1> QED BY <1>3, AlwaysIInv, PTL DEF Spec, NoGameStopped

\* The one-shot migration container never runs beside an app container.
THEOREM MigratesAloneHolds == Spec => MigratesAlone
  <1> DEFINE A == \A e \in Executor : Migrate(e) => app = None
  <1>1. IInv /\ [Next]_vars => A
    <2> SUFFICES ASSUME IInv, NEW e \in Executor, Migrate(e) PROVE app = None
      BY Zenon
    <2>1. run[e].todo # <<>> /\ Head(run[e].todo) = "migrate"
      BY DEF Migrate, At
    <2>2. Proceed(e, {}, {}) \/ Proceed(e, {}, {"revision"})
      BY DEF Migrate, Pass
    <2>3. /\ Head(run[e].todo) \in Left(e)
          /\ \A y \in Left(e) : y = Head(run[e].todo) \/ Place[Head(run[e].todo)] <= Place[y]
      <3>1. CASE Proceed(e, {}, {}) BY <2>1, <3>1, Going
      <3>2. CASE Proceed(e, {}, {"revision"}) BY <2>1, <3>2, Going
      <3> QED BY <2>2, <3>1, <3>2
    <2>4. Left(e) \cap {"stop", "vacant"} = {}
      BY <2>1, <2>3, Places
    <2>5. Vacated(e)
      BY DEF IInv, Good
    <2> QED BY <2>1, <2>3, <2>4, <2>5 DEF Vacated
  <1>2. IInv /\ IInv' /\ [Next]_vars => [A]_vars
    BY <1>1
  <1> QED BY <1>2, AlwaysIInv, PTL DEF Spec, MigratesAlone

------------------------------------------------------------------------------
(* Types *)

\* What is counted, held and remembered; the rest is in Types.
Held ==
  /\ lock \in Executor \cup {None} /\ lease \in {"free", "live", "lapsed"}
  /\ work \in 0..MaxWork /\ faults \in 0..MaxFaults
  /\ proven \subseteq Image /\ trusted \in BOOLEAN

\* What a step can assign, whichever it is.
LEMMA Assigned ==
  ASSUME [Next]_vars
  PROVE  /\ lock' \in {lock, None} \cup Executor
         /\ lease' \in {lease, "free", "live", "lapsed"}
         /\ \/ work' = work
            \/ work < MaxWork /\ work' = work + 1
            \/ work > 0 /\ work' = work - 1
         /\ faults' = faults \/ Fault
         /\ proven' = proven \/ (app # None /\ proven' = proven \cup {app.image})
  <1> USE DEF Next, vars, Commands, StartInstall, StartDeploy, StartRollback, StartDrain,
              StartResume, Begin, Step, Vacant, Drain, DrainReady, StillDrained, OneShot, Plan,
              Stop, Migrate, Launch, Verify, Observe, Closed, Record, Probe, Confirm, Reopen,
              Release, Refuse, End, Pass, Fail, Crash, Unlock, Boot, AppCrash, LeaseLapses,
              Admit, Settle, Remote
  <1>1. lock' \in {lock, None} \cup Executor
    OBVIOUS
  <1>2. lease' \in {lease, "free", "live", "lapsed"}
    OBVIOUS
  <1>3. \/ work' = work
        \/ work < MaxWork /\ work' = work + 1
        \/ work > 0 /\ work' = work - 1
    OBVIOUS
  <1>4. faults' = faults \/ Fault
    BY DEF Fault
  <1>5. proven' = proven \/ (app # None /\ proven' = proven \cup {app.image})
    OBVIOUS
  <1> QED BY <1>1, <1>2, <1>3, <1>4, <1>5

LEMMA TrustAssigned ==
  ASSUME [Next]_vars
  PROVE  trusted' = trusted \/ trusted' \in BOOLEAN
  <1>1. ASSUME NEW e \in Executor, Reopen(e) PROVE trusted' \in BOOLEAN
    BY <1>1, Zenon DEF Reopen
  <1>2. CASE Remote
    BY <1>2, Zenon DEF Remote
  <1>3. CASE [Next]_vars /\ ~Remote /\ \A e \in Executor : ~Reopen(e)
    <2>1. trusted' = trusted
      BY <1>3
      DEF Next, vars, Commands, StartInstall, StartDeploy, StartRollback, StartDrain,
          StartResume, Begin, Step, Vacant, Drain, DrainReady, StillDrained, OneShot, Plan,
          Stop, Migrate, Launch, Verify, Observe, Closed, Record, Probe, Confirm,
          Release, Refuse, End, Pass, Fail, Crash, Unlock, Boot, AppCrash, LeaseLapses,
          Admit, Settle
    <2> QED BY <2>1
  <1> QED BY <1>1, <1>2, <1>3

LEMMA HeldNext ==
  ASSUME IInv, Held, [Next]_vars
  PROVE  Held'
  <1>1. lock' \in Executor \cup {None} /\ lease' \in {"free", "live", "lapsed"}
    BY Assigned DEF Held
  <1>2. work' \in 0..MaxWork /\ faults' \in 0..MaxFaults
    BY Assigned, DeployAssumption DEF Held, Fault
  <1>3. proven' \subseteq Image
    <2>1. app # None => app.image \in Image
      BY DEF IInv, Types, Container
    <2> QED BY <2>1, Assigned DEF Held
  <1>4. trusted' \in BOOLEAN
    BY TrustAssigned, Zenon DEF Held
  <1> QED BY <1>1, <1>2, <1>3, <1>4 DEF Held

\* Every variable of the host and of the commands stays within its declared values.
THEOREM TypeCorrect == Spec => []TypeOK
  <1>1. Init => Held
    <2>1. Init => /\ lock \in Executor \cup {None} /\ lease \in {"free", "live", "lapsed"}
                  /\ work \in 0..MaxWork /\ faults \in 0..MaxFaults /\ proven \subseteq Image
      BY DeployAssumption DEF Init
    <2>2. Init => trusted \in BOOLEAN
      BY Zenon DEF Init
    <2> QED BY <2>1, <2>2 DEF Held
  <1>2. IInv /\ Held /\ [Next]_vars => Held'
    BY HeldNext
  <1>3. IInv /\ Held => TypeOK
    <2> SUFFICES ASSUME IInv, Held PROVE TypeOK
      OBVIOUS
    <2>1. \A e \in Executor : /\ run[e].target \in Image \cup {None}
                              /\ run[e].known \subseteq {"revision", "epoch"}
      BY DEF IInv, Types, Command
    <2>2. journal \in {None} \cup Journal /\ app \in {None} \cup Container
          /\ mode \in {"open", "draining"}
      BY DEF IInv, Types
    <2> QED BY <2>1, <2>2 DEF Held, TypeOK
  <1> QED BY AlwaysIInv, <1>1, <1>2, <1>3, PTL DEF Spec
=============================================================================
