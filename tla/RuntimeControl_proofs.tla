------------------------ MODULE RuntimeControl_proofs ------------------------
(***************************************************************************)
(* Safety of RuntimeControl for every value of its constants, and the      *)
(* proof that it implements DrainBarrier.                                  *)
(***************************************************************************)
EXTENDS RuntimeControl, TLAPS

USE NoneAssumption, TicksAssumption, BoundsAssumption

-----------------------------------------------------------------------------
(* The inductive invariant *)

\* No process holds a generation the row has not issued yet.
EpochsIssued == \A p \in Process : proc[p].epoch <= row.epoch

\* The last write belongs to a generation already issued.
WriterIssued == writer <= row.epoch

\* An operator's certificate is about the current drain, and nobody knows a future revision.
Certificates ==
  \A o \in Operator :
    /\ seen[o].revision <= row.revision
    /\ seen[o].ready /\ seen[o].revision = row.revision
         => row.mode = "draining" /\ Blocking = {}

IInv ==
  /\ TypeOK
  /\ FencedTransactions
  /\ EpochsIssued
  /\ DistinctEpochs
  /\ WriterIssued
  /\ Certificates

-----------------------------------------------------------------------------
\* Typing: every step keeps the shape of the state.
LEMMA TypeStep == TypeOK /\ [Next]_vars => TypeOK'
<1> SUFFICES ASSUME TypeOK, [Next]_vars PROVE TypeOK'
  OBVIOUS
<1> USE DEF TypeOK, Token, data, operators, RoomState, Status, Mode, Unread
<1>1. ASSUME NEW p \in Process, Run(p) PROVE TypeOK'
  <2>1. CASE Start(p)      BY <2>1 DEF Start
  <2>2. CASE Acquire(p)
    <3>1. row.epoch + 1 \in Nat /\ LeaseTicks \in 0..LeaseTicks  OBVIOUS
    <3>2. row' \in [owner : Process \cup {None}, epoch : Nat, lease : 0..LeaseTicks,
                    mode : Mode, revision : Nat]
      BY <2>2, <3>1 DEF Acquire
    <3>3. proc' \in [Process -> [status : Status, epoch : Nat]]
      BY <2>2, <3>1 DEF Acquire
    <3>4. QED BY <2>2, <3>2, <3>3 DEF Acquire
  <2>3. CASE GiveUp(p)     BY <2>3 DEF GiveUp
  <2>4. CASE Heartbeat(p)  BY <2>4 DEF Heartbeat
  <2>5. CASE Close(p)      BY <2>5 DEF Close
  <2>6. CASE Release(p)
    <3>1. row' \in [owner : Process \cup {None}, epoch : Nat, lease : 0..LeaseTicks,
                    mode : Mode, revision : Nat]
      <4>1. 0 \in 0..LeaseTicks  OBVIOUS
      <4>2. CASE Ours(p)   BY <2>6, <4>1, <4>2 DEF Release
      <4>3. CASE ~Ours(p)  BY <2>6, <4>3 DEF Release
      <4>4. QED BY <4>2, <4>3
    <3>2. proc' \in [Process -> [status : Status, epoch : Nat]]
      BY <2>6 DEF Release
    <3>3. QED BY <2>6, <3>1, <3>2 DEF Release
  <2>7. CASE Crash(p)      BY <2>7 DEF Crash
  <2>8. ASSUME NEW c \in Connection, Begin(p, c) PROVE TypeOK'
    BY <2>8 DEF Begin
  <2>9. QED BY <1>1, <2>1, <2>2, <2>3, <2>4, <2>5, <2>6, <2>7, <2>8 DEF Run
<1>2. CASE Tick \/ UNCHANGED vars
  BY <1>2 DEF Tick, vars
<1>3. CASE Transact
  <2> USE DEF Commit, MoveRoom
  <2> PICK t \in tx : \/ Abort(t)
                      \/ \E r \in Room : \/ CreateLobby(t, r) \/ StartMatch(t, r)
                                         \/ SettleMatch(t, r) \/ Rematch(t, r)
                                         \/ EndReservation(t, r)
                                         \/ \E us \in SUBSET waiting : Pair(t, us, r)
                      \/ \E u \in User : Enqueue(t, u) \/ Dequeue(t, u)
    BY <1>3 DEF Transact, TransactOn
  <2>1. CASE Abort(t)  BY <2>1 DEF Abort
  <2>2. ASSUME NEW r \in Room, CreateLobby(t, r) PROVE TypeOK'
    BY <2>2 DEF CreateLobby
  <2>3. ASSUME NEW r \in Room, StartMatch(t, r) PROVE TypeOK'
    BY <2>3 DEF StartMatch
  <2>4. ASSUME NEW r \in Room, SettleMatch(t, r) PROVE TypeOK'
    BY <2>4 DEF SettleMatch
  <2>5. ASSUME NEW r \in Room, Rematch(t, r) PROVE TypeOK'
    BY <2>5 DEF Rematch
  <2>6. ASSUME NEW r \in Room, EndReservation(t, r) PROVE TypeOK'
    BY <2>6 DEF EndReservation
  <2>7. ASSUME NEW r \in Room, NEW us \in SUBSET waiting, Pair(t, us, r) PROVE TypeOK'
    BY <2>7 DEF Pair
  <2>8. ASSUME NEW u \in User, Enqueue(t, u) PROVE TypeOK'
    BY <2>8 DEF Enqueue
  <2>9. ASSUME NEW u \in User, Dequeue(t, u) PROVE TypeOK'
    BY <2>9 DEF Dequeue
  <2>10. QED BY <2>1, <2>2, <2>3, <2>4, <2>5, <2>6, <2>7, <2>8, <2>9
<1>4. CASE Operate
  <2> PICK o \in Operator :
        \/ Inspect(o) \/ ReadPointer(o) \/ EnterMaintenance(o)
        \/ \E e \in Nat : LeaveMaintenance(o, e)
        \/ \E p \in Process : ProbeHealth(o, p)
    BY <1>4 DEF Operate
  <2>1. CASE Inspect(o)          BY <2>1 DEF Inspect, Ready
  <2>2. CASE ReadPointer(o)      BY <2>2 DEF ReadPointer
  <2>3. ASSUME NEW m \in Mode, SwitchMode(o, m), waiting' \subseteq User PROVE TypeOK'
    <3>1. row.revision + 1 \in Nat  OBVIOUS
    <3>2. row' \in [owner : Process \cup {None}, epoch : Nat, lease : 0..LeaseTicks,
                    mode : Mode, revision : Nat]
      <4>1. row' = [row EXCEPT !.mode = m, !.revision = row.revision + 1]
        BY <2>3 DEF SwitchMode
      <4>2. QED BY <4>1, <3>1
    <3>3. seen' \in [Operator ->
                       [revision : Nat \cup {Unread}, ready : BOOLEAN, epoch : Nat]]
      <4>1. seen' = [seen EXCEPT ![o].revision = row.revision + 1, ![o].ready = FALSE]
        BY <2>3 DEF SwitchMode
      <4>2. QED BY <4>1, <3>1
    <3>4. QED BY <2>3, <3>2, <3>3 DEF SwitchMode
  <2>4. CASE EnterMaintenance(o)
    BY <2>3, <2>4 DEF EnterMaintenance
  <2>5. ASSUME NEW e \in Nat, LeaveMaintenance(o, e) PROVE TypeOK'
    BY <2>3, <2>5 DEF LeaveMaintenance
  <2>6. ASSUME NEW p \in Process, ProbeHealth(o, p) PROVE TypeOK'
    BY <2>6 DEF ProbeHealth
  <2>7. QED BY <2>1, <2>2, <2>4, <2>5, <2>6
<1>5. QED BY <1>1, <1>2, <1>3, <1>4 DEF Next

\* The shape of the state is an invariant.
THEOREM TypeCorrect == Spec => []TypeOK
<1>1. Init => TypeOK
  BY DEF Init, TypeOK, RoomState, Status, Mode, Unread
<1>2. QED BY <1>1, TypeStep, PTL DEF Spec

-----------------------------------------------------------------------------
(* Locking *)

\* A step either changes the row while nobody holds it FOR SHARE, or leaves its owner,
\* epoch, mode and revision alone and at most adds a transaction that fits them.
LEMMA RowLocked ==
  ASSUME TypeOK, [Next]_vars
  PROVE  \/ tx = {} /\ tx' = {}
         \/ /\ row'.owner = row.owner /\ row'.epoch = row.epoch
            /\ row'.mode = row.mode /\ row'.revision = row.revision
            /\ \A t \in tx' : \/ t \in tx
                              \/ t.epoch = row.epoch /\ t.by = row.owner /\ t.mode = row.mode
<1> USE DEF TypeOK, data, operators
<1>1. ASSUME NEW p \in Process, Run(p)
      PROVE  \/ tx = {} /\ tx' = {}
             \/ row' = row /\ \A t \in tx' :
                  t \in tx \/ (t.epoch = row.epoch /\ t.by = row.owner /\ t.mode = row.mode)
  <2>1. CASE Start(p) \/ GiveUp(p) \/ Close(p) \/ Crash(p)
    BY <2>1 DEF Start, GiveUp, Close, Crash
  <2>2. CASE Acquire(p) \/ Heartbeat(p) \/ Release(p)
    BY <2>2 DEF Acquire, Heartbeat, Release, NoShareLock
  <2>3. ASSUME NEW c \in Connection, Begin(p, c)
        PROVE  row' = row /\ \A t \in tx' :
                 t \in tx \/ (t.epoch = row.epoch /\ t.by = row.owner /\ t.mode = row.mode)
    BY <2>3 DEF Begin, Ours
  <2>4. QED BY <1>1, <2>1, <2>2, <2>3 DEF Run
<1>2. CASE Tick \/ UNCHANGED vars
  BY <1>2 DEF Tick, vars
<1>3. CASE Transact
  BY <1>3 DEF Transact, TransactOn, Abort, CreateLobby, StartMatch, SettleMatch, Rematch,
              EndReservation, Pair, Enqueue, Dequeue, Commit
<1>4. CASE Operate
  BY <1>4 DEF Operate, Inspect, ReadPointer, ProbeHealth, EnterMaintenance,
              LeaveMaintenance, SwitchMode, NoShareLock
<1>5. QED BY <1>1, <1>2, <1>3, <1>4 DEF Next

LEMMA FencedStep == TypeOK /\ FencedTransactions /\ [Next]_vars => FencedTransactions'
<1> SUFFICES ASSUME TypeOK, FencedTransactions, [Next]_vars PROVE FencedTransactions'
  OBVIOUS
<1>1. CASE tx' = {}
  BY <1>1 DEF FencedTransactions
<1>2. CASE ~(tx' = {})
  BY <1>2, RowLocked DEF FencedTransactions
<1>3. QED BY <1>1, <1>2

-----------------------------------------------------------------------------
(* Generations *)

\* Every step either issues the next generation to one process, or none at all.
LEMMA EpochStep ==
  ASSUME TypeOK, [Next]_vars
  PROVE  \/ /\ row'.epoch = row.epoch
            /\ \A p \in Process : proc'[p].epoch \in {proc[p].epoch, 0}
         \/ /\ row'.epoch = row.epoch + 1 /\ writer' = writer
            /\ \E p \in Process :
                 /\ proc'[p].epoch = row.epoch + 1
                 /\ \A q \in Process \ {p} : proc'[q] = proc[q]
<1> USE DEF TypeOK, data, operators
<1>1. ASSUME NEW p \in Process, Run(p)
      PROVE  \/ row'.epoch = row.epoch /\ \A q \in Process : proc'[q].epoch \in {proc[q].epoch, 0}
             \/ Acquire(p)
  <2>1. CASE Start(p)              BY <2>1 DEF Start
  <2>2. CASE GiveUp(p) \/ Close(p) \/ Crash(p)  BY <2>2 DEF GiveUp, Close, Crash
  <2>3. CASE Heartbeat(p)          BY <2>3 DEF Heartbeat
  <2>4. CASE Release(p)            BY <2>4 DEF Release
  <2>5. ASSUME NEW c \in Connection, Begin(p, c)
        PROVE  row'.epoch = row.epoch /\ \A q \in Process : proc'[q].epoch = proc[q].epoch
    BY <2>5 DEF Begin
  <2>6. QED BY <1>1, <2>1, <2>2, <2>3, <2>4, <2>5 DEF Run
<1>2. ASSUME NEW p \in Process, Acquire(p)
      PROVE  /\ row'.epoch = row.epoch + 1 /\ writer' = writer
             /\ proc'[p].epoch = row.epoch + 1
             /\ \A q \in Process \ {p} : proc'[q] = proc[q]
  BY <1>2 DEF Acquire
<1>3. CASE Tick \/ UNCHANGED vars
  BY <1>3 DEF Tick, vars
<1>4. CASE Transact
  BY <1>4 DEF Transact, TransactOn, Abort, CreateLobby, StartMatch, SettleMatch, Rematch,
              EndReservation, Pair, Enqueue, Dequeue, Commit
<1>5. CASE Operate
  BY <1>5 DEF Operate, Inspect, ReadPointer, ProbeHealth, EnterMaintenance,
              LeaveMaintenance, SwitchMode
<1>6. QED BY <1>1, <1>2, <1>3, <1>4, <1>5 DEF Next

LEMMA DistinctStep ==
  ASSUME TypeOK, TypeOK', EpochsIssued, DistinctEpochs, [Next]_vars
  PROVE  EpochsIssued' /\ DistinctEpochs'
<1> USE DEF TypeOK, EpochsIssued, DistinctEpochs
<1>1. CASE /\ row'.epoch = row.epoch
           /\ \A p \in Process : proc'[p].epoch \in {proc[p].epoch, 0}
  BY <1>1
<1>2. CASE /\ row'.epoch = row.epoch + 1
           /\ \E p \in Process : /\ proc'[p].epoch = row.epoch + 1
                                 /\ \A q \in Process \ {p} : proc'[q] = proc[q]
  <2> PICK p \in Process : /\ proc'[p].epoch = row.epoch + 1
                           /\ \A q \in Process \ {p} : proc'[q] = proc[q]
    BY <1>2
  <2>1. \A q \in Process \ {p} : proc'[q].epoch <= row.epoch
    OBVIOUS
  <2>2. EpochsIssued'
    BY <1>2, <2>1
  <2>3. ASSUME NEW x \in Process, NEW y \in Process,
               proc'[x].epoch = proc'[y].epoch, proc'[x].epoch # 0, x # y
        PROVE  FALSE
    <3>1. CASE x = p
      BY <3>1, <2>1, <2>3
    <3>2. CASE y = p
      BY <3>2, <2>1, <2>3
    <3>3. CASE x # p /\ y # p
      BY <3>3, <2>3
    <3>4. QED BY <3>1, <3>2, <3>3
  <2>4. QED BY <2>2, <2>3
<1>3. QED BY <1>1, <1>2, EpochStep

\* Nothing but a transaction leaves the mark of a writer.
LEMMA OthersDoNotWrite ==
  ASSUME [Next]_vars, ~Transact
  PROVE  writer' = writer
<1> USE DEF data, operators
<1>1. CASE Operate
  BY <1>1 DEF Operate, Inspect, ReadPointer, ProbeHealth, EnterMaintenance, LeaveMaintenance,
              SwitchMode
<1>2. CASE \E p \in Process : Run(p)
  BY <1>2 DEF Run, Start, Acquire, GiveUp, Heartbeat, Close, Release, Crash, Begin
<1>3. CASE Tick \/ UNCHANGED vars
  BY <1>3 DEF Tick, vars
<1>4. QED BY <1>1, <1>2, <1>3 DEF Next

\* A write carries the epoch of the transaction that made it.
LEMMA WriterStep ==
  ASSUME TypeOK, FencedTransactions, WriterIssued, [Next]_vars
  PROVE  writer' \in {writer, row.epoch} /\ WriterIssued'
<1> USE DEF TypeOK, Token, data, operators
<1>1. writer' \in {writer, row.epoch}
  <2>1. CASE Transact
    BY <2>1 DEF Transact, TransactOn, Abort, CreateLobby, StartMatch, SettleMatch, Rematch,
                EndReservation, Pair, Enqueue, Dequeue, Commit, FencedTransactions
  <2>2. QED BY <2>1, OthersDoNotWrite
<1>2. row'.epoch >= row.epoch
  BY EpochStep
<1>3. row'.epoch \in Nat
  BY TypeStep
<1>4. QED BY <1>1, <1>2, <1>3 DEF WriterIssued

-----------------------------------------------------------------------------
(* Admission *)

\* While draining, what blocks a drain can only shrink, and no room is opened.
LEMMA DrainingStep ==
  ASSUME TypeOK, FencedTransactions, [Next]_vars, row.mode = "draining"
  PROVE  /\ Blocking' \subseteq Blocking
         /\ \A r \in Room : room[r] = "none" => room'[r] = "none"
<1> USE DEF TypeOK, data, operators, Blocking, LiveReservation
<1>1. CASE room' = room /\ hold' = hold /\ waiting' \subseteq waiting
  BY <1>1
<1>2. ASSUME NEW p \in Process, Run(p) PROVE UNCHANGED data
  BY <1>2 DEF Run, Start, Acquire, GiveUp, Heartbeat, Close, Release, Crash, Begin
<1>3. CASE Tick
  BY <1>3 DEF Tick
<1>4. CASE Transact
  <2> PICK t \in tx : \/ Abort(t)
                      \/ \E r \in Room : \/ CreateLobby(t, r) \/ StartMatch(t, r)
                                         \/ SettleMatch(t, r) \/ Rematch(t, r)
                                         \/ EndReservation(t, r)
                                         \/ \E us \in SUBSET waiting : Pair(t, us, r)
                      \/ \E u \in User : Enqueue(t, u) \/ Dequeue(t, u)
    BY <1>4 DEF Transact, TransactOn
  <2>1. ~Admitted(t)
    BY DEF Admitted, FencedTransactions
  <2>2. CASE Abort(t)
    BY <2>2, <1>1 DEF Abort
  <2>3. ASSUME NEW r \in Room, SettleMatch(t, r) \/ EndReservation(t, r)
        PROVE  /\ Blocking' \subseteq Blocking
               /\ \A q \in Room : room[q] = "none" => room'[q] = "none"
    <3>1. PICK to \in {"finished", "lobby", "none"} : MoveRoom(r, to)
      BY <2>3 DEF SettleMatch, EndReservation
    <3>2. room' = [room EXCEPT ![r] = to] /\ hold' = [hold EXCEPT ![r] = 0]
      BY <3>1 DEF MoveRoom
    <3>3. waiting' = waiting /\ room[r] # "none"
      BY <2>3 DEF SettleMatch, EndReservation
    <3>4. QED BY <3>2, <3>3
  <2>4. ASSUME NEW u \in User, Dequeue(t, u)
        PROVE  room' = room /\ hold' = hold /\ waiting' \subseteq waiting
    BY <2>4 DEF Dequeue
  <2>5. QED
    BY <1>1, <2>1, <2>2, <2>3, <2>4 DEF CreateLobby, StartMatch, Rematch, Pair, Enqueue
<1>5. CASE Operate
  <2>1. room' = room /\ hold' = hold
    BY <1>5 DEF Operate, Inspect, ReadPointer, ProbeHealth, EnterMaintenance,
                LeaveMaintenance, SwitchMode
  <2>2. waiting' \subseteq waiting
    BY <1>5 DEF Operate, Inspect, ReadPointer, ProbeHealth, EnterMaintenance, LeaveMaintenance
  <2>3. QED BY <1>1, <2>1, <2>2
<1>6. CASE UNCHANGED vars
  BY <1>1, <1>6 DEF vars
<1>7. QED BY <1>1, <1>2, <1>3, <1>4, <1>5, <1>6 DEF Next

\* What a step does to the operators' readings.
LEMMA ReadingStep ==
  ASSUME TypeOK, [Next]_vars
  PROVE  \/ /\ row'.mode = row.mode /\ row'.revision = row.revision
            /\ \A o \in Operator :
                 \/ seen'[o].revision = seen[o].revision /\ seen'[o].ready = seen[o].ready
                 \/ /\ seen'[o].revision = row.revision
                    /\ seen'[o].ready => Ready /\ Blocking' = Blocking
         \/ /\ row'.revision = row.revision + 1
            /\ \E o \in Operator :
                 /\ seen'[o].revision = row.revision + 1 /\ seen'[o].ready = FALSE
                 /\ \A q \in Operator \ {o} : seen'[q] = seen[q]
<1> USE DEF TypeOK, data, operators
<1>1. ASSUME NEW p \in Process, Run(p)
      PROVE  row'.mode = row.mode /\ row'.revision = row.revision /\ seen' = seen
  BY <1>1 DEF Run, Start, Acquire, GiveUp, Heartbeat, Close, Release, Crash, Begin
<1>2. CASE Tick
  BY <1>2 DEF Tick
<1>3. CASE Transact
  <2>1. row' = row /\ seen' = seen
    BY <1>3 DEF Transact, TransactOn, Abort, CreateLobby, StartMatch, SettleMatch, Rematch,
                EndReservation, Pair, Enqueue, Dequeue, Commit
  <2>2. QED BY <2>1
<1>4. ASSUME NEW o \in Operator, NEW m \in Mode, SwitchMode(o, m)
      PROVE  /\ row'.revision = row.revision + 1
             /\ seen'[o].revision = row.revision + 1 /\ seen'[o].ready = FALSE
             /\ \A q \in Operator \ {o} : seen'[q] = seen[q]
  BY <1>4 DEF SwitchMode
<1>5. ASSUME NEW o \in Operator, Inspect(o) \/ ReadPointer(o) \/ \E p \in Process : ProbeHealth(o, p)
      PROVE  /\ row'.mode = row.mode /\ row'.revision = row.revision
             /\ \A q \in Operator :
                  \/ seen'[q].revision = seen[q].revision /\ seen'[q].ready = seen[q].ready
                  \/ /\ seen'[q].revision = row.revision
                     /\ seen'[q].ready => Ready /\ Blocking' = Blocking
  <2>1. row' = row /\ Blocking' = Blocking
    BY <1>5 DEF Inspect, ReadPointer, ProbeHealth, Blocking, LiveReservation
  <2>2. CASE Inspect(o)
    <3>1. seen' = [seen EXCEPT ![o].revision = row.revision, ![o].ready = Ready]
      BY <2>2 DEF Inspect
    <3>2. \A q \in Operator \ {o} : seen'[q] = seen[q]
      BY <3>1
    <3>3. seen'[o].revision = row.revision
      BY <3>1
    <3>4. seen'[o].ready = Ready
      BY <3>1, Zenon
    <3>5. QED BY <2>1, <3>2, <3>3, <3>4
  <2>3. CASE ReadPointer(o)
    <3>1. seen' = [seen EXCEPT ![o].revision = row.revision, ![o].ready = FALSE]
      BY <2>3 DEF ReadPointer
    <3>2. \A q \in Operator \ {o} : seen'[q] = seen[q]
      BY <3>1
    <3>3. seen'[o].revision = row.revision /\ ~seen'[o].ready
      BY <3>1
    <3>4. QED BY <2>1, <3>2, <3>3
  <2>4. ASSUME NEW p \in Process, ProbeHealth(o, p)
        PROVE  \A q \in Operator :
                 seen'[q].revision = seen[q].revision /\ seen'[q].ready = seen[q].ready
    BY <2>4 DEF ProbeHealth
  <2>5. QED BY <1>5, <2>1, <2>2, <2>3, <2>4
<1>6. CASE UNCHANGED vars
  BY <1>6 DEF vars
<1>7. QED
  BY <1>1, <1>2, <1>3, <1>4, <1>5, <1>6
     DEF Next, Operate, EnterMaintenance, LeaveMaintenance, Mode

LEMMA CertificateStep ==
  ASSUME TypeOK, TypeOK', FencedTransactions, Certificates, [Next]_vars
  PROVE  Certificates'
<1> USE DEF TypeOK, Certificates, Unread
<1>1. CASE /\ row'.mode = row.mode /\ row'.revision = row.revision
           /\ \A o \in Operator :
                \/ seen'[o].revision = seen[o].revision /\ seen'[o].ready = seen[o].ready
                \/ /\ seen'[o].revision = row.revision
                   /\ seen'[o].ready => Ready /\ Blocking' = Blocking
  <2> TAKE o \in Operator
  <2>1. seen'[o].revision <= row'.revision
    BY <1>1
  <2>2. ASSUME seen'[o].ready, seen'[o].revision = row'.revision
        PROVE  row'.mode = "draining" /\ Blocking' = {}
    <3>1. CASE Ready /\ Blocking' = Blocking
      BY <1>1, <3>1 DEF Ready
    <3>2. CASE seen[o].ready /\ seen[o].revision = row.revision
      <4>1. row.mode = "draining" /\ Blocking = {}
        BY <3>2
      <4>2. Blocking' \subseteq Blocking
        BY <4>1, DrainingStep
      <4>3. QED BY <4>1, <4>2, <1>1
    <3>3. QED BY <1>1, <2>2, <3>1, <3>2
  <2>3. QED BY <2>1, <2>2
<1>2. CASE /\ row'.revision = row.revision + 1
           /\ \E o \in Operator :
                /\ seen'[o].revision = row.revision + 1 /\ seen'[o].ready = FALSE
                /\ \A q \in Operator \ {o} : seen'[q] = seen[q]
  <2> PICK o \in Operator :
        /\ seen'[o].revision = row.revision + 1 /\ seen'[o].ready = FALSE
        /\ \A q \in Operator \ {o} : seen'[q] = seen[q]
    BY <1>2
  <2>1. \A q \in Operator \ {o} : seen'[q].revision < row'.revision
    BY <1>2
  <2>2. seen'[o].revision <= row'.revision /\ ~seen'[o].ready
    BY <1>2
  <2>3. QED BY <2>1, <2>2, <1>2
<1>3. QED BY <1>1, <1>2, ReadingStep

-----------------------------------------------------------------------------
(* The theorems *)

LEMMA InvInit == Init => IInv
<1> SUFFICES ASSUME Init PROVE IInv
  OBVIOUS
<1>1. TypeOK
  BY DEF Init, TypeOK, RoomState, Status, Mode, Unread
<1>2. FencedTransactions /\ EpochsIssued /\ DistinctEpochs /\ WriterIssued
  BY DEF Init, FencedTransactions, EpochsIssued, DistinctEpochs, WriterIssued
<1>3. Certificates
  BY DEF Init, Certificates, Unread
<1>4. QED BY <1>1, <1>2, <1>3 DEF IInv

LEMMA InvStep == IInv /\ [Next]_vars => IInv'
<1> SUFFICES ASSUME IInv, [Next]_vars PROVE IInv'
  OBVIOUS
<1>1. TypeOK'
  BY TypeStep DEF IInv
<1>2. QED
  BY <1>1, FencedStep, DistinctStep, WriterStep, CertificateStep DEF IInv

\* The inductive invariant holds in every reachable state.
THEOREM Invariance == Spec => []IInv
  BY InvInit, InvStep, PTL DEF Spec

\* Transactions that passed the ownership check commit under the row they checked.
THEOREM Fencing == Spec => []FencedTransactions
<1>1. IInv => FencedTransactions
  BY DEF IInv
<1>2. QED BY <1>1, Invariance, PTL

\* The epoch identifies the process.
THEOREM EpochIdentity == Spec => []DistinctEpochs
<1>1. IInv => DistinctEpochs
  BY DEF IInv
<1>2. QED BY <1>1, Invariance, PTL

\* "Ready" stays true for as long as the revision it was read at is in force.
THEOREM ReadyIsStable == Spec => []ReadyCertificate
<1>1. IInv => ReadyCertificate
  BY DEF IInv, Certificates, ReadyCertificate
<1>2. QED BY <1>1, Invariance, PTL

\* A superseded runtime never writes after its successor has written.
THEOREM StaleWritersFenced == Spec => NoStaleWriter
<1>1. IInv /\ [Next]_vars => [writer' >= writer]_vars
  BY WriterStep DEF IInv, WriterIssued, TypeOK
<1>2. QED BY <1>1, Invariance, PTL DEF Spec, NoStaleWriter

\* Maintenance admits nothing, whatever was in flight when it was entered.
THEOREM AdmissionClosed == Spec => DrainingAdmitsNothing
<1>1. IInv /\ [Next]_vars =>
        [row.mode = "draining" =>
           /\ Blocking' \subseteq Blocking
           /\ \A r \in Room : room[r] = "none" => room'[r] = "none"]_vars
  BY DrainingStep DEF IInv
<1>2. QED BY <1>1, Invariance, PTL DEF Spec, DrainingAdmitsNothing

\* An overtaken operator still holds an older revision than the row.
OvertakenBehind == \A o \in overtaken : seen[o].revision < row.revision

LEMMA OvertakenStep ==
  ASSUME IInv, OvertakenBehind, [Next]_vars
  PROVE  OvertakenBehind'
<1> USE DEF IInv, TypeOK, Certificates, OvertakenBehind, data, operators, Unread
<1>1. ASSUME UNCHANGED <<overtaken, seen>>, row'.revision = row.revision PROVE OvertakenBehind'
  BY <1>1
<1>2. ASSUME NEW p \in Process, Run(p) PROVE OvertakenBehind'
  BY <1>1, <1>2 DEF Run, Start, Acquire, GiveUp, Heartbeat, Close, Release, Crash, Begin
<1>3. CASE Tick \/ Transact \/ UNCHANGED vars
  <2>1. UNCHANGED <<overtaken, seen>> /\ row'.revision = row.revision
    BY <1>3 DEF Tick, Transact, TransactOn, Abort, CreateLobby, StartMatch, SettleMatch, Rematch,
                EndReservation, Pair, Enqueue, Dequeue, Commit, vars
  <2>2. QED BY <1>1, <2>1
<1>4. ASSUME NEW o \in Operator, Inspect(o) \/ ReadPointer(o) PROVE OvertakenBehind'
  <2>1. overtaken' = overtaken \ {o} /\ row' = row
        /\ \A q \in Operator \ {o} : seen'[q] = seen[q]
    BY <1>4 DEF Inspect, ReadPointer
  <2>2. QED BY <2>1
<1>5. ASSUME NEW o \in Operator, NEW p \in Process, ProbeHealth(o, p) PROVE OvertakenBehind'
  <2>1. UNCHANGED <<overtaken, row>> /\ \A q \in Operator : seen'[q].revision = seen[q].revision
    BY <1>5 DEF ProbeHealth
  <2>2. QED BY <2>1
<1>6. ASSUME NEW o \in Operator, NEW m \in Mode, SwitchMode(o, m) PROVE OvertakenBehind'
  <2>1. overtaken' = Operator \ {o} /\ row'.revision = row.revision + 1
        /\ \A q \in Operator \ {o} : seen'[q] = seen[q]
    BY <1>6 DEF SwitchMode
  <2>2. QED BY <2>1
<1>7. QED
  BY <1>2, <1>3, <1>4, <1>5, <1>6 DEF Next, Operate, EnterMaintenance, LeaveMaintenance, Mode

\* The revision compare-and-swap: whoever was overtaken reads again before it moves the mode.
THEOREM OvertakenReadAgain == Spec => OvertakenNeverSwitches
<1>1. Init => IInv /\ OvertakenBehind
  BY InvInit DEF Init, OvertakenBehind
<1>2. (IInv /\ OvertakenBehind) /\ [Next]_vars => (IInv /\ OvertakenBehind)'
  BY InvStep, OvertakenStep
<1>3. (IInv /\ OvertakenBehind) /\ [Next]_vars =>
        [\A o \in Operator, m \in Mode : SwitchMode(o, m) => o \notin overtaken]_vars
  <2>1. ASSUME IInv, OvertakenBehind, NEW o \in Operator, NEW m \in Mode, SwitchMode(o, m)
        PROVE  o \notin overtaken
    <3>1. seen[o].revision = row.revision /\ row.revision \in Nat
      BY <2>1 DEF IInv, TypeOK, SwitchMode
    <3>2. QED BY <2>1, <3>1 DEF OvertakenBehind
  <2>2. QED BY <2>1
<1>4. QED BY <1>1, <1>2, <1>3, PTL DEF Spec, OvertakenNeverSwitches

-----------------------------------------------------------------------------
(* Refinement *)

LEMMA BarrierInit == Init => Barrier!AbsInit
  BY DEF Init, Barrier!AbsInit, Gate, Blocking, LiveReservation, Unread, Mode

\* The gate depends only on the mode, the revision and the operators' readings.
LEMMA GateUnchanged ==
  ASSUME row'.mode = row.mode, row'.revision = row.revision,
         \A o \in Operator : /\ seen'[o].ready = seen[o].ready
                             /\ seen'[o].revision = seen[o].revision
  PROVE  Gate' = Gate
  BY DEF Gate

LEMMA BarrierStep == IInv /\ IInv' /\ [Next]_vars => [Barrier!AbsNext]_(Barrier!absVars)
<1> SUFFICES ASSUME IInv, IInv', [Next]_vars
             PROVE  Barrier!AbsNext \/ Barrier!absVars' = Barrier!absVars
  OBVIOUS
<1> USE DEF IInv
<1> USE DEF Barrier!absVars, data, operators
<1>1. ASSUME NEW p \in Process, Run(p)
      PROVE  Barrier!AbsNext \/ Barrier!absVars' = Barrier!absVars
  <2>1. UNCHANGED <<data, seen>> /\ row'.mode = row.mode /\ row'.revision = row.revision
    BY <1>1 DEF Run, Start, Acquire, GiveUp, Heartbeat, Close, Release, Crash, Begin, TypeOK
  <2>2. Blocking' = Blocking /\ Gate' = Gate /\ writer' = writer
    BY <2>1, GateUnchanged DEF Blocking, LiveReservation
  <2>3. row'.epoch = row.epoch \/ row'.epoch = row.epoch + 1
    BY EpochStep
  <2>4. QED BY <2>2, <2>3 DEF Barrier!AbsNext, Barrier!Succeed
<1>2. CASE Tick
  <2>1. Blocking' \subseteq Blocking
    BY <1>2 DEF Tick, Blocking, LiveReservation, TypeOK
  <2>2. Gate' = Gate /\ row'.epoch = row.epoch /\ writer' = writer
    BY <1>2, GateUnchanged DEF Tick, TypeOK
  <2>3. QED BY <2>1, <2>2 DEF Barrier!AbsNext, Barrier!Lapse
<1>3. CASE Transact
  <2>1. row' = row /\ seen' = seen
    BY <1>3 DEF Transact, TransactOn, Abort, CreateLobby, StartMatch, SettleMatch, Rematch,
                EndReservation, Pair, Enqueue, Dequeue, Commit
  <2>2. Gate' = Gate
    BY <2>1, GateUnchanged
  <2>3. UNCHANGED data \/ writer' = row.epoch
    BY <1>3 DEF Transact, TransactOn, Abort, CreateLobby, StartMatch, SettleMatch, Rematch,
                EndReservation, Pair, Enqueue, Dequeue, Commit, FencedTransactions
  <2>4. CASE UNCHANGED data
    BY <2>1, <2>2, <2>4 DEF Blocking, LiveReservation
  <2>5. CASE writer' = row.epoch
    <3>1. Blocking' \subseteq Room \cup User
      BY DEF Blocking, TypeOK
    <3>2. Gate # "open" => Blocking' \subseteq Blocking
      BY DrainingStep DEF Gate, TypeOK, Mode
    <3>3. QED BY <2>1, <2>2, <2>5, <3>1, <3>2 DEF Barrier!AbsNext, Barrier!Write
  <2>6. QED BY <2>3, <2>4, <2>5
<1>4. ASSUME NEW o \in Operator, Inspect(o) \/ ReadPointer(o) \/ \E p \in Process : ProbeHealth(o, p)
      PROVE  Barrier!AbsNext \/ Barrier!absVars' = Barrier!absVars
  <2>1. row' = row /\ Blocking' = Blocking /\ writer' = writer
    BY <1>4 DEF Inspect, ReadPointer, ProbeHealth, Blocking, LiveReservation
  <2>2. Gate' = "certified" => Blocking' = {}
    BY DEF Gate, Certificates
  <2>3. (Gate = "open" <=> Gate' = "open")
    BY <2>1 DEF Gate
  <2>4. Gate \in {"open", "closed", "certified"} /\ Gate' \in {"open", "closed", "certified"}
    BY DEF Gate
  <2>5. QED BY <2>1, <2>2, <2>3, <2>4 DEF Barrier!AbsNext, Barrier!Certify, Barrier!Forget
<1>5. ASSUME NEW o \in Operator, EnterMaintenance(o)
      PROVE  Barrier!AbsNext
  <2>1. row'.mode = "draining" /\ row'.revision = row.revision + 1 /\ row'.epoch = row.epoch
    BY <1>5 DEF EnterMaintenance, SwitchMode, TypeOK
  <2>2. row.mode = "open" /\ writer' = writer
    BY <1>5 DEF EnterMaintenance, SwitchMode, TypeOK, Mode
  <2>3. Blocking' \subseteq Blocking
    BY <1>5 DEF EnterMaintenance, SwitchMode, Blocking, LiveReservation
  <2>4. \A q \in Operator : ~(seen'[q].ready /\ seen'[q].revision = row'.revision)
    <3>1. ~seen'[o].ready
      BY <1>5 DEF EnterMaintenance, SwitchMode, TypeOK
    <3>2. ASSUME NEW q \in Operator \ {o} PROVE seen'[q].revision < row'.revision
      <4>1. seen'[q] = seen[q]
        BY <1>5 DEF EnterMaintenance, SwitchMode, TypeOK
      <4>2. QED BY <2>1, <4>1 DEF Certificates, TypeOK, Unread
    <3>3. QED BY <3>1, <3>2 DEF TypeOK, Unread
  <2>5. Gate = "open" /\ Gate' = "closed"
    BY <2>1, <2>2, <2>4 DEF Gate
  <2>6. QED BY <2>1, <2>2, <2>3, <2>5 DEF Barrier!AbsNext, Barrier!Close
<1>6. ASSUME NEW o \in Operator, NEW e, LeaveMaintenance(o, e)
      PROVE  Barrier!AbsNext
  <2>1. row'.mode = "open" /\ row'.epoch = row.epoch /\ row.mode = "draining"
    BY <1>6 DEF LeaveMaintenance, SwitchMode, TypeOK, Mode
  <2>2. Blocking' = Blocking /\ writer' = writer
    BY <1>6 DEF LeaveMaintenance, SwitchMode, Blocking, LiveReservation
  <2>3. Gate \in {"closed", "certified"} /\ Gate' = "open"
    BY <2>1 DEF Gate
  <2>4. QED BY <2>1, <2>2, <2>3 DEF Barrier!AbsNext, Barrier!Reopen
<1>7. CASE UNCHANGED vars
  BY <1>7, GateUnchanged DEF vars, Blocking, LiveReservation
<1>8. QED BY <1>1, <1>2, <1>3, <1>4, <1>5, <1>6, <1>7 DEF Next, Operate

\* Ownership, admission, maintenance and expiry implement the abstract barrier.
THEOREM BarrierImplemented == Spec => ImplementsBarrier
<1>1. QED
  BY BarrierInit, BarrierStep, Invariance, PTL
     DEF Spec, ImplementsBarrier, Barrier!AbsSpec
=============================================================================
