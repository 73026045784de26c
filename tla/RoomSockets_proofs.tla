------------------------- MODULE RoomSockets_proofs -------------------------
(* For every number of accounts, sessions, tabs and connections: once a logout or a ban is
   answered, no frame of it is obeyed; seats follow sockets; a host who is there stays host,
   and a room is not left to one who is gone.

   An answer stands on two facts.  What was asked for is dead in the database from the
   moment the request exists, so a join that is still queued is refused; and every
   connection the registry had when the request was targeted has lost its seat, while one
   that is tracked later has none yet, because a seat only ever names a connection whose
   join has run.  The host comes second, with an invariant of its own. *)
EXTENDS RoomSockets, TLAPS

Requests == {"none", "asked", "waiting", "acked", "done"}
Codes == {"lost", "expired", "replaced", "closed", "restart", "overload", "stale"}
Entry == [op : {"join", "drop"}, arg : Conn] \cup [op : {"revoke"}, arg : Session \cup User]

\* What the proof needs to know of the values.
Types ==
  /\ session \in [Session -> {"live", "expired", "tombstone", "gone"}]
  /\ req \in [Session \cup User -> Requests]
  /\ bound \in [User -> Conn \cup {None}]
  /\ conn \in [Conn -> [st : {"granted", "open", "shut"}, attached : BOOLEAN, code : Codes]]
  /\ queue \in Seq(Entry)

\* No handshake and no join of it is admitted any more.
Dead(x) ==
  \/ x \in Session /\ session[x] \in {"tombstone", "gone"}
  \/ x \in User /\ x \in banned

\* The request was committed to the database before anything else happened to it.
AskedIsDead ==
  /\ \A x \in Session \cup User : req[x] # "none" => Dead(x)
  /\ \A i \in DOMAIN queue : queue[i].op = "revoke" => Dead(queue[i].arg)

\* A handshake under way is neither tracked, nor seated, nor mentioned in the queue.
GrantedIsNew ==
  \A k \in Conn : conn[k].st = "granted" =>
    /\ ~conn[k].attached
    /\ \A u \in User : bound[u] # k
    /\ \A i \in DOMAIN queue : queue[i].op # "revoke" => queue[i].arg # k

\* Once the rooms have confirmed, no tracked connection of it holds its seat.
ConfirmedIsUnseated ==
  \A x \in Session \cup User : req[x] \in {"acked", "done"} =>
    \A k \in Conn : Covers(x, k) /\ conn[k].attached => bound[Owner(k)] # k

IInv == Types /\ AskedIsDead /\ GrantedIsNew /\ ConfirmedIsUnseated

------------------------------------------------------------------------------
(* Helpers *)

\* A connection belongs to a session and an account.
LEMMA Owners ==
  ASSUME NEW k \in Conn
  PROVE  SessionBy(k) \in Session /\ Owner(k) \in User
  <1>1. k[1] \in Tab
    BY DEF Conn
  <1> QED BY <1>1, SocketsAssumption DEF SessionBy, Owner

\* Freeing the seats of some connections keeps the others as they are.
LEMMA UnboundFacts ==
  ASSUME Types, NEW K
  PROVE  /\ Unbound(K) \in [User -> Conn \cup {None}]
         /\ \A u \in User : /\ Unbound(K)[u] \in {bound[u], None}
                            /\ Unbound(K)[u] \in K => Unbound(K)[u] = None
  BY DEF Unbound, Types

\* Closing sockets neither tracks one nor begins a handshake.
LEMMA ClosedFacts ==
  ASSUME Types, NEW K, NEW code \in Codes
  PROVE  /\ Closed(K, code) \in [Conn -> [st : {"granted", "open", "shut"},
                                          attached : BOOLEAN, code : Codes]]
         /\ \A k \in Conn : /\ Closed(K, code)[k].attached = conn[k].attached
                            /\ Closed(K, code)[k].st = "granted" => conn[k].st = "granted"
  <1>1. ASSUME NEW k \in Conn
        PROVE  /\ Closed(K, code)[k] \in [st : {"granted", "open", "shut"},
                                          attached : BOOLEAN, code : Codes]
               /\ Closed(K, code)[k].attached = conn[k].attached
               /\ Closed(K, code)[k].st = "granted" => conn[k].st = "granted"
    BY <1>1 DEF Closed, Types
  <1>2. Closed(K, code) = [k \in Conn |-> Closed(K, code)[k]]
    BY DEF Closed
  <1> QED BY <1>1, <1>2

\* A step that binds nobody, begins no handshake, and lets requests go or stay.
Tame ==
  /\ \A k \in Conn : /\ conn'[k].attached => conn[k].attached
                     /\ conn'[k].st = "granted" => conn[k].st = "granted"
  /\ \A u \in User : bound'[u] \in {bound[u], None}
  /\ \A i \in DOMAIN queue' :
       \/ \E j \in DOMAIN queue : queue[j] = queue'[i]
       \/ queue'[i].op # "revoke" /\ conn'[queue'[i].arg].st # "granted"
  /\ \A x \in Session \cup User : req'[x] \in {req[x], "none"}
  /\ UNCHANGED <<session, banned>>

\* Such a step keeps the invariant.
LEMMA TameKeeps ==
  ASSUME IInv, Types', Tame
  PROVE  IInv'
  <1> USE DEF Tame
  <1>1. AskedIsDead'
    BY DEF AskedIsDead, IInv, Dead
  <1>2. GrantedIsNew'
    <2> SUFFICES ASSUME NEW k \in Conn, conn'[k].st = "granted"
                 PROVE  /\ ~conn'[k].attached
                        /\ \A u \in User : bound'[u] # k
                        /\ \A i \in DOMAIN queue' :
                             queue'[i].op # "revoke" => queue'[i].arg # k
      BY DEF GrantedIsNew
    <2>1. conn[k].st = "granted" /\ ~conn[k].attached
      BY DEF IInv, GrantedIsNew
    <2>2. \A u \in User : bound'[u] # k
      BY <2>1, SocketsAssumption DEF IInv, GrantedIsNew, Conn
    <2> QED BY <2>1, <2>2 DEF IInv, GrantedIsNew
  <1>3. ConfirmedIsUnseated'
    <2> SUFFICES ASSUME NEW x \in Session \cup User, req'[x] \in {"acked", "done"},
                        NEW k \in Conn, Covers(x, k), conn'[k].attached
                 PROVE  bound'[Owner(k)] # k
      BY DEF ConfirmedIsUnseated, Covers, SessionBy, Owner
    <2>1. bound[Owner(k)] # k
      BY DEF IInv, ConfirmedIsUnseated
    <2> QED BY <2>1, Owners, SocketsAssumption DEF Conn
  <1> QED BY <1>1, <1>2, <1>3 DEF IInv

------------------------------------------------------------------------------
(* The browser *)

\* What a tab does besides dialling: at most it lets go of a socket.
LEMMA TabKeeps ==
  ASSUME IInv, NEW t \in Tab, Offline(t) \/ ClientClose(t) \/ Diagnosed(t) \/ Quit(t)
  PROVE  IInv'
  <1>1. conn' = conn \/ Forget(t)
    BY DEF Offline, ClientClose, Diagnosed, Quit
  <1>2. UNCHANGED <<queue, session, banned, req, bound>>
    BY DEF Offline, ClientClose, Diagnosed, Quit, Others, auth, seats
  <1>3. conn' \in [Conn -> [st : {"granted", "open", "shut"}, attached : BOOLEAN, code : Codes]]
        /\ \A k \in Conn : conn'[k].st = conn[k].st /\ conn'[k].attached = conn[k].attached
    <2>1. CASE conn' = conn
      BY <2>1 DEF IInv, Types
    <2>2. CASE Forget(t)
      <3>1. ASSUME NEW k \in Conn
            PROVE  /\ conn'[k] \in [st : {"granted", "open", "shut"},
                                    attached : BOOLEAN, code : Codes]
                   /\ conn'[k].st = conn[k].st /\ conn'[k].attached = conn[k].attached
        BY <2>2, <3>1 DEF Forget, IInv, Types, Codes
      <3>2. conn' = [k \in Conn |-> conn'[k]]
        BY <2>2 DEF Forget
      <3> QED BY <3>1, <3>2
    <2> QED BY <1>1, <2>1, <2>2
  <1>4. Types'
    BY <1>2, <1>3 DEF IInv, Types
  <1>5. Tame
    BY <1>2, <1>3 DEF Tame
  <1> QED BY <1>4, <1>5, TameKeeps

\* A socket is opened under a name nothing refers to.
LEMMA DialKeeps ==
  ASSUME IInv, NEW t \in Tab, Dial(t), Others
  PROVE  IInv'
  <1>1. PICK n \in Line :
          /\ Free(<<t, n>>)
          /\ conn' = [conn EXCEPT ![<<t, n>>] =
               [@ EXCEPT !.st = IF Admitted(SessionOf[t]) THEN "granted" ELSE "shut"]]
    BY DEF Dial
  <1> DEFINE k == <<t, n>>
  <1>k. k \in Conn
    BY DEF Conn
  <1>2. UNCHANGED <<queue, session, banned, req, bound>>
    BY DEF Others, auth, seats
  <1>3. /\ conn' \in [Conn -> [st : {"granted", "open", "shut"}, attached : BOOLEAN, code : Codes]]
        /\ \A l \in Conn : conn'[l].attached = conn[l].attached
        /\ \A l \in Conn \ {k} : conn'[l] = conn[l]
    BY <1>1, <1>k DEF IInv, Types
  <1>4. Types'
    BY <1>2, <1>3 DEF IInv, Types
  <1>5. AskedIsDead' /\ ConfirmedIsUnseated'
    BY <1>2, <1>3 DEF IInv, AskedIsDead, Dead, ConfirmedIsUnseated, Covers, SessionBy, Owner
  <1>6. GrantedIsNew'
    BY <1>1, <1>2, <1>3, <1>k DEF IInv, GrantedIsNew, Free, Mentioned
  <1> QED BY <1>4, <1>5, <1>6 DEF IInv

------------------------------------------------------------------------------
(* The engine *)

ConnType == [Conn -> [st : {"granted", "open", "shut"}, attached : BOOLEAN, code : Codes]]

\* Sockets that go away: nobody is bound, no handshake begins.
LEMMA ShutKeeps ==
  ASSUME IInv, conn' \in ConnType, bound' \in [User -> Conn \cup {None}],
         req' \in [Session \cup User -> Requests],
         \A k \in Conn : /\ conn'[k].attached => conn[k].attached
                         /\ conn'[k].st = "granted" => conn[k].st = "granted",
         \A u \in User : bound'[u] \in {bound[u], None},
         \A x \in Session \cup User : req'[x] \in {req[x], "none"},
         queue' \in {queue, Tail(queue), <<>>}, queue = <<>> => queue' = <<>>,
         UNCHANGED <<session, banned>>
  PROVE  IInv'
  <1>1. queue' \in Seq(Entry)
        /\ \A i \in DOMAIN queue' : \E j \in DOMAIN queue : queue[j] = queue'[i]
    <2> queue \in Seq(Entry)
      BY DEF IInv, Types
    <2>1. CASE queue' = queue
      BY <2>1
    <2>2. CASE queue' = <<>>
      BY <2>2
    <2>3. CASE queue # <<>> /\ queue' = Tail(queue)
      <3>1. \A i \in DOMAIN queue' : i + 1 \in DOMAIN queue /\ queue[i + 1] = queue'[i]
        BY <2>3
      <3> QED BY <2>3, <3>1
    <2> QED BY <2>1, <2>2, <2>3
  <1>2. Types'
    BY <1>1 DEF IInv, Types, ConnType
  <1>3. \A i \in DOMAIN queue' :
          \/ \E j \in DOMAIN queue : queue[j] = queue'[i]
          \/ queue'[i].op # "revoke" /\ conn'[queue'[i].arg].st # "granted"
    BY <1>1, Zenon
  <1>4. Tame
    BY <1>3 DEF Tame
  <1> QED BY <1>2, <1>4, TameKeeps

\* The upgrade: a new socket is tracked, and has no seat yet.
LEMMA AttachKeeps ==
  ASSUME IInv, NEW k \in Conn, Attach(k)
  PROVE  IInv'
  <1> DEFINE e == [op |-> "join", arg |-> k]
  <1>1. /\ conn[k].st = "granted" /\ queue' = Append(queue, e)
        /\ conn' = [conn EXCEPT ![k] = [@ EXCEPT !.st = "open", !.attached = TRUE]]
        /\ UNCHANGED <<session, banned, req, bound>>
    BY DEF Attach, auth, seats
  <1>2. conn' \in ConnType /\ conn'[k].st = "open"
        /\ \A l \in Conn \ {k} : conn'[l] = conn[l]
    BY <1>1 DEF IInv, Types, ConnType
  <1>3. e \in Entry
    BY DEF Entry
  <1>4. queue' \in Seq(Entry)
        /\ \A i \in DOMAIN queue' :
             queue'[i] = e \/ (i \in DOMAIN queue /\ queue'[i] = queue[i])
    BY <1>1, <1>3 DEF IInv, Types
  <1>5. Types'
    BY <1>1, <1>2, <1>4 DEF IInv, Types, ConnType
  <1>6. AskedIsDead'
    BY <1>1 DEF IInv, AskedIsDead, Dead
  <1>7. GrantedIsNew'
    BY <1>1, <1>2, <1>4 DEF IInv, GrantedIsNew
  <1>8. ConfirmedIsUnseated'
    BY <1>1, <1>2, Owners DEF IInv, GrantedIsNew, ConfirmedIsUnseated, Covers, SessionBy, Owner
  <1> QED BY <1>5, <1>6, <1>7, <1>8 DEF IInv

\* A closed socket is no longer tracked.
LEMMA DisconnectKeeps ==
  ASSUME IInv, NEW k \in Conn, Disconnect(k)
  PROVE  IInv'
  <1> DEFINE e == [op |-> "drop", arg |-> k]
  <1>1. /\ queue' = Append(queue, e)
        /\ conn' = [conn EXCEPT ![k] = [@ EXCEPT !.st = "shut", !.attached = FALSE]]
        /\ UNCHANGED <<session, banned, req, bound>>
    BY DEF Disconnect, auth, seats
  <1>2. conn' \in ConnType /\ conn'[k].st = "shut" /\ ~conn'[k].attached
        /\ \A l \in Conn \ {k} : conn'[l] = conn[l]
    BY <1>1 DEF IInv, Types, ConnType
  <1>3. e \in Entry
    BY DEF Entry
  <1>4. queue' \in Seq(Entry)
        /\ \A i \in DOMAIN queue' :
             queue'[i] = e \/ (i \in DOMAIN queue /\ queue'[i] = queue[i])
    BY <1>1, <1>3 DEF IInv, Types
  <1>5. Types'
    BY <1>1, <1>2, <1>4 DEF IInv, Types, ConnType
  <1>q. ASSUME NEW i \in DOMAIN queue'
        PROVE  \/ \E j \in DOMAIN queue : queue[j] = queue'[i]
               \/ queue'[i].op # "revoke" /\ conn'[queue'[i].arg].st # "granted"
    <2>1. CASE queue'[i] = e
      BY <1>2, <2>1
    <2>2. CASE i \in DOMAIN queue /\ queue'[i] = queue[i]
      BY <2>2
    <2> QED BY <1>4, <2>1, <2>2
  <1>c. \A l \in Conn : /\ conn'[l].attached => conn[l].attached
                       /\ conn'[l].st = "granted" => conn[l].st = "granted"
    BY <1>2
  <1>6. Tame
    BY <1>1, <1>c, <1>q DEF Tame
  <1> QED BY <1>5, <1>6, TameKeeps

\* The network, frames, closings, leaving and restarts only take away.
LEMMA LoseKeeps ==
  ASSUME IInv, NEW k \in Conn, Lose(k)
  PROVE  IInv'
  <1>1. conn' = [conn EXCEPT ![k].st = "shut"] /\ UNCHANGED <<queue, session, banned, req, bound>>
    BY DEF Lose, Others, auth, seats
  <1>2. conn' \in ConnType
        /\ \A l \in Conn : /\ conn'[l].attached = conn[l].attached
                           /\ conn'[l].st = "granted" => conn[l].st = "granted"
    BY <1>1 DEF IInv, Types, ConnType
  <1> QED BY <1>1, <1>2, ShutKeeps DEF IInv, Types

LEMMA CloseKeeps ==
  ASSUME IInv, NEW K, NEW code \in Codes, NEW L, conn' \in {conn, Closed(K, code)},
         bound' \in {bound, Unbound(L)},
         queue' \in {queue, Tail(queue)}, queue = <<>> => queue' = <<>>,
         UNCHANGED <<session, banned, req>>
  PROVE  IInv'
  <1>1. conn' \in ConnType
        /\ \A k \in Conn : /\ conn'[k].attached => conn[k].attached
                           /\ conn'[k].st = "granted" => conn[k].st = "granted"
    BY ClosedFacts DEF IInv, Types, ConnType
  <1>2. bound' \in [User -> Conn \cup {None}] /\ \A u \in User : bound'[u] \in {bound[u], None}
    BY UnboundFacts DEF IInv, Types
  <1> QED BY <1>1, <1>2, ShutKeeps DEF IInv, Types

\* A closing whose first transaction is committed is still at the head of the queue.
HalfIsQueued == half = "drop" => queue # <<>> /\ Head(queue).op = "drop"

LEMMA DropKeeps ==
  ASSUME IInv, HalfIsQueued,
         \/ \E k \in Conn : Drop(k)
         \/ Reconcile \/ DropFails \/ CatchUp
         \/ \E k \in Conn : ExpiredFrame(k)
         \/ \E k \in Conn, code \in {"overload", "stale"} : Cut(k, code)
         \/ \E u \in User : SeatExpires(u)
  PROVE  IInv'
  <1>1. CASE \E k \in Conn : Drop(k)
    <2>1. PICK k \in Conn : Drop(k)
      BY <1>1
    <2>2. bound' = Unbound({k}) /\ queue # <<>> /\ queue' \in {queue, Tail(queue)}
          /\ UNCHANGED <<conn, session, banned, req>>
      BY <2>1 DEF Drop, Runs, Done, auth
    <2> QED BY <2>2, CloseKeeps DEF Codes
  <1>2. CASE Reconcile
    <2>1. UNCHANGED <<conn, bound, session, banned, req>>
      BY <1>2 DEF Reconcile, Settle, auth
    <2>2. queue' \in {queue, Tail(queue)} /\ (queue = <<>> => queue' = <<>>)
      BY <1>2 DEF Reconcile, HalfIsQueued
    <2> QED BY <2>1, <2>2, CloseKeeps DEF Codes
  <1>3. CASE DropFails
    <2>1. UNCHANGED <<conn, bound, session, banned, req>>
      BY <1>3 DEF DropFails, auth, seats
    <2>2. queue' \in {queue, Tail(queue)} /\ (queue = <<>> => queue' = <<>>)
      BY <1>3 DEF DropFails
    <2> QED BY <2>1, <2>2, CloseKeeps DEF Codes
  <1>4. CASE CatchUp
    <2>1. PICK K : conn' = Closed(K, "expired") /\ bound' = Unbound(K)
      BY <1>4 DEF CatchUp, Settle
    <2>2. UNCHANGED <<queue, session, banned, req>>
      BY <1>4 DEF CatchUp, auth
    <2> QED BY <2>1, <2>2, CloseKeeps DEF Codes
  <1>5. CASE \E k \in Conn : ExpiredFrame(k)
    <2>1. PICK k \in Conn : conn' = Closed({k}, "expired")
      BY <1>5 DEF ExpiredFrame
    <2>2. UNCHANGED <<queue, session, banned, req, bound>>
      BY <1>5 DEF ExpiredFrame, Others, auth, seats
    <2> QED BY <2>1, <2>2, CloseKeeps DEF Codes
  <1>6. CASE \E k \in Conn, code \in {"overload", "stale"} : Cut(k, code)
    <2>1. PICK k \in Conn, code \in {"overload", "stale"} : Cut(k, code)
      BY <1>6
    <2>2. conn' = Closed({k}, code) /\ bound' = Unbound({k})
          /\ UNCHANGED <<queue, session, banned, req>>
      BY <2>1 DEF Cut, auth
    <2> QED BY <2>2, CloseKeeps DEF Codes
  <1>7. CASE \E u \in User : SeatExpires(u)
    <2>1. UNCHANGED <<conn, bound, queue, session, banned, req>>
      BY <1>7 DEF SeatExpires, Settle, auth
    <2> QED BY <2>1, CloseKeeps DEF Codes
  <1> QED BY <1>1, <1>2, <1>3, <1>4, <1>5, <1>6, <1>7

LEMMA LeaveKeeps ==
  ASSUME IInv, NEW u \in User, Leave(u)
  PROVE  IInv'
  <1>1. PICK K : conn' = Closed(K, "closed")
    BY DEF Leave
  <1>2. conn' \in ConnType
        /\ \A k \in Conn : /\ conn'[k].attached => conn[k].attached
                           /\ conn'[k].st = "granted" => conn[k].st = "granted"
    BY <1>1, ClosedFacts DEF IInv, Types, ConnType, Codes
  <1>3. bound' = [bound EXCEPT ![u] = None] /\ UNCHANGED <<queue, session, banned, req>>
    BY DEF Leave, auth
  <1> QED BY <1>2, <1>3, ShutKeeps DEF IInv, Types

\* A join that fails seats nobody, whatever it has closed.
LEMMA JoinFailsKeeps ==
  ASSUME IInv, NEW k \in Conn, JoinFails(k)
  PROVE  IInv'
  <1>1. PICK K : conn' = [l \in Conn |-> IF l = k THEN Closed({k}, "closed")[l]
                                         ELSE Closed(K, "replaced")[l]]
    BY DEF JoinFails
  <1>2. "closed" \in Codes /\ "replaced" \in Codes
    BY DEF Codes
  <1>3. ASSUME NEW l \in Conn
        PROVE  /\ conn'[l] \in [st : {"granted", "open", "shut"}, attached : BOOLEAN, code : Codes]
               /\ conn'[l].attached = conn[l].attached
               /\ conn'[l].st = "granted" => conn[l].st = "granted"
    BY <1>1, <1>2, ClosedFacts DEF IInv
  <1>4. conn' \in ConnType
    BY <1>1, <1>3 DEF ConnType
  <1>5. queue # <<>> /\ queue' = Tail(queue) /\ UNCHANGED <<session, banned, req, bound>>
    BY DEF JoinFails, Runs, Done, auth, seats
  <1> QED BY <1>3, <1>4, <1>5, ShutKeeps DEF IInv, Types

LEMMA RestartKeeps ==
  ASSUME IInv, NEW code \in {"restart", "lost"}, Restart(code)
  PROVE  IInv'
  <1>1. ASSUME NEW k \in Conn
        PROVE  /\ conn'[k] \in [st : {"granted", "open", "shut"}, attached : BOOLEAN, code : Codes]
               /\ ~conn'[k].attached /\ conn'[k].st = "shut"
    BY DEF Restart, IInv, Types, Codes
  <1>2. conn' \in ConnType
    BY <1>1 DEF Restart, ConnType
  <1>3. req' \in [Session \cup User -> Requests]
        /\ \A x \in Session \cup User : req'[x] \in {req[x], "none"}
    BY DEF Restart, IInv, Types, Requests
  <1>4. queue' = <<>> /\ UNCHANGED <<session, banned, bound>>
    BY DEF Restart, seats
  <1> QED BY <1>1, <1>2, <1>3, <1>4, ShutKeeps DEF IInv, Types

------------------------------------------------------------------------------
(* Joins and revocations *)

\* Only a join binds a seat, and only for a session and an account nothing is asked of.
LEMMA JoinKeeps ==
  ASSUME IInv, NEW k \in Conn, Join(k)
  PROVE  IInv'
  <1>1. /\ queue # <<>> /\ Head(queue) = [op |-> "join", arg |-> k]
        /\ queue' = Tail(queue) /\ UNCHANGED <<session, banned, req>>
    BY DEF Join, Runs, Done, auth
  <1>2. CASE conn' = Closed({k}, "expired") /\ UNCHANGED bound
    BY <1>1, <1>2, CloseKeeps DEF Codes
  <1>3. CASE /\ Welcome(k) /\ bound' = [bound EXCEPT ![Owner(k)] = k]
             /\ \E K : conn' = Closed(K, "replaced")
    <2>1. conn' \in ConnType
          /\ \A l \in Conn : /\ conn'[l].attached = conn[l].attached
                             /\ conn'[l].st = "granted" => conn[l].st = "granted"
      BY <1>3, ClosedFacts DEF IInv, Types, ConnType, Codes
    <2>2. bound' \in [User -> Conn \cup {None}]
      BY <1>3, Owners DEF IInv, Types
    <2>3. queue' \in Seq(Entry)
          /\ \A i \in DOMAIN queue' : i + 1 \in DOMAIN queue /\ queue[i + 1] = queue'[i]
      BY <1>1 DEF IInv, Types
    <2>4. Types'
      BY <1>1, <2>1, <2>2, <2>3 DEF IInv, Types, ConnType
    <2>5. conn[k].st # "granted"
      <3>1. 1 \in DOMAIN queue /\ queue[1].op # "revoke" /\ queue[1].arg = k
        BY <1>1 DEF IInv, Types
      <3> QED BY <3>1 DEF IInv, GrantedIsNew
    <2>6. GrantedIsNew'
      <3> SUFFICES ASSUME NEW l \in Conn, conn'[l].st = "granted"
                   PROVE  /\ ~conn'[l].attached
                          /\ \A u \in User : bound'[u] # l
                          /\ \A i \in DOMAIN queue' :
                               queue'[i].op # "revoke" => queue'[i].arg # l
        BY DEF GrantedIsNew
      <3>1. conn[l].st = "granted" /\ l # k
        BY <2>1, <2>5
      <3>2. \A u \in User : bound'[u] # l
        BY <1>3, <3>1 DEF IInv, Types, GrantedIsNew
      <3> QED BY <2>1, <2>3, <3>1, <3>2 DEF IInv, GrantedIsNew
    <2>7. AskedIsDead'
      BY <1>1, <2>3 DEF IInv, AskedIsDead, Dead
    <2>8. ConfirmedIsUnseated'
      <3> SUFFICES ASSUME NEW x \in Session \cup User, req[x] \in {"acked", "done"},
                          NEW l \in Conn, Covers(x, l), conn'[l].attached
                   PROVE  bound'[Owner(l)] # l
        BY <1>1 DEF ConfirmedIsUnseated, Covers, SessionBy, Owner
      <3>1. conn[l].attached /\ bound[Owner(l)] # l
        BY <2>1 DEF IInv, ConfirmedIsUnseated
      <3>2. Dead(x)
        BY DEF IInv, AskedIsDead
      <3>3. l # k
        <4>1. ~Dead(SessionBy(k)) /\ ~Dead(Owner(k))
          BY <1>3, Owners, SocketsAssumption DEF Welcome, Dead
        <4> QED BY <3>2, <4>1 DEF Covers
      <3> QED BY <1>3, <3>1, <3>3, Owners DEF IInv, Types
    <2> QED BY <2>4, <2>6, <2>7, <2>8 DEF IInv
  <1> QED BY <1>2, <1>3 DEF Join, Settle, seats

\* A revocation takes the seat of every tracked socket before it is confirmed.
LEMMA RevokeKeeps ==
  ASSUME IInv, NEW x \in Session \cup User, Revoke(x)
  PROVE  IInv'
  <1> DEFINE doomed == {k \in Attached : Covers(x, k)}
  <1>1. /\ queue # <<>> /\ Head(queue) = [op |-> "revoke", arg |-> x] /\ queue' = Tail(queue)
        /\ bound' = Unbound(doomed) /\ conn' = Closed(doomed, "expired")
        /\ req' = [req EXCEPT ![x] = "acked"] /\ UNCHANGED <<session, banned>>
    BY DEF Revoke, Runs, Done
  <1>2. conn' \in ConnType
        /\ \A l \in Conn : /\ conn'[l].attached = conn[l].attached
                           /\ conn'[l].st = "granted" => conn[l].st = "granted"
    BY <1>1, ClosedFacts DEF IInv, Types, ConnType, Codes
  <1>3. bound' \in [User -> Conn \cup {None}]
        /\ \A u \in User : /\ bound'[u] \in {bound[u], None}
                           /\ bound'[u] \in doomed => bound'[u] = None
    BY <1>1, UnboundFacts DEF IInv
  <1>4. queue' \in Seq(Entry)
        /\ \A i \in DOMAIN queue' : i + 1 \in DOMAIN queue /\ queue[i + 1] = queue'[i]
    BY <1>1 DEF IInv, Types
  <1>5. 1 \in DOMAIN queue /\ queue[1].op = "revoke" /\ queue[1].arg = x
    BY <1>1 DEF IInv, Types
  <1>6. Types'
    BY <1>1, <1>2, <1>3, <1>4 DEF IInv, Types, ConnType, Requests
  <1>7. Dead(x)
    BY <1>5 DEF IInv, AskedIsDead
  <1>8. AskedIsDead'
    BY <1>1, <1>4, <1>7 DEF IInv, Types, AskedIsDead, Dead
  <1>9. GrantedIsNew'
    <2> SUFFICES ASSUME NEW l \in Conn, conn'[l].st = "granted"
                 PROVE  /\ ~conn'[l].attached
                        /\ \A u \in User : bound'[u] # l
                        /\ \A i \in DOMAIN queue' :
                             queue'[i].op # "revoke" => queue'[i].arg # l
      BY DEF GrantedIsNew
    <2>1. conn[l].st = "granted" /\ l # None
      BY <1>2, SocketsAssumption DEF Conn
    <2> QED BY <1>2, <1>3, <1>4, <2>1 DEF IInv, GrantedIsNew
  <1>10. ConfirmedIsUnseated'
    <2> SUFFICES ASSUME NEW y \in Session \cup User, req'[y] \in {"acked", "done"},
                        NEW l \in Conn, Covers(y, l), conn'[l].attached
                 PROVE  bound'[Owner(l)] # l
      BY DEF ConfirmedIsUnseated, Covers, SessionBy, Owner
    <2>1. conn[l].attached /\ Owner(l) \in User /\ l # None
      BY <1>2, Owners, SocketsAssumption DEF Conn
    <2>2. CASE y = x
      BY <1>3, <2>1, <2>2 DEF Attached
    <2>3. CASE y # x
      <3>1. req[y] \in {"acked", "done"}
        BY <1>1, <2>3 DEF IInv, Types
      <3> QED BY <1>3, <2>1, <3>1 DEF IInv, ConfirmedIsUnseated
    <2> QED BY <2>2, <2>3
  <1> QED BY <1>6, <1>8, <1>9, <1>10 DEF IInv

LEMMA RevokeFailsKeeps ==
  ASSUME IInv, NEW x \in Session \cup User, RevokeFails(x)
  PROVE  IInv'
  <1>1. /\ queue # <<>> /\ queue' = Tail(queue) /\ req' = [req EXCEPT ![x] = "none"]
        /\ UNCHANGED <<conn, session, banned, bound>>
    BY DEF RevokeFails, Runs, Done, seats
  <1>2. req' \in [Session \cup User -> Requests]
        /\ \A y \in Session \cup User : req'[y] \in {req[y], "none"}
    BY <1>1 DEF IInv, Types, Requests
  <1> QED BY <1>1, <1>2, ShutKeeps DEF IInv, Types, ConnType

\* What is asked for is dead first.
LEMMA AskKeeps ==
  ASSUME IInv, NEW x \in Session \cup User, Ask(x)
  PROVE  IInv'
  <1>1. /\ req[x] = "none" /\ req' = [req EXCEPT ![x] = "asked"]
        /\ UNCHANGED <<conn, queue, bound>>
    BY DEF Ask, seats
  <1>2. session' \in [Session -> {"live", "expired", "tombstone", "gone"}]
        /\ Dead(x)' /\ \A y : Dead(y) => Dead(y)'
    <2>1. CASE /\ x \in Session /\ session' = [session EXCEPT ![x] = "tombstone"]
               /\ UNCHANGED banned
      BY <2>1 DEF IInv, Types, Dead
    <2>2. CASE x \in User /\ banned' = banned \cup {x} /\ UNCHANGED session
      BY <2>2 DEF IInv, Types, Dead
    <2> QED BY <2>1, <2>2 DEF Ask
  <1>3. Types'
    BY <1>1, <1>2 DEF IInv, Types, Requests
  <1>4. AskedIsDead'
    BY <1>1, <1>2 DEF IInv, Types, AskedIsDead
  <1>5. GrantedIsNew'
    BY <1>1 DEF IInv, GrantedIsNew
  <1>6. ConfirmedIsUnseated'
    BY <1>1 DEF IInv, Types, ConfirmedIsUnseated, Covers, SessionBy, Owner
  <1> QED BY <1>3, <1>4, <1>5, <1>6 DEF IInv

\* Where no room tracks such a socket, there is nothing to wait for.
LEMMA TargetKeeps ==
  ASSUME IInv, NEW x \in Session \cup User, Target(x)
  PROVE  IInv'
  <1> DEFINE e == [op |-> "revoke", arg |-> x]
  <1>1. req[x] = "asked" /\ UNCHANGED <<conn, session, banned, bound>>
    BY DEF Target, seats
  <1>2. Dead(x)
    BY <1>1 DEF IInv, AskedIsDead
  <1>3. CASE req' = [req EXCEPT ![x] = "waiting"] /\ queue' = Append(queue, e)
    <2>1. e \in Entry
      BY DEF Entry
    <2>2. queue' \in Seq(Entry)
          /\ \A i \in DOMAIN queue' :
               queue'[i] = e \/ (i \in DOMAIN queue /\ queue'[i] = queue[i])
      BY <1>3, <2>1 DEF IInv, Types
    <2>3. Types'
      BY <1>1, <1>3, <2>2 DEF IInv, Types, Requests
    <2>4. AskedIsDead'
      BY <1>1, <1>2, <1>3, <2>2 DEF IInv, Types, AskedIsDead, Dead
    <2>5. GrantedIsNew'
      BY <1>1, <2>2 DEF IInv, GrantedIsNew
    <2>6. ConfirmedIsUnseated'
      BY <1>1, <1>3 DEF IInv, Types, ConfirmedIsUnseated, Covers, SessionBy, Owner
    <2> QED BY <2>3, <2>4, <2>5, <2>6 DEF IInv
  <1>4. CASE /\ req' = [req EXCEPT ![x] = "acked"] /\ UNCHANGED queue
             /\ ~\E k \in Attached : Covers(x, k)
    <2>1. Types'
      BY <1>1, <1>4 DEF IInv, Types, Requests
    <2>2. AskedIsDead' /\ GrantedIsNew'
      BY <1>1, <1>2, <1>4 DEF IInv, Types, AskedIsDead, GrantedIsNew, Dead
    <2>3. ConfirmedIsUnseated'
      BY <1>1, <1>4 DEF IInv, Types, ConfirmedIsUnseated, Covers, SessionBy, Owner, Attached
    <2> QED BY <2>1, <2>2, <2>3 DEF IInv
  <1> QED BY <1>3, <1>4 DEF Target

LEMMA AnswerKeeps ==
  ASSUME IInv, NEW x \in Session \cup User, Answer(x)
  PROVE  IInv'
  <1>1. /\ req[x] = "acked" /\ req' = [req EXCEPT ![x] = "done"]
        /\ session' = IF x \in Session THEN [session EXCEPT ![x] = "gone"] ELSE session
        /\ UNCHANGED <<conn, queue, banned, bound>>
    BY DEF Answer, seats
  <1>2. session' \in [Session -> {"live", "expired", "tombstone", "gone"}]
        /\ \A y : Dead(y) => Dead(y)'
    BY <1>1 DEF IInv, Types, Dead
  <1>3. Types'
    BY <1>1, <1>2 DEF IInv, Types, Requests
  <1>4. AskedIsDead'
    BY <1>1, <1>2 DEF IInv, Types, AskedIsDead
  <1>5. GrantedIsNew'
    BY <1>1 DEF IInv, GrantedIsNew
  <1>6. ConfirmedIsUnseated'
    BY <1>1 DEF IInv, Types, ConfirmedIsUnseated, Covers, SessionBy, Owner
  <1> QED BY <1>3, <1>4, <1>5, <1>6 DEF IInv

LEMMA ExpireKeeps ==
  ASSUME IInv, NEW s \in Session, Expire(s)
  PROVE  IInv'
  <1>1. session[s] = "live" /\ session' = [session EXCEPT ![s] = "expired"]
        /\ UNCHANGED <<conn, queue, banned, bound, req>>
    BY DEF Expire, seats
  <1>2. session' \in [Session -> {"live", "expired", "tombstone", "gone"}]
        /\ \A y : Dead(y) => Dead(y)'
    BY <1>1 DEF IInv, Types, Dead
  <1>3. Types'
    BY <1>1, <1>2 DEF IInv, Types
  <1>4. AskedIsDead'
    BY <1>1, <1>2 DEF IInv, AskedIsDead
  <1>5. GrantedIsNew' /\ ConfirmedIsUnseated'
    BY <1>1 DEF IInv, GrantedIsNew, ConfirmedIsUnseated, Covers, SessionBy, Owner
  <1> QED BY <1>3, <1>4, <1>5 DEF IInv

------------------------------------------------------------------------------
(* The invariant *)

LEMMA InitIInv == ASSUME Init PROVE IInv /\ HalfIsQueued
  <1>1. None \notin Conn
    BY SocketsAssumption DEF Conn
  <1>2. Types
    BY DEF Init, Types, Codes, Requests
  <1>3. AskedIsDead /\ GrantedIsNew /\ ConfirmedIsUnseated /\ HalfIsQueued
    BY DEF Init, AskedIsDead, GrantedIsNew, ConfirmedIsUnseated, HalfIsQueued
  <1> QED BY <1>2, <1>3 DEF IInv

\* Every step keeps it.
LEMMA NextIInv ==
  ASSUME IInv, HalfIsQueued, [Next]_vars
  PROVE  IInv'
  <1>1. ASSUME NEW t \in Tab, Mount(t) \/ TimerFires(t) \/ RetryNow(t)
        PROVE  IInv'
    BY <1>1, DialKeeps DEF Mount, TimerFires, RetryNow
  <1>2. ASSUME NEW t \in Tab, Offline(t) \/ ClientClose(t) \/ Diagnosed(t) \/ Quit(t)
        PROVE  IInv'
    BY <1>2, TabKeeps
  <1>3. ASSUME NEW k \in Conn, Attach(k) \/ Disconnect(k) \/ Lose(k) \/ JoinFails(k) \/ Join(k)
        PROVE  IInv'
    BY <1>3, AttachKeeps, DisconnectKeeps, LoseKeeps, JoinFailsKeeps, JoinKeeps
  <1>4. ASSUME NEW k \in Conn, \/ ExpiredFrame(k) \/ Drop(k)
                               \/ \E code \in {"overload", "stale"} : Cut(k, code)
        PROVE  IInv'
    BY <1>4, DropKeeps
  <1>5. CASE Reconcile \/ DropFails \/ CatchUp
    BY <1>5, DropKeeps
  <1>6. ASSUME NEW u \in User, SeatExpires(u) \/ Leave(u)
        PROVE  IInv'
    BY <1>6, DropKeeps, LeaveKeeps
  <1>7. ASSUME NEW x \in Session \cup User,
               Ask(x) \/ Target(x) \/ Answer(x) \/ RevokeFails(x) \/ Revoke(x)
        PROVE  IInv'
    BY <1>7, AskKeeps, TargetKeeps, AnswerKeeps, RevokeFailsKeeps, RevokeKeeps
  <1>8. ASSUME NEW s \in Session, Expire(s)
        PROVE  IInv'
    BY <1>8, ExpireKeeps
  <1>9. ASSUME NEW code \in {"restart", "lost"}, Restart(code)
        PROVE  IInv'
    BY <1>9, RestartKeeps
  <1>10. CASE UNCHANGED vars
    BY <1>10 DEF vars, IInv, Types, AskedIsDead, Dead, GrantedIsNew, ConfirmedIsUnseated,
                 Covers, SessionBy, Owner
  <1> QED BY <1>1, <1>2, <1>3, <1>4, <1>5, <1>6, <1>7, <1>8, <1>9, <1>10 DEF Next, Command

\* Half a closing waits at the head: nothing but its second transaction takes it off.
LEMMA NextHalf ==
  ASSUME IInv, HalfIsQueued, [Next]_vars
  PROVE  HalfIsQueued'
  <1> USE DEF HalfIsQueued
  <1>0. queue \in Seq(Entry)
    BY DEF IInv, Types
  <1>1. ASSUME NEW t \in Tab, \/ Mount(t) \/ TimerFires(t) \/ RetryNow(t)
                              \/ Offline(t) \/ ClientClose(t) \/ Diagnosed(t) \/ Quit(t)
        PROVE  HalfIsQueued'
    BY <1>1 DEF Mount, TimerFires, RetryNow, Offline, ClientClose, Diagnosed, Quit, Others
  <1>2. ASSUME NEW k \in Conn, Attach(k) \/ Disconnect(k)
        PROVE  HalfIsQueued'
    <2>1. UNCHANGED half /\ \E e \in Entry : queue' = Append(queue, e)
      <3>1. [op |-> "join", arg |-> k] \in Entry /\ [op |-> "drop", arg |-> k] \in Entry
        BY <1>2 DEF Entry
      <3> QED BY <1>2, <3>1 DEF Attach, Disconnect
    <2> QED BY <1>0, <2>1
  <1>3. ASSUME NEW k \in Conn, Lose(k) \/ JoinFails(k) \/ Join(k) \/ ExpiredFrame(k)
        PROVE  HalfIsQueued'
    BY <1>3 DEF Lose, JoinFails, Join, ExpiredFrame, Others, Runs
  <1>4. ASSUME NEW k \in Conn, Drop(k) \/ \E code \in {"overload", "stale"} : Cut(k, code)
        PROVE  HalfIsQueued'
    BY <1>4 DEF Drop, Cut, Runs
  <1>5. CASE Reconcile \/ DropFails \/ CatchUp
    BY <1>5 DEF Reconcile, DropFails, CatchUp
  <1>6. ASSUME NEW u \in User, SeatExpires(u) \/ Leave(u)
        PROVE  HalfIsQueued'
    BY <1>6 DEF SeatExpires, Leave
  <1>7. ASSUME NEW x \in Session \cup User, Ask(x) \/ Answer(x) \/ RevokeFails(x) \/ Revoke(x)
        PROVE  HalfIsQueued'
    BY <1>7 DEF Ask, Answer, RevokeFails, Revoke, Runs
  <1>8. ASSUME NEW x \in Session \cup User, Target(x)
        PROVE  HalfIsQueued'
    <2>1. UNCHANGED half /\ (queue' = queue \/ \E e \in Entry : queue' = Append(queue, e))
      <3>1. [op |-> "revoke", arg |-> x] \in Entry
        BY <1>8 DEF Entry
      <3> QED BY <1>8, <3>1 DEF Target
    <2> QED BY <1>0, <2>1
  <1>9. ASSUME NEW s \in Session, Expire(s)
        PROVE  HalfIsQueued'
    BY <1>9 DEF Expire
  <1>10. ASSUME NEW code \in {"restart", "lost"}, Restart(code)
         PROVE  HalfIsQueued'
    BY <1>10 DEF Restart
  <1>11. CASE UNCHANGED vars
    BY <1>11 DEF vars
  <1> QED BY <1>1, <1>2, <1>3, <1>4, <1>5, <1>6, <1>7, <1>8, <1>9, <1>10, <1>11
             DEF Next, Command

\* Whoever was logged out or banned is out of every room once the request is answered.
LEMMA IInvImpliesOut == IInv => RevokedIsOut
  BY Owners DEF IInv, ConfirmedIsUnseated, RevokedIsOut, MayAct, Open

\* Once a logout or a ban is answered, no frame of that session or account is obeyed, for
\* any number of tabs and connections and any order of joins, closings and failures
\* (revocation.ts, http/admin.ts).
THEOREM RevokedIsOutHolds == Spec => []RevokedIsOut
  <1>1. Init => IInv /\ HalfIsQueued
    BY InitIInv
  <1>2. IInv /\ HalfIsQueued /\ [Next]_vars => (IInv /\ HalfIsQueued)'
    BY NextIInv, NextHalf
  <1>3. IInv => RevokedIsOut
    BY IInvImpliesOut
  <1> QED BY <1>1, <1>2, <1>3, PTL DEF Spec

\* A seat never comes to name a connection whose handshake is still under way.
THEOREM GrantedIsNewHolds == Spec => []GrantedIsNew
  <1>1. Init => IInv /\ HalfIsQueued
    BY InitIInv
  <1>2. IInv /\ HalfIsQueued /\ [Next]_vars => (IInv /\ HalfIsQueued)'
    BY NextIInv, NextHalf
  <1>3. IInv => GrantedIsNew
    BY DEF IInv
  <1> QED BY <1>1, <1>2, <1>3, PTL DEF Spec
------------------------------------------------------------------------------
(* The host.  A room is handed over in the same transaction that takes the host's seat
   away, or in the next one; until then the connection he had is still to be dropped.  So
   between two commands a host who is gone is a host whose closing is on its way. *)

\* A tab listens to a socket of its own.
TabRow == [st : {"idle", "connecting", "open", "reconnecting", "closed"},
           sock : Conn \cup {None}, timer : BOOLEAN, diag : BOOLEAN]

SockIsOwn ==
  /\ tab \in [Tab -> TabRow]
  /\ \A t \in Tab : tab[t].sock # None => tab[t].sock[1] = t

\* A seat names a connection of its own account.
SeatsAreOwn == \A u \in User : bound[u] # None => Owner(bound[u]) = u

\* A closing is queued once the connection is no longer tracked, never before.
DropIsUntracked == \A k \in Conn : Queued("drop", k) => ~conn[k].attached

\* A connection frames arrive on holds the seat of its account, or is about to.
OpenIsSeated == \A k \in Conn : Open(conn, k) => bound[Owner(k)] = k \/ Queued("join", k)

\* The connection is closed and the engine will still act on that.
Leaving(k) ==
  \/ conn[k].attached /\ conn[k].st = "shut"
  \/ Queued("drop", k)

\* Whoever is there instead of the host, somebody is about to look for a new one.
HostStands ==
  \/ Online(rows, bound, conn) = {}
  \/ host \in Online(rows, bound, conn)
  \/ owed \/ half # "no"
  \/ host \in rows /\ bound[host] \in Conn /\ Leaving(bound[host])

\* Seats and the host are accounts.
SeatTypes == rows \subseteq User /\ host \in User

HostInv == SeatTypes /\ SeatsAreOwn /\ DropIsUntracked /\ OpenIsSeated /\ HostStands

\* Taking the head off the queue takes nothing else away.
LEMMA TailQueue ==
  ASSUME queue \in Seq(Entry), queue # <<>>, queue' = Tail(queue)
  PROVE  /\ \A op, k : Queued(op, k)' => Queued(op, k)
         /\ \A op, k : Queued(op, k) /\ (Head(queue).op # op \/ Head(queue).arg # k)
                         => Queued(op, k)'
         /\ \A op, k : Head(queue) = [op |-> op, arg |-> k] => Queued(op, k)
  <1>1. \A i \in DOMAIN queue' : i + 1 \in DOMAIN queue /\ queue[i + 1] = queue'[i]
    OBVIOUS
  <1>2. \A i \in DOMAIN queue \ {1} : i - 1 \in DOMAIN queue' /\ queue'[i - 1] = queue[i]
    OBVIOUS
  <1>3. 1 \in DOMAIN queue /\ queue[1] = Head(queue)
    OBVIOUS
  <1>4. ASSUME NEW op, NEW k, Queued(op, k), Head(queue).op # op \/ Head(queue).arg # k
        PROVE  Queued(op, k)'
    <2>1. PICK i \in DOMAIN queue : queue[i] = [op |-> op, arg |-> k]
      BY <1>4 DEF Queued
    <2>2. i # 1
      BY <1>3, <1>4, <2>1
    <2> QED BY <1>2, <2>1, <2>2, Zenon DEF Queued
  <1> QED BY <1>1, <1>3, <1>4, Zenon DEF Queued

\* A command appended is the only new one.
LEMMA LongerQueue ==
  ASSUME queue \in Seq(Entry), NEW e \in Entry, queue' = Append(queue, e)
  PROVE  /\ \A op, k : Queued(op, k) => Queued(op, k)'
         /\ \A op, k : Queued(op, k)' => Queued(op, k) \/ e = [op |-> op, arg |-> k]
         /\ \A op, k : e = [op |-> op, arg |-> k] => Queued(op, k)'
  <1>1. \A i \in DOMAIN queue : i \in DOMAIN queue' /\ queue'[i] = queue[i]
    OBVIOUS
  <1>2. \A i \in DOMAIN queue' : queue'[i] = e \/ (i \in DOMAIN queue /\ queue'[i] = queue[i])
    OBVIOUS
  <1>3. Len(queue) + 1 \in DOMAIN queue' /\ queue'[Len(queue) + 1] = e
    OBVIOUS
  <1> QED BY <1>1, <1>2, <1>3, Zenon DEF Queued

\* Closing some sockets: they stay tracked, and those that were open are now shut.
LEMMA ClosedIsShut ==
  ASSUME Types, NEW K, NEW code
  PROVE  \A k \in Conn :
           /\ Closed(K, code)[k].attached = conn[k].attached
           /\ Closed(K, code)[k].st =
                IF k \in K /\ conn[k].st = "open" THEN "shut" ELSE conn[k].st
  BY DEF Closed, Types

\* A new host is present as the transaction sees it, or nobody is.
LEMMA SettledStands ==
  ASSUME NEW c, host' \in Hosts(rows', bound', c),
         Online(rows', bound', conn') = Online(rows', bound', c)
  PROVE  HostStands'
  BY DEF Hosts, HostStands

\* A step that leaves the seats alone and tracks nothing new: a connection it closes stays
\* to be dropped, and a join it takes off the queue is of a connection that is closed.
LEMMA CalmKeeps ==
  ASSUME IInv, HostInv, UNCHANGED <<rows, bound, host, half, owed>>,
         \A k \in Conn : /\ conn'[k].attached => conn[k].attached
                         /\ Open(conn', k) => Open(conn, k)
                         /\ conn[k].attached => Open(conn', k) \/ Leaving(k)'
                         /\ Queued("drop", k) => Queued("drop", k)'
                         /\ Queued("drop", k)' => Queued("drop", k) \/ ~conn'[k].attached
                         /\ Queued("join", k) /\ Open(conn', k) => Queued("join", k)'
  PROVE  HostInv'
  <1>1. SeatsAreOwn'
    BY DEF HostInv, SeatsAreOwn
  <1>2. DropIsUntracked'
    BY DEF HostInv, DropIsUntracked
  <1>3. OpenIsSeated'
    BY DEF HostInv, OpenIsSeated
  <1>4. \A u \in rows : bound[u] # None => bound[u] \in Conn
    BY DEF IInv, Types, HostInv, SeatTypes
  <1>5. Online(rows, bound, conn') \subseteq Online(rows, bound, conn)
    BY <1>4 DEF Online
  <1>6. HostStands'
    <2>1. CASE Online(rows, bound, conn) = {}
      BY <1>5, <2>1 DEF HostStands
    <2>2. CASE owed \/ half # "no"
      BY <2>2 DEF HostStands
    <2>3. CASE \/ host \in Online(rows, bound, conn)
               \/ Leaving(bound[host]) /\ bound[host] \in Conn /\ host \in rows
      <3>1. host \in rows /\ bound[host] \in Conn /\ bound[host] # None
        BY <1>4, <2>3, SocketsAssumption DEF Online, Conn
      <3>2. conn[bound[host]].attached \/ Queued("drop", bound[host])
        BY <2>3 DEF Online, Open, Leaving
      <3>3. Open(conn', bound[host]) \/ Leaving(bound[host])'
        BY <3>1, <3>2 DEF Leaving
      <3> QED BY <3>1, <3>3 DEF HostStands, Online
    <2>4. \/ Online(rows, bound, conn) = {}
          \/ owed \/ half # "no"
          \/ host \in Online(rows, bound, conn)
          \/ Leaving(bound[host]) /\ bound[host] \in Conn /\ host \in rows
      BY Zenon DEF HostInv, HostStands
    <2> QED BY <2>1, <2>2, <2>3, <2>4
  <1>7. SeatTypes'
    BY DEF HostInv, SeatTypes
  <1> QED BY <1>1, <1>2, <1>3, <1>6, <1>7 DEF HostInv

\* The same for a step that runs no command: sockets stay as they are or are closed.
LEMMA IdleKeeps ==
  ASSUME IInv, HostInv, UNCHANGED <<rows, bound, host, half, owed, queue>>,
         \A k \in Conn : /\ conn'[k].attached = conn[k].attached
                         /\ conn[k].attached => conn'[k].st \in {conn[k].st, "shut"}
  PROVE  HostInv'
  <1>1. \A op, k : Queued(op, k)' <=> Queued(op, k)
    BY DEF Queued
  <1>2. ASSUME NEW k \in Conn
        PROVE  /\ conn'[k].attached => conn[k].attached
               /\ Open(conn', k) => Open(conn, k)
               /\ conn[k].attached => Open(conn', k) \/ Leaving(k)'
    BY <1>2 DEF Open, Leaving, IInv, Types, GrantedIsNew
  <1> QED BY <1>1, <1>2, CalmKeeps

LEMMA TabHost ==
  ASSUME IInv, HostInv, NEW t \in Tab,
         \/ Offline(t) \/ ClientClose(t) \/ Diagnosed(t) \/ Quit(t)
         \/ Dial(t) /\ Others
  PROVE  HostInv'
  <1>1. UNCHANGED <<rows, bound, host, half, owed, queue>>
    BY DEF Offline, ClientClose, Diagnosed, Quit, Others, seats
  <1>2. CASE Dial(t)
    <2>1. PICK n \in Line :
            /\ Free(<<t, n>>)
            /\ conn' = [conn EXCEPT ![<<t, n>>] =
                 [@ EXCEPT !.st = IF Admitted(SessionOf[t]) THEN "granted" ELSE "shut"]]
      BY <1>2 DEF Dial
    <2>2. \A k \in Conn : /\ conn'[k].attached = conn[k].attached
                          /\ conn[k].attached => conn'[k] = conn[k]
      BY <2>1 DEF IInv, Types, Free
    <2> QED BY <1>1, <2>2, IdleKeeps
  <1>3. CASE ~Dial(t)
    <2>1. conn' = conn \/ Forget(t)
      BY <1>3 DEF Offline, ClientClose, Diagnosed, Quit
    <2>2. \A k \in Conn : conn'[k].attached = conn[k].attached /\ conn'[k].st = conn[k].st
      BY <2>1 DEF Forget, IInv, Types
    <2> QED BY <1>1, <2>2, IdleKeeps
  <1> QED BY <1>2, <1>3

LEMMA LoseHost ==
  ASSUME IInv, HostInv, NEW k \in Conn, Lose(k) \/ ExpiredFrame(k)
  PROVE  HostInv'
  <1>1. UNCHANGED <<rows, bound, host, half, owed, queue>>
    BY DEF Lose, ExpiredFrame, Others, seats
  <1>2. conn' = [conn EXCEPT ![k].st = "shut"] \/ conn' = Closed({k}, "expired")
    BY DEF Lose, ExpiredFrame
  <1>3. \A l \in Conn : /\ conn'[l].attached = conn[l].attached
                        /\ conn'[l].st \in {conn[l].st, "shut"}
    BY <1>2, ClosedIsShut DEF IInv, Types
  <1> QED BY <1>1, <1>3, IdleKeeps

LEMMA RequestHost ==
  ASSUME IInv, HostInv, NEW x \in Session \cup User, Ask(x) \/ Answer(x) \/ Target(x)
  PROVE  HostInv'
  <1>1. UNCHANGED <<rows, bound, host, half, owed, conn>>
    BY DEF Ask, Answer, Target, seats
  <1>2. CASE UNCHANGED queue
    BY <1>1, <1>2, IdleKeeps
  <1>3. CASE queue' = Append(queue, [op |-> "revoke", arg |-> x])
    <2>1. [op |-> "revoke", arg |-> x] \in Entry
      BY DEF Entry
    <2>2. /\ \A op, k : Queued(op, k) => Queued(op, k)'
          /\ \A k : Queued("drop", k)' => Queued("drop", k)
      BY <1>3, <2>1, LongerQueue DEF IInv, Types
    <2>3. \A k \in Conn : conn[k].attached => Open(conn, k) \/ Leaving(k)'
      BY <1>1 DEF Open, Leaving, IInv, Types, GrantedIsNew
    <2> QED BY <1>1, <2>2, <2>3, CalmKeeps
  <1> QED BY <1>2, <1>3 DEF Ask, Answer, Target

LEMMA ExpireHost ==
  ASSUME IInv, HostInv, NEW s \in Session, Expire(s)
  PROVE  HostInv'
  BY IdleKeeps DEF Expire, seats

\* The upgrade: not seated, but its join is queued; untracked before, so nobody's loss.
LEMMA AttachHost ==
  ASSUME IInv, HostInv, NEW k \in Conn, Attach(k)
  PROVE  HostInv'
  <1> DEFINE e == [op |-> "join", arg |-> k]
  <1>1. /\ conn[k].st = "granted" /\ queue' = Append(queue, e)
        /\ conn' = [conn EXCEPT ![k] = [@ EXCEPT !.st = "open", !.attached = TRUE]]
        /\ UNCHANGED <<rows, bound, host, half, owed>>
    BY DEF Attach, seats
  <1>2. \A l \in Conn \ {k} : conn'[l] = conn[l]
    BY <1>1 DEF IInv, Types
  <1>3. e \in Entry
    BY DEF Entry
  <1>4. /\ \A op, l : Queued(op, l) => Queued(op, l)'
        /\ \A l : Queued("drop", l)' => Queued("drop", l)
        /\ Queued("join", k)'
    BY <1>1, <1>3, LongerQueue DEF IInv, Types
  <1>5. ~Queued("drop", k)
    BY <1>1 DEF IInv, GrantedIsNew, Queued
  <1>6. \A u \in User : bound[u] # k
    BY <1>1 DEF IInv, GrantedIsNew
  <1>7. SeatTypes' /\ SeatsAreOwn'
    BY <1>1 DEF HostInv, SeatTypes, SeatsAreOwn
  <1>8. DropIsUntracked'
    BY <1>2, <1>4, <1>5 DEF HostInv, DropIsUntracked
  <1>9. OpenIsSeated'
    BY <1>1, <1>2, <1>4 DEF HostInv, OpenIsSeated, Open
  <1>10. Online(rows, bound, conn') = Online(rows, bound, conn)
    BY <1>2, <1>6 DEF Online, Open, HostInv, SeatTypes, IInv, Types
  <1>11. host \in User /\ (bound[host] \in Conn /\ Leaving(bound[host]) => Leaving(bound[host])')
    BY <1>1, <1>2, <1>4, <1>6 DEF Leaving, HostInv, SeatTypes
  <1>12. HostStands'
    BY <1>1, <1>10, <1>11, Zenon DEF HostInv, HostStands
  <1> QED BY <1>7, <1>8, <1>9, <1>12 DEF HostInv

\* A closed socket is not tracked any more, and its closing is queued.
LEMMA DisconnectHost ==
  ASSUME IInv, HostInv, NEW k \in Conn, Disconnect(k)
  PROVE  HostInv'
  <1> DEFINE e == [op |-> "drop", arg |-> k]
  <1>1. /\ queue' = Append(queue, e)
        /\ conn' = [conn EXCEPT ![k] = [@ EXCEPT !.st = "shut", !.attached = FALSE]]
        /\ UNCHANGED <<rows, bound, host, half, owed>>
    BY DEF Disconnect, seats
  <1>2. \A l \in Conn \ {k} : conn'[l] = conn[l]
    BY <1>1 DEF IInv, Types
  <1>3. ~conn'[k].attached
    BY <1>1 DEF IInv, Types
  <1>4. e \in Entry
    BY DEF Entry
  <1>5. /\ \A op, l : Queued(op, l) => Queued(op, l)'
        /\ \A l : Queued("drop", l)' => Queued("drop", l) \/ l = k
        /\ Queued("drop", k)'
    BY <1>1, <1>4, LongerQueue DEF IInv, Types
  <1>6. \A l \in Conn : conn[l].attached => Open(conn', l) \/ Leaving(l)'
    BY <1>2, <1>5 DEF Open, Leaving, IInv, Types, GrantedIsNew
  <1>7. \A l \in Conn : /\ conn'[l].attached => conn[l].attached
                        /\ Open(conn', l) => Open(conn, l)
    BY <1>2, <1>3 DEF Open
  <1> QED BY <1>1, <1>3, <1>5, <1>6, <1>7, CalmKeeps

\* Commands that seat nobody: a refused or failed join closes its connection.
LEMMA RefusedHost ==
  ASSUME IInv, HostInv, NEW k \in Conn,
         JoinFails(k) \/ (Join(k) /\ conn' = Closed({k}, "expired") /\ UNCHANGED seats)
  PROVE  HostInv'
  <1>1. /\ queue \in Seq(Entry) /\ queue # <<>> /\ Head(queue) = [op |-> "join", arg |-> k]
        /\ queue' = Tail(queue) /\ UNCHANGED <<rows, bound, host, half, owed>>
    BY DEF Join, JoinFails, Runs, Done, seats, IInv, Types
  <1>2. \A l \in Conn : /\ conn'[l].attached = conn[l].attached
                        /\ conn'[l].st \in {conn[l].st, "shut"}
                        /\ conn[k].st = "open" => conn'[k].st = "shut"
    <2>1. CASE conn' = Closed({k}, "expired")
      BY <2>1, ClosedIsShut DEF IInv
    <2>2. CASE JoinFails(k)
      <3>1. PICK K : conn' = [l \in Conn |-> IF l = k THEN Closed({k}, "closed")[l]
                                             ELSE Closed(K, "replaced")[l]]
        BY <2>2 DEF JoinFails
      <3> QED BY <3>1, ClosedIsShut DEF IInv
    <2> QED BY <2>1, <2>2
  <1>3. /\ \A op, l : Queued(op, l)' => Queued(op, l)
        /\ \A op, l : Queued(op, l) /\ (op # "join" \/ l # k) => Queued(op, l)'
    BY <1>1, TailQueue
  <1>4. \A l \in Conn : /\ Queued("drop", l) => Queued("drop", l)'
                        /\ Queued("join", l) /\ l # k => Queued("join", l)'
    BY <1>1, <1>3
  <1>5. \A l \in Conn : conn[l].attached => Open(conn', l) \/ Leaving(l)'
    BY <1>2 DEF Open, Leaving, IInv, Types, GrantedIsNew
  <1>6. \A l \in Conn : /\ conn'[l].attached => conn[l].attached
                        /\ Open(conn', l) => Open(conn, l) /\ l # k
    BY <1>2 DEF Open, IInv, Types, GrantedIsNew
  <1> QED BY <1>1, <1>3, <1>4, <1>5, <1>6, CalmKeeps

LEMMA RevokeFailsHost ==
  ASSUME IInv, HostInv, NEW x \in Session \cup User, RevokeFails(x)
  PROVE  HostInv'
  <1>1. /\ queue \in Seq(Entry) /\ queue # <<>> /\ Head(queue) = [op |-> "revoke", arg |-> x]
        /\ queue' = Tail(queue) /\ UNCHANGED <<rows, bound, host, half, owed, conn>>
    BY DEF RevokeFails, Runs, Done, seats, IInv, Types
  <1>2. /\ \A op, l : Queued(op, l)' => Queued(op, l)
        /\ \A l : Queued("drop", l) => Queued("drop", l)'
        /\ \A l : Queued("join", l) => Queued("join", l)'
    BY <1>1, TailQueue
  <1>3. \A l \in Conn : conn[l].attached => Open(conn, l) \/ Leaving(l)'
    BY <1>1 DEF Open, Leaving, IInv, Types, GrantedIsNew
  <1> QED BY <1>1, <1>2, <1>3, CalmKeeps

\* A seated join: the account's other sockets are closed, the host looked at again.
LEMMA JoinHost ==
  ASSUME IInv, HostInv, NEW k \in Conn, Join(k)
  PROVE  HostInv'
  <1> DEFINE K == {l \in Attached \ {k} : Owner(l) = Owner(k)}
             c == Closed(K, "replaced")
  <1>1. /\ queue \in Seq(Entry) /\ queue # <<>> /\ Head(queue) = [op |-> "join", arg |-> k]
        /\ queue' = Tail(queue) /\ UNCHANGED half
    BY DEF Join, Runs, Done, IInv, Types
  <1>2. CASE conn' = Closed({k}, "expired") /\ UNCHANGED seats
    BY <1>2, RefusedHost
  <1>3. CASE Settle(rows \cup {Owner(k)}, [bound EXCEPT ![Owner(k)] = k], c)
    <2>1. /\ rows' = rows \cup {Owner(k)} /\ bound' = [bound EXCEPT ![Owner(k)] = k]
          /\ conn' = c /\ host' \in Hosts(rows', bound', conn')
      BY <1>3 DEF Settle
    <2>2. \A l \in Conn : /\ conn'[l].attached = conn[l].attached
                          /\ Open(conn', l) => Open(conn, l)
                          /\ Open(conn', l) /\ Owner(l) = Owner(k) => l = k
      BY <2>1, ClosedIsShut DEF IInv, Open, Attached
    <2>3. /\ \A op, l : Queued(op, l)' => Queued(op, l)
          /\ \A l : Queued("join", l) /\ l # k => Queued("join", l)'
      BY <1>1, TailQueue
    <2>4. Owner(k) \in User /\ bound'[Owner(k)] = k
          /\ \A u \in User \ {Owner(k)} : bound'[u] = bound[u]
      BY <2>1, Owners DEF IInv, Types
    <2>5. SeatTypes'
      BY <2>1, <2>4 DEF HostInv, SeatTypes, Hosts, Online
    <2>6. SeatsAreOwn'
      BY <2>4 DEF HostInv, SeatsAreOwn
    <2>7. DropIsUntracked'
      BY <2>2, <2>3 DEF HostInv, DropIsUntracked
    <2>8. OpenIsSeated'
      BY <2>2, <2>3, <2>4, Owners DEF HostInv, OpenIsSeated
    <2>9. HostStands'
      BY <2>1, SettledStands
    <2> QED BY <2>5, <2>6, <2>7, <2>8, <2>9 DEF HostInv
  <1> QED BY <1>2, <1>3 DEF Join

\* A closing frees the seat it holds, and then the host is still to be settled.
LEMMA DropHost ==
  ASSUME IInv, HostInv, NEW k \in Conn, Drop(k)
  PROVE  HostInv'
  <1>1. /\ queue \in Seq(Entry) /\ queue # <<>> /\ Head(queue) = [op |-> "drop", arg |-> k]
        /\ bound' = Unbound({k}) /\ UNCHANGED <<conn, rows, host, owed>>
        /\ queue' \in {queue, Tail(queue)}
        /\ half' = "drop" \/ (bound' = bound /\ queue' = Tail(queue) /\ half' = half)
    BY DEF Drop, Runs, Done, IInv, Types
  <1>2. /\ \A op, l : Queued(op, l)' => Queued(op, l)
        /\ \A l : Queued("join", l) => Queued("join", l)'
        /\ Queued("drop", k)
        /\ \A l : Queued("drop", l) /\ l # k => Queued("drop", l)'
    <2>1. CASE queue' = Tail(queue)
      BY <1>1, <2>1, TailQueue
    <2>2. CASE queue' = queue
      <3>1. 1 \in DOMAIN queue /\ queue[1] = Head(queue)
        BY <1>1
      <3> QED BY <1>1, <2>2, <3>1 DEF Queued
    <2> QED BY <1>1, <2>1, <2>2
  <1>3. ~Open(conn, k)
    BY <1>2 DEF HostInv, DropIsUntracked, Open
  <1>4. \A u \in User : /\ bound'[u] \in {bound[u], None}
                        /\ bound[u] # k => bound'[u] = bound[u]
                        /\ bound[u] = k => bound'[u] = None
    BY <1>1 DEF Unbound, IInv, Types
  <1>5. SeatTypes' /\ SeatsAreOwn'
    BY <1>1, <1>4 DEF HostInv, SeatTypes, SeatsAreOwn
  <1>6. DropIsUntracked'
    BY <1>1, <1>2 DEF HostInv, DropIsUntracked
  <1>7. OpenIsSeated'
    BY <1>1, <1>2, <1>3, <1>4, Owners DEF HostInv, OpenIsSeated
  <1>8. HostStands'
    <2>1. CASE half' = "drop"
      BY <2>1 DEF HostStands
    <2>2. CASE bound' = bound /\ queue' = Tail(queue) /\ half' = half
      <3>1. host \in User /\ bound[host] # k
        BY <1>4, <2>2, SocketsAssumption DEF HostInv, SeatTypes, Conn
      <3>2. Leaving(bound[host]) => Leaving(bound[host])'
        BY <1>1, <1>2, <2>2, <3>1 DEF Leaving
      <3> QED BY <1>1, <2>2, <3>2, Zenon DEF HostInv, HostStands
    <2> QED BY <1>1, <2>1, <2>2
  <1> QED BY <1>5, <1>6, <1>7, <1>8 DEF HostInv

\* The second transaction of a closing or of a cut, or its failure.
LEMMA ReconcileHost ==
  ASSUME IInv, HostInv, HalfIsQueued, Reconcile \/ DropFails
  PROVE  HostInv'
  <1>1. /\ UNCHANGED <<conn, rows, bound>>
        /\ \/ owed'
           \/ host' \in Hosts(rows', bound', conn')
        /\ host' \in Hosts(rows, bound, conn) \cup {host}
    BY DEF Reconcile, Settle, DropFails, seats
  <1>2. \/ UNCHANGED queue
        \/ queue # <<>> /\ queue' = Tail(queue) /\ Head(queue).op = "drop"
    BY DEF Reconcile, DropFails, HalfIsQueued
  <1>3. /\ \A op, l : Queued(op, l)' => Queued(op, l)
        /\ \A l : Queued("join", l) => Queued("join", l)'
    <2>1. CASE UNCHANGED queue
      BY <2>1 DEF Queued
    <2>2. CASE queue # <<>> /\ queue' = Tail(queue) /\ Head(queue).op = "drop"
      BY <2>2, TailQueue DEF IInv, Types
    <2> QED BY <1>2, <2>1, <2>2
  <1>4. SeatTypes' /\ SeatsAreOwn'
    BY <1>1 DEF HostInv, SeatTypes, SeatsAreOwn, Hosts, Online
  <1>5. DropIsUntracked' /\ OpenIsSeated'
    BY <1>1, <1>3 DEF HostInv, DropIsUntracked, OpenIsSeated
  <1>6. HostStands'
    <2>1. CASE owed'
      BY <2>1 DEF HostStands
    <2>2. CASE host' \in Hosts(rows', bound', conn')
      BY <2>2, SettledStands
    <2> QED BY <1>1, <2>1, <2>2
  <1> QED BY <1>4, <1>5, <1>6 DEF HostInv

\* Sockets closed together with their seats: nothing the host looked at can have been open.
LEMMA ShutHost ==
  ASSUME IInv, HostInv, NEW K \in SUBSET Conn, NEW code, rows' \in SUBSET User,
         conn' = Closed(K, code), bound' \in [User -> Conn \cup {None}],
         \A u \in User : /\ bound'[u] \in {bound[u], None} \ K
                         /\ bound'[u] # bound[u] =>
                              \A k \in Attached : Owner(k) = u /\ bound[u] = k => k \in K,
         \A op, l : Queued(op, l)' => Queued(op, l),
         \A l : Queued("join", l) => Queued("join", l)'
  PROVE  /\ SeatsAreOwn' /\ DropIsUntracked' /\ OpenIsSeated'
         /\ Online(rows', bound', conn') = Online(rows', bound', conn)
  <1>1. \A l \in Conn : /\ conn'[l].attached = conn[l].attached
                        /\ Open(conn', l) <=> Open(conn, l) /\ l \notin K
    BY ClosedIsShut DEF IInv, Open, Types
  <1>2. SeatsAreOwn'
    BY DEF HostInv, SeatsAreOwn
  <1>3. DropIsUntracked'
    BY <1>1 DEF HostInv, DropIsUntracked
  <1>4. OpenIsSeated'
    <2> SUFFICES ASSUME NEW k \in Conn, Open(conn', k), ~Queued("join", k)'
                 PROVE  bound'[Owner(k)] = k
      BY DEF OpenIsSeated
    <2>1. Open(conn, k) /\ k \notin K /\ k \in Attached /\ Owner(k) \in User
      BY <1>1, Owners DEF Open, Attached
    <2>2. bound[Owner(k)] = k
      BY <2>1 DEF HostInv, OpenIsSeated
    <2> QED BY <2>1, <2>2
  <1>5. \A u \in rows' : /\ bound'[u] # None => bound'[u] \in Conn \ K
    BY DEF IInv, Types
  <1>6. Online(rows', bound', conn') = Online(rows', bound', conn)
    BY <1>1, <1>5 DEF Online
  <1> QED BY <1>2, <1>3, <1>4, <1>6

\* A cut, a catch-up, a revocation and a leave.
LEMMA CutHost ==
  ASSUME IInv, HostInv, NEW k \in Conn, NEW code, Cut(k, code)
  PROVE  HostInv'
  <1>1. /\ bound' = Unbound({k}) /\ conn' = Closed({k}, code) /\ half' = "cut"
        /\ UNCHANGED <<queue, rows, host>>
    BY DEF Cut
  <1>2. bound' \in [User -> Conn \cup {None}]
        /\ \A u \in User : /\ bound'[u] \in {bound[u], None} \ {k}
                           /\ bound'[u] # bound[u] => bound[u] = k
    BY <1>1, SocketsAssumption DEF Unbound, IInv, Types, Conn
  <1>3. SeatsAreOwn' /\ DropIsUntracked' /\ OpenIsSeated'
    BY <1>1, <1>2, ShutHost DEF Queued, HostInv, SeatTypes
  <1>4. SeatTypes' /\ HostStands'
    BY <1>1 DEF HostInv, SeatTypes, HostStands
  <1> QED BY <1>3, <1>4 DEF HostInv

LEMMA CatchUpHost ==
  ASSUME IInv, HostInv, CatchUp
  PROVE  HostInv'
  <1> DEFINE K == {k \in Attached : Open(conn, k) /\ session[SessionBy(k)] = "expired"}
  <1>1. /\ rows' = rows /\ bound' = Unbound(K) /\ conn' = Closed(K, "expired")
        /\ host' \in Hosts(rows', bound', conn') /\ UNCHANGED queue
    BY DEF CatchUp, Settle
  <1>k. K \in SUBSET Conn
    BY DEF Attached
  <1> HIDE DEF K
  <1>2. bound' \in [User -> Conn \cup {None}]
        /\ \A u \in User : /\ bound'[u] \in {bound[u], None} \ K
                           /\ bound'[u] # bound[u] => bound[u] \in K
    BY <1>1, <1>k, SocketsAssumption DEF Unbound, IInv, Types, Conn
  <1>3. SeatsAreOwn' /\ DropIsUntracked' /\ OpenIsSeated'
    BY <1>1, <1>2, <1>k, ShutHost DEF Queued, HostInv, SeatTypes
  <1>4. SeatTypes' /\ HostStands'
    BY <1>1, SettledStands DEF HostInv, SeatTypes, Hosts, Online
  <1> QED BY <1>3, <1>4 DEF HostInv

LEMMA RevokeHost ==
  ASSUME IInv, HostInv, NEW x \in Session \cup User, Revoke(x)
  PROVE  HostInv'
  <1> DEFINE K == {k \in Attached : Covers(x, k)}
  <1>1. /\ rows' = rows /\ bound' = Unbound(K) /\ conn' = Closed(K, "expired")
        /\ host' \in Hosts(rows', bound', conn)
        /\ queue # <<>> /\ Head(queue) = [op |-> "revoke", arg |-> x] /\ queue' = Tail(queue)
    BY DEF Revoke, Runs, Done
  <1>k. K \in SUBSET Conn
    BY DEF Attached
  <1>q. /\ \A op, l : Queued(op, l)' => Queued(op, l)
        /\ \A l : Queued("join", l) => Queued("join", l)'
    BY <1>1, TailQueue DEF IInv, Types
  <1> HIDE DEF K
  <1>2. bound' \in [User -> Conn \cup {None}]
        /\ \A u \in User : /\ bound'[u] \in {bound[u], None} \ K
                           /\ bound'[u] # bound[u] => bound[u] \in K
    BY <1>1, <1>k, SocketsAssumption DEF Unbound, IInv, Types, Conn
  <1>3. /\ SeatsAreOwn' /\ DropIsUntracked' /\ OpenIsSeated'
        /\ Online(rows', bound', conn') = Online(rows', bound', conn)
    BY <1>1, <1>2, <1>k, <1>q, ShutHost DEF HostInv, SeatTypes
  <1>4. SeatTypes' /\ HostStands'
    BY <1>1, <1>3, SettledStands DEF HostInv, SeatTypes, Hosts, Online
  <1> QED BY <1>3, <1>4 DEF HostInv

LEMMA LeaveHost ==
  ASSUME IInv, HostInv, NEW u \in User, Leave(u)
  PROVE  HostInv'
  <1> DEFINE K == {k \in Attached : Owner(k) = u}
  <1>1. /\ rows' = rows \ {u} /\ bound' = [bound EXCEPT ![u] = None]
        /\ conn' = Closed(K, "closed")
        /\ host' \in Hosts(rows', bound', conn) /\ UNCHANGED queue
    BY DEF Leave
  <1>k. K \in SUBSET Conn
    BY DEF Attached
  <1>2. bound' \in [User -> Conn \cup {None}]
        /\ bound'[u] = None /\ \A v \in User \ {u} : bound'[v] = bound[v]
    BY <1>1 DEF IInv, Types
  <1>n. None \notin Conn
    BY SocketsAssumption DEF Conn
  <1>o. \A v \in User : bound[v] # None => Owner(bound[v]) = v
    BY DEF HostInv, SeatsAreOwn
  <1>3. \A v \in User : /\ bound'[v] \in {bound[v], None} \ K
                        /\ bound'[v] # bound[v] =>
                             \A k \in Attached : Owner(k) = v /\ bound[v] = k => k \in K
    BY <1>2, <1>k, <1>n, <1>o DEF Attached
  <1>4. /\ SeatsAreOwn' /\ DropIsUntracked' /\ OpenIsSeated'
        /\ Online(rows', bound', conn') = Online(rows', bound', conn)
    <2> HIDE DEF K
    <2>1. rows' \in SUBSET User
      BY <1>1 DEF HostInv, SeatTypes
    <2> QED BY <1>1, <1>2, <1>3, <1>k, <2>1, ShutHost DEF Queued
  <1>5. SeatTypes' /\ HostStands'
    BY <1>1, <1>4, SettledStands DEF HostInv, SeatTypes, Hosts, Online
  <1> QED BY <1>4, <1>5 DEF HostInv

LEMMA SeatExpiresHost ==
  ASSUME IInv, HostInv, NEW u \in User, SeatExpires(u)
  PROVE  HostInv'
  <1>1. /\ rows' = rows \ {u} /\ UNCHANGED <<bound, conn, queue>>
        /\ host' \in Hosts(rows', bound', conn')
    BY DEF SeatExpires, Settle
  <1>2. SeatTypes' /\ HostStands'
    BY <1>1, SettledStands DEF HostInv, SeatTypes, Hosts, Online
  <1> QED BY <1>1, <1>2 DEF HostInv, SeatsAreOwn, DropIsUntracked, OpenIsSeated, Queued

\* After a restart nobody is tracked: whoever comes first is the next to settle the host.
LEMMA RestartHost ==
  ASSUME IInv, HostInv, NEW code \in {"restart", "lost"}, Restart(code)
  PROVE  HostInv'
  <1>1. UNCHANGED <<rows, bound, host>> /\ queue' = <<>>
    BY DEF Restart, seats
  <1>2. \A k \in Conn : ~conn'[k].attached
    BY DEF Restart, IInv, Types
  <1>3. Online(rows', bound', conn') = {}
    BY <1>1, <1>2 DEF Online, Open, HostInv, SeatTypes, IInv, Types
  <1>4. SeatTypes' /\ SeatsAreOwn'
    BY <1>1 DEF HostInv, SeatTypes, SeatsAreOwn
  <1>5. DropIsUntracked' /\ OpenIsSeated'
    BY <1>2 DEF DropIsUntracked, OpenIsSeated, Open
  <1> QED BY <1>3, <1>4, <1>5 DEF HostInv, HostStands

LEMMA InitHost == ASSUME Init PROVE HostInv
  <1>1. \A k \in Conn : ~conn[k].attached
    BY DEF Init
  <1>2. Online(rows, bound, conn) = {}
    BY SocketsAssumption DEF Init, Online
  <1>3. SeatTypes /\ SeatsAreOwn
    BY SocketsAssumption DEF Init, SeatTypes, SeatsAreOwn
  <1>4. DropIsUntracked /\ OpenIsSeated
    BY <1>1 DEF DropIsUntracked, OpenIsSeated, Open
  <1> QED BY <1>2, <1>3, <1>4 DEF HostInv, HostStands

LEMMA NextHost ==
  ASSUME IInv, HostInv, HalfIsQueued, [Next]_vars
  PROVE  HostInv'
  <1>1. ASSUME NEW t \in Tab, \/ Mount(t) \/ TimerFires(t) \/ RetryNow(t)
                              \/ Offline(t) \/ ClientClose(t) \/ Diagnosed(t) \/ Quit(t)
        PROVE  HostInv'
    BY <1>1, TabHost DEF Mount, TimerFires, RetryNow
  <1>2. ASSUME NEW k \in Conn, \/ Attach(k) \/ Disconnect(k) \/ Lose(k) \/ JoinFails(k)
                               \/ Join(k) \/ ExpiredFrame(k) \/ Drop(k)
                               \/ \E code \in {"overload", "stale"} : Cut(k, code)
        PROVE  HostInv'
    BY <1>2, AttachHost, DisconnectHost, LoseHost, RefusedHost, JoinHost, DropHost, CutHost
  <1>3. CASE Reconcile \/ DropFails \/ CatchUp
    BY <1>3, ReconcileHost, CatchUpHost
  <1>4. ASSUME NEW u \in User, SeatExpires(u) \/ Leave(u)
        PROVE  HostInv'
    BY <1>4, SeatExpiresHost, LeaveHost
  <1>5. ASSUME NEW x \in Session \cup User,
               Ask(x) \/ Target(x) \/ Answer(x) \/ RevokeFails(x) \/ Revoke(x)
        PROVE  HostInv'
    BY <1>5, RequestHost, RevokeFailsHost, RevokeHost
  <1>6. ASSUME NEW s \in Session, Expire(s)
        PROVE  HostInv'
    BY <1>6, ExpireHost
  <1>7. ASSUME NEW code \in {"restart", "lost"}, Restart(code)
        PROVE  HostInv'
    BY <1>7, RestartHost
  <1>8. CASE UNCHANGED vars
    BY <1>8, IdleKeeps DEF vars
  <1> QED BY <1>1, <1>2, <1>3, <1>4, <1>5, <1>6, <1>7, <1>8 DEF Next, Command

\* A tab only ever dials for itself.
LEMMA NextSock ==
  ASSUME SockIsOwn, [Next]_vars
  PROVE  SockIsOwn'
  <1> USE DEF SockIsOwn
  <1>1. ASSUME NEW t \in Tab, Dial(t)
        PROVE  SockIsOwn'
    <2>1. PICK n \in Line :
            tab' = [tab EXCEPT ![t] =
               [st |-> IF tab[t].st = "idle" THEN "connecting" ELSE "reconnecting",
                sock |-> <<t, n>>, timer |-> FALSE, diag |-> FALSE]]
      BY <1>1 DEF Dial
    <2>2. <<t, n>> \in Conn
      BY DEF Conn
    <2> QED BY <2>1, <2>2 DEF TabRow
  <1>2. ASSUME NEW t \in Tab, Offline(t) \/ Quit(t)
        PROVE  SockIsOwn'
    <2>1. PICK st \in {"reconnecting", "closed"} :
            tab' = [tab EXCEPT ![t] = [st |-> st, sock |-> None, timer |-> FALSE, diag |-> FALSE]]
      BY <1>2 DEF Offline, Quit
    <2> DEFINE x == [st |-> st, sock |-> None, timer |-> FALSE, diag |-> FALSE]
    <2>2. x \in TabRow /\ x.sock = None
      BY DEF TabRow
    <2> HIDE DEF x
    <2> QED BY <2>1, <2>2 DEF x
  <1>3. ASSUME NEW t \in Tab, ClientClose(t) \/ Diagnosed(t)
        PROVE  SockIsOwn'
    <2> DEFINE y == tab[t]
    <2>0. y \in TabRow
      OBVIOUS
    <2>1. CASE ClientClose(t)
      <3> DEFINE x == AfterClose(conn[tab[t].sock].code, y)
      <3>1. tab' = [tab EXCEPT ![t] = x]
        BY <2>1 DEF ClientClose
      <3> HIDE DEF y
      <3>2. x \in TabRow /\ x.sock = None
        BY <2>0 DEF AfterClose, TabRow
      <3> HIDE DEF x
      <3> QED BY <3>1, <3>2
    <2>2. CASE Diagnosed(t)
      <3> DEFINE x == IF Admitted(SessionOf[t])
                        THEN [y EXCEPT !.diag = FALSE, !.st = "reconnecting", !.timer = TRUE]
                        ELSE [y EXCEPT !.diag = FALSE, !.st = "closed"]
      <3>1. tab' = [tab EXCEPT ![t] = x]
        BY <2>2 DEF Diagnosed
      <3>3. y.sock = tab[t].sock
        OBVIOUS
      <3> HIDE DEF y
      <3>2. x \in TabRow /\ x.sock = y.sock
        BY <2>0 DEF TabRow
      <3> HIDE DEF x
      <3> QED BY <3>1, <3>2, <3>3
    <2> QED BY <1>3, <2>1, <2>2
  <1>4. ASSUME NEW k \in Conn, Attach(k)
        PROVE  SockIsOwn'
    BY <1>4 DEF Attach, TabRow
  <1>5. ASSUME NEW k \in Conn, \/ Disconnect(k) \/ Lose(k) \/ JoinFails(k)
                               \/ Join(k) \/ ExpiredFrame(k) \/ Drop(k)
                               \/ \E code \in {"overload", "stale"} : Cut(k, code)
        PROVE  UNCHANGED tab
    BY <1>5 DEF Disconnect, Lose, JoinFails, Join, ExpiredFrame, Drop, Cut
  <1>6. CASE Reconcile \/ DropFails \/ CatchUp
    BY <1>6 DEF Reconcile, DropFails, CatchUp
  <1>7. ASSUME NEW u \in User, SeatExpires(u) \/ Leave(u)
        PROVE  UNCHANGED tab
    BY <1>7 DEF SeatExpires, Leave
  <1>8. ASSUME NEW x \in Session \cup User,
               Ask(x) \/ Target(x) \/ Answer(x) \/ RevokeFails(x) \/ Revoke(x)
        PROVE  UNCHANGED tab
    BY <1>8 DEF Ask, Target, Answer, RevokeFails, Revoke
  <1>9. ASSUME NEW s \in Session, Expire(s)
        PROVE  UNCHANGED tab
    BY <1>9 DEF Expire
  <1>10. ASSUME NEW code \in {"restart", "lost"}, Restart(code)
         PROVE  UNCHANGED tab
    BY <1>10 DEF Restart
  <1>11. CASE UNCHANGED tab
    BY <1>11
  <1> QED
    BY <1>1, <1>2, <1>3, <1>4, <1>5, <1>6, <1>7, <1>8, <1>9, <1>10, <1>11
    DEF Next, Command, Mount, TimerFires, RetryNow, vars

\* Whose tab is open, joined and not being revoked is present as the engine sees it.
LEMMA PresentIsOnline ==
  ASSUME IInv, HostInv, SockIsOwn, NEW t \in Tab, Present(t)
  PROVE  LET k == tab[t].sock
         IN  /\ k \in Attached /\ Open(conn, k) /\ Admitted(SessionBy(k))
             /\ Owner(k) = AccountOf[SessionOf[t]] /\ Owner(k) \in rows
             /\ bound[Owner(k)] = k /\ k # None
             /\ \A l \in Conn : Owner(l) = Owner(k) => ~Queued("join", l)
  <1> DEFINE k == tab[t].sock
  <1>1. /\ k # None /\ Open(conn, k) /\ Owner(k) \in rows /\ Admitted(SessionOf[t])
        /\ \A l \in Conn : Owner(l) = Owner(k) => ~Queued("join", l)
    BY DEF Present
  <1>2. k \in Conn /\ k[1] = t
    BY <1>1 DEF SockIsOwn, TabRow
  <1>3. bound[Owner(k)] = k
    BY <1>1, <1>2 DEF HostInv, OpenIsSeated
  <1> QED BY <1>1, <1>2, <1>3 DEF SessionBy, Owner, Attached, Open

\* A present host is not replaced by a step that leaves his socket and his seat alone.
LEMMA PresentStays ==
  ASSUME NEW c, NEW r, NEW b, host' \in Hosts(r, b, c),
         host \in r, b[host] # None, Open(c, b[host])
  PROVE  host' = host
  BY DEF Hosts, Online

\* Between two commands a host who is gone has nobody waiting behind him.
LEMMA StandsIsPresent == IInv /\ HostInv => HostIsPresent
  <1> SUFFICES ASSUME IInv, HostInv, Quiet, ~owed
               PROVE  Online(rows, bound, conn) = {} \/ host \in Online(rows, bound, conn)
    BY DEF HostIsPresent
  <1>1. \A k \in Conn : ~Leaving(k)
    BY DEF Quiet, Leaving, Queued, Attached
  <1>2. half = "no"
    BY DEF Quiet
  <1> QED BY <1>1, <1>2, Zenon DEF HostInv, HostStands

\* One step of the host: he stays, he gives up his seat, or none of his tabs is there.
HostStays ==
  host' # host => \/ host \notin rows'
                  \/ \A t \in Tab : AccountOf[SessionOf[t]] = host => ~Present(t)

LEMMA NextHostStays ==
  ASSUME IInv, HostInv, SockIsOwn, [Next]_vars
  PROVE  HostStays
  <1> SUFFICES ASSUME host' # host, host \in rows',
                      NEW t \in Tab, AccountOf[SessionOf[t]] = host, Present(t)
               PROVE  FALSE
    BY DEF HostStays
  <1> DEFINE k == tab[t].sock
  <1>1. /\ k \in Attached /\ k \in Conn /\ Open(conn, k) /\ Admitted(SessionBy(k))
        /\ Owner(k) = host /\ host \in rows /\ bound[host] = k /\ k # None
        /\ \A l \in Conn : Owner(l) = host => ~Queued("join", l)
    BY PresentIsOnline DEF Attached
  <1> HIDE DEF k
  <1>h. host \in User
    BY DEF HostInv, SeatTypes
  <1>2. ASSUME NEW l \in Conn, Join(l)
        PROVE  FALSE
    <2>1. Queued("join", l)
      <3>1. queue # <<>> /\ Head(queue) = [op |-> "join", arg |-> l] /\ queue \in Seq(Entry)
        BY <1>2 DEF Join, Runs, IInv, Types
      <3>2. 1 \in DOMAIN queue /\ queue[1] = Head(queue)
        BY <3>1
      <3> QED BY <3>1, <3>2 DEF Queued
    <2>2. Owner(l) # host /\ Owner(l) \in User
      BY <1>1, <2>1, Owners
    <2> DEFINE K == {m \in Attached \ {l} : Owner(m) = Owner(l)}
               b == [bound EXCEPT ![Owner(l)] = l]
    <2>3. /\ host' \in Hosts(rows', b, Closed(K, "replaced")) /\ host \in rows'
      BY <1>1, <1>2 DEF Join, Settle, seats
    <2>4. b[host] = k
      BY <1>1, <1>h, <2>2 DEF IInv, Types
    <2>5. k \notin K
      BY <1>1, <2>2
    <2> HIDE DEF K, b
    <2>6. Open(Closed(K, "replaced"), k)
      BY <1>1, <2>5, ClosedIsShut DEF Open, IInv
    <2> QED BY <1>1, <2>3, <2>4, <2>6, PresentStays
  <1>3. CASE Reconcile
    BY <1>1, <1>3, PresentStays DEF Reconcile, Settle
  <1>4. CASE CatchUp
    <2> DEFINE K == {m \in Attached : Open(conn, m) /\ session[SessionBy(m)] = "expired"}
    <2>1. host' \in Hosts(rows, Unbound(K), Closed(K, "expired"))
      BY <1>4 DEF CatchUp, Settle
    <2>2. k \notin K
      BY <1>1 DEF Admitted
    <2> HIDE DEF K
    <2>3. Unbound(K)[host] = k
      BY <1>1, <1>h, <2>2 DEF Unbound
    <2>4. Open(Closed(K, "expired"), k)
      BY <1>1, <2>2, ClosedIsShut DEF Open, IInv
    <2> QED BY <1>1, <2>1, <2>3, <2>4, PresentStays
  <1>5. ASSUME NEW x \in Session \cup User, Revoke(x)
        PROVE  FALSE
    <2> DEFINE K == {m \in Attached : Covers(x, m)}
    <2>1. /\ queue # <<>> /\ Head(queue) = [op |-> "revoke", arg |-> x]
          /\ host' \in Hosts(rows, Unbound(K), conn)
      BY <1>5 DEF Revoke, Runs
    <2>2. 1 \in DOMAIN queue /\ queue[1].op = "revoke" /\ queue[1].arg = x
      BY <2>1 DEF IInv, Types
    <2>3. Dead(x)
      BY <2>2 DEF IInv, AskedIsDead
    <2>4. ~Covers(x, k)
      <3>1. ~Dead(SessionBy(k)) /\ ~Dead(Owner(k))
        BY <1>1, Owners, SocketsAssumption DEF Admitted, Dead, Owner
      <3> QED BY <2>3, <3>1 DEF Covers
    <2>5. Unbound(K)[host] = k
      BY <1>1, <1>h, <2>4 DEF Unbound
    <2> HIDE DEF K
    <2> QED BY <1>1, <2>1, <2>5, PresentStays
  <1>6. ASSUME NEW u \in User, SeatExpires(u)
        PROVE  FALSE
    BY <1>1, <1>6, PresentStays DEF SeatExpires, Settle
  <1>7. ASSUME NEW u \in User, Leave(u)
        PROVE  FALSE
    <2>1. u # host
      BY <1>1, <1>7 DEF Leave
    <2>2. bound'[host] = k /\ host' \in Hosts(rows', bound', conn)
      BY <1>1, <1>7, <1>h, <2>1 DEF Leave, IInv, Types
    <2> QED BY <1>1, <2>2, PresentStays
  <1>8. UNCHANGED host
        \/ (\E l \in Conn : Join(l)) \/ Reconcile \/ CatchUp
        \/ (\E x \in Session \cup User : Revoke(x))
        \/ (\E u \in User : SeatExpires(u) \/ Leave(u))
    <2>1. ASSUME NEW s \in Tab, \/ Mount(s) \/ TimerFires(s) \/ RetryNow(s)
                                \/ Offline(s) \/ ClientClose(s) \/ Diagnosed(s) \/ Quit(s)
          PROVE  UNCHANGED host
      BY <2>1 DEF Mount, TimerFires, RetryNow, Offline, ClientClose, Diagnosed, Quit,
                  Others, seats
    <2>2. ASSUME NEW l \in Conn, \/ Attach(l) \/ Disconnect(l) \/ Lose(l) \/ JoinFails(l)
                                 \/ ExpiredFrame(l) \/ Drop(l)
                                 \/ \E code \in {"overload", "stale"} : Cut(l, code)
          PROVE  UNCHANGED host
      BY <2>2 DEF Attach, Disconnect, Lose, JoinFails, ExpiredFrame, Drop, Cut, Others, seats
    <2>3. ASSUME NEW x \in Session \cup User, Ask(x) \/ Target(x) \/ Answer(x) \/ RevokeFails(x)
          PROVE  UNCHANGED host
      BY <2>3 DEF Ask, Target, Answer, RevokeFails, seats
    <2>4. ASSUME NEW s \in Session, Expire(s)
          PROVE  UNCHANGED host
      BY <2>4 DEF Expire, seats
    <2>5. ASSUME NEW code \in {"restart", "lost"}, Restart(code)
          PROVE  UNCHANGED host
      BY <2>5 DEF Restart, seats
    <2>6. CASE DropFails
      BY <2>6 DEF DropFails, seats
    <2>7. CASE UNCHANGED vars
      BY <2>7 DEF vars
    <2> QED BY <2>1, <2>2, <2>3, <2>4, <2>5, <2>6, <2>7 DEF Next, Command
  <1> QED BY <1>2, <1>3, <1>4, <1>5, <1>6, <1>7, <1>8

\* Everything the room's sockets, seats and host keep to.
SocketInv == IInv /\ HalfIsQueued /\ HostInv /\ SockIsOwn

LEMMA SocketInvariance == Spec => []SocketInv
  <1>1. Init => SocketInv
    <2> SUFFICES ASSUME Init PROVE SockIsOwn
      BY InitIInv, InitHost DEF SocketInv
    <2> QED BY DEF Init, SockIsOwn, TabRow
  <1>2. SocketInv /\ [Next]_vars => SocketInv'
    BY NextIInv, NextHalf, NextHost, NextSock DEF SocketInv
  <1> QED BY <1>1, <1>2, PTL DEF Spec

\* Every seat names a connection of its own account, and whoever's frames are heard holds
\* a seat by that very connection or is about to.
THEOREM SeatsFollowSockets == Spec => [](SeatsAreOwn /\ OpenIsSeated)
  <1>1. SocketInv => SeatsAreOwn /\ OpenIsSeated
    BY DEF SocketInv, HostInv
  <1> QED BY <1>1, SocketInvariance, PTL

\* A lobby is not left to a host who is gone while somebody else is there, for any number
\* of accounts, tabs and connections, unless the transaction that hands it over was lost
\* (sockets.ts 162).
THEOREM HostIsPresentHolds == Spec => []HostIsPresent
  <1>1. SocketInv => HostIsPresent
    BY StandsIsPresent DEF SocketInv
  <1> QED BY <1>1, SocketInvariance, PTL

\* The late close of a replaced connection never hands the room away (sockets.ts 71).
THEOREM HostKeptHolds == Spec => HostKept
  <1>1. SocketInv /\ [Next]_vars => [HostStays]_vars
    BY NextHostStays DEF SocketInv
  <1>2. Spec => [][HostStays]_vars
    BY <1>1, SocketInvariance, PTL DEF Spec
  <1> QED BY <1>2, PTL DEF HostKept, HostStays

------------------------------------------------------------------------------
(* Types *)

Spent ==
  /\ half \in {"no", "drop", "cut"} /\ owed \in BOOLEAN /\ troubles \in 0..MaxTroubles
  /\ banned \subseteq User

\* What a step can assign, whichever it is.
LEMMA Assigned ==
  ASSUME [Next]_vars
  PROVE  /\ half' \in {half, "no", "drop", "cut"}
         /\ troubles' = troubles \/ Trouble
         /\ banned' = banned \/ \E x \in User : banned' = banned \cup {x}
  <1> USE DEF Next, vars, auth, seats, Others, Mount, TimerFires, RetryNow, Dial, Offline, ClientClose,
              Diagnosed, Quit, Attach, Disconnect, Lose, JoinFails, ExpiredFrame, Cut, Command,
              Join, Drop, Reconcile, Revoke, DropFails, CatchUp, SeatExpires, Leave, Ask,
              Target, Answer, RevokeFails, Expire, Restart
  <1>1. half' \in {half, "no", "drop", "cut"}
    OBVIOUS
  <1>2. troubles' = troubles \/ Trouble
    OBVIOUS
  <1>3. banned' = banned \/ \E x \in User : banned' = banned \cup {x}
    OBVIOUS
  <1> QED BY <1>1, <1>2, <1>3

LEMMA OwedAssigned ==
  ASSUME [Next]_vars
  PROVE  owed' = owed \/ owed' = TRUE \/ owed' = FALSE
  BY DEF Next, vars, auth, seats, Others, Mount, TimerFires, RetryNow, Dial, Offline, ClientClose,
         Diagnosed, Quit, Attach, Disconnect, Lose, JoinFails, ExpiredFrame, Cut, Command,
         Join, Drop, Reconcile, Revoke, DropFails, CatchUp, SeatExpires, Leave, Ask,
         Target, Answer, RevokeFails, Expire, Restart

LEMMA SpentNext ==
  ASSUME Spent, [Next]_vars
  PROVE  Spent'
  <1>1. half' \in {"no", "drop", "cut"} /\ banned' \subseteq User
    BY Assigned DEF Spent
  <1>2. troubles' \in 0..MaxTroubles
    BY Assigned, SocketsAssumption DEF Spent, Trouble
  <1>3. owed' \in BOOLEAN
    BY OwedAssigned, Zenon DEF Spent
  <1> QED BY <1>1, <1>2, <1>3 DEF Spent

\* Every variable of the pages and of the room stays within its declared values.
THEOREM TypeCorrect == Spec => []TypeOK
  <1>1. Init => Spent
    <2>1. Init => half = "no" /\ troubles \in 0..MaxTroubles /\ banned = {}
      BY SocketsAssumption DEF Init
    <2>2. Init => owed \in BOOLEAN
      BY Zenon DEF Init
    <2> QED BY <2>1, <2>2 DEF Spent
  <1>2. Spent /\ [Next]_vars => Spent'
    BY SpentNext
  <1>3. SocketInv /\ Spent => TypeOK
    <2> SUFFICES ASSUME SocketInv, Spent PROVE TypeOK
      OBVIOUS
    <2>1. \A t \in Tab : /\ tab[t].st \in {"idle", "connecting", "open", "reconnecting", "closed"}
                         /\ tab[t].sock \in Conn \cup {None}
      BY DEF SocketInv, SockIsOwn, TabRow
    <2>2. \A k \in Conn : /\ conn[k].st \in {"granted", "open", "shut"}
                          /\ conn[k].attached => conn[k].st # "granted"
      BY DEF SocketInv, IInv, Types, GrantedIsNew
    <2>3. rows \subseteq User /\ host \in User /\ bound \in [User -> Conn \cup {None}]
      BY DEF SocketInv, HostInv, SeatTypes, IInv, Types
    <2> QED BY <2>1, <2>2, <2>3 DEF Spent, TypeOK
  <1> QED BY SocketInvariance, <1>1, <1>2, <1>3, PTL DEF Spec
=============================================================================
