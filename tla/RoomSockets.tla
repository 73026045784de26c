---------------------------- MODULE RoomSockets ----------------------------
(* Who speaks for a seat: the browser's room connections, the sockets the engine of one
   room tracks, the seats and the host in the database, and the logouts and bans that
   take the sockets away.  The room is a private one in its open lobby.

   The engine runs one command after another from a queue.  Joins, closings and
   revocations are queued; a frame, a catch-up and a leave are single commands that may
   have been queued at any moment, so they run here between any two others.  A command
   of two transactions can lose the second one.  A tab belongs to a session for good, a
   session to an account; a logged out user opens a new tab. *)
EXTENDS Integers, Sequences, FiniteSets

CONSTANTS
  User,
  Session,
  Tab,
  AccountOf,      \* the account of a session
  SessionOf,      \* the session of a tab
  Line,           \* bound: how many connections of one tab may be around, numbered
  None,
  Creator,        \* who opened the room
  MaxTroubles     \* bound: connections lost or cut, restarts, failed transactions, logouts,
                  \* bans, expiring sessions, pages left

ASSUME SocketsAssumption ==
  /\ Line \subseteq Nat /\ None \notin Tab \X Line
  /\ AccountOf \in [Session -> User] /\ SessionOf \in [Tab -> Session]
  /\ User \cap Session = {} /\ Creator \in User /\ MaxTroubles \in Nat

VARIABLES
  tab,            \* the browser: [st, sock, timer, diag] of each tab
  conn,           \* [st, attached, code]; attached: the registry has it
  queue,          \* commands [op, arg] the engine has still to run
  half,           \* "drop" or "cut": the first transaction of such a command is committed
  session,        \* "live", "expired", "tombstone" or "gone"
  banned,         \* accounts with an active ban
  req,            \* the logout of a session, the ban of an account
  rows,           \* accounts that have a seat
  bound,          \* conn_id of each seat
  host,           \* host_id
  owed,           \* history: a transaction that would have settled the host was lost
  troubles          \* how much of MaxTroubles is spent

auth == <<session, banned, req>>
seats == <<rows, bound, host>>
vars == <<tab, conn, queue, half, session, banned, req, rows, bound, host, owed, troubles>>

\* A connection is named by its tab and a number, which is used again once nothing refers
\* to it: the code draws a new id each time.
Conn == Tab \X Line
SessionBy(k) == SessionOf[k[1]]
Owner(k) == AccountOf[SessionBy(k)]
Covers(x, k) == x \in {SessionBy(k), Owner(k)}

\* The session is good for a handshake: not expired, not revoked, no ban on its account.
Admitted(s) == session[s] = "live" /\ AccountOf[s] \notin banned

Init ==
  /\ tab = [t \in Tab |-> [st |-> "idle", sock |-> None, timer |-> FALSE, diag |-> FALSE]]
  /\ conn = [k \in Conn |-> [st |-> "shut", attached |-> FALSE, code |-> "lost"]]
  /\ queue = <<>> /\ half = "no"
  /\ session = [s \in Session |-> "live"] /\ banned = {}
  /\ req = [x \in Session \cup User |-> "none"]
  /\ host = Creator /\ rows = {host} /\ bound = [u \in User |-> None]
  /\ owed = FALSE /\ troubles = 0

------------------------------------------------------------------------------
(* Sockets *)

Held(k) == \E t \in Tab : tab[t].sock = k
Queued(op, k) == \E i \in DOMAIN queue : queue[i] = [op |-> op, arg |-> k]
Mentioned(k) == \E i \in DOMAIN queue : queue[i].arg = k

Free(k) ==
  /\ conn[k].st = "shut" /\ ~conn[k].attached
  /\ ~Held(k) /\ ~Mentioned(k) /\ \A u \in User : bound[u] # k

Open(c, k) == c[k].attached /\ c[k].st = "open"
Attached == {k \in Conn : conn[k].attached}

\* The sockets of K are closed; the first code is the one a tab hears.
Closed(K, code) ==
  [k \in Conn |-> IF k \in K /\ conn[k].st = "open"
                    THEN [conn[k] EXCEPT !.st = "shut", !.code = IF Held(k) THEN code ELSE @]
                    ELSE conn[k]]

\* The frame gate: an open, tracked socket of an unexpired session that its seat names.
MayAct(k) ==
  /\ Open(conn, k) /\ session[SessionBy(k)] # "expired"
  /\ Owner(k) \in rows /\ bound[Owner(k)] = k

\* The seats the connections of K hold lose their conn_id.
Unbound(K) == [u \in User |-> IF bound[u] \in K THEN None ELSE bound[u]]

Online(r, b, c) == {u \in r : b[u] # None /\ Open(c, b[u])}

\* reconcileHost: a host who is present stays, otherwise a present seat takes over.
Hosts(r, b, c) ==
  LET online == Online(r, b, c)
  IN IF host \in online \/ online = {} THEN {host} ELSE online

Settle(r, b, c) == rows' = r /\ bound' = b /\ conn' = c /\ host' \in Hosts(r, b, c)

Trouble == troubles < MaxTroubles /\ troubles' = troubles + 1

------------------------------------------------------------------------------
(* The browser *)

\* connect: a socket is opened, and its handshake is admitted or refused.
Dial(t) ==
  /\ tab[t].sock = None
  /\ \E n \in Line :
       LET k == <<t, n>>
       IN /\ Free(k) /\ \A m \in Line : Free(<<t, m>>) => n <= m
          /\ tab' = [tab EXCEPT ![t] =
               [st |-> IF @.st = "idle" THEN "connecting" ELSE "reconnecting",
                sock |-> k, timer |-> FALSE, diag |-> FALSE]]
          /\ conn' = [conn EXCEPT ![k] =
               [@ EXCEPT !.st = IF Admitted(SessionOf[t]) THEN "granted" ELSE "shut"]]
  /\ UNCHANGED troubles

Others == UNCHANGED <<queue, half, auth, seats, owed>>

Mount(t) == tab[t].st = "idle" /\ Dial(t) /\ Others

TimerFires(t) == tab[t].timer /\ Dial(t) /\ Others

\* retryNow: the device is online again, or the page becomes visible.
RetryNow(t) ==
  tab[t].st \in {"connecting", "reconnecting"} /\ Dial(t) /\ Others

\* The tab lets go of its socket, whose close it will not hear.
Forget(t) ==
  conn' = [k \in Conn |-> IF tab[t].sock = k THEN [conn[k] EXCEPT !.code = "lost"] ELSE conn[k]]

\* Mutant: the page still calls itself open, and retryNow leaves an open page alone.
Offline_StaysOpen(t) ==
  /\ tab[t].st \notin {"idle", "closed"} /\ Trouble
  /\ tab' = [tab EXCEPT ![t] = [st |-> "open", sock |-> None,
                                timer |-> FALSE, diag |-> FALSE]]
  /\ Forget(t) /\ Others

\* handleOffline: the socket is dropped without waiting for its close event, no timer is set.
Offline(t) ==
  /\ tab[t].st \notin {"idle", "closed"} /\ Trouble
  /\ tab' = [tab EXCEPT ![t] = [st |-> "reconnecting", sock |-> None,
                                timer |-> FALSE, diag |-> FALSE]]
  /\ Forget(t) /\ Others

\* A device that is offline comes back: nothing else would make the page try again.
BackOnline(t) == ~tab[t].timer /\ ~tab[t].diag /\ RetryNow(t)

\* What the close event makes of a tab: an overloaded one waits longer than its budget.
AfterClose(code, x) ==
  CASE code \in {"restart", "overload"} ->
         [x EXCEPT !.sock = None, !.st = "reconnecting", !.timer = TRUE]
    [] code = "lost" -> [x EXCEPT !.sock = None, !.diag = TRUE]
    [] OTHER -> [x EXCEPT !.sock = None, !.st = "closed"]

ClientClose(t) ==
  /\ tab[t].sock # None /\ conn[tab[t].sock].st = "shut"
  /\ tab' = [tab EXCEPT ![t] = AfterClose(conn[tab[t].sock].code, @)]
  /\ Forget(t) /\ UNCHANGED troubles /\ Others

\* retryAfterDiagnosis: a session that is no longer good ends the page, else it retries.
Diagnosed(t) ==
  /\ tab[t].diag
  /\ tab' = [tab EXCEPT ![t] =
       IF Admitted(SessionOf[t])
         THEN [@ EXCEPT !.diag = FALSE, !.st = "reconnecting", !.timer = TRUE]
         ELSE [@ EXCEPT !.diag = FALSE, !.st = "closed"]]
  /\ UNCHANGED <<conn, troubles>> /\ Others

\* The user leaves the page.
Quit(t) ==
  /\ tab[t].st \notin {"idle", "closed"} /\ Trouble
  /\ tab' = [tab EXCEPT ![t] = [st |-> "closed", sock |-> None,
                                timer |-> FALSE, diag |-> FALSE]]
  /\ Forget(t) /\ Others

------------------------------------------------------------------------------
(* The engine's socket events *)

\* The upgrade, and connect: tracked at once, the join is queued.
Attach(k) ==
  /\ conn[k].st = "granted"
  /\ conn' = [conn EXCEPT ![k] = [@ EXCEPT !.st = "open", !.attached = TRUE]]
  /\ tab' = [t \in Tab |-> IF tab[t].sock = k THEN [tab[t] EXCEPT !.st = "open"] ELSE tab[t]]
  /\ queue' = Append(queue, [op |-> "join", arg |-> k])
  /\ UNCHANGED <<half, auth, seats, owed, troubles>>

\* disconnect, once the server sees a socket closed or its browser gone: untracked at
\* once, the rest is queued.
Disconnect(k) ==
  /\ conn[k].attached /\ (conn[k].st = "shut" \/ ~Held(k))
  /\ conn' = [conn EXCEPT ![k] = [@ EXCEPT !.st = "shut", !.attached = FALSE]]
  /\ queue' = Append(queue, [op |-> "drop", arg |-> k])
  /\ UNCHANGED <<tab, half, auth, seats, owed, troubles>>

\* The network loses a connection, or a handshake.
Lose(k) ==
  /\ conn[k].st \in {"granted", "open"} /\ Trouble
  /\ conn' = [conn EXCEPT ![k].st = "shut"]
  /\ UNCHANGED tab /\ Others

------------------------------------------------------------------------------
(* Queued commands *)

Runs(op, x) == half = "no" /\ queue # <<>> /\ Head(queue) = [op |-> op, arg |-> x]
Done == queue' = Tail(queue)

\* Mutant: only the account is looked at again.
Welcome_AnySession(k) == Owner(k) \notin banned

\* registerSessionRoom and accountIsBanned, inside the join transaction.
Welcome(k) == session[SessionBy(k)] = "live" /\ Owner(k) \notin banned

\* join: refused, or seated, bound and alone in one transaction.
Join(k) ==
  /\ Runs("join", k) /\ Done
  /\ \/ ~Welcome(k) /\ conn' = Closed({k}, "expired") /\ UNCHANGED seats
     \/ /\ Welcome(k)
        /\ Settle(rows \cup {Owner(k)}, [bound EXCEPT ![Owner(k)] = k],
                  Closed({l \in Attached \ {k} : Owner(l) = Owner(k)}, "replaced"))
  /\ UNCHANGED <<tab, half, auth, owed, troubles>>

\* The join transaction fails; it may already have closed the account's other sockets.
JoinFails(k) ==
  /\ Runs("join", k) /\ Done /\ Trouble
  /\ \E K \in {{}, {l \in Attached \ {k} : Owner(l) = Owner(k)}} :
       conn' = [l \in Conn |-> IF l = k THEN Closed({k}, "closed")[l]
                               ELSE Closed(K, "replaced")[l]]
  /\ UNCHANGED <<tab, half, auth, seats, owed>>

\* Mutant: the closing socket frees the seat of its account, whoever holds it now.
Drop_AnyConn(k) ==
  /\ Runs("drop", k)
  /\ bound' = [bound EXCEPT ![Owner(k)] = None]
  /\ half' = "drop"
  /\ UNCHANGED <<tab, conn, queue, auth, rows, host, owed, troubles>>

\* Mutant: the seat is freed and the host is left as it is.
Drop_NoHost(k) ==
  /\ Runs("drop", k) /\ Done
  /\ bound' = Unbound({k})
  /\ UNCHANGED <<tab, conn, half, auth, rows, host, owed, troubles>>

\* disconnect, first transaction: only a seat that names this connection is freed.
Drop(k) ==
  /\ Runs("drop", k)
  /\ bound' = Unbound({k})
  /\ IF bound' = bound THEN Done /\ UNCHANGED half ELSE half' = "drop" /\ UNCHANGED queue
  /\ UNCHANGED <<tab, conn, auth, rows, host, owed, troubles>>

\* The second transaction of a closing or of a cut.
Reconcile ==
  /\ half # "no" /\ half' = "no" /\ owed' = FALSE
  /\ Settle(rows, bound, conn)
  /\ queue' = IF half = "drop" THEN Tail(queue) ELSE queue
  /\ UNCHANGED <<tab, auth, troubles>>

\* A transaction of a closing or of a cut fails: the command is over.
DropFails ==
  /\ half = "cut" \/ (queue # <<>> /\ Head(queue).op = "drop")
  /\ half' = "no" /\ owed' = TRUE /\ Trouble
  /\ queue' = IF half = "cut" THEN queue ELSE Tail(queue)
  /\ UNCHANGED <<tab, conn, auth, seats>>

\* revokeSession, revokeUser: every tracked socket loses its seat, then is closed.
Revoke(x) ==
  /\ Runs("revoke", x) /\ Done
  /\ LET doomed == {k \in Attached : Covers(x, k)}
     IN /\ rows' = rows /\ bound' = Unbound(doomed)
        /\ host' \in Hosts(rows, bound', conn)
        /\ conn' = Closed(doomed, "expired")
  /\ req' = [req EXCEPT ![x] = "acked"]
  /\ UNCHANGED <<tab, half, session, banned, owed, troubles>>

RevokeFails(x) ==
  /\ Runs("revoke", x) /\ Done /\ Trouble
  /\ req' = [req EXCEPT ![x] = "none"]
  /\ UNCHANGED <<tab, conn, half, session, banned, seats, owed>>

------------------------------------------------------------------------------
(* Commands that run between the others *)

\* A frame that gets its socket cut: too many inputs, or an outdated page.  The seat is
\* freed before the socket is closed; the host follows in a second transaction.
Cut(k, code) ==
  /\ half = "no" /\ MayAct(k) /\ ~Queued("join", k) /\ Trouble
  /\ bound' = Unbound({k}) /\ conn' = Closed({k}, code) /\ half' = "cut"
  /\ UNCHANGED <<tab, queue, auth, rows, host, owed>>

\* A frame of an expired session: closed, the closing does the rest.
ExpiredFrame(k) ==
  /\ half = "no" /\ Open(conn, k) /\ session[SessionBy(k)] = "expired"
  /\ conn' = Closed({k}, "expired")
  /\ UNCHANGED <<tab, troubles>> /\ Others

\* advanceOnce: sockets of expired sessions are closed and lose their seats.
CatchUp ==
  LET expired == {k \in Attached : Open(conn, k) /\ session[SessionBy(k)] = "expired"}
  IN /\ half = "no" /\ expired # {}
     /\ Settle(rows, Unbound(expired), Closed(expired, "expired"))
     /\ UNCHANGED <<tab, queue, half, auth, owed, troubles>>

\* expireSeats: a seat nobody is bound to is given up in the end.
SeatExpires(u) ==
  /\ half = "no" /\ u \in rows /\ bound[u] = None
  /\ Settle(rows \ {u}, bound, conn)
  /\ UNCHANGED <<tab, queue, half, auth, owed, troubles>>

\* openLobbyLeave: the seat goes, then every socket of the account.
Leave(u) ==
  /\ half = "no" /\ u \in rows /\ Trouble /\ \E s \in Session : AccountOf[s] = u /\ Admitted(s)
  /\ rows' = rows \ {u} /\ bound' = [bound EXCEPT ![u] = None]
  /\ host' \in Hosts(rows', bound', conn)
  /\ conn' = Closed({k \in Attached : Owner(k) = u}, "closed")
  /\ UNCHANGED <<tab, queue, half, auth, owed>>

------------------------------------------------------------------------------
(* Logouts, bans, time and restarts *)

\* The tombstone of the session or the ban of the account commits first.
Ask(x) ==
  /\ req[x] = "none" /\ Trouble /\ req' = [req EXCEPT ![x] = "asked"]
  /\ \/ /\ x \in Session /\ session[x] # "gone"
        /\ session' = [session EXCEPT ![x] = "tombstone"] /\ UNCHANGED banned
     \/ x \in User /\ banned' = banned \cup {x} /\ UNCHANGED session
  /\ UNCHANGED <<tab, conn, queue, half, seats, owed>>

\* The runtime picks the engines that track such a socket at this moment.
Target(x) ==
  /\ req[x] = "asked"
  /\ IF \E k \in Attached : Covers(x, k)
       THEN /\ queue' = Append(queue, [op |-> "revoke", arg |-> x])
            /\ req' = [req EXCEPT ![x] = "waiting"]
       ELSE req' = [req EXCEPT ![x] = "acked"] /\ UNCHANGED queue
  /\ UNCHANGED <<tab, conn, half, session, banned, seats, owed, troubles>>

\* Still the owner of the runtime: the request is answered, a session is deleted.
Answer(x) ==
  /\ req[x] = "acked" /\ req' = [req EXCEPT ![x] = "done"]
  /\ session' = IF x \in Session THEN [session EXCEPT ![x] = "gone"] ELSE session
  /\ UNCHANGED <<tab, conn, queue, half, banned, seats, owed, troubles>>

Expire(s) ==
  /\ session[s] = "live" /\ Trouble
  /\ session' = [session EXCEPT ![s] = "expired"]
  /\ UNCHANGED <<tab, conn, queue, half, banned, req, seats, owed>>

\* The process stops or is lost: sockets, queue and requests go, the seats stay as they are.
Restart(code) ==
  /\ Trouble
  /\ conn' = [k \in Conn |->
       [conn[k] EXCEPT !.attached = FALSE, !.st = "shut",
                       !.code = IF conn[k].st = "open" /\ Held(k) THEN code ELSE @]]
  /\ queue' = <<>> /\ half' = "no" /\ owed' = FALSE
  /\ req' = [x \in DOMAIN req |-> IF req[x] = "done" THEN "done" ELSE "none"]
  /\ UNCHANGED <<tab, session, banned, seats>>

Command ==
  \/ \E k \in Conn : Join(k) \/ Drop(k)
  \/ Reconcile
  \/ \E x \in Session \cup User : Revoke(x)

Next ==
  \/ \E t \in Tab : \/ Mount(t) \/ TimerFires(t) \/ RetryNow(t) \/ Offline(t)
                    \/ ClientClose(t) \/ Diagnosed(t) \/ Quit(t)
  \/ \E k \in Conn : \/ Attach(k) \/ Disconnect(k) \/ Lose(k)
                     \/ JoinFails(k) \/ ExpiredFrame(k)
                     \/ \E code \in {"overload", "stale"} : Cut(k, code)
  \/ Command \/ DropFails \/ CatchUp
  \/ \E u \in User : SeatExpires(u) \/ Leave(u)
  \/ \E x \in Session \cup User : Ask(x) \/ Target(x) \/ Answer(x) \/ RevokeFails(x)
  \/ \E s \in Session : Expire(s)
  \/ \E code \in {"restart", "lost"} : Restart(code)

Spec == Init /\ [][Next]_vars

\* Timers fire, networks come back, closings and answers arrive, the queue is worked off.
Fairness ==
  /\ \A t \in Tab : /\ WF_vars(TimerFires(t)) /\ WF_vars(BackOnline(t))
                    /\ WF_vars(ClientClose(t)) /\ SF_vars(Diagnosed(t))
  /\ \A k \in Conn : WF_vars(Attach(k)) /\ WF_vars(Disconnect(k))
  /\ WF_vars(Command) /\ WF_vars(CatchUp)

FairSpec == Spec /\ Fairness

------------------------------------------------------------------------------
(* Properties *)

\* Every variable stays within its declared values.
TypeOK ==
  /\ \A t \in Tab : /\ tab[t].st \in {"idle", "connecting", "open", "reconnecting", "closed"}
                    /\ tab[t].sock \in Conn \cup {None}
  /\ \A k \in Conn : /\ conn[k].st \in {"granted", "open", "shut"}
                     /\ conn[k].attached => conn[k].st # "granted"
  /\ half \in {"no", "drop", "cut"} /\ owed \in BOOLEAN /\ troubles \in 0..MaxTroubles
  /\ rows \subseteq User /\ banned \subseteq User /\ host \in User
  /\ bound \in [User -> Conn \cup {None}]

\* Once a logout or a ban is answered, no frame of that session or account is obeyed: not
\* of a socket whose join was on its way, nor of one that is still closing
\* (revocation.ts, http/admin.ts: answered only when every room has confirmed).
RevokedIsOut ==
  \A x \in Session \cup User : req[x] = "done" =>
    \A k \in Conn : Covers(x, k) => ~MayAct(k)

Quiet ==
  queue = <<>> /\ half = "no" /\ \A k \in Attached : conn[k].st = "open"

\* A lobby is not left to a host who is gone while somebody else is there, unless the
\* transaction that hands it over has failed (sockets.ts 162).
HostIsPresent ==
  Quiet /\ ~owed => Online(rows, bound, conn) = {} \/ host \in Online(rows, bound, conn)

\* The account's tab is open, its join is done, no other is joining and nobody revokes it.
Present(t) ==
  LET k == tab[t].sock
  IN /\ tab[t].st = "open" /\ k # None /\ Open(conn, k) /\ Admitted(SessionOf[t])
     /\ \A l \in Conn : Owner(l) = Owner(k) => ~Queued("join", l)
     /\ Owner(k) \in rows

\* The late close of a connection that was replaced never hands the room away: the host
\* changes only when no tab of his is there, or when he leaves (sockets.ts 71, engine.ts 299).
HostKept ==
  [][host' # host => \/ host \notin rows'
                     \/ \A t \in Tab : AccountOf[SessionOf[t]] = host => ~Present(t)]_vars

\* "The newer connection replaces the older one" (engine.ts 299): who has not even joined
\* yet is newer than who has, and is not closed as replaced.
NewerReplacesOlder ==
  [][\A k \in Conn : Queued("join", k) /\ Queued("join", k)' /\ Open(conn, k)
                       => conn'[k].code # "replaced"]_vars

\* A page does not stay on a dead connection: when nothing is lost any more, each one is
\* closed for good or open on the connection its seat names, and not past its session.
TabsSettle ==
  <>[](\A t \in Tab :
         \/ tab[t].st \in {"idle", "closed"}
         \/ /\ tab[t].st = "open" /\ bound[AccountOf[SessionOf[t]]] = tab[t].sock
            /\ session[SessionOf[t]] # "expired")
=============================================================================
