----------------------------- MODULE DeployFlow -----------------------------
(* The host commands that install, update and roll back the one app container
   (scripts/deploy), against the maintenance row they drain and reopen.

   A command is a list of steps, one for each await of the code that others can come
   between.  The host lock admits one command at a time and is never taken by timeout;
   a command may fail at any step or be lost with its process; a remote operator holding
   the maintenance token drains and reopens without the lock, as long as an app serves.
   A command remembers a revision and a runtime epoch only to compare them later, so it
   keeps which of its readings are still those of the row. *)
EXTENDS Naturals, Sequences

CONSTANTS
  Executor,     \* processes of the deploy CLI on the host
  Image,        \* local images, one build each
  Sound,        \* images whose app comes to serve, sooner or later
  None,
  MaxWork,      \* bound: matches, reservations and results that block a drain
  MaxFaults     \* bound: failed steps, lost processes, remote switches, manual reopenings

\* deploy-state.json and the app container, where there is one.
Journal == [current : Image, previous : Image \cup {None}, pending : Image \cup {None}]
Container == [image : Image, serving : BOOLEAN]

ASSUME DeployAssumption ==
  /\ Sound \subseteq Image /\ None \notin Image \cup Executor \cup Journal \cup Container
  /\ MaxWork \in Nat /\ MaxFaults \in Nat

VARIABLES
  journal,      \* deploy-state.json: None or a Journal
  lock,         \* .deploy-lock: the executor named in it, or None
  run,          \* the command each executor is in the middle of
  app,          \* the running container: None or a Container
  mode, lease,  \* runtime_control: admission; "free", "live" or "lapsed"
  work,         \* matches, reservations and unsaved results in the database
  proven,       \* history: images whose app has held the runtime lease
  trusted,      \* history: the last reopening was made by an install, update or rollback
  faults        \* how much of MaxFaults is spent

vars == <<journal, lock, run, app, mode, lease, work, proven, trusted, faults>>

------------------------------------------------------------------------------
(* Commands as lists of steps *)

\* resumeAfterChecks: health of the runtime, then the durable revision, then the CAS.
ResumeAfterChecks == <<"probe", "confirm", "reopen", "release">>

\* drainApp: enter maintenance, wait until nothing blocks.
DrainApp == <<"drain", "ready">>

InstallSteps == <<"vacant", "migrate", "start", "verify", "observe", "record">>
                  \o ResumeAfterChecks

\* Mutant: the container is stopped before its successor is recorded.
DeploySteps_StopFirst ==
  DrainApp \o <<"still", "stop", "plan", "migrate", "start", "verify", "closed", "record">>
           \o ResumeAfterChecks

\* Mutant: admission reopens as soon as the candidate is healthy.
DeploySteps_OpenFirst ==
  DrainApp \o <<"plan", "still", "stop", "migrate", "start", "verify", "closed",
                "probe", "confirm", "reopen", "record", "release">>

DeploySteps ==
  DrainApp \o <<"plan", "still", "stop", "migrate", "start", "verify", "closed", "record">>
           \o ResumeAfterChecks

\* A healthy app is drained; what a failed update left behind is not asked, the database is.
RollbackSteps(failed) ==
  (IF failed THEN <<"oneshot", "plan", "stop">> ELSE DrainApp \o <<"still", "plan", "stop">>)
    \o <<"start", "verify", "record">> \o ResumeAfterChecks

------------------------------------------------------------------------------
Idle == [todo |-> <<>>, target |-> None, plan |-> None, done |-> None, known |-> {}]

Init ==
  /\ journal = None /\ lock = None /\ app = None
  /\ run = [e \in Executor |-> Idle]
  /\ mode = "open" /\ lease = "free" /\ work = 0
  /\ proven = {} /\ trusted = FALSE /\ faults = 0

At(e, step) == run[e].todo # <<>> /\ Head(run[e].todo) = step
Knows(e, what) == what \in run[e].known
Serving == app # None /\ app.serving
Pending == journal # None /\ journal.pending # None
Current == IF journal = None THEN None ELSE journal.current

\* Mutant: only the mode and the runtime are asked for.
Ready_AnyWork == mode = "draining" /\ lease # "lapsed"

\* inspectMaintenance: nothing blocks, and the owner is known.
Ready == mode = "draining" /\ lease # "lapsed" /\ work = 0

\* The command of e goes on, with the readings it has gained; what was changed in the row
\* outdates the readings of everybody else.
Proceed(e, gained, outdated) ==
  run' = [x \in Executor |->
    IF x = e THEN [run[x] EXCEPT !.todo = Tail(@), !.known = (@ \ outdated) \cup gained]
    ELSE [run[x] EXCEPT !.known = @ \ outdated]]

Outdate(what) == run' = [x \in Executor |-> [run[x] EXCEPT !.known = @ \ {what}]]

\* The step only reads.
Pass(e, gained) ==
  /\ Proceed(e, gained, {})
  /\ UNCHANGED <<journal, lock, app, mode, lease, work, proven, trusted, faults>>

\* acquireLock, then the command with its steps and the journals it will write.
Begin(e, steps, target, plan, done) ==
  /\ lock = None /\ lock' = e
  /\ run' = [run EXCEPT ![e] = [todo |-> steps, target |-> target, plan |-> plan,
                                done |-> done, known |-> {}]]
  /\ UNCHANGED <<journal, app, mode, lease, work, proven, trusted, faults>>

Done(target, previous) == [current |-> target, previous |-> previous, pending |-> None]

StartInstall(e, i) == Begin(e, InstallSteps, i, None, Done(i, Current))

\* cmdDeploy: an app must run and be healthy; while an update is pending the last good
\* image is the recorded one, otherwise the running one.
StartDeploy(e, i) ==
  /\ Serving
  /\ LET good == IF Pending THEN journal.current ELSE app.image
         before == IF journal = None THEN None ELSE journal.previous
     IN Begin(e, DeploySteps, i,
              [current |-> good, previous |-> before, pending |-> i], Done(i, good))

\* Mutant: a rollback always goes to the image before the current one.
WayBack_Previous == IF journal = None THEN None ELSE journal.previous

\* The target of a rollback that names no image.
WayBack == IF Pending THEN journal.current
           ELSE IF journal = None THEN None ELSE journal.previous

\* cmdRollback to the recorded image or to an explicit one.
StartRollback(e, i) ==
  Begin(e, RollbackSteps(app = None \/ Pending), i,
        IF journal = None THEN None ELSE [journal EXCEPT !.pending = i],
        Done(i, IF Current = i THEN journal.previous ELSE Current))

\* cmdMaintenance drain.
StartDrain(e) == Serving /\ Begin(e, DrainApp \o <<"release">>, None, None, None)

\* cmdMaintenance resume: an operator's decision, whatever runs.
StartResume(e) ==
  /\ app # None /\ mode = "draining"
  /\ faults < MaxFaults /\ faults' = faults + 1
  /\ lock = None /\ lock' = e
  /\ run' = [run EXCEPT ![e] = [Idle EXCEPT !.todo = ResumeAfterChecks, !.known = {"revision"}]]
  /\ UNCHANGED <<journal, app, mode, lease, work, proven, trusted>>

------------------------------------------------------------------------------
(* The steps of a command *)

\* cmdInstall: no app container may run.
Vacant(e) == At(e, "vacant") /\ app = None /\ Pass(e, {})

\* The mode moves: every reading of the revision but the mover's is outdated.
Switch(e, m) ==
  /\ mode' = m
  /\ Proceed(e, {"revision"}, {"revision"})

\* drainApp: /api/status, then enterMaintenance unless the row drains already.
Drain(e) ==
  /\ At(e, "drain") /\ Serving
  /\ \/ mode = "open" /\ Switch(e, "draining")
     \/ mode = "draining" /\ Proceed(e, {"revision"}, {}) /\ UNCHANGED mode
  /\ UNCHANGED <<journal, lock, app, lease, work, proven, trusted, faults>>

\* The loop of drainApp ends when nothing blocks any more.
DrainReady(e) == At(e, "ready") /\ app # None /\ Knows(e, "revision") /\ Ready /\ Pass(e, {})

\* assertStillDrained.
StillDrained(e) == At(e, "still") /\ app # None /\ Knows(e, "revision") /\ Ready /\ Pass(e, {})

\* inspectOneShot: what the database says, whoever owns the runtime.
OneShot(e) ==
  At(e, "oneshot") /\ mode = "draining" /\ work = 0 /\ Pass(e, {"revision"})

\* writeState before the stop: what runs now, and what is about to.
Plan(e) ==
  /\ At(e, "plan")
  /\ journal' = IF run[e].plan = None THEN journal ELSE run[e].plan
  /\ Proceed(e, {}, {})
  /\ UNCHANGED <<lock, app, mode, lease, work, proven, trusted, faults>>

\* stopApp: the app gives up its lease when it can; without its database it does not.
Stop(e) ==
  /\ At(e, "stop")
  /\ app' = None
  /\ lease' \in IF Serving THEN {"free", "live"} ELSE {lease}
  /\ Proceed(e, {}, {})
  /\ UNCHANGED <<journal, lock, mode, work, proven, trusted, faults>>

\* runMigrate: forward migrations, and draining if the row is open.
Migrate(e) ==
  /\ At(e, "migrate")
  /\ \/ mode = "draining" /\ Pass(e, {})
     \/ /\ mode = "open" /\ mode' = "draining"
        /\ Proceed(e, {}, {"revision"})
        /\ UNCHANGED <<journal, lock, app, lease, work, proven, trusted, faults>>

\* startApp: the container is created anew from the exact image.
Launch(e) ==
  /\ At(e, "start")
  /\ app' = [image |-> run[e].target, serving |-> FALSE]
  /\ lease' \in IF Serving THEN {"free", "live"} ELSE {lease}
  /\ Proceed(e, {}, {})
  /\ UNCHANGED <<journal, lock, mode, work, proven, trusted, faults>>

\* waitForRuntimeHealth and the build it reports.
Verify(e) ==
  At(e, "verify") /\ Serving /\ app.image = run[e].target /\ Pass(e, {})

\* The mode after the start: an install also takes the revision it will compare.
Observe(e) == At(e, "observe") /\ mode = "draining" /\ app # None /\ Pass(e, {"revision"})
Closed(e) == At(e, "closed") /\ mode = "draining" /\ Serving /\ Pass(e, {})

\* writeState after the verification.
Record(e) ==
  /\ At(e, "record")
  /\ journal' = run[e].done
  /\ Proceed(e, {}, {})
  /\ UNCHANGED <<lock, app, mode, lease, work, proven, trusted, faults>>

\* resumeAfterChecks: the epoch of the runtime that answers /health.
Probe(e) == At(e, "probe") /\ Serving /\ Pass(e, {"epoch"})
Confirm(e) == At(e, "confirm") /\ app # None /\ Knows(e, "revision") /\ Pass(e, {})

\* leaveMaintenance with the revision and the epoch the command has read.
MayReopen(e) ==
  /\ Knows(e, "revision") /\ Knows(e, "epoch")
  /\ mode = "draining" /\ lease = "live"

Reopen(e) ==
  /\ At(e, "reopen") /\ app # None /\ MayReopen(e)
  /\ Switch(e, "open")
  /\ trusted' = (run[e].done # None)
  /\ UNCHANGED <<journal, lock, app, lease, work, proven, faults>>

\* The command is over and gives the lock back, in success and in failure.
End(e) ==
  /\ run' = [run EXCEPT ![e] = Idle]
  /\ lock' = None
  /\ UNCHANGED <<journal, app, mode, lease, work, proven, trusted>>

Release(e) == At(e, "release") /\ End(e) /\ UNCHANGED faults

\* A check that fails ends the command: nothing is undone.
Refused(e) ==
  \/ At(e, "vacant") /\ app # None
  \/ At(e, "drain") /\ ~Serving
  \/ At(e, "ready") /\ (app = None \/ ~Knows(e, "revision"))
  \/ At(e, "still") /\ ~(app # None /\ Knows(e, "revision") /\ Ready)
  \/ At(e, "oneshot") /\ ~(mode = "draining" /\ work = 0)
  \/ At(e, "verify") /\ (app = None \/ app.image # run[e].target \/ app.image \notin Sound)
  \/ At(e, "observe") /\ ~(mode = "draining" /\ app # None)
  \/ At(e, "closed") /\ ~(mode = "draining" /\ Serving)
  \/ At(e, "probe") /\ ~Serving
  \/ At(e, "confirm") /\ ~(app # None /\ Knows(e, "revision"))
  \/ At(e, "reopen") /\ ~(app # None /\ MayReopen(e))

Refuse(e) == Refused(e) /\ End(e) /\ UNCHANGED faults

Step(e) ==
  \/ Vacant(e) \/ Drain(e) \/ DrainReady(e) \/ StillDrained(e) \/ OneShot(e)
  \/ Plan(e) \/ Stop(e) \/ Migrate(e) \/ Launch(e) \/ Verify(e)
  \/ Observe(e) \/ Closed(e) \/ Record(e)
  \/ Probe(e) \/ Confirm(e) \/ Reopen(e) \/ Release(e) \/ Refuse(e)

------------------------------------------------------------------------------
(* Everything else *)

Fault == faults < MaxFaults /\ faults' = faults + 1

\* A step throws, or a wait runs out of time.
Fail(e) == run[e] # Idle /\ Fault /\ End(e)

\* The process of a command is lost; the lock file stays.
Crash(e) ==
  /\ run[e] # Idle /\ Fault
  /\ run' = [run EXCEPT ![e] = Idle]
  /\ UNCHANGED <<journal, lock, app, mode, lease, work, proven, trusted>>

\* Mutant: the holder may still be running.
Unlock_Alive(e) ==
  /\ lock = e /\ lock' = None
  /\ UNCHANGED <<journal, run, app, mode, lease, work, proven, trusted, faults>>

\* cmdUnlock: only the lock of a process that is gone.
Unlock(e) ==
  /\ lock = e /\ run[e] = Idle
  /\ lock' = None
  /\ UNCHANGED <<journal, run, app, mode, lease, work, proven, trusted, faults>>

\* The app takes a lease nobody holds and serves: a new epoch.
Boot ==
  /\ app # None /\ ~app.serving /\ app.image \in Sound /\ lease # "live"
  /\ app' = [app EXCEPT !.serving = TRUE]
  /\ lease' = "live"
  /\ proven' = proven \cup {app.image}
  /\ Outdate("epoch")
  /\ UNCHANGED <<journal, lock, mode, work, trusted, faults>>

\* The server process dies; its container is restarted by policy.
AppCrash ==
  /\ Serving /\ Fault
  /\ app' = [app EXCEPT !.serving = FALSE]
  /\ UNCHANGED <<journal, lock, run, mode, lease, work, proven, trusted>>

LeaseLapses ==
  /\ lease = "live" /\ ~Serving
  /\ lease' = "lapsed"
  /\ UNCHANGED <<journal, lock, run, app, mode, work, proven, trusted, faults>>

\* While admission is open players start matches; the app brings them to their end.
Admit ==
  /\ Serving /\ mode = "open" /\ work < MaxWork
  /\ work' = work + 1
  /\ UNCHANGED <<journal, lock, run, app, mode, lease, proven, trusted, faults>>

Settle ==
  /\ Serving /\ work > 0
  /\ work' = work - 1
  /\ UNCHANGED <<journal, lock, run, app, mode, lease, proven, trusted, faults>>

\* An operator with the maintenance token, from elsewhere and without the host lock.
Remote ==
  /\ Serving /\ Fault
  /\ \/ mode = "open" /\ mode' = "draining" /\ UNCHANGED trusted
     \/ mode = "draining" /\ lease = "live" /\ mode' = "open" /\ trusted' = FALSE
  /\ Outdate("revision")
  /\ UNCHANGED <<journal, lock, app, lease, work, proven>>

Commands(e) ==
  \/ \E i \in Image : StartInstall(e, i) \/ StartDeploy(e, i) \/ StartRollback(e, i)
  \/ StartDrain(e) \/ StartResume(e)

Next ==
  \/ \E e \in Executor : Commands(e) \/ Step(e) \/ Fail(e) \/ Crash(e) \/ Unlock(e)
  \/ Boot \/ AppCrash \/ LeaseLapses \/ Admit \/ Settle \/ Remote

Spec == Init /\ [][Next]_vars

\* Commands go on, apps of sound images boot, lapsed leases are seen, matches end; the
\* operator clears dead locks and keeps trying to drain, roll back and install.
Fairness ==
  /\ \A e \in Executor : WF_vars(Step(e)) /\ WF_vars(Unlock(e))
  /\ WF_vars(Boot) /\ WF_vars(LeaseLapses) /\ WF_vars(Settle)
  /\ SF_vars(\E e \in Executor : StartDrain(e))
  /\ SF_vars(\E e \in Executor : WayBack # None /\ StartRollback(e, WayBack))
  /\ SF_vars(\E e \in Executor, i \in Sound : StartInstall(e, i))

FairSpec == Spec /\ Fairness

------------------------------------------------------------------------------
(* Properties *)

\* Every variable stays within its declared values.
TypeOK ==
  /\ journal \in {None} \cup Journal
  /\ lock \in Executor \cup {None}
  /\ \A e \in Executor : /\ run[e].target \in Image \cup {None}
                         /\ run[e].known \subseteq {"revision", "epoch"}
  /\ app \in {None} \cup Container
  /\ mode \in {"open", "draining"} /\ lease \in {"free", "live", "lapsed"}
  /\ work \in 0..MaxWork /\ faults \in 0..MaxFaults
  /\ proven \subseteq Image /\ trusted \in BOOLEAN

\* Wherever a command is lost, the journal tells how to go on: a container that is not the
\* one recorded as current was announced as pending before the change, and what the
\* journal offers to go back to has served (docs/deployment.md 7).
JournalAhead ==
  journal # None =>
    /\ journal.pending = None => app # None /\ app.image = journal.current
    /\ {journal.current, journal.previous} \subseteq proven \cup {None}

\* Admission that a command has reopened is open on the verified and recorded image, with
\* no update pending (flow.ts: any failure after the stop keeps maintenance closed).
OpenOnTheRecord ==
  mode = "open" /\ trusted =>
    /\ journal # None /\ journal.pending = None
    /\ app # None /\ app.image = journal.current

\* A container is taken down over running matches only if somebody else has reopened
\* admission since the command saw the drain complete.
NoGameStopped ==
  [][\A e \in Executor :
       app # None /\ (Stop(e) \/ Launch(e)) /\ work > 0 => ~Knows(e, "revision")]_vars

\* The one-shot migration never runs beside an app container (compose.ts 189).
MigratesAlone == [][\A e \in Executor : Migrate(e) => app = None]_vars

\* An operator who keeps trying gets rid of an update that failed half way, unless an app
\* went down over open admission or running matches (flow.ts 420, 456).
RecoveryEnds ==
  <>[](Serving \/ (mode = "draining" /\ work = 0)) => (Pending ~> ~Pending)
=============================================================================
