----------------------------- MODULE Supervisor -----------------------------
(***************************************************************************)
(* The daemon's supervisor (daemon/supervisor.rs) with its restart policy  *)
(* (daemon/restart.rs), the workers it spawns, the client requests that    *)
(* reach it and the daemon's own exit, crash and restart (daemon/mod.rs,   *)
(* daemon/ipc/server.rs).                                                  *)
(*                                                                         *)
(* Requests that start or stop workers hold spawn_lock: `holder' is the    *)
(* one that has it.  Each step is a region under the inner lock, a write   *)
(* to the database or a signal, so that a worker's hello, its exit and the *)
(* watcher of its process interleave with the request.                     *)
(***************************************************************************)
EXTENDS Naturals, FiniteSets

CONSTANTS
    Apps,           \* the applications that a proxy can take over
    Pids,           \* processes; a forgotten one stands for the next spawn
    NoPid, NoApp,
    MaxFailures,    \* crashes within the window that end the restarts
    Faults,         \* what may fail: "spawn", "timeout", "enable", "clear", "db", "drain"
    SlowWrites,     \* steps of others come between reading the workers and the write
    Crashes,        \* when a worker may die by itself: "serving" or "any"
    MaxDaemons      \* bound on starts of the daemon

ASSUME NoneAssumption == NoPid \notin Pids /\ NoApp \notin Apps
ASSUME BoundAssumption == MaxFailures \in Nat \ {0} /\ MaxDaemons \in Nat \ {0}

VARIABLES
    workers, pendingPid,    \* the registered, the starting worker of each application
    token,                  \* the spawn whose token is outstanding
    sender,                 \* the applications whose hello channel is open
    stopping, cancelled, failures, shutdownRequested, teardown,
    holder,                 \* the request that holds spawn_lock
    watch,                  \* the watcher task of each process
    proc, appOf,            \* the worker processes
    takeover, session,      \* the database: the routes, the runtime session row
    daemon, starts

inner == <<workers, pendingPid, token, sender, stopping, cancelled, failures,
           shutdownRequested, teardown>>
db    == <<takeover, session>>
vars  == <<inner, holder, watch, proc, appOf, db, daemon, starts>>

MaybePid == Pids \cup {NoPid}
Sessions == [Apps -> MaybePid]
Nobody   == [a \in Apps |-> NoPid]

Labels == {"idle", "admit", "spawn", "record", "hello", "abandon", "killStarting",
           "register", "persist", "write", "enable", "retake", "plan",
           "clear", "kill", "restore", "finish"}

Holder == [op : {"none", "ensure", "undo", "respawn", "drop", "off", "shutdown"},
           app : Apps \cup {NoApp}, pc : Labels, pid : MaybePid,
           mail : {"open", "info", "closed"}, snap : Sessions,
           pids : SUBSET Pids, adopted : SUBSET Pids, should : BOOLEAN, prev : BOOLEAN]

Free == [op |-> "none", app |-> NoApp, pc |-> "idle", pid |-> NoPid,
         mail |-> "open", snap |-> Nobody, pids |-> {}, adopted |-> {},
         should |-> FALSE, prev |-> FALSE]

\* `last' joins the two facts that the watcher keeps: no worker remained, no teardown.
Watch == [pc : {"none", "waiting", "persist", "write", "restore", "backoff", "queued"},
          intentional : BOOLEAN, last : BOOLEAN, snap : Sessions]

Unwatched == [pc |-> "none", intentional |-> FALSE, last |-> FALSE, snap |-> Nobody]
Waiting   == [Unwatched EXCEPT !.pc = "waiting"]

TypeOK ==
    /\ workers \in Sessions /\ pendingPid \in Sessions /\ token \in Sessions
    /\ sender \subseteq Apps /\ stopping \subseteq Apps \X Pids /\ cancelled \subseteq Apps
    /\ failures \in 0..MaxFailures
    /\ shutdownRequested \in BOOLEAN /\ teardown \in BOOLEAN
    /\ holder \in Holder /\ watch \in [Pids -> Watch]
    /\ proc \in [Pids -> {"starting", "serving", "refused", "dead"}]
    /\ appOf \in [Pids -> Apps \cup {NoApp}]
    /\ takeover \in [Apps -> BOOLEAN] /\ session \in Sessions
    /\ daemon \in {"up", "leaving", "down", "killed"} /\ starts \in 1..MaxDaemons

Init ==
    /\ workers = Nobody /\ pendingPid = Nobody /\ token = Nobody /\ sender = {}
    /\ stopping = {} /\ cancelled = {} /\ failures = 0
    /\ shutdownRequested = FALSE /\ teardown = FALSE
    /\ holder = Free /\ watch = [p \in Pids |-> Unwatched]
    /\ proc = [p \in Pids |-> "dead"] /\ appOf = [p \in Pids |-> NoApp]
    /\ takeover = [a \in Apps |-> FALSE] /\ session = Nobody
    /\ daemon = "up" /\ starts = 1

----------------------------------------------------------------------------
Alive(p) == proc[p] \in {"starting", "serving", "refused"}

\* A worker of an earlier daemon has no watcher: nobody waits for its exit.
Adopted(p) == watch[p].pc = "none"

Mentioned == {s[2] : s \in stopping} \cup {holder.pid} \cup holder.pids
                 \cup (UNION {{workers[a], pendingPid[a], token[a], holder.snap[a]} : a \in Apps})
                 \cup {watch[p].snap[a] : a \in Apps, p \in Pids}

\* The processes that nothing refers to any more.
Fresh == {p \in Pids : ~Alive(p) /\ watch[p].pc = "none" /\ p \notin Mentioned}

Running      == daemon \in {"up", "leaving"}
Goto(label)  == holder' = [holder EXCEPT !.pc = label]
Release      == holder' = Free
Take(op, a, label) == holder' = [Free EXCEPT !.op = op, !.app = a, !.pc = label]
At(label)    == holder.pc = label /\ Running
Kill(P)      == proc' = [p \in Pids |-> IF p \in P /\ Alive(p) THEN "dead" ELSE proc[p]]
Notify(yes)  == daemon' = IF yes /\ daemon = "up" THEN "leaving" ELSE daemon

\* persist_runtime_session: the workers are read under the lock, the row is
\* written after it is released.
Saving    == IF SlowWrites THEN "persist" ELSE "write"
Row(snap) == IF SlowWrites THEN snap ELSE workers

\* has_remaining_workers_locked and remaining_workers_are_only_stopping_locked
Remaining(w, pend) == {s \in Apps \X Pids : w[s[1]] = s[2] \/ pend[s[1]] = s[2]}
OnlyStopping(w, pend, stop) ==
    Remaining(w, pend) # {} /\ Remaining(w, pend) \subseteq stop

----------------------------------------------------------------------------
(* EnsureWorker, and the respawn of a crashed worker: ensure_worker_locked *)

Ensure(a) ==
    /\ daemon = "up" /\ holder = Free /\ Cardinality(Fresh) > 1
    /\ Take("ensure", a, "admit")
    /\ UNCHANGED <<inner, watch, proc, appOf, db, daemon, starts>>

Busy == shutdownRequested \/ teardown

StoppingApp(a) ==
    IF workers[a] # NoPid THEN <<a, workers[a]>> \in stopping
    ELSE \E p \in Pids : <<a, p>> \in stopping

Refuse ==
    /\ At("admit") /\ (Busy \/ StoppingApp(holder.app))
    /\ Release
    /\ UNCHANGED <<inner, watch, proc, appOf, db, daemon, starts>>

\* After ensure_worker_locked: the request turns the route on.
Ensured == IF holder.op = "ensure" THEN "enable" ELSE "retake"

Reuse ==
    /\ At("admit") /\ ~Busy /\ ~StoppingApp(holder.app) /\ workers[holder.app] # NoPid
    /\ cancelled' = cancelled \ {holder.app}
    /\ Goto(Ensured)
    /\ UNCHANGED <<workers, pendingPid, token, sender, stopping, failures,
                   shutdownRequested, teardown, watch, proc, appOf, db, daemon, starts>>

\* Mutant: a registered worker is not found.
PreparesAnew ==
    /\ At("admit") /\ ~Busy /\ ~StoppingApp(holder.app)
    /\ \E p \in Fresh :
        /\ token' = [token EXCEPT ![holder.app] = p]
        /\ holder' = [holder EXCEPT !.pc = "spawn", !.pid = p]
        /\ session' = [a \in Apps |-> IF session[a] = p THEN NoPid ELSE session[a]]
    /\ sender' = sender \cup {holder.app}
    /\ cancelled' = cancelled \ {holder.app}
    /\ UNCHANGED <<workers, pendingPid, stopping, failures, shutdownRequested, teardown,
                   watch, proc, appOf, takeover, daemon, starts>>

\* A row's entry of the forgotten process that p now stands for is as good as none.
Prepare ==
    /\ At("admit") /\ ~Busy /\ ~StoppingApp(holder.app) /\ workers[holder.app] = NoPid
    /\ \E p \in Fresh :
        /\ token' = [token EXCEPT ![holder.app] = p]
        /\ holder' = [holder EXCEPT !.pc = "spawn", !.pid = p]
        /\ session' = [a \in Apps |-> IF session[a] = p THEN NoPid ELSE session[a]]
    /\ sender' = sender \cup {holder.app}
    /\ cancelled' = cancelled \ {holder.app}
    /\ UNCHANGED <<workers, pendingPid, stopping, failures, shutdownRequested, teardown,
                   watch, proc, appOf, takeover, daemon, starts>>

\* Mutant: the token is forgotten and the pid is not.
ClearToken ==
    /\ token' = [token EXCEPT ![holder.app] = NoPid]
    /\ sender' = sender \ {holder.app}
    /\ UNCHANGED pendingPid

\* clear_pending_worker_registration
ClearPending ==
    /\ token' = [token EXCEPT ![holder.app] = NoPid]
    /\ pendingPid' = [pendingPid EXCEPT ![holder.app] = NoPid]
    /\ sender' = sender \ {holder.app}

SpawnFails ==
    /\ At("spawn") /\ "spawn" \in Faults
    /\ ClearPending /\ Release
    /\ UNCHANGED <<workers, stopping, cancelled, failures, shutdownRequested, teardown,
                   watch, proc, appOf, db, daemon, starts>>

Spawn ==
    /\ At("spawn")
    /\ proc' = [proc EXCEPT ![holder.pid] = "starting"]
    /\ appOf' = [appOf EXCEPT ![holder.pid] = holder.app]
    /\ Goto("record")
    /\ UNCHANGED <<inner, watch, db, daemon, starts>>

\* The pid is recorded and the watcher task is started.
RecordPid ==
    /\ At("record")
    /\ pendingPid' = [pendingPid EXCEPT ![holder.app] = holder.pid]
    /\ watch' = [watch EXCEPT ![holder.pid] = Waiting]
    /\ Goto("hello")
    /\ UNCHANGED <<workers, token, sender, stopping, cancelled, failures,
                   shutdownRequested, teardown, proc, appOf, db, daemon, starts>>

HelloReceived ==
    /\ At("hello") /\ holder.mail = "info"
    /\ Goto("register")
    /\ UNCHANGED <<inner, watch, proc, appOf, db, daemon, starts>>

HelloClosed ==
    /\ At("hello") /\ holder.mail = "closed"
    /\ ClearPending /\ Release
    /\ UNCHANGED <<workers, stopping, cancelled, failures, shutdownRequested, teardown,
                   watch, proc, appOf, db, daemon, starts>>

HelloTimesOut ==
    /\ At("hello") /\ holder.mail = "open" /\ "timeout" \in Faults
    /\ Goto("abandon")
    /\ UNCHANGED <<inner, watch, proc, appOf, db, daemon, starts>>

\* abandon_starting_worker
Abandon ==
    /\ At("abandon")
    /\ ClearPending
    /\ stopping' = stopping \cup {<<holder.app, holder.pid>>}
    /\ Goto("killStarting")
    /\ UNCHANGED <<workers, cancelled, failures, shutdownRequested, teardown,
                   watch, proc, appOf, db, daemon, starts>>

KillStarting ==
    /\ At("killStarting")
    /\ Kill({holder.pid}) /\ Release
    /\ UNCHANGED <<inner, watch, appOf, db, daemon, starts>>

\* The check for a stop that came in between joins the registration: under
\* spawn_lock none can (NothingStopsDuringEnsure).
Register ==
    /\ At("register")
    /\ workers' = [workers EXCEPT ![holder.app] = holder.pid]
    /\ token' = [token EXCEPT ![holder.app] = NoPid]
    /\ pendingPid' = [pendingPid EXCEPT ![holder.app] = NoPid]
    /\ shutdownRequested' = FALSE
    /\ Goto(Saving)
    /\ UNCHANGED <<sender, stopping, cancelled, failures, teardown,
                   watch, proc, appOf, db, daemon, starts>>

----------------------------------------------------------------------------
(* persist_runtime_session, by the request that holds spawn_lock            *)

Persist ==
    /\ At("persist")
    /\ holder' = [holder EXCEPT !.pc = "write", !.snap = workers]
    /\ UNCHANGED <<inner, watch, proc, appOf, db, daemon, starts>>

AfterWrite ==
    CASE holder.op \in {"ensure", "respawn"} -> Ensured
      [] holder.op = "undo" -> "kill"
      [] holder.op \in {"drop", "off"} -> "finish"

Write ==
    /\ At("write")
    /\ session' = Row(holder.snap)
    /\ holder' = [holder EXCEPT !.pc = AfterWrite, !.snap = Nobody]
    /\ UNCHANGED <<inner, watch, proc, appOf, takeover, daemon, starts>>

\* Only ensure_worker_locked returns the error; the worker stays registered.
WriteFails ==
    /\ At("write") /\ "db" \in Faults
    /\ IF holder.op \in {"ensure", "respawn"} THEN Release
       ELSE holder' = [holder EXCEPT !.pc = AfterWrite, !.snap = Nobody]
    /\ UNCHANGED <<inner, watch, proc, appOf, db, daemon, starts>>

----------------------------------------------------------------------------
(* The route is turned on: handle_ensure_worker and respawn_after_crash.    *)

Enable ==
    /\ At("enable")
    /\ takeover' = [takeover EXCEPT ![holder.app] = TRUE]
    /\ Release
    /\ UNCHANGED <<inner, watch, proc, appOf, session, daemon, starts>>

EnableFails ==
    /\ At("enable") /\ "enable" \in Faults
    /\ holder' = [holder EXCEPT !.op = "undo", !.pc = "plan"]
    /\ UNCHANGED <<inner, watch, proc, appOf, db, daemon, starts>>

\* Mutant: the restarted worker's route is not taken again.
NotRetaken ==
    /\ At("retake") /\ Release
    /\ UNCHANGED <<inner, watch, proc, appOf, db, daemon, starts>>

\* set_takeover_for_app: an error is only logged, as the restart's are.
Retake ==
    /\ At("retake")
    /\ takeover' = [takeover EXCEPT ![holder.app] = TRUE]
    /\ Release
    /\ UNCHANGED <<inner, watch, proc, appOf, session, daemon, starts>>

RetakeFails ==
    /\ At("retake") /\ "enable" \in Faults
    /\ Release
    /\ UNCHANGED <<inner, watch, proc, appOf, db, daemon, starts>>

----------------------------------------------------------------------------
(* DropTakeover, and the clean-up when the route could not be turned on.    *)

Drop(a) ==
    /\ daemon = "up" /\ holder = Free
    /\ Take("drop", a, "plan")
    /\ UNCHANGED <<inner, watch, proc, appOf, db, daemon, starts>>

\* plan_stop_for_app
PlanStop ==
    LET a       == holder.app
        pids    == {workers[a], pendingPid[a]} \ {NoPid}
        adopted == {p \in {workers[a]} \ {NoPid} : Adopted(p)}
        w       == IF adopted = {} THEN workers ELSE [workers EXCEPT ![a] = NoPid]
        pend    == [pendingPid EXCEPT ![a] = NoPid]
        stop    == stopping \cup ({a} \X (pids \ adopted))
        should  == pids # {} /\ (Remaining(w, pend) = {} \/ OnlyStopping(w, pend, stop))
    IN /\ At("plan") /\ holder.op \in {"drop", "undo"}
       /\ cancelled' = cancelled \cup {a}
       /\ workers' = w /\ pendingPid' = pend /\ stopping' = stop
       /\ shutdownRequested' = (shutdownRequested \/ should)
       /\ holder' = [holder EXCEPT !.pc = "clear", !.pids = pids, !.adopted = adopted,
                                   !.should = should, !.prev = shutdownRequested]
       /\ UNCHANGED <<token, sender, failures, teardown,
                      watch, proc, appOf, db, daemon, starts>>

Clear ==
    /\ At("clear") /\ holder.op \in {"drop", "undo"}
    /\ takeover' = [takeover EXCEPT ![holder.app] = FALSE]
    /\ Goto(IF holder.op = "undo" THEN Saving ELSE "kill")
    /\ UNCHANGED <<inner, watch, proc, appOf, session, daemon, starts>>

\* rollback_stop_plan_for_app
ClearFails ==
    /\ At("clear") /\ holder.op = "drop" /\ "clear" \in Faults
    /\ stopping' = stopping \ ({holder.app} \X holder.pids)
    /\ cancelled' = cancelled \ {holder.app}
    /\ workers' = IF holder.adopted = {} THEN workers
                  ELSE [workers EXCEPT ![holder.app] = CHOOSE p \in holder.adopted : TRUE]
    /\ shutdownRequested' = holder.prev
    /\ Release
    /\ UNCHANGED <<pendingPid, token, sender, failures, teardown,
                   watch, proc, appOf, db, daemon, starts>>

\* The clean-up after a failed activation goes on without the restore.
ClearIgnored ==
    /\ At("clear") /\ holder.op = "undo" /\ "clear" \in Faults
    /\ Goto(Saving)
    /\ UNCHANGED <<inner, watch, proc, appOf, db, daemon, starts>>

AfterKill ==
    CASE holder.op = "shutdown" -> "restore"
      [] holder.op # "shutdown" /\ holder.op # "undo" /\ holder.adopted # {} -> Saving
      [] OTHER -> "finish"

\* SIGTERM, which a worker does not handle; an adopted one is waited for.
KillPlanned ==
    /\ At("kill")
    /\ Kill(holder.pids)
    /\ Goto(AfterKill)
    /\ UNCHANGED <<inner, watch, appOf, db, daemon, starts>>

\* A plan without spawned workers has no watcher to end the daemon.
Finish ==
    /\ At("finish")
    /\ Notify(/\ holder.op \in {"drop", "off"} /\ holder.pids \subseteq holder.adopted
              /\ holder.op = "off" \/ holder.should)
    /\ Release
    /\ UNCHANGED <<inner, watch, proc, appOf, db, starts>>

----------------------------------------------------------------------------
(* SetGlobalEnabled and Shutdown                                            *)

SetGlobalOff ==
    /\ daemon = "up" /\ holder = Free
    /\ Take("off", NoApp, "clear")
    /\ UNCHANGED <<inner, watch, proc, appOf, db, daemon, starts>>

\* What is left of the takeovers when some restores may fail.
Restored == IF "clear" \in Faults THEN {[a \in Apps |-> takeover[a] /\ a \in F] : F \in SUBSET Apps}
            ELSE {[a \in Apps |-> FALSE]}

ClearAll ==
    /\ At("clear") /\ holder.op = "off"
    /\ takeover' \in Restored
    /\ Goto("plan")
    /\ UNCHANGED <<inner, watch, proc, appOf, session, daemon, starts>>

Shutdown ==
    /\ daemon = "up" /\ holder = Free
    /\ Take("shutdown", NoApp, "plan")
    /\ UNCHANGED <<inner, watch, proc, appOf, db, daemon, starts>>

\* plan_stop_all_workers
PlanStopAll ==
    LET all     == Remaining(workers, pendingPid)
        adopted == {s[2] : s \in {t \in Remaining(workers, Nobody) : Adopted(t[2])}}
    IN /\ At("plan") /\ holder.op \in {"off", "shutdown"}
       /\ shutdownRequested' = TRUE
       /\ teardown' = (teardown \/ holder.op = "shutdown")
       /\ cancelled' = Apps
       /\ workers' = [a \in Apps |-> IF workers[a] \in adopted THEN NoPid ELSE workers[a]]
       /\ stopping' = stopping \cup {s \in all : s[2] \notin adopted}
       /\ token' = [a \in Apps |-> IF pendingPid[a] # NoPid THEN NoPid ELSE token[a]]
       /\ sender' = {a \in sender : pendingPid[a] = NoPid}
       /\ pendingPid' = Nobody
       /\ holder' = [holder EXCEPT !.pc = "kill", !.pids = {s[2] : s \in all}, !.adopted = adopted]
       /\ UNCHANGED <<failures, watch, proc, appOf, db, daemon, starts>>

\* stop_with_restore, clear_runtime_session and the notification
Restore ==
    /\ At("restore")
    /\ takeover' \in Restored /\ session' = Nobody
    /\ Notify(TRUE)
    /\ Release
    /\ UNCHANGED <<inner, watch, proc, appOf, starts>>

----------------------------------------------------------------------------
(* The worker process                                                       *)

\* Mutant: the hello is accepted and nobody is told.
HelloLost(p) ==
    /\ proc[p] = "starting"
    /\ proc' = [proc EXCEPT ![p] = "serving"]
    /\ UNCHANGED <<inner, holder, watch, appOf, db, daemon, starts>>

\* handle_worker_hello.  A worker that is refused, or finds no daemon, goes away.
Hello(p) ==
    LET ok == \E a \in Apps : /\ Running /\ token[a] = p /\ a \in sender
                              /\ pendingPid[a] \in {NoPid, p}
    IN /\ proc[p] = "starting"
       /\ proc' = [proc EXCEPT ![p] = IF ok THEN "serving" ELSE "refused"]
       /\ sender' = IF ok THEN sender \ {appOf[p]} ELSE sender
       /\ pendingPid' = IF ok THEN [pendingPid EXCEPT ![appOf[p]] = NoPid] ELSE pendingPid
       /\ holder' = IF ok THEN [holder EXCEPT !.mail = "info"] ELSE holder
       /\ UNCHANGED <<workers, token, stopping, cancelled, failures, shutdownRequested,
                      teardown, watch, appOf, db, daemon, starts>>

\* A refused worker runs stop_with_restore before it exits.
LeaveRefused(p) ==
    /\ proc[p] = "refused"
    /\ proc' = [proc EXCEPT ![p] = "dead"]
    /\ takeover' \in Restored /\ session' = Nobody
    /\ UNCHANGED <<inner, holder, watch, appOf, daemon, starts>>

\* The request that started p, or found it, is still at work.
Attended(p) == holder.pid = p \/ (holder # Free /\ holder.app = appOf[p])

Crash(p) ==
    /\ Alive(p) /\ (Crashes = "any" \/ (proc[p] = "serving" /\ ~Attended(p)))
    /\ proc' = [proc EXCEPT ![p] = "dead"]
    /\ UNCHANGED <<inner, holder, watch, appOf, db, daemon, starts>>

----------------------------------------------------------------------------
(* watch_worker                                                             *)

Step(p, w) == watch' = [watch EXCEPT ![p] = w] /\ UNCHANGED appOf
Done(p)    == watch' = [watch EXCEPT ![p] = Unwatched]
              /\ appOf' = [appOf EXCEPT ![p] = NoApp]

\* Mutant: the worker that exits counts itself.
StillCounted(w, pend) == Remaining(workers, pendingPid) = {} /\ ~teardown

NoneRemains(w, pend) == Remaining(w, pend) = {} /\ ~teardown

\* record_worker_exit
RecordExit(p) ==
    LET a          == appOf[p]
        registered == workers[a] = p
        starting   == pendingPid[a] = p
        w          == IF registered THEN [workers EXCEPT ![a] = NoPid] ELSE workers
        pend       == IF starting THEN [pendingPid EXCEPT ![a] = NoPid] ELSE pendingPid
        stale      == workers[a] \notin {NoPid, p} \/ pendingPid[a] \notin {NoPid, p}
    IN /\ Running /\ watch[p].pc = "waiting" /\ ~Alive(p)
       /\ workers' = w /\ pendingPid' = pend
       /\ token' = IF starting THEN [token EXCEPT ![a] = NoPid] ELSE token
       /\ sender' = IF starting THEN sender \ {a} ELSE sender
       /\ holder' = IF starting /\ a \in sender THEN [holder EXCEPT !.mail = "closed"]
                    ELSE holder
       /\ stopping' = stopping \ {<<a, p>>}
       /\ Step(p, [watch[p] EXCEPT
                    !.pc = Saving,
                    !.intentional = \/ shutdownRequested \/ <<a, p>> \in stopping \/ stale
                                    \/ ~registered /\ starting,
                    !.last = NoneRemains(w, pend)])
       /\ UNCHANGED <<cancelled, failures, shutdownRequested, teardown,
                      proc, db, daemon, starts>>

WatchPersist(p) ==
    /\ Running /\ watch[p].pc = "persist"
    /\ Step(p, [watch[p] EXCEPT !.pc = "write", !.snap = workers])
    /\ UNCHANGED <<inner, holder, proc, db, daemon, starts>>

\* Errors of the write are dropped.  An expected exit ends here.
WatchWrite(p) ==
    /\ Running /\ watch[p].pc = "write"
    /\ session' \in {Row(watch[p].snap)} \cup (IF "db" \in Faults THEN {session} ELSE {})
    /\ IF watch[p].intentional
       THEN Done(p) /\ Notify(watch[p].last)
       ELSE Step(p, [watch[p] EXCEPT !.pc = "restore", !.snap = Nobody]) /\ UNCHANGED daemon
    /\ UNCHANGED <<inner, holder, proc, takeover, starts>>

\* Mutant: failures pile up beyond those that make the policy give up.
FailedUnbounded == failures + 1

\* The failures in the window with one more, counted up to the limit.
Failed == IF failures < MaxFailures THEN failures + 1 ELSE MaxFailures

\* Mutant: the files of a crashed worker's application are not restored.
RestoreNothing(p) ==
    /\ Running /\ watch[p].pc = "restore"
    /\ \E f \in 1..Failed :
        /\ failures' = f
        /\ IF f >= MaxFailures
           THEN Done(p) /\ Notify(watch[p].last)
           ELSE Step(p, [watch[p] EXCEPT !.pc = "backoff"]) /\ UNCHANGED daemon
    /\ UNCHANGED <<workers, pendingPid, token, sender, stopping, cancelled,
                   shutdownRequested, teardown, holder, proc, db, starts>>

\* clear_daemon_takeover_for_app, whose error is dropped, and on_worker_exited:
\* older failures may have left the window, or a stable uptime cleared them.
WatchRestore(p) ==
    /\ Running /\ watch[p].pc = "restore"
    /\ takeover' \in {[takeover EXCEPT ![appOf[p]] = FALSE]}
                         \cup (IF "clear" \in Faults THEN {takeover} ELSE {})
    /\ \E f \in 1..Failed :
        /\ failures' = f
        /\ IF f >= MaxFailures
           THEN Done(p) /\ Notify(watch[p].last)
           ELSE Step(p, [watch[p] EXCEPT !.pc = "backoff"]) /\ UNCHANGED daemon
    /\ UNCHANGED <<workers, pendingPid, token, sender, stopping, cancelled,
                   shutdownRequested, teardown, holder, proc, session, starts>>

\* Mutant: only a shutdown cancels a restart.
RestartUnlessShutdown(a) == ~shutdownRequested /\ ~teardown

ShouldRestart(a) == ~shutdownRequested /\ ~teardown /\ a \notin cancelled

\* The back-off is over.
Wake(p) ==
    /\ Running /\ watch[p].pc = "backoff"
    /\ IF ShouldRestart(appOf[p])
       THEN Step(p, [watch[p] EXCEPT !.pc = "queued"]) /\ UNCHANGED daemon
       ELSE Done(p) /\ Notify(watch[p].last)
    /\ UNCHANGED <<inner, holder, proc, db, starts>>

\* respawn_after_crash; what it returns is only logged, so the watcher ends here.
Respawn(p) ==
    /\ Running /\ watch[p].pc = "queued" /\ holder = Free
    /\ Fresh # {} /\ Done(p)
    /\ IF ShouldRestart(appOf[p]) THEN Take("respawn", appOf[p], "admit")
       ELSE UNCHANGED holder
    /\ UNCHANGED <<inner, proc, db, daemon, starts>>

----------------------------------------------------------------------------
(* The daemon                                                               *)

Forget ==
    /\ pendingPid' = Nobody /\ token' = Nobody /\ sender' = {} /\ stopping' = {}
    /\ failures' = 0 /\ shutdownRequested' = FALSE /\ teardown' = FALSE
    /\ holder' = Free /\ watch' = [p \in Pids |-> Unwatched]

\* run drains the requests, for two seconds at most; dropping the runtime kills
\* the children (kill_on_drop), not an adopted worker.
Exit ==
    /\ daemon = "leaving"
    /\ holder.op \in {"none", "respawn"} \/ "drain" \in Faults
    /\ daemon' = "down"
    /\ Kill({p \in Pids : \/ watch[p].pc = "waiting"
                          \/ holder.pc = "record" /\ holder.pid = p})
    /\ Forget /\ workers' = Nobody /\ cancelled' = {}
    /\ UNCHANGED <<appOf, db, starts>>

\* The daemon is killed; its workers have sessions of their own and go on.
Killed ==
    /\ Running /\ starts < MaxDaemons
    /\ daemon' = "killed"
    /\ Forget /\ workers' = Nobody /\ cancelled' = {}
    /\ UNCHANGED <<proc, appOf, db, starts>>

\* recover_on_startup: the live workers of the row are adopted; applications
\* without one lose their takeover.
Start ==
    LET live == [a \in Apps |->
                    IF session[a] # NoPid /\ proc[session[a]] = "serving" THEN session[a]
                    ELSE NoPid]
    IN /\ ~Running /\ starts < MaxDaemons
       /\ daemon' = "up" /\ starts' = starts + 1
       /\ workers' = live /\ session' = live
       /\ takeover' = [a \in Apps |-> takeover[a] /\ live[a] # NoPid]
       /\ UNCHANGED <<pendingPid, token, sender, stopping, cancelled, failures,
                      shutdownRequested, teardown, holder, watch, proc, appOf>>

----------------------------------------------------------------------------
Request ==
    \/ \E a \in Apps : Ensure(a) \/ Drop(a)
    \/ SetGlobalOff \/ Shutdown

HolderStep ==
    \/ Refuse \/ Reuse \/ Prepare \/ SpawnFails \/ Spawn \/ RecordPid
    \/ HelloReceived \/ HelloClosed \/ HelloTimesOut \/ Abandon \/ KillStarting \/ Register
    \/ Persist \/ Write \/ WriteFails
    \/ Enable \/ EnableFails \/ Retake \/ RetakeFails
    \/ PlanStop \/ Clear \/ ClearFails \/ ClearIgnored \/ KillPlanned \/ Finish
    \/ ClearAll \/ PlanStopAll \/ Restore

WatchStep(p) ==
    \/ RecordExit(p) \/ WatchPersist(p) \/ WatchWrite(p) \/ WatchRestore(p) \/ Wake(p)
    \/ Respawn(p)

Worker(p) == Hello(p) \/ LeaveRefused(p)

Next ==
    \/ Request \/ HolderStep \/ Exit \/ Killed \/ Start
    \/ \E p \in Pids : WatchStep(p) \/ Worker(p) \/ Crash(p)

Spec == Init /\ [][Next]_vars

----------------------------------------------------------------------------
Starting == {"spawn", "record", "hello", "register"}

\* spawn_lock keeps stops and starts apart: a registration is outstanding only
\* while the request that waits for it holds the lock, and meanwhile no stop is
\* planned and no shutdown begins; so the checks for it that follow the hello
\* have nothing to find.
NothingStopsDuringEnsure ==
    /\ \A a \in Apps : pendingPid[a] # NoPid \/ token[a] # NoPid \/ a \in sender =>
            holder.app = a /\ holder.op \in {"ensure", "respawn"}
    /\ holder.pc \in Starting => ~Busy /\ <<holder.app, holder.pid>> \notin stopping

\* A running child of the daemon that it has not told to stop is the registered
\* worker of its application or the one being started: none is lost sight of
\* and no application is served twice, whatever crashes and overlaps.
NoStrayWorker ==
    \A p \in Pids : Alive(p) /\ watch[p].pc = "waiting" /\ <<appOf[p], p>> \notin stopping =>
        \/ workers[appOf[p]] = p
        \/ holder.pid = p /\ holder.app = appOf[p] /\ workers[appOf[p]] = NoPid

\* A route that was dropped stays off: a crashed worker's restart, under way or in
\* its back-off, neither turns it on nor takes the cancellation back; only a new
\* EnsureWorker, or a drop that fails, does.
DroppedStaysOff ==
    [][\A a \in cancelled :
          /\ takeover'[a] => takeover[a]
          /\ a \in cancelled' \/ holder.op \in {"ensure", "drop"} \/ ~Running']_vars

\* The daemon ends by itself only when no worker serves a route any more.
ExitServesNobody ==
    daemon = "leaving" =>
        \A a \in Apps : takeover[a] /\ workers[a] # NoPid => <<a, workers[a]>> \in stopping

----------------------------------------------------------------------------
(* The request that holds the lock runs, as tasks of a runtime do, and waits *)
(* for a hello no longer than its timeout; the mutex is fair, so a watcher   *)
(* that waits for it again and again gets it.  Back-offs and drains end.     *)
FairSpec ==
    /\ Spec
    /\ WF_vars(HolderStep) /\ WF_vars(Exit)
    /\ \A p \in Pids : /\ WF_vars(RecordExit(p) \/ WatchPersist(p) \/ WatchWrite(p))
                       /\ WF_vars(WatchRestore(p)) /\ WF_vars(Wake(p))
                       /\ SF_vars(Respawn(p)) /\ WF_vars(Worker(p))

\* No request waits for ever behind another.
LockIsReleased == holder # Free ~> holder = Free

\* A shutdown that was asked for ends the daemon, or was taken back: the watcher
\* of the last worker to exit sees that it is the last.
ShutdownCompletes == shutdownRequested ~> (~shutdownRequested \/ daemon # "up")

Served(a) == \E p \in Pids : appOf[p] = a /\ proc[p] = "serving"

\* A client is not left pointing at a worker that died: its files are restored or
\* the next worker serves it, also when the daemon gives up and ends.
DeadRouteEnds ==
    \A a \in Apps, p \in Pids :
        (/\ appOf[p] = a /\ watch[p].pc = "waiting" /\ ~Alive(p)
         /\ takeover[a] /\ daemon = "up")
            ~> (~takeover[a] \/ Served(a) \/ daemon = "killed")

\* A crashed worker that is not given up is replaced and its route taken again,
\* unless the user dropped the route or the daemon ends.
CrashedRouteReturns ==
    \A a \in Apps :
        (\E p \in Pids : watch[p].pc = "backoff" /\ appOf[p] = a)
            ~> (takeover[a] /\ Served(a)) \/ a \in cancelled \/ Busy \/ daemon # "up"
=============================================================================
