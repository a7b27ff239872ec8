-------------------------- MODULE SupervisorProofs --------------------------
(***************************************************************************)
(* For any applications, processes and faults: the invariants of           *)
(* Supervisor, and that a dropped route stays off.  spawn_lock is what     *)
(* they rest on: only its holder starts a worker or plans a stop, so what  *)
(* it established at one step is there at the next (Located, Held), and    *)
(* the watchers, hellos and crashes in between only take away.             *)
(***************************************************************************)
EXTENDS Supervisor, TLAPS

\* While a request has a worker on its way.
Begun == Starting \cup {"abandon"}

Registering(a) == pendingPid[a] # NoPid \/ token[a] # NoPid \/ a \in sender

\* A registration is outstanding only for the worker that the holder starts.
Outstanding ==
    \A a \in Apps :
        /\ Registering(a) => holder.app = a /\ holder.pc \in Begun
        /\ pendingPid[a] # NoPid => /\ holder.pc \in {"hello", "register", "abandon"}
                                    /\ pendingPid[a] = holder.pid
        /\ token[a] # NoPid => token[a] = holder.pid

\* Which request is where; one that starts a worker, unless it has just been
\* admitted, has taken the cancellation back.
Located ==
    /\ holder.pc \in Begun \cup {"admit", "killStarting"} => holder.op \in {"ensure", "respawn"}
    /\ holder.pc = "enable" => holder.op = "ensure"
    /\ holder.pc = "retake" => holder.op = "respawn"
    /\ holder.pc \in {"persist", "write"} => holder.op \notin {"none", "shutdown"}
    /\ holder.op \in {"ensure", "undo", "respawn", "drop"} => holder.app \in Apps
    /\ holder.op = "none" => holder = Free
    /\ holder.op \in {"ensure", "respawn"} /\ (holder.pc # "admit" \/ holder.op = "respawn") =>
            holder.app \notin cancelled

\* What the holder knows of the worker that it starts.
Held ==
    /\ holder.pc \in Begun => holder.pid \in Pids /\ workers[holder.app] = NoPid
    /\ holder.pc \in Starting => ~Busy /\ <<holder.app, holder.pid>> \notin stopping
    /\ holder.pc = "spawn" => ~Alive(holder.pid)
    /\ holder.pc \in {"spawn", "record"} => watch[holder.pid].pc = "none"
    /\ holder.pc \in Begun \ {"spawn"} /\ (Alive(holder.pid) \/ holder.pc = "record") =>
            appOf[holder.pid] = holder.app
    /\ holder.pc = "killStarting" =>
            holder.pid \in Pids /\ (Alive(holder.pid) => <<holder.app, holder.pid>> \in stopping)

\* What has come through the hello channel.
Mail ==
    /\ holder.pc = "admit" => holder.mail = "open"
    /\ holder.pc = "register" => holder.mail = "info"
    /\ holder.mail = "info" => holder.app \notin sender
    /\ holder.mail = "closed" /\ holder.pc \in Begun => /\ holder.pc \notin {"spawn", "record"}
                                                        /\ ~Alive(holder.pid)

\* A watcher that has left its wait watches a dead process.
Watched ==
    \A p \in Pids : /\ Alive(p) => watch[p].pc \in {"none", "waiting"}
                    /\ Alive(p) \/ watch[p].pc # "none" => appOf[p] \in Apps

\* No daemon, no request and no watcher.
Down == ~Running => holder = Free /\ \A p \in Pids : watch[p].pc = "none"

Known(p) == \/ workers[appOf[p]] = p
            \/ /\ holder.pid = p /\ holder.app = appOf[p] /\ holder.pc \in Begun
               /\ workers[appOf[p]] = NoPid

AllKnown ==
    \A p \in Pids : Alive(p) /\ watch[p].pc = "waiting" /\ <<appOf[p], p>> \notin stopping => Known(p)

\* What taking a planned stop back restores.
Planned ==
    holder.pc = "clear" /\ holder.op = "drop" =>
        /\ holder.adopted = {} => \A p \in holder.pids : Alive(p) => workers[holder.app] = p
        /\ holder.adopted # {} => /\ workers[holder.app] = NoPid
                                  /\ \A p \in holder.pids : watch[p].pc = "none"

IInv == TypeOK /\ Outstanding /\ Located /\ Held /\ Mail /\ Watched /\ Down /\ AllKnown /\ Planned

LEMMA FreeType == Free \in Holder /\ Free.op = "none" /\ Free.pc = "idle" /\ Free.mail = "open"
                  /\ Free.pid = NoPid /\ Free.app = NoApp /\ Free.adopted = {} /\ Free.pids = {}
  BY DEF Free, Holder, Labels, MaybePid, Sessions, Nobody

LEMMA NobodyType == Nobody \in Sessions /\ Unwatched \in Watch /\ Unwatched.pc = "none"
                    /\ Waiting \in Watch /\ Waiting.pc = "waiting"
  BY DEF Nobody, Sessions, MaybePid, Unwatched, Waiting, Watch

LEMMA Initially == Init => IInv
  <1> SUFFICES ASSUME Init PROVE IInv  OBVIOUS
  <1>1. failures \in 0..MaxFailures /\ starts \in 1..MaxDaemons
    BY BoundAssumption DEF Init
  <1>2. holder \in Holder /\ watch \in [Pids -> Watch]
    BY FreeType, NobodyType DEF Init
  <1>3. TypeOK
    BY <1>1, <1>2, NobodyType DEF Init, TypeOK
  <1>4. Outstanding /\ Located /\ Held /\ Mail /\ Planned
    BY FreeType, NoneAssumption
    DEF Init, Outstanding, Registering, Located, Held, Mail, Planned, Begun, Starting, Nobody
  <1>5. Watched /\ Down /\ AllKnown
    BY NobodyType DEF Init, Watched, Down, AllKnown, Alive, Running
  <1>6. QED  BY <1>3, <1>4, <1>5 DEF IInv

----------------------------------------------------------------------------
(* The steps of a request that has no worker on its way change nothing else *)
(* in memory.                                                               *)

LEMMA GoesOn ==
    ASSUME holder \in Holder, NEW label \in Labels, Goto(label)
    PROVE  /\ holder' \in Holder /\ holder'.pc = label /\ holder'.op = holder.op
           /\ holder'.app = holder.app /\ holder'.pid = holder.pid /\ holder'.mail = holder.mail
           /\ holder'.pids = holder.pids /\ holder'.adopted = holder.adopted
  BY DEF Goto, Holder

LEMMA Begins ==
    ASSUME NEW op \in {"ensure", "respawn", "drop", "off", "shutdown"}, NEW a \in Apps \cup {NoApp},
           NEW label \in Labels, Take(op, a, label)
    PROVE  /\ holder' \in Holder /\ holder'.op = op /\ holder'.app = a /\ holder'.pc = label
           /\ holder'.mail = "open" /\ holder'.pid = NoPid /\ holder'.pids = {}
           /\ holder'.adopted = {}
  BY FreeType DEF Take, Holder

\* Requests without a worker on its way, before and after.
LEMMA Apart ==
    ASSUME IInv, Running, holder.pc \notin Begun, UNCHANGED <<inner, watch, proc, appOf, starts>>,
           daemon' \in {daemon, "leaving"}, takeover' \in [Apps -> BOOLEAN], session' \in Sessions,
           holder' \in Holder, holder'.pc \notin Begun \cup {"killStarting"},
           holder'.pc = "admit" => holder'.mail = "open",
           holder'.mail = "info" => holder.mail = "info" /\ holder'.app = holder.app,
           Located', Planned'
    PROVE  IInv'
  <1>1. TypeOK'  BY DEF IInv, TypeOK, inner, Running
  <1>2. Outstanding' /\ Held' /\ Mail'
    BY DEF IInv, Outstanding, Registering, Held, Mail, inner, Begun, Starting
  <1>3. Watched' /\ Down'
    BY DEF IInv, Watched, Down, Alive, Running
  <1>4. AllKnown'  BY DEF IInv, AllKnown, Known, Alive, inner
  <1>5. QED  BY <1>1, <1>2, <1>3, <1>4 DEF IInv

LEMMA RequestKeeps == ASSUME IInv, Request \/ Refuse PROVE IInv'
  <1>1. ASSUME Request PROVE IInv'
    <2>1. daemon = "up" /\ holder = Free /\ UNCHANGED <<inner, watch, proc, appOf, db, daemon, starts>>
      BY <1>1 DEF Request, Ensure, Drop, SetGlobalOff, Shutdown
    <2>2. \/ \E a \in Apps : Take("ensure", a, "admit") \/ Take("drop", a, "plan")
          \/ Take("off", NoApp, "clear") \/ Take("shutdown", NoApp, "plan")
      BY <1>1 DEF Request, Ensure, Drop, SetGlobalOff, Shutdown
    <2>3. PICK op \in {"ensure", "drop", "off", "shutdown"}, a \in Apps \cup {NoApp},
               label \in {"admit", "plan", "clear"} :
             /\ Take(op, a, label) /\ (label = "admit" <=> op = "ensure")
             /\ op \in {"ensure", "drop"} => a \in Apps
             /\ label = "clear" => op = "off"
      BY <2>2
    <2>4. /\ holder' \in Holder /\ holder'.op = op /\ holder'.app = a /\ holder'.pc = label
          /\ holder'.mail = "open"
      BY <2>3, Begins DEF Labels
    <2>5. Located' /\ Planned'
      BY <2>3, <2>4 DEF Located, Planned, Begun, Starting
    <2>6. holder.pc \notin Begun /\ Running /\ takeover' \in [Apps -> BOOLEAN] /\ session' \in Sessions
      BY <2>1, FreeType DEF Begun, Starting, Running, IInv, TypeOK, db
    <2>7. QED
      BY <2>1, <2>3, <2>4, <2>5, <2>6, Apart DEF Begun, Starting
  <1>2. ASSUME Refuse PROVE IInv'
    <2>1. Located' /\ Planned'
      BY <1>2, FreeType DEF Refuse, Release, Located, Planned, Begun, Starting
    <2>2. holder.pc \notin Begun /\ Running /\ takeover' \in [Apps -> BOOLEAN] /\ session' \in Sessions
      BY <1>2 DEF Refuse, At, Begun, Starting, IInv, TypeOK, db
    <2>3. QED
      BY <1>2, <2>1, <2>2, FreeType, Apart DEF Refuse, Release, Begun, Starting
  <1>3. QED  BY <1>1, <1>2

LEMMA RowType == ASSUME IInv, NEW s \in Sessions PROVE Row(s) \in Sessions
  BY DEF Row, IInv, TypeOK

LEMMA RowWritten == ASSUME IInv, Persist \/ Write \/ WriteFails PROVE IInv'
  <1>1. ASSUME Persist PROVE IInv'
    <2>1. /\ holder' \in Holder /\ holder'.pc = "write" /\ holder'.op = holder.op
          /\ holder'.app = holder.app /\ holder'.mail = holder.mail
      BY <1>1 DEF Persist, IInv, TypeOK, Holder, Labels
    <2>2. Located' /\ Planned'
      BY <1>1, <2>1 DEF Persist, At, IInv, Located, Planned, Begun, Starting, inner, Free
    <2>3. QED
      BY <1>1, <2>1, <2>2, Apart DEF Persist, At, Begun, Starting, IInv, TypeOK, db
  <1>2. ASSUME Write \/ WriteFails, holder' # Free PROVE IInv'
    <2>1. holder' = [holder EXCEPT !.pc = AfterWrite, !.snap = Nobody] /\ At("write")
      BY <1>2 DEF Write, WriteFails, Release
    <2>2. holder.op \in {"ensure", "respawn", "undo", "drop", "off"}
      BY <2>1 DEF IInv, TypeOK, Holder, Located, At
    <2>3. /\ holder.op = "ensure" => AfterWrite = "enable"
          /\ holder.op = "respawn" => AfterWrite = "retake"
          /\ holder.op = "undo" => AfterWrite = "kill"
          /\ holder.op \in {"drop", "off"} => AfterWrite = "finish"
      BY <2>2 DEF AfterWrite, Ensured
    <2>4. AfterWrite \in {"enable", "retake", "kill", "finish"}
      BY <2>2, <2>3
    <2>5. /\ holder' \in Holder /\ holder'.pc = AfterWrite /\ holder'.op = holder.op
          /\ holder'.app = holder.app /\ holder'.mail = holder.mail
      BY <2>1, <2>4, NobodyType DEF IInv, TypeOK, Holder, Labels
    <2>6. UNCHANGED <<inner, watch, proc, appOf, takeover, daemon, starts>> /\ session' \in Sessions
      BY <1>2, RowType DEF Write, WriteFails, db, IInv, TypeOK, Holder
    <2>7. Located' /\ Planned'
      BY <2>1, <2>2, <2>3, <2>4, <2>5, <2>6
      DEF At, IInv, Located, Planned, Begun, Starting, inner
    <2>8. QED
      BY <2>1, <2>4, <2>5, <2>6, <2>7, Apart DEF At, Begun, Starting, IInv, TypeOK
  <1>3. ASSUME Write \/ WriteFails, holder' = Free PROVE IInv'
    <2>1. UNCHANGED <<inner, watch, proc, appOf, takeover, daemon, starts>> /\ session' \in Sessions
      BY <1>3, RowType DEF Write, WriteFails, db, IInv, TypeOK, Holder
    <2>2. At("write")  BY <1>3 DEF Write, WriteFails
    <2>3. Located' /\ Planned'
      BY <1>3, FreeType DEF Located, Planned, Begun, Starting
    <2>4. QED
      BY <1>3, <2>1, <2>2, <2>3, FreeType, Apart DEF At, Begun, Starting, IInv, TypeOK
  <1>4. QED  BY <1>1, <1>2, <1>3

\* The request ends, and what it leaves in the database has its type.
LEMMA Ends ==
    ASSUME IInv, Running, holder.pc \notin Begun, Release, UNCHANGED <<inner, watch, proc, appOf, starts>>,
           daemon' \in {daemon, "leaving"}, takeover' \in [Apps -> BOOLEAN], session' \in Sessions
    PROVE  IInv'
  <1>1. Located' /\ Planned'
    BY FreeType DEF Release, Located, Planned, Begun, Starting
  <1>2. QED  BY <1>1, FreeType, Apart DEF Release, Begun, Starting

LEMMA RestoredType == ASSUME IInv, NEW t \in Restored PROVE t \in [Apps -> BOOLEAN]
  BY DEF Restored, IInv, TypeOK

LEMMA EndingKeeps ==
    ASSUME IInv, Enable \/ Retake \/ RetakeFails \/ Finish \/ Restore
    PROVE  IInv'
  <1>1. Running /\ holder.pc \notin Begun /\ Release /\ UNCHANGED <<inner, watch, proc, appOf, starts>>
    BY DEF Enable, Retake, RetakeFails, Finish, Restore, At, Begun, Starting
  <1>2. daemon' \in {daemon, "leaving"}
    BY DEF Enable, Retake, RetakeFails, Finish, Restore, Notify
  <1>3. takeover' \in [Apps -> BOOLEAN]
    BY RestoredType DEF Enable, Retake, RetakeFails, Finish, Restore, IInv, TypeOK, db
  <1>4. session' \in Sessions
    BY NobodyType DEF Enable, Retake, RetakeFails, Finish, Restore, IInv, TypeOK, db
  <1>5. QED  BY <1>1, <1>2, <1>3, <1>4, Ends

LEMMA EnableFailsKeeps == ASSUME IInv, EnableFails PROVE IInv'
  <1>1. /\ holder' \in Holder /\ holder'.pc = "plan" /\ holder'.op = "undo"
        /\ holder'.app = holder.app /\ holder'.mail = holder.mail
    BY DEF EnableFails, IInv, TypeOK, Holder, Labels
  <1>2. holder.app \in Apps  BY DEF EnableFails, At, IInv, Located
  <1>3. Located' /\ Planned'
    BY <1>1, <1>2 DEF Located, Planned, Begun, Starting
  <1>4. QED
    BY <1>1, <1>3, Apart DEF EnableFails, At, Begun, Starting, IInv, TypeOK, db

LEMMA ClearKeeps == ASSUME IInv, Clear \/ ClearIgnored \/ ClearAll PROVE IInv'
  <1>1. At("clear") /\ UNCHANGED <<inner, watch, proc, appOf, session, daemon, starts>>
    BY DEF Clear, ClearIgnored, ClearAll, db
  <1>2. holder.op \in {"drop", "undo", "off"}
    BY DEF Clear, ClearIgnored, ClearAll
  <1>3. PICK label \in {"kill", "plan", "persist", "write"} : Goto(label)
    BY DEF Clear, ClearIgnored, ClearAll, Saving
  <1>4. takeover' \in [Apps -> BOOLEAN]
    BY RestoredType DEF Clear, ClearIgnored, ClearAll, IInv, TypeOK, db
  <1>5. /\ holder' \in Holder /\ holder'.pc = label /\ holder'.op = holder.op
        /\ holder'.app = holder.app /\ holder'.mail = holder.mail
    BY <1>3, GoesOn DEF IInv, TypeOK, Labels
  <1>6. Located' /\ Planned'
    BY <1>1, <1>2, <1>5 DEF IInv, Located, Planned, Begun, Starting, inner
  <1>7. QED
    BY <1>1, <1>4, <1>5, <1>6, Apart DEF At, Begun, Starting, IInv, TypeOK

----------------------------------------------------------------------------
(* Workers and watchers                                                     *)

\* A worker dies, the request and its watcher learn of it later.
LEMMA Dies ==
    ASSUME IInv, NEW p \in Pids, proc' = [proc EXCEPT ![p] = "dead"],
           UNCHANGED <<inner, holder, watch, appOf, daemon, starts>>,
           takeover' \in [Apps -> BOOLEAN], session' \in Sessions
    PROVE  IInv'
  <1>1. \A q \in Pids : Alive(q)' => Alive(q)
    BY DEF Alive, IInv, TypeOK
  <1>2. TypeOK'  BY DEF IInv, TypeOK, inner
  <1>3. Outstanding' /\ Located' /\ Down'
    BY DEF IInv, Outstanding, Registering, Located, Down, Running, inner
  <1>4. Held' /\ Mail'
    BY <1>1 DEF IInv, Held, Mail, Begun, Starting, Busy, inner
  <1>5. Watched' /\ AllKnown'
    BY <1>1 DEF IInv, Watched, AllKnown, Known, inner
  <1>6. Planned'
    BY <1>1 DEF IInv, TypeOK, Holder, Planned, inner
  <1>7. QED  BY <1>2, <1>3, <1>4, <1>5, <1>6 DEF IInv

LEMMA DeathKeeps == ASSUME IInv, NEW p \in Pids, Crash(p) \/ LeaveRefused(p) PROVE IInv'
  <1>1. takeover' \in [Apps -> BOOLEAN] /\ session' \in Sessions
    BY RestoredType, NobodyType DEF Crash, LeaveRefused, IInv, TypeOK, db
  <1>2. QED  BY <1>1, Dies DEF Crash, LeaveRefused

LEMMA HelloKeeps == ASSUME IInv, NEW p \in Pids, Hello(p) PROVE IInv'
  <1> DEFINE ok == \E a \in Apps : /\ Running /\ token[a] = p /\ a \in sender
                                   /\ pendingPid[a] \in {NoPid, p}
  <1>1. CASE ~ok
    <2>1. proc[p] = "starting" /\ proc' = [proc EXCEPT ![p] = "refused"]
          /\ UNCHANGED <<inner, holder, watch, appOf, db, daemon, starts>>
      BY <1>1 DEF Hello, inner
    <2>2. \A q \in Pids : Alive(q)' <=> Alive(q)
      BY <2>1 DEF Alive, IInv, TypeOK
    <2>3. TypeOK'  BY <2>1 DEF IInv, TypeOK, inner, db
    <2>4. Outstanding' /\ Located' /\ Down'
      BY <2>1 DEF IInv, Outstanding, Registering, Located, Down, Running, inner
    <2>5. Held' /\ Mail'
      BY <2>1, <2>2 DEF IInv, Held, Mail, Begun, Starting, Busy, inner
    <2>6. Watched' /\ AllKnown' /\ Planned'
      BY <2>1, <2>2 DEF IInv, TypeOK, Holder, Watched, AllKnown, Known, Planned, inner
    <2>7. QED  BY <2>3, <2>4, <2>5, <2>6 DEF IInv
  <1>2. CASE ok
    <2>1. PICK a \in Apps : Running /\ token[a] = p /\ a \in sender
      BY <1>2
    <2>2. holder.app = a /\ holder.pid = p /\ holder.pc \in Begun
      BY <2>1, NoneAssumption DEF IInv, Outstanding, Registering
    <2>3. proc[p] = "starting" /\ Alive(p)  BY DEF Hello, Alive
    <2>4. appOf[p] = a /\ holder.pc # "spawn"
      BY <2>2, <2>3 DEF IInv, Held
    <2>5. /\ proc' = [proc EXCEPT ![p] = "serving"] /\ sender' = sender \ {a}
          /\ pendingPid' = [pendingPid EXCEPT ![a] = NoPid]
          /\ holder' = [holder EXCEPT !.mail = "info"]
          /\ UNCHANGED <<workers, token, stopping, cancelled, failures, shutdownRequested,
                         teardown, watch, appOf, db, daemon, starts>>
      BY <1>2, <2>4 DEF Hello
    <2>6. \A q \in Pids : Alive(q)' <=> Alive(q)
      BY <2>3, <2>5 DEF Alive, IInv, TypeOK
    <2>7. /\ holder' \in Holder /\ holder'.pc = holder.pc /\ holder'.op = holder.op
          /\ holder'.app = holder.app /\ holder'.pid = holder.pid /\ holder'.mail = "info"
      BY <2>5 DEF IInv, TypeOK, Holder
    <2>8. TypeOK'  BY <2>5, <2>7 DEF IInv, TypeOK, Sessions, MaybePid, db
    <2>9. Outstanding' /\ Located' /\ Down'
      BY <2>1, <2>2, <2>5, <2>7, FreeType
      DEF IInv, TypeOK, Sessions, Outstanding, Registering, Located, Down, Running, Begun, Starting
    <2>10. Held' /\ Mail'
      BY <2>2, <2>5, <2>6, <2>7 DEF IInv, Held, Mail, Begun, Starting, Busy
    <2>11. Watched' /\ AllKnown' /\ Planned'
      BY <2>2, <2>5, <2>6, <2>7 DEF IInv, Watched, AllKnown, Known, Planned, Begun, Starting
    <2>12. QED  BY <2>8, <2>9, <2>10, <2>11 DEF IInv
  <1>3. QED  BY <1>1, <1>2

\* The watcher of a dead process goes on, or is done.
LEMMA Watching ==
    ASSUME IInv, NEW p \in Pids, Running, watch[p].pc \notin {"none", "waiting"},
           NEW w \in Watch, w.pc # "waiting", watch' = [watch EXCEPT ![p] = w],
           IF w.pc = "none" THEN appOf' = [appOf EXCEPT ![p] = NoApp] ELSE UNCHANGED appOf,
           UNCHANGED <<workers, pendingPid, token, sender, stopping, cancelled,
                       shutdownRequested, teardown, holder, proc, starts>>,
           failures' \in 0..MaxFailures, daemon' \in {daemon, "leaving"},
           takeover' \in [Apps -> BOOLEAN], session' \in Sessions
    PROVE  IInv'
  <1>1. ~Alive(p) /\ \A q \in Pids : (Alive(q)' <=> Alive(q))
                        /\ (q # p => watch'[q] = watch[q] /\ appOf'[q] = appOf[q])
    BY DEF IInv, TypeOK, Watched, Alive
  <1>2. TypeOK'  BY DEF IInv, TypeOK, Running
  <1>3. Outstanding' /\ Located' /\ Down'
    BY DEF IInv, Outstanding, Registering, Located, Down, Running
  <1>4. watch'[p] = w  BY DEF IInv, TypeOK
  <1>5. Held' /\ Mail'
    BY <1>1, <1>4 DEF IInv, Held, Mail, Begun, Starting, Busy
  <1>6. Watched' /\ AllKnown'
    BY <1>1, <1>4 DEF IInv, TypeOK, Watched, AllKnown, Known
  <1>7. Planned'
    BY <1>1, <1>4 DEF IInv, TypeOK, Holder, Planned
  <1>8. QED  BY <1>2, <1>3, <1>5, <1>6, <1>7 DEF IInv

LEMMA FailuresType == ASSUME IInv, NEW f \in 1..Failed PROVE f \in 0..MaxFailures
  BY BoundAssumption DEF IInv, TypeOK, Failed

LEMMA WatchKeeps ==
    ASSUME IInv, NEW p \in Pids, WatchPersist(p) \/ WatchWrite(p) \/ WatchRestore(p) \/ Wake(p)
    PROVE  IInv'
  <1>1. /\ Running /\ watch[p].pc \notin {"none", "waiting"} /\ holder' = holder
        /\ UNCHANGED <<workers, pendingPid, token, sender, stopping, cancelled,
                       shutdownRequested, teardown, holder, proc, starts>>
    BY DEF WatchPersist, WatchWrite, WatchRestore, Wake, inner
  <1>2. failures' \in 0..MaxFailures
    BY FailuresType DEF WatchPersist, WatchWrite, WatchRestore, Wake, inner, IInv, TypeOK
  <1>3. daemon' \in {daemon, "leaving"}
    BY DEF WatchPersist, WatchWrite, WatchRestore, Wake, Notify
  <1>4. takeover' \in [Apps -> BOOLEAN]
    BY DEF WatchPersist, WatchWrite, WatchRestore, Wake, IInv, TypeOK, db
  <1>5. session' \in Sessions
    BY RowType DEF WatchPersist, WatchWrite, WatchRestore, Wake, IInv, TypeOK, db, Watch
  <1>6. watch[p] \in Watch /\ workers \in Sessions  BY DEF IInv, TypeOK
  <1>7. \/ Done(p)
        \/ Step(p, [watch[p] EXCEPT !.pc = "write", !.snap = workers])
        \/ Step(p, [watch[p] EXCEPT !.pc = "restore", !.snap = Nobody])
        \/ Step(p, [watch[p] EXCEPT !.pc = "backoff"])
        \/ Step(p, [watch[p] EXCEPT !.pc = "queued"])
    BY DEF WatchPersist, WatchWrite, WatchRestore, Wake
  <1>8. CASE Done(p)
    BY <1>1, <1>2, <1>3, <1>4, <1>5, <1>8, NobodyType, Watching DEF Done
  <1>9. ASSUME NEW w \in Watch, w.pc \notin {"none", "waiting"}, Step(p, w) PROVE IInv'
    BY <1>1, <1>2, <1>3, <1>4, <1>5, <1>9, Watching DEF Step
  <1>10. /\ [watch[p] EXCEPT !.pc = "write", !.snap = workers] \in Watch
         /\ [watch[p] EXCEPT !.pc = "write", !.snap = workers].pc = "write"
         /\ [watch[p] EXCEPT !.pc = "restore", !.snap = Nobody] \in Watch
         /\ [watch[p] EXCEPT !.pc = "restore", !.snap = Nobody].pc = "restore"
         /\ [watch[p] EXCEPT !.pc = "backoff"] \in Watch
         /\ [watch[p] EXCEPT !.pc = "backoff"].pc = "backoff"
         /\ [watch[p] EXCEPT !.pc = "queued"] \in Watch
         /\ [watch[p] EXCEPT !.pc = "queued"].pc = "queued"
    BY <1>6, NobodyType DEF Watch
  <1>11. QED  BY <1>7, <1>8, <1>9, <1>10

LEMMA RecordExitKeeps == ASSUME IInv, NEW p \in Pids, RecordExit(p) PROVE IInv'
  <1> DEFINE a == appOf[p]
  <1>1. a \in Apps /\ ~Alive(p) /\ watch[p].pc = "waiting" /\ Running
    BY DEF RecordExit, IInv, Watched
  <1>2. workers' = [b \in Apps |-> IF b = a /\ workers[a] = p THEN NoPid ELSE workers[b]]
    BY <1>1 DEF RecordExit, IInv, TypeOK, Sessions
  <1>3. pendingPid' = [b \in Apps |-> IF b = a /\ pendingPid[a] = p THEN NoPid ELSE pendingPid[b]]
    BY <1>1 DEF RecordExit, IInv, TypeOK, Sessions
  <1>4. token' = [b \in Apps |-> IF b = a /\ pendingPid[a] = p THEN NoPid ELSE token[b]]
    BY <1>1 DEF RecordExit, IInv, TypeOK, Sessions
  <1>5. sender' = (IF pendingPid[a] = p THEN sender \ {a} ELSE sender)
        /\ stopping' = stopping \ {<<a, p>>}
        /\ UNCHANGED <<cancelled, failures, shutdownRequested, teardown, appOf, proc, db,
                       daemon, starts>>
    BY DEF RecordExit, Step
  <1>6. PICK w \in Watch : watch' = [watch EXCEPT ![p] = w] /\ w.pc \notin {"none", "waiting"}
    <2>1. watch[p] \in Watch  BY DEF IInv, TypeOK
    <2>2. PICK i \in BOOLEAN, l \in BOOLEAN, label \in {"persist", "write"} :
            watch' = [watch EXCEPT ![p] = [watch[p] EXCEPT !.pc = label, !.intentional = i,
                                                           !.last = l]]
      BY DEF RecordExit, Step, Saving, NoneRemains
    <2> DEFINE w == [watch[p] EXCEPT !.pc = label, !.intentional = i, !.last = l]
    <2>3. w \in Watch /\ w.pc = label  BY <2>1 DEF Watch
    <2>4. QED  BY <2>2, <2>3
  <1>7. holder' = IF pendingPid[a] = p /\ a \in sender THEN [holder EXCEPT !.mail = "closed"]
                  ELSE holder
    BY DEF RecordExit
  <1>8. /\ holder' \in Holder /\ holder'.pc = holder.pc /\ holder'.op = holder.op
        /\ holder'.app = holder.app /\ holder'.pid = holder.pid
        /\ holder'.pids = holder.pids /\ holder'.adopted = holder.adopted
        /\ holder'.mail = IF pendingPid[a] = p /\ a \in sender THEN "closed" ELSE holder.mail
    BY <1>7 DEF IInv, TypeOK, Holder
  <1>9. \A q \in Pids : (Alive(q)' <=> Alive(q)) /\ (q # p => watch'[q] = watch[q])
    BY <1>5, <1>6 DEF Alive, IInv, TypeOK
  <1>10. watch'[p] = w  BY <1>6 DEF IInv, TypeOK
  <1>11. pendingPid[a] = p => holder.app = a /\ holder.pid = p
                              /\ holder.pc \in {"hello", "register", "abandon"}
    BY <1>1, NoneAssumption DEF IInv, Outstanding, Registering
  <1>12. TypeOK'
    BY <1>2, <1>3, <1>4, <1>5, <1>6, <1>8 DEF IInv, TypeOK, Sessions, MaybePid, db
  <1>13. Outstanding' /\ Located'
    BY <1>2, <1>3, <1>4, <1>5, <1>7, <1>8, <1>11, FreeType
    DEF IInv, Outstanding, Registering, Located, Begun, Starting
  <1>14. Down'
    BY <1>1, <1>5 DEF Down, Running
  <1>15. Mail'
    BY <1>1, <1>5, <1>8, <1>9, <1>11 DEF IInv, Held, Mail, Begun, Starting
  <1>16. Held'
    BY <1>1, <1>2, <1>5, <1>6, <1>8, <1>9, <1>10 DEF IInv, TypeOK, Located, Held, Begun, Starting, Busy
  <1>17. Watched'
    BY <1>1, <1>5, <1>9, <1>10, <1>6 DEF IInv, Watched
  <1>18. AllKnown'
    <2> SUFFICES ASSUME NEW q \in Pids, Alive(q), watch'[q].pc = "waiting",
                        <<appOf[q], q>> \notin stopping'
                 PROVE  Known(q)'
      BY <1>5, <1>9 DEF AllKnown
    <2>1. q # p /\ appOf[q] \in Apps  BY <1>1 DEF IInv, Watched
    <2>2. Known(q)  BY <2>1, <1>5, <1>9 DEF IInv, AllKnown
    <2>3. QED  BY <2>1, <2>2, <1>2, <1>5, <1>8 DEF Known
  <1>19. Planned'
    <2> SUFFICES ASSUME holder.pc = "clear", holder.op = "drop"  PROVE Planned'
      BY <1>8 DEF Planned
    <2>1. holder.app \in Apps /\ holder.pids \subseteq Pids
      BY DEF IInv, TypeOK, Located, Holder
    <2>2. QED
      BY <2>1, <1>1, <1>2, <1>8, <1>9 DEF IInv, Planned
  <1>20. QED
    BY <1>12, <1>13, <1>14, <1>15, <1>16, <1>17, <1>18, <1>19 DEF IInv

\* A restart that gets spawn_lock has found its route not cancelled.
LEMMA RespawnKeeps == ASSUME IInv, NEW p \in Pids, Respawn(p) PROVE IInv'
  <1>1. ~Alive(p) /\ appOf[p] \in Apps /\ Running /\ holder = Free /\ watch[p].pc = "queued"
    BY DEF Respawn, IInv, Watched
  <1>2. watch' = [watch EXCEPT ![p] = Unwatched] /\ appOf' = [appOf EXCEPT ![p] = NoApp]
        /\ UNCHANGED <<inner, proc, db, daemon, starts>>
    BY DEF Respawn, Done
  <1>3. \A q \in Pids : (Alive(q)' <=> Alive(q))
                        /\ (q # p => watch'[q] = watch[q] /\ appOf'[q] = appOf[q])
    BY <1>2 DEF Alive, IInv, TypeOK
  <1>4. watch'[p].pc = "none"  BY <1>2, NobodyType DEF IInv, TypeOK
  <1>5. \/ holder' = Free
        \/ /\ holder' \in Holder /\ holder'.op = "respawn" /\ holder'.app = appOf[p]
           /\ holder'.pc = "admit" /\ holder'.mail = "open" /\ appOf[p] \notin cancelled
    BY <1>1, Begins DEF Respawn, ShouldRestart, Labels
  <1>6. holder' \in Holder /\ holder'.pc \in {"idle", "admit"} /\ holder'.mail = "open"
    BY <1>5, FreeType
  <1>7. TypeOK'
    BY <1>2, <1>6, NobodyType DEF IInv, TypeOK, inner, db
  <1>8. Outstanding' /\ Held' /\ Mail' /\ Planned'
    BY <1>1, <1>2, <1>6, FreeType
    DEF IInv, Outstanding, Registering, Held, Mail, Planned, Begun, Starting, inner
  <1>9. Located'
    BY <1>1, <1>2, <1>5, FreeType DEF Located, Begun, Starting, inner
  <1>10. Watched' /\ Down'
    BY <1>1, <1>2, <1>3, <1>4 DEF IInv, Watched, Down, Running
  <1>11. AllKnown'
    BY <1>1, <1>2, <1>3, <1>4, FreeType DEF IInv, AllKnown, Known, Begun, Starting, inner
  <1>12. QED  BY <1>7, <1>8, <1>9, <1>10, <1>11 DEF IInv

----------------------------------------------------------------------------
(* The request that starts a worker                                         *)

LEMMA ReuseKeeps == ASSUME IInv, Reuse PROVE IInv'
  <1>1. holder.pc = "admit" /\ Running /\ holder.op \in {"ensure", "respawn"} /\ holder.app \in Apps
    BY DEF Reuse, At, IInv, Located
  <1>2. Goto(Ensured) /\ cancelled' = cancelled \ {holder.app}
        /\ UNCHANGED <<workers, pendingPid, token, sender, stopping, failures,
                       shutdownRequested, teardown, watch, proc, appOf, db, daemon, starts>>
    BY DEF Reuse
  <1>3. /\ holder.op = "ensure" => Ensured = "enable"
        /\ holder.op = "respawn" => Ensured = "retake"
    BY DEF Ensured
  <1>4. Ensured \in Labels  BY DEF Ensured, Labels
  <1>5. /\ holder' \in Holder /\ holder'.pc = Ensured /\ holder'.op = holder.op
        /\ holder'.app = holder.app /\ holder'.mail = holder.mail
    BY <1>2, <1>4, GoesOn DEF IInv, TypeOK
  <1>6. TypeOK'  BY <1>2, <1>5 DEF IInv, TypeOK, db
  <1>7. Outstanding' /\ Located' /\ Held' /\ Mail' /\ Planned'
    BY <1>1, <1>2, <1>3, <1>5
    DEF IInv, Outstanding, Registering, Located, Held, Mail, Planned, Begun, Starting
  <1>8. Watched' /\ Down' /\ AllKnown'
    BY <1>1, <1>2, <1>5
    DEF IInv, Watched, Down, AllKnown, Known, Alive, Running, Begun, Starting
  <1>9. QED  BY <1>6, <1>7, <1>8 DEF IInv

LEMMA PrepareKeeps == ASSUME IInv, Prepare PROVE IInv'
  <1> DEFINE a == holder.app
  <1>1. holder.pc = "admit" /\ Running /\ holder.op \in {"ensure", "respawn"} /\ a \in Apps
        /\ ~Busy /\ workers[a] = NoPid
    BY DEF Prepare, At, IInv, Located
  <1>2. PICK p \in Fresh :
          /\ token' = [token EXCEPT ![a] = p]
          /\ holder' = [holder EXCEPT !.pc = "spawn", !.pid = p]
          /\ session' = [b \in Apps |-> IF session[b] = p THEN NoPid ELSE session[b]]
    BY DEF Prepare
  <1>3. sender' = sender \cup {a} /\ cancelled' = cancelled \ {a}
        /\ UNCHANGED <<workers, pendingPid, stopping, failures, shutdownRequested, teardown,
                       watch, proc, appOf, takeover, daemon, starts>>
    BY DEF Prepare
  <1>4. p \in Pids /\ ~Alive(p) /\ watch[p].pc = "none" /\ <<a, p>> \notin stopping
    <2>1. p \in Pids /\ ~Alive(p) /\ watch[p].pc = "none" /\ p \notin Mentioned
      BY <1>2 DEF Fresh
    <2>2. \A s \in stopping : s[2] \in Mentioned  BY DEF Mentioned
    <2>3. QED  BY <2>1, <2>2
  <1>5. /\ holder' \in Holder /\ holder'.pc = "spawn" /\ holder'.op = holder.op
        /\ holder'.app = a /\ holder'.pid = p /\ holder'.mail = "open"
    BY <1>1, <1>2, <1>4 DEF IInv, TypeOK, Mail, Holder, Labels, MaybePid
  <1>6. TypeOK'
    BY <1>1, <1>2, <1>3, <1>4, <1>5 DEF IInv, TypeOK, Sessions, MaybePid
  <1>7. \A b \in Apps : ~Registering(b)
    BY <1>1 DEF IInv, Outstanding, Begun, Starting
  <1>8. Outstanding' /\ Located'
    BY <1>1, <1>2, <1>3, <1>5, <1>7
    DEF IInv, TypeOK, Sessions, Outstanding, Registering, Located, Begun, Starting
  <1>9. Held' /\ Mail' /\ Planned'
    BY <1>1, <1>3, <1>4, <1>5 DEF Held, Mail, Planned, Begun, Starting, Busy, Alive
  <1>10. Watched' /\ Down' /\ AllKnown'
    BY <1>1, <1>3, <1>5
    DEF IInv, Watched, Down, AllKnown, Known, Alive, Running, Begun, Starting
  <1>11. QED  BY <1>6, <1>8, <1>9, <1>10 DEF IInv

\* The pending registration is taken back and the request ends; its worker is dead.
LEMMA GivenUp ==
    ASSUME IInv, Running, holder.pc \in Begun, ~Alive(holder.pid), ClearPending, Release,
           UNCHANGED <<workers, stopping, cancelled, failures, shutdownRequested, teardown,
                       watch, proc, appOf, db, daemon, starts>>
    PROVE  IInv'
  <1>1. holder.app \in Apps  BY DEF IInv, Located, Begun, Starting
  <1>2. TypeOK'
    BY FreeType DEF Release, ClearPending, IInv, TypeOK, Sessions, MaybePid, db
  <1>3. \A b \in Apps : ~Registering(b)'
    BY <1>1 DEF ClearPending, IInv, TypeOK, Sessions, Outstanding, Registering
  <1>4. Outstanding' /\ Located' /\ Held' /\ Mail' /\ Planned'
    BY <1>3, FreeType
    DEF Release, Outstanding, Registering, Located, Held, Mail, Planned, Begun, Starting
  <1>5. Watched' /\ Down'  BY DEF IInv, Watched, Down, Alive, Running
  <1>6. AllKnown'
    BY DEF IInv, AllKnown, Known, Alive
  <1>7. QED  BY <1>2, <1>4, <1>5, <1>6 DEF IInv

LEMMA GiveUpKeeps == ASSUME IInv, SpawnFails \/ HelloClosed PROVE IInv'
  <1>1. holder.pc \in Begun /\ ~Alive(holder.pid) /\ Running
    BY DEF SpawnFails, HelloClosed, At, IInv, Held, Mail, Begun, Starting
  <1>2. QED  BY <1>1, GivenUp DEF SpawnFails, HelloClosed

LEMMA SpawnKeeps == ASSUME IInv, Spawn PROVE IInv'
  <1> DEFINE p == holder.pid
  <1>1. holder.pc = "spawn" /\ Running /\ holder.op \in {"ensure", "respawn"} /\ holder.app \in Apps
        /\ p \in Pids /\ ~Alive(p) /\ watch[p].pc = "none"
    BY DEF Spawn, At, IInv, Located, Held, Begun, Starting
  <1>2. proc' = [proc EXCEPT ![p] = "starting"] /\ appOf' = [appOf EXCEPT ![p] = holder.app]
        /\ Goto("record") /\ UNCHANGED <<inner, watch, db, daemon, starts>>
    BY DEF Spawn
  <1>3. /\ holder' \in Holder /\ holder'.pc = "record" /\ holder'.op = holder.op
        /\ holder'.app = holder.app /\ holder'.pid = p /\ holder'.mail = holder.mail
    BY <1>2, GoesOn DEF IInv, TypeOK, Labels
  <1>4. appOf'[p] = holder.app
        /\ \A q \in Pids \ {p} : appOf'[q] = appOf[q] /\ (Alive(q)' <=> Alive(q))
    BY <1>1, <1>2 DEF Alive, IInv, TypeOK
  <1>5. TypeOK'  BY <1>1, <1>2, <1>3 DEF IInv, TypeOK, inner, db
  <1>6. Outstanding' /\ Located' /\ Mail' /\ Planned'
    BY <1>1, <1>2, <1>3
    DEF IInv, Outstanding, Registering, Located, Mail, Planned, Begun, Starting, inner
  <1>7. Held'
    BY <1>1, <1>2, <1>3, <1>4 DEF IInv, Held, Begun, Starting, Busy, inner
  <1>8. Watched' /\ Down' /\ AllKnown'
    BY <1>1, <1>2, <1>3, <1>4
    DEF IInv, Watched, Down, AllKnown, Known, Running, Begun, Starting, inner
  <1>9. QED  BY <1>5, <1>6, <1>7, <1>8 DEF IInv

LEMMA RecordPidKeeps == ASSUME IInv, RecordPid PROVE IInv'
  <1> DEFINE p == holder.pid
             a == holder.app
  <1>1. holder.pc = "record" /\ Running /\ holder.op \in {"ensure", "respawn"} /\ a \in Apps
        /\ p \in Pids /\ workers[a] = NoPid /\ appOf[p] = a
    BY DEF RecordPid, At, IInv, Located, Held, Begun, Starting
  <1>2. pendingPid' = [pendingPid EXCEPT ![a] = p] /\ watch' = [watch EXCEPT ![p] = Waiting]
        /\ Goto("hello")
        /\ UNCHANGED <<workers, token, sender, stopping, cancelled, failures,
                       shutdownRequested, teardown, proc, appOf, db, daemon, starts>>
    BY DEF RecordPid
  <1>3. /\ holder' \in Holder /\ holder'.pc = "hello" /\ holder'.op = holder.op
        /\ holder'.app = a /\ holder'.pid = p /\ holder'.mail = holder.mail
    BY <1>2, GoesOn DEF IInv, TypeOK, Labels
  <1>4. TypeOK'
    BY <1>1, <1>2, <1>3, NobodyType DEF IInv, TypeOK, Sessions, MaybePid, db
  <1>5. watch'[p].pc = "waiting" /\ \A q \in Pids \ {p} : watch'[q] = watch[q]
    BY <1>1, <1>2, NobodyType DEF IInv, TypeOK
  <1>6. Outstanding' /\ Located'
    BY <1>1, <1>2, <1>3, NoneAssumption
    DEF IInv, TypeOK, Sessions, Outstanding, Registering, Located, Begun, Starting
  <1>7. Held' /\ Mail' /\ Planned'
    BY <1>1, <1>2, <1>3 DEF IInv, Held, Mail, Planned, Begun, Starting, Busy, Alive
  <1>8. Watched' /\ Down' /\ AllKnown'
    BY <1>1, <1>2, <1>3, <1>5
    DEF IInv, Watched, Down, AllKnown, Known, Alive, Running, Begun, Starting
  <1>9. QED  BY <1>4, <1>6, <1>7, <1>8 DEF IInv

LEMMA WaitKeeps == ASSUME IInv, HelloReceived \/ HelloTimesOut PROVE IInv'
  <1>1. holder.pc = "hello" /\ Running /\ UNCHANGED <<inner, watch, proc, appOf, db, daemon, starts>>
    BY DEF HelloReceived, HelloTimesOut, At
  <1>2. PICK label \in {"register", "abandon"} :
          Goto(label) /\ (label = "register" => holder.mail = "info")
                      /\ (label = "abandon" => holder.mail = "open")
    BY DEF HelloReceived, HelloTimesOut
  <1>3. /\ holder' \in Holder /\ holder'.pc = label /\ holder'.op = holder.op
        /\ holder'.app = holder.app /\ holder'.pid = holder.pid /\ holder'.mail = holder.mail
    BY <1>2, GoesOn DEF IInv, TypeOK, Labels
  <1>4. TypeOK'  BY <1>1, <1>3 DEF IInv, TypeOK, inner, db
  <1>5. Outstanding' /\ Located' /\ Held' /\ Mail' /\ Planned'
    BY <1>1, <1>2, <1>3
    DEF IInv, Outstanding, Registering, Located, Held, Mail, Planned, Begun, Starting, Busy,
        Alive, inner
  <1>6. Watched' /\ Down' /\ AllKnown'
    BY <1>1, <1>3
    DEF IInv, Watched, Down, AllKnown, Known, Alive, Running, Begun, Starting, inner
  <1>7. QED  BY <1>4, <1>5, <1>6 DEF IInv

LEMMA AbandonKeeps == ASSUME IInv, Abandon PROVE IInv'
  <1>1. holder.pc = "abandon" /\ Running /\ holder.app \in Apps /\ holder.pid \in Pids
        /\ holder.op \in {"ensure", "respawn"}
        /\ (Alive(holder.pid) => appOf[holder.pid] = holder.app)
    BY DEF Abandon, At, IInv, Located, Held, Begun
  <1>2. ClearPending /\ Goto("killStarting")
        /\ stopping' = stopping \cup {<<holder.app, holder.pid>>}
        /\ UNCHANGED <<workers, cancelled, failures, shutdownRequested, teardown,
                       watch, proc, appOf, db, daemon, starts>>
    BY DEF Abandon
  <1>3. /\ holder' \in Holder /\ holder'.pc = "killStarting" /\ holder'.op = holder.op
        /\ holder'.app = holder.app /\ holder'.pid = holder.pid /\ holder'.mail = holder.mail
    BY <1>2, GoesOn DEF IInv, TypeOK, Labels
  <1>4. TypeOK'
    BY <1>1, <1>2, <1>3 DEF ClearPending, IInv, TypeOK, Sessions, MaybePid, db
  <1>5. \A b \in Apps : ~Registering(b)'
    BY <1>1, <1>2 DEF ClearPending, IInv, TypeOK, Sessions, Outstanding, Registering
  <1>6. Outstanding' /\ Located' /\ Held' /\ Planned'
    BY <1>1, <1>2, <1>3, <1>5
    DEF IInv, Outstanding, Registering, Located, Held, Planned, Begun, Starting
  <1>7. Mail'
    BY <1>1, <1>2, <1>3, <1>5 DEF IInv, Mail, Registering, Begun, Starting
  <1>8. Watched' /\ Down' /\ AllKnown'
    BY <1>1, <1>2, <1>3
    DEF IInv, Watched, Down, AllKnown, Known, Alive, Running, Begun, Starting
  <1>9. QED  BY <1>4, <1>6, <1>7, <1>8 DEF IInv

\* Signals only take workers away.
LEMMA KillFacts ==
    ASSUME IInv, NEW P, Kill(P)
    PROVE  /\ proc' \in [Pids -> {"starting", "serving", "refused", "dead"}]
           /\ \A q \in Pids : Alive(q)' <=> Alive(q) /\ q \notin P
  BY DEF Kill, Alive, IInv, TypeOK

LEMMA KillStartingKeeps == ASSUME IInv, KillStarting PROVE IInv'
  <1>1. holder.pc = "killStarting" /\ Running /\ Kill({holder.pid}) /\ Release
        /\ UNCHANGED <<inner, watch, appOf, db, daemon, starts>>
    BY DEF KillStarting, At
  <1>2. proc' \in [Pids -> {"starting", "serving", "refused", "dead"}]
        /\ \A q \in Pids : Alive(q)' <=> Alive(q) /\ q # holder.pid
    BY <1>1, KillFacts
  <1>3. TypeOK'  BY <1>1, <1>2, FreeType DEF Release, IInv, TypeOK, inner, db
  <1>4. Outstanding' /\ Located' /\ Held' /\ Mail' /\ Planned'
    BY <1>1, FreeType
    DEF Release, IInv, Outstanding, Registering, Located, Held, Mail, Planned, Begun, Starting, inner
  <1>5. Watched' /\ Down' /\ AllKnown'
    BY <1>1, <1>2 DEF IInv, Watched, Down, AllKnown, Known, Running, Begun, Starting, inner
  <1>6. QED  BY <1>3, <1>4, <1>5 DEF IInv

LEMMA RegisterKeeps == ASSUME IInv, Register PROVE IInv'
  <1> DEFINE p == holder.pid
             a == holder.app
  <1>1. holder.pc = "register" /\ Running /\ holder.op \in {"ensure", "respawn"} /\ a \in Apps
        /\ p \in Pids /\ workers[a] = NoPid /\ (Alive(p) => appOf[p] = a) /\ a \notin sender
    BY DEF Register, At, IInv, Located, Held, Mail, Begun, Starting
  <1>2. workers' = [workers EXCEPT ![a] = p] /\ token' = [token EXCEPT ![a] = NoPid]
        /\ pendingPid' = [pendingPid EXCEPT ![a] = NoPid] /\ shutdownRequested' = FALSE
        /\ UNCHANGED <<sender, stopping, cancelled, failures, teardown,
                       watch, proc, appOf, db, daemon, starts>>
    BY DEF Register
  <1>3. Goto(Saving) /\ Saving \in {"persist", "write"}  BY DEF Register, Saving
  <1>4. /\ holder' \in Holder /\ holder'.pc = Saving /\ holder'.op = holder.op
        /\ holder'.app = a /\ holder'.pid = p /\ holder'.mail = holder.mail
    BY <1>3, GoesOn DEF IInv, TypeOK, Labels
  <1>5. TypeOK'
    BY <1>1, <1>2, <1>4 DEF IInv, TypeOK, Sessions, MaybePid, db
  <1>6. \A b \in Apps : ~Registering(b)'
    BY <1>1, <1>2 DEF IInv, TypeOK, Sessions, Outstanding, Registering
  <1>7. Outstanding' /\ Located' /\ Held' /\ Mail' /\ Planned'
    BY <1>1, <1>2, <1>3, <1>4, <1>6
    DEF IInv, Outstanding, Registering, Located, Held, Mail, Planned, Begun, Starting
  <1>8. Watched' /\ Down'
    BY <1>1, <1>2 DEF IInv, Watched, Down, Alive, Running
  <1>9. AllKnown'
    <2> SUFFICES ASSUME NEW q \in Pids, Alive(q), watch[q].pc = "waiting",
                        <<appOf[q], q>> \notin stopping
                 PROVE  workers'[appOf[q]] = q
      BY <1>2 DEF AllKnown, Known, Alive
    <2>1. Known(q) /\ appOf[q] \in Apps  BY DEF IInv, AllKnown, Watched
    <2>2. QED
      BY <1>1, <1>2, <2>1, NoneAssumption DEF Known, IInv, TypeOK, Sessions
  <1>10. QED  BY <1>5, <1>7, <1>8, <1>9 DEF IInv

----------------------------------------------------------------------------
(* Stops                                                                    *)

LEMMA PlanStopKeeps == ASSUME IInv, PlanStop PROVE IInv'
  <1> DEFINE a       == holder.app
             pids    == {workers[a], pendingPid[a]} \ {NoPid}
             adopted == {p \in {workers[a]} \ {NoPid} : Adopted(p)}
  <1>1. holder.pc = "plan" /\ Running /\ holder.op \in {"drop", "undo"} /\ a \in Apps
    BY DEF PlanStop, At, IInv, Located
  <1>2. /\ cancelled' = cancelled \cup {a}
        /\ workers' = IF adopted = {} THEN workers ELSE [workers EXCEPT ![a] = NoPid]
        /\ pendingPid' = [pendingPid EXCEPT ![a] = NoPid]
        /\ stopping' = stopping \cup ({a} \X (pids \ adopted))
        /\ shutdownRequested' \in BOOLEAN
        /\ UNCHANGED <<token, sender, failures, teardown, watch, proc, appOf, db, daemon, starts>>
    <2>1. shutdownRequested \in BOOLEAN  BY DEF IInv, TypeOK
    <2>2. QED  BY <2>1 DEF PlanStop
  <1>3. PICK should \in BOOLEAN :
          holder' = [holder EXCEPT !.pc = "clear", !.pids = pids, !.adopted = adopted,
                                   !.should = should, !.prev = shutdownRequested]
    BY DEF PlanStop
  <1>4. \A b \in Apps : ~Registering(b)
    BY <1>1 DEF IInv, Outstanding, Begun, Starting
  <1>5. pendingPid[a] = NoPid /\ pids = {workers[a]} \ {NoPid} /\ pids \subseteq Pids
        /\ adopted \subseteq pids
    BY <1>1, <1>4 DEF Registering, IInv, TypeOK, Sessions, MaybePid
  <1>6. /\ holder' \in Holder /\ holder'.pc = "clear" /\ holder'.op = holder.op
        /\ holder'.app = a /\ holder'.mail = holder.mail
        /\ holder'.pids = pids /\ holder'.adopted = adopted
    BY <1>3, <1>5 DEF IInv, TypeOK, Holder, Labels
  <1>7. TypeOK'
    BY <1>1, <1>2, <1>5, <1>6 DEF IInv, TypeOK, Sessions, MaybePid, db
  <1>8. \A b \in Apps : ~Registering(b)'
    BY <1>1, <1>2, <1>4 DEF Registering, IInv, TypeOK, Sessions
  <1>9. Outstanding' /\ Located' /\ Held' /\ Mail'
    BY <1>1, <1>2, <1>6, <1>8
    DEF Outstanding, Located, Held, Mail, Registering, IInv, Begun, Starting
  <1>10. Watched' /\ Down'
    BY <1>1, <1>2 DEF IInv, Watched, Down, Alive, Running
  <1>11. AllKnown'
    <2> SUFFICES ASSUME NEW q \in Pids, Alive(q), watch[q].pc = "waiting",
                        <<appOf[q], q>> \notin stopping'
                 PROVE  workers'[appOf[q]] = q
      BY <1>2 DEF AllKnown, Known, Alive
    <2>1. <<appOf[q], q>> \notin stopping  BY <1>2
    <2>2. workers[appOf[q]] = q /\ appOf[q] \in Apps
      BY <1>1, <2>1 DEF IInv, AllKnown, Known, Watched, Begun, Starting
    <2>3. appOf[q] # a
      <3> SUFFICES ASSUME appOf[q] = a PROVE FALSE  OBVIOUS
      <3>1. q \in pids /\ q \notin adopted
        BY <2>2, NoneAssumption DEF Adopted
      <3>2. QED  BY <1>2, <3>1
    <2>4. QED  BY <1>2, <2>2, <2>3 DEF IInv, TypeOK, Sessions
  <1>12. Planned'
    <2>1. adopted = {} => \A p \in pids : workers'[a] = p
      BY <1>2, <1>5
    <2>2. adopted # {} => workers'[a] = NoPid /\ \A p \in pids : watch[p].pc = "none"
      BY <1>1, <1>2, <1>5 DEF Adopted, IInv, TypeOK, Sessions
    <2>3. QED  BY <1>2, <1>6, <2>1, <2>2 DEF Planned
  <1>13. QED  BY <1>7, <1>9, <1>10, <1>11, <1>12 DEF IInv

LEMMA ClearFailsKeeps == ASSUME IInv, ClearFails PROVE IInv'
  <1> DEFINE a == holder.app
  <1>1. holder.pc = "clear" /\ Running /\ holder.op = "drop" /\ a \in Apps
        /\ holder.pids \subseteq Pids /\ holder.adopted \subseteq Pids
    BY DEF ClearFails, At, IInv, TypeOK, Holder, Located
  <1>2. /\ stopping' = stopping \ ({a} \X holder.pids) /\ cancelled' = cancelled \ {a}
        /\ shutdownRequested' \in BOOLEAN /\ Release
        /\ UNCHANGED <<pendingPid, token, sender, failures, teardown,
                       watch, proc, appOf, db, daemon, starts>>
    BY DEF ClearFails, IInv, TypeOK, Holder
  <1>3. /\ holder.adopted = {} => workers' = workers
        /\ holder.adopted # {} => \E p \in holder.adopted : workers' = [workers EXCEPT ![a] = p]
    BY DEF ClearFails
  <1>4. TypeOK'
    BY <1>1, <1>2, <1>3, FreeType DEF Release, IInv, TypeOK, Sessions, MaybePid, db
  <1>5. Outstanding' /\ Located' /\ Held' /\ Mail' /\ Planned'
    BY <1>1, <1>2, FreeType
    DEF Release, IInv, Outstanding, Registering, Located, Held, Mail, Planned, Begun, Starting
  <1>6. Watched' /\ Down'
    BY <1>1, <1>2 DEF IInv, Watched, Down, Alive, Running
  <1>7. AllKnown'
    <2> SUFFICES ASSUME NEW q \in Pids, Alive(q), watch[q].pc = "waiting",
                        <<appOf[q], q>> \notin stopping'
                 PROVE  workers'[appOf[q]] = q
      BY <1>2 DEF AllKnown, Known, Alive
    <2>1. CASE <<appOf[q], q>> \in stopping
      <3>1. appOf[q] = a /\ q \in holder.pids  BY <1>2, <2>1
      <3>2. QED  BY <1>1, <1>3, <3>1 DEF IInv, Planned
    <2>2. CASE <<appOf[q], q>> \notin stopping
      <3>1. workers[appOf[q]] = q /\ appOf[q] \in Apps
        BY <1>1, <2>2 DEF IInv, AllKnown, Known, Watched, Begun, Starting
      <3>2. appOf[q] = a => holder.adopted = {}
        BY <1>1, <3>1, NoneAssumption DEF IInv, Planned
      <3>3. QED  BY <1>3, <3>1, <3>2 DEF IInv, TypeOK, Sessions
    <2>3. QED  BY <2>1, <2>2
  <1>8. QED  BY <1>4, <1>5, <1>6, <1>7 DEF IInv

LEMMA KillPlannedKeeps == ASSUME IInv, KillPlanned PROVE IInv'
  <1>1. holder.pc = "kill" /\ Running /\ Kill(holder.pids) /\ Goto(AfterKill)
        /\ UNCHANGED <<inner, watch, appOf, db, daemon, starts>>
    BY DEF KillPlanned, At
  <1>2. proc' \in [Pids -> {"starting", "serving", "refused", "dead"}]
        /\ \A q \in Pids : Alive(q)' => Alive(q)
    BY <1>1, KillFacts
  <1>3. AfterKill \in {"restore", "finish", "persist", "write"}
        /\ (AfterKill \in {"persist", "write"} => holder.op # "shutdown")
    BY DEF AfterKill, Saving
  <1>4. /\ holder' \in Holder /\ holder'.pc = AfterKill /\ holder'.op = holder.op
        /\ holder'.app = holder.app /\ holder'.mail = holder.mail
    BY <1>1, <1>3, GoesOn DEF IInv, TypeOK, Labels
  <1>5. TypeOK'  BY <1>1, <1>2, <1>4 DEF IInv, TypeOK, inner, db
  <1>6. Outstanding' /\ Located' /\ Held' /\ Mail' /\ Planned'
    BY <1>1, <1>3, <1>4, FreeType
    DEF IInv, Outstanding, Registering, Located, Held, Mail, Planned, Begun, Starting, inner
  <1>7. Watched' /\ Down' /\ AllKnown'
    BY <1>1, <1>2 DEF IInv, Watched, Down, AllKnown, Known, Running, Begun, Starting, inner
  <1>8. QED  BY <1>5, <1>6, <1>7 DEF IInv

LEMMA PlanStopAllKeeps == ASSUME IInv, PlanStopAll PROVE IInv'
  <1> DEFINE all     == Remaining(workers, pendingPid)
             adopted == {s[2] : s \in {t \in Remaining(workers, Nobody) : Adopted(t[2])}}
  <1>1. holder.pc = "plan" /\ Running /\ holder.op \in {"off", "shutdown"}
    BY DEF PlanStopAll, At
  <1>2. /\ shutdownRequested' = TRUE /\ teardown' = (teardown \/ holder.op = "shutdown")
        /\ cancelled' = Apps
        /\ workers' = [a \in Apps |-> IF workers[a] \in adopted THEN NoPid ELSE workers[a]]
        /\ stopping' = stopping \cup {s \in all : s[2] \notin adopted}
        /\ token' = [a \in Apps |-> IF pendingPid[a] # NoPid THEN NoPid ELSE token[a]]
        /\ sender' = {a \in sender : pendingPid[a] = NoPid}
        /\ pendingPid' = Nobody
        /\ holder' = [holder EXCEPT !.pc = "kill", !.pids = {s[2] : s \in all},
                                    !.adopted = adopted]
        /\ UNCHANGED <<failures, watch, proc, appOf, db, daemon, starts>>
    BY DEF PlanStopAll
  <1>3. \A b \in Apps : ~Registering(b)
    BY <1>1 DEF IInv, Outstanding, Begun, Starting
  <1>4. all \subseteq Apps \X Pids /\ {s[2] : s \in all} \subseteq Pids /\ adopted \subseteq Pids
    BY DEF Remaining
  <1>5. /\ holder' \in Holder /\ holder'.pc = "kill" /\ holder'.op = holder.op
        /\ holder'.app = holder.app /\ holder'.mail = holder.mail
    BY <1>2, <1>4 DEF IInv, TypeOK, Holder, Labels
  <1>6. workers' \in Sessions /\ token' \in Sessions
    BY <1>2 DEF IInv, TypeOK, Sessions, MaybePid
  <1>7. TypeOK'
    BY <1>2, <1>4, <1>5, <1>6, NobodyType DEF IInv, TypeOK, db
  <1>8. \A b \in Apps : ~Registering(b)'
    BY <1>2, <1>3 DEF Registering, Nobody
  <1>9. Outstanding' /\ Located' /\ Held' /\ Planned'
    BY <1>1, <1>2, <1>5, <1>8
    DEF Outstanding, Registering, Located, Held, Planned, Begun, Starting
  <1>10. Mail'
    BY <1>1, <1>2, <1>5 DEF IInv, Mail, Begun, Starting
  <1>11. Watched' /\ Down'
    BY <1>1, <1>2 DEF IInv, Watched, Down, Alive, Running
  <1>12. AllKnown'
    <2> SUFFICES ASSUME NEW q \in Pids, Alive(q), watch[q].pc = "waiting",
                        <<appOf[q], q>> \notin stopping'
                 PROVE  FALSE
      BY <1>2 DEF AllKnown, Alive
    <2>1. workers[appOf[q]] = q /\ appOf[q] \in Apps
      BY <1>1, <1>2 DEF IInv, AllKnown, Known, Watched, Begun, Starting
    <2>2. q \notin adopted
      <3> SUFFICES ASSUME NEW t \in Remaining(workers, Nobody), Adopted(t[2]), t[2] = q
                   PROVE  FALSE
        OBVIOUS
      <3>1. QED  BY DEF Adopted
    <2>3. <<appOf[q], q>> \in all  BY <2>1 DEF Remaining
    <2>4. QED  BY <1>2, <2>2, <2>3
  <1>13. QED  BY <1>7, <1>9, <1>10, <1>11, <1>12 DEF IInv

----------------------------------------------------------------------------
(* The daemon                                                               *)

LEMMA Forgets ==
    ASSUME IInv, Forget, workers' \in Sessions, cancelled' = {}, UNCHANGED <<appOf, db, starts>>,
           proc' \in [Pids -> {"starting", "serving", "refused", "dead"}],
           \A q \in Pids : Alive(q)' => Alive(q), daemon' \in {"down", "killed"}
    PROVE  IInv'
  <1>1. \A q \in Pids : watch'[q].pc = "none"
    BY NobodyType DEF Forget
  <1>2. TypeOK'
    <2>1. failures' \in 0..MaxFailures  BY BoundAssumption DEF Forget
    <2>2. watch' \in [Pids -> Watch] /\ holder' \in Holder
      BY FreeType, NobodyType DEF Forget
    <2>3. /\ pendingPid' \in Sessions /\ token' \in Sessions /\ sender' \subseteq Apps
          /\ stopping' \subseteq Apps \X Pids
          /\ shutdownRequested' \in BOOLEAN /\ teardown' \in BOOLEAN
      BY NobodyType DEF Forget
    <2>4. appOf' = appOf /\ takeover' = takeover /\ session' = session /\ starts' = starts
      BY DEF db
    <2>5. QED  BY <2>1, <2>2, <2>3, <2>4 DEF IInv, TypeOK
  <1>3. Outstanding' /\ Located' /\ Held' /\ Mail' /\ Planned'
    BY FreeType DEF Forget, Nobody, Outstanding, Registering, Located, Held, Mail, Planned,
                    Begun, Starting
  <1>4. Watched' /\ Down' /\ AllKnown'
    BY <1>1 DEF Forget, IInv, Watched, Down, AllKnown
  <1>5. QED  BY <1>2, <1>3, <1>4 DEF IInv

LEMMA StopsKeep == ASSUME IInv, Exit \/ Killed PROVE IInv'
  <1>1. Forget /\ workers' = Nobody /\ cancelled' = {} /\ UNCHANGED <<appOf, db, starts>>
        /\ daemon' \in {"down", "killed"}
    BY DEF Exit, Killed
  <1>2. proc' \in [Pids -> {"starting", "serving", "refused", "dead"}]
        /\ \A q \in Pids : Alive(q)' => Alive(q)
    BY KillFacts DEF Exit, Killed, Alive, IInv, TypeOK
  <1>3. QED  BY <1>1, <1>2, NobodyType, Forgets

LEMMA StartKeeps == ASSUME IInv, Start PROVE IInv'
  <1>1. holder = Free /\ (\A p \in Pids : watch[p].pc = "none")
    BY DEF Start, IInv, Down
  <1>2. /\ workers' \in Sessions /\ session' \in Sessions /\ takeover' \in [Apps -> BOOLEAN]
        /\ daemon' = "up" /\ starts' = starts + 1 /\ starts < MaxDaemons
        /\ UNCHANGED <<pendingPid, token, sender, stopping, cancelled, failures,
                       shutdownRequested, teardown, holder, watch, proc, appOf>>
    BY DEF Start, IInv, TypeOK, Sessions, MaybePid
  <1>3. TypeOK'
    BY <1>2, BoundAssumption DEF IInv, TypeOK
  <1>4. Outstanding' /\ Located' /\ Held' /\ Mail' /\ Planned'
    BY <1>1, <1>2, FreeType
    DEF IInv, Outstanding, Registering, Located, Held, Mail, Planned, Begun, Starting
  <1>5. Watched' /\ Down' /\ AllKnown'
    BY <1>1, <1>2 DEF IInv, Watched, Down, AllKnown, Alive, Running
  <1>6. QED  BY <1>3, <1>4, <1>5 DEF IInv

----------------------------------------------------------------------------
LEMMA Inductive == IInv /\ [Next]_vars => IInv'
  <1> SUFFICES ASSUME IInv, [Next]_vars PROVE IInv'  OBVIOUS
  <1>1. ASSUME Request \/ Exit \/ Killed \/ Start PROVE IInv'
    BY <1>1, RequestKeeps, StopsKeep, StartKeeps
  <1>2. ASSUME HolderStep PROVE IInv'
    BY <1>2, RequestKeeps, ReuseKeeps, PrepareKeeps, GiveUpKeeps, SpawnKeeps, RecordPidKeeps,
       WaitKeeps, AbandonKeeps, KillStartingKeeps, RegisterKeeps, RowWritten, EndingKeeps,
       EnableFailsKeeps, PlanStopKeeps, ClearKeeps, ClearFailsKeeps, KillPlannedKeeps,
       PlanStopAllKeeps
    DEF HolderStep
  <1>3. ASSUME NEW p \in Pids, WatchStep(p) \/ Worker(p) \/ Crash(p) PROVE IInv'
    BY <1>3, RecordExitKeeps, WatchKeeps, RespawnKeeps, HelloKeeps, DeathKeeps
    DEF WatchStep, Worker
  <1>4. ASSUME UNCHANGED vars PROVE IInv'
    <2>1. TypeOK'  BY <1>4 DEF vars, inner, db, IInv, TypeOK
    <2>2. Outstanding' /\ Located' /\ Held' /\ Mail' /\ Planned'
      BY <1>4 DEF vars, inner, db, IInv, Outstanding, Registering, Located, Held, Mail, Planned,
                  Begun, Starting, Busy, Alive
    <2>3. Watched' /\ Down' /\ AllKnown'
      BY <1>4 DEF vars, inner, db, IInv, Watched, Down, AllKnown, Known, Alive, Running
    <2>4. QED  BY <2>1, <2>2, <2>3 DEF IInv
  <1>5. QED  BY <1>1, <1>2, <1>3, <1>4 DEF Next

\* The invariant that the theorems below rest on.
THEOREM Invariance == Spec => []IInv
  <1>1. QED  BY Initially, Inductive, PTL DEF Spec

\* Every variable of Supervisor has its type; in particular the failures never
\* pass the limit that ends the restarts.
THEOREM TypeCorrect == Spec => []TypeOK
  <1>1. IInv => TypeOK  BY DEF IInv
  <1>2. QED  BY <1>1, Invariance, PTL

\* While ensure_worker_locked has a registration outstanding it holds spawn_lock,
\* and no stop or shutdown is planned.
THEOREM StartsUndisturbed == Spec => []NothingStopsDuringEnsure
  <1>1. IInv => NothingStopsDuringEnsure
    BY DEF IInv, Outstanding, Registering, Located, Held, NothingStopsDuringEnsure, Begun
  <1>2. QED  BY <1>1, Invariance, PTL

\* A running child of the daemon that it did not tell to stop is the registered
\* worker of its application or the one that is being started.
THEOREM WorkersKnown == Spec => []NoStrayWorker
  <1>1. IInv => NoStrayWorker
    BY DEF IInv, AllKnown, Known, NoStrayWorker
  <1>2. QED  BY <1>1, Invariance, PTL

\* Only a new EnsureWorker, or a drop that fails, turns on a route that was
\* dropped: a crashed worker's restart does not.
THEOREM DroppedRoutes == Spec => DroppedStaysOff
  <1> DEFINE Off(a) == /\ takeover'[a] => takeover[a]
                       /\ a \in cancelled' \/ holder.op \in {"ensure", "drop"} \/ ~Running'
  <1>1. ASSUME IInv, [Next]_vars, NEW a \in cancelled PROVE Off(a)
    <2>1. a \in Apps /\ takeover \in [Apps -> BOOLEAN]  BY <1>1 DEF IInv, TypeOK
    <2>2. ASSUME takeover'[a], ~takeover[a] PROVE FALSE
      <3>1. Enable \/ Retake
        BY <1>1, <2>1, <2>2
        DEF Next, vars, db, Request, Ensure, Drop, SetGlobalOff, Shutdown, HolderStep, Refuse,
            Reuse, Prepare, SpawnFails, Spawn, RecordPid, HelloReceived, HelloClosed,
            HelloTimesOut, Abandon, KillStarting, Register, Persist, Write, WriteFails,
            EnableFails, RetakeFails, PlanStop, Clear, ClearFails, ClearIgnored, KillPlanned,
            Finish, ClearAll, PlanStopAll, Restore, Restored, WatchStep, RecordExit,
            WatchPersist, WatchWrite, WatchRestore, Wake, Respawn, Worker, Hello, LeaveRefused,
            Crash, Exit, Killed, Start
      <3>2. holder.app = a  BY <2>1, <2>2, <3>1 DEF Enable, Retake
      <3>3. QED  BY <1>1, <3>1, <3>2 DEF Enable, Retake, At, IInv, Located
    <2>3. ASSUME a \notin cancelled' PROVE holder.op \in {"ensure", "drop"} \/ ~Running'
      <3>1. Reuse \/ Prepare \/ ClearFails \/ Exit \/ Killed
        BY <1>1, <2>1, <2>3
        DEF Next, vars, inner, Request, Ensure, Drop, SetGlobalOff, Shutdown, HolderStep, Refuse,
            SpawnFails, Spawn, RecordPid, HelloReceived, HelloClosed,
            HelloTimesOut, Abandon, KillStarting, Register, Persist, Write, WriteFails, Enable,
            EnableFails, Retake, RetakeFails, PlanStop, Clear, ClearIgnored, KillPlanned,
            Finish, ClearAll, PlanStopAll, Restore, WatchStep, RecordExit,
            WatchPersist, WatchWrite, WatchRestore, Wake, Respawn, Worker, Hello, LeaveRefused,
            Crash, Start
      <3>2. CASE Reuse \/ Prepare
        <4>1. holder.pc = "admit" /\ holder.app = a
          BY <1>1, <2>3, <3>2 DEF Reuse, Prepare, At
        <4>2. QED  BY <1>1, <4>1 DEF IInv, Located
      <3>3. CASE ClearFails  BY <3>3 DEF ClearFails
      <3>4. CASE Exit \/ Killed  BY <3>4 DEF Exit, Killed, Running
      <3>5. QED  BY <3>1, <3>2, <3>3, <3>4
    <2>4. QED  BY <2>1, <2>2, <2>3
  <1>2. IInv /\ [Next]_vars => [\A a \in cancelled : Off(a)]_vars
    BY <1>1
  <1>3. QED  BY <1>2, Invariance, PTL DEF Spec, DroppedStaysOff
=============================================================================
