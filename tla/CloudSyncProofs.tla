--------------------------- MODULE CloudSyncProofs ---------------------------
(***************************************************************************)
(* For any number of devices with one process each: CloudSync implements   *)
(* SnapshotExchange, and its invariants.  What an operation has in hand at *)
(* each step is a snapshot that some device was (Carried), or part of one; *)
(* the manifests that the server holds, or may still receive, name such    *)
(* snapshots (Announces); and the Skills that a restore moved aside are    *)
(* those that the device still counts as having.                           *)
(***************************************************************************)
EXTENDS CloudSync, TLAPS

\* The Skills guard and the restore are one process's: one process on each
\* device, restores that are not cut short, rollbacks that do not fail.
Single ==
    /\ \A p, q \in Procs : Host[p] = Host[q] => p = q
    /\ ~May("midway") /\ ~May("rollback")

Uploading == {"zip"} \cup Sending
Holding   == {"getSkills", "guard"} \cup Locked
Fetched   == {"getDb"} \cup Holding

Snapshot(d, s) == [db |-> d, skills |-> s]

\* What an operation carries, on a device whose Skills directory is `dir'.
Carried(o, dir) ==
    /\ o.pc = "zip" => Snapshot(o.db, dir) \in built
    /\ o.pc \in Sending => Snapshot(o.db, o.skills) \in built
    /\ o.pc \in Fetched => o.man \in built
    /\ o.pc \in Holding => o.db = o.man.db
    /\ o.pc \in {"guard"} \cup Locked => o.skills = o.man.skills
    /\ o.pc \in Locked => o.backup \in Nat
    /\ o.pc = "import" => dir = o.skills
    /\ o.pc # "copy" => dir \in Nat

\* A manifest, on the server or on its way, names a snapshot.
Announces ==
    /\ \A l \in {"current", "legacy", "v1"} : remote[l].manifest \in built \cup {NoManifest}
    /\ late.manifest \subseteq built

\* A layout later than the first release's has a manifest.
Later == remote.current.manifest # NoManifest \/ remote.legacy.manifest # NoManifest

\* What a download found, and what an upload that is alone has sent.
Found(o) ==
    /\ o.pc \in Fetched /\ o.kind # "migrate" => Later
    /\ o.pc = "findLegacy" => o.kind = "download"
    /\ o.pc = "cleanup" => Later

Sent(p) ==
    op[p].alone =>
        /\ op[p].pc \in Uploading /\ late = NoneLate
        /\ \A q \in Procs \ {p} : op[q].pc \notin Uploading
        /\ op[p].pc \in {"putSkills", "putManifest"} => remote.current.db = op[p].db
        /\ op[p].pc = "putManifest" => remote.current.skills = op[p].skills

IInv ==
    /\ TypeOK /\ Announces
    /\ \A d \in Devices : (\A p \in Procs : Host[p] # d) => skills[d] \in Nat
    /\ \A p \in Procs : Carried(op[p], skills[Host[p]]) /\ Found(op[p]) /\ Sent(p)

----------------------------------------------------------------------------
(* The invariant is inductive *)

LEMMA IdleType == Idle \in Op
  BY DEF Idle, Op, Labels, MaybeVersion

LEMMA Initially == Init => IInv
  <1> SUFFICES ASSUME Init PROVE IInv  OBVIOUS
  <1>1. TypeOK
    <2>1. remote \in [{"current", "legacy", "v1"} -> Directory]
      BY DEF Init, First, Whole, Empty, Directory, MaybeVersion, Snapshots
    <2>2. built \subseteq Snapshots  BY DEF Init, First, Snapshots
    <2>3. QED
      BY <2>1, <2>2, IdleType DEF Init, TypeOK, NoneLate, Files, MaybeVersion
  <1>2. Announces
    BY DEF Init, Announces, First, Whole, Empty, NoneLate, Files
  <1>3. \A p \in Procs : Carried(op[p], skills[Host[p]]) /\ Found(op[p]) /\ Sent(p)
    BY HostAssumption DEF Init, Idle, Carried, Found, Sent, Fetched, Holding, Locked, Sending
  <1>4. QED  BY <1>1, <1>2, <1>3 DEF IInv, Init

Same(o, n) ==
    /\ n.pc = o.pc /\ n.kind = o.kind /\ n.layout = o.layout /\ n.man = o.man
    /\ n.db = o.db /\ n.skills = o.skills /\ n.backup = o.backup
    /\ n.alone => o.alone

\* A step of process p preserves the invariant if it does so for p and keeps
\* what the others rely on.
LEMMA Steps ==
    ASSUME Single, IInv, NEW p \in Procs, TypeOK', Announces', built \subseteq built',
           \A q \in Procs \ {p} : Same(op[q], op'[q]),
           \A d \in Devices \ {Host[p]} : skills'[d] = skills[d],
           Later => Later',
           \A q \in Procs \ {p} : op'[q].alone =>
               /\ late' = NoneLate /\ op'[p].pc \notin Uploading
               /\ remote'.current.db = remote.current.db
               /\ remote'.current.skills = remote.current.skills,
           Carried(op[p], skills[Host[p]])', Found(op[p])', Sent(p)'
    PROVE  IInv'
  <1>1. ASSUME NEW q \in Procs
        PROVE  Carried(op[q], skills[Host[q]])' /\ Found(op[q])' /\ Sent(q)'
    <2>1. CASE q = p  BY <2>1
    <2>2. CASE q # p
      <3>1. skills'[Host[q]] = skills[Host[q]]  BY <2>2, HostAssumption DEF Single
      <3>2. Carried(op[q], skills[Host[q]])'
        BY <2>2, <3>1 DEF IInv, Carried, Same
      <3>3. Found(op[q])'  BY <2>2 DEF IInv, Found, Same
      <3>4. Sent(q)'  BY <2>2 DEF IInv, Sent, Same
      <3>5. QED  BY <3>2, <3>3, <3>4
    <2>3. QED  BY <2>1, <2>2
  <1>2. \A d \in Devices : (\A r \in Procs : Host[r] # d) => skills'[d] \in Nat
    BY DEF IInv
  <1>3. QED  BY <1>1, <1>2 DEF IInv
----------------------------------------------------------------------------
(* Each action *)

LEMMA OpType == ASSUME IInv, NEW p \in Procs PROVE op[p] \in Op
  BY DEF IInv, TypeOK

\* One process goes on, with n.
LEMMA Moves ==
    ASSUME IInv, NEW p \in Procs, NEW n \in Op, op' = [op EXCEPT ![p] = n]
    PROVE  /\ op' \in [Procs -> Op] /\ op'[p] = n
           /\ \A q \in Procs \ {p} : op'[q] = op[q] /\ Same(op[q], op'[q])
  BY DEF IInv, TypeOK, Same

Unmoved == UNCHANGED <<db, skills, remote, late, clock, built>>

LEMMA EndKeeps ==
    ASSUME Single, IInv, NEW p \in Procs, End(p), op[p].pc # "copy", Unmoved
    PROVE  IInv'
  <1>1. /\ op' \in [Procs -> Op] /\ op'[p] = Idle
        /\ \A q \in Procs \ {p} : op'[q] = op[q] /\ Same(op[q], op'[q])
    BY Moves, IdleType DEF End
  <1>2. TypeOK' /\ Announces' /\ Later' = Later
    BY <1>1 DEF IInv, TypeOK, Announces, Later, Unmoved
  <1>3. Carried(op[p], skills[Host[p]])'
    BY <1>1 DEF IInv, Carried, Idle, Sending, Fetched, Holding, Locked, Unmoved
  <1>4. Found(op[p])' /\ Sent(p)'
    BY <1>1 DEF Found, Sent, Idle, Fetched, Holding, Locked
  <1>5. \A q \in Procs \ {p} : op'[q].alone => late' = NoneLate
    BY <1>1 DEF IInv, Sent, Unmoved
  <1>6. op'[p].pc \notin Uploading  BY <1>1 DEF Idle, Uploading, Sending
  <1>7. QED  BY <1>1, <1>2, <1>3, <1>4, <1>5, <1>6, Steps DEF Unmoved

LEMMA CrashKeeps == ASSUME Single, IInv, NEW p \in Procs, Crash(p) PROVE IInv'
  BY EndKeeps DEF Crash, Single, Locked, Unmoved

LEMMA FetchFailsKeeps == ASSUME Single, IInv, NEW p \in Procs, FetchFails(p) PROVE IInv'
  BY EndKeeps DEF FetchFails, Fetching, Unmoved

LEMMA RefusedKeeps == ASSUME Single, IInv, NEW p \in Procs, Refused(p) PROVE IInv'
  BY EndKeeps DEF Refused, At, Unmoved

LEMMA UpdateSkillKeeps == ASSUME Single, IInv, NEW p \in Procs, UpdateSkill(p) PROVE IInv'
  <1>1. Host[p] \in Devices  BY HostAssumption
  <1>2. /\ skills'[Host[p]] = clock + 1 /\ clock + 1 \in Nat
        /\ \A d \in Devices \ {Host[p]} : skills'[d] = skills[d]
        /\ db' \in [Devices -> Nat] /\ skills' \in [Devices -> MaybeVersion]
    BY <1>1 DEF UpdateSkill, IInv, TypeOK, MaybeVersion
  <1>3. TypeOK' /\ Announces' /\ Later' = Later
    BY <1>2 DEF UpdateSkill, IInv, TypeOK, Announces, Later
  <1>4. Carried(op[p], skills[Host[p]])'
    BY <1>2 DEF UpdateSkill, IInv, Carried, Locked
  <1>5. Found(op[p])' /\ Sent(p)'  BY DEF UpdateSkill, IInv, Found, Sent, Later
  <1>6. \A q \in Procs \ {p} : /\ Same(op[q], op'[q])
                               /\ op'[q].alone => late' = NoneLate /\ op'[p].pc \notin Uploading
    BY DEF UpdateSkill, IInv, Sent, Same
  <1>7. QED  BY <1>2, <1>3, <1>4, <1>5, <1>6, Steps DEF UpdateSkill

LEMMA EditRowsKeeps == ASSUME IInv, NEW d \in Devices, EditRows(d) PROVE IInv'
  <1>1. TypeOK'  BY DEF EditRows, IInv, TypeOK
  <1>2. Announces'  BY DEF EditRows, IInv, Announces
  <1>3. \A p \in Procs : Carried(op[p], skills[Host[p]])' /\ Found(op[p])' /\ Sent(p)'
    BY DEF EditRows, IInv, Carried, Found, Sent, Later
  <1>4. QED  BY <1>1, <1>2, <1>3 DEF EditRows, IInv

LEMMA ExportDbKeeps == ASSUME Single, IInv, NEW p \in Procs, ExportDb(p) PROVE IInv'
  <1> DEFINE n == [Idle EXCEPT !.pc = "zip", !.db = db[Host[p]], !.alone = Quiet]
  <1>1. Host[p] \in Devices /\ db[Host[p]] \in Nat /\ skills[Host[p]] \in Nat
    BY HostAssumption DEF IInv, TypeOK, Carried, ExportDb
  <1>2. /\ n \in Op /\ n.pc = "zip" /\ n.db = db[Host[p]] /\ n.alone = Quiet
    <2>1. Quiet \in BOOLEAN  BY DEF Quiet
    <2>2. QED  BY <1>1, <2>1 DEF Idle, Op, Labels, MaybeVersion
  <1> HIDE DEF n
  <1>3. /\ op'[p] = n
        /\ \A q \in Procs \ {p} : op'[q] = [op[q] EXCEPT !.alone = FALSE]
    BY DEF ExportDb, n
  <1>4. \A q \in Procs \ {p} : Same(op[q], op'[q]) /\ ~op'[q].alone /\ op'[q] \in Op
    <2> SUFFICES ASSUME NEW q \in Procs \ {p}
                 PROVE  Same(op[q], op'[q]) /\ ~op'[q].alone /\ op'[q] \in Op
      OBVIOUS
    <2>1. op[q] \in Op /\ op'[q] = [op[q] EXCEPT !.alone = FALSE]  BY <1>3, OpType
    <2>2. QED  BY <2>1 DEF Op, Same
  <1>5. op' \in [Procs -> Op]  BY <1>2, <1>3, <1>4 DEF ExportDb
  <1>6. Local(Host[p]) \in Snapshots /\ built' = built \cup {Local(Host[p])}
    BY <1>1 DEF ExportDb, Local, Snapshots
  <1>7. TypeOK' /\ Announces' /\ Later' = Later
    BY <1>5, <1>6 DEF ExportDb, IInv, TypeOK, Announces, Later
  <1>8. Carried(op[p], skills[Host[p]])'
    BY <1>1, <1>2, <1>3, <1>6
    DEF ExportDb, Carried, Snapshot, Local, Sending, Fetched, Holding, Locked
  <1>9. Found(op[p])'  BY <1>2, <1>3 DEF Found, Fetched, Holding, Locked
  <1>10. Sent(p)'
    <2>1. Quiet => late = NoneLate /\ \A q \in Procs \ {p} : op'[q].pc \notin Uploading
      BY <1>4 DEF Quiet, Uploading, Same
    <2>2. QED  BY <1>2, <1>3, <2>1 DEF ExportDb, Sent, Uploading
  <1>11. QED  BY <1>4, <1>6, <1>7, <1>8, <1>9, <1>10, Steps DEF ExportDb

LEMMA ZipSkillsKeeps == ASSUME Single, IInv, NEW p \in Procs, ZipSkills(p) PROVE IInv'
  <1> DEFINE n == [op[p] EXCEPT !.pc = "putDb", !.skills = skills[Host[p]]]
  <1>1. skills[Host[p]] \in Nat  BY DEF IInv, Carried, ZipSkills, At
  <1>2. n \in Op /\ n.pc = "putDb" /\ n.skills = skills[Host[p]] /\ n.db = op[p].db
        /\ n.alone = op[p].alone
    BY <1>1, OpType DEF Op, Labels, Sending, MaybeVersion
  <1>3. op' = [op EXCEPT ![p] = n]  BY DEF ZipSkills
  <1> HIDE DEF n
  <1>4. /\ op' \in [Procs -> Op] /\ op'[p] = n
        /\ \A q \in Procs \ {p} : op'[q] = op[q] /\ Same(op[q], op'[q])
    BY <1>2, <1>3, Moves
  <1>5. TypeOK' /\ Announces' /\ Later' = Later
    BY <1>4 DEF ZipSkills, IInv, TypeOK, Announces, Later
  <1>6. Carried(op[p], skills[Host[p]])'
    <2>1. Snapshot(n.db, n.skills) \in built
      BY <1>2 DEF ZipSkills, At, IInv, Carried
    <2>2. QED
      BY <1>1, <1>2, <1>4, <2>1 DEF ZipSkills, Carried, Fetched, Holding, Locked
  <1>7. Found(op[p])'  BY <1>2, <1>4 DEF Found, Fetched, Holding, Locked
  <1>8. Sent(p)' /\ \A q \in Procs \ {p} : ~op'[q].alone
    BY <1>2, <1>4 DEF ZipSkills, At, IInv, Sent, Uploading, Sending
  <1>9. QED  BY <1>4, <1>5, <1>6, <1>7, <1>8, Steps DEF ZipSkills
LateType == [db : SUBSET Nat, skills : SUBSET MaybeVersion, manifest : SUBSET Snapshots]

\* What a sending process has in hand, and that no other upload is alone.
LEMMA SendingHas ==
    ASSUME IInv, NEW p \in Procs, op[p].pc \in Sending
    PROVE  /\ op[p].db \in Nat /\ op[p].skills \in Nat
           /\ InHand(p) \in built /\ InHand(p) \in Snapshots
           /\ \A q \in Procs \ {p} : ~op[q].alone
  <1>1. Snapshot(op[p].db, op[p].skills) \in built  BY DEF IInv, Carried
  <1>2. Snapshot(op[p].db, op[p].skills) \in Snapshots  BY <1>1 DEF IInv, TypeOK
  <1>3. op[p].db \in Nat /\ op[p].skills \in Nat  BY <1>2 DEF Snapshot, Snapshots
  <1>4. \A q \in Procs \ {p} : ~op[q].alone  BY DEF IInv, Sent, Uploading
  <1>5. QED  BY <1>1, <1>2, <1>3, <1>4 DEF InHand, Snapshot

LEMMA SendEnds ==
    ASSUME Single, IInv, NEW p \in Procs, op[p].pc \in Sending, End(p),
           UNCHANGED <<db, skills, clock, built>>,
           late' \in LateType, late'.manifest \subseteq built,
           remote' \in [{"current", "legacy", "v1"} -> Directory],
           \A l \in {"current", "legacy", "v1"} : remote'[l].manifest \in built \cup {NoManifest},
           Later => Later'
    PROVE  IInv'
  <1>1. /\ op' \in [Procs -> Op] /\ op'[p] = Idle
        /\ \A q \in Procs \ {p} : op'[q] = op[q] /\ Same(op[q], op'[q])
    BY Moves, IdleType DEF End
  <1>2. TypeOK'  BY <1>1 DEF IInv, TypeOK, LateType
  <1>3. Announces'  BY DEF Announces
  <1>4. Carried(op[p], skills[Host[p]])'
    BY <1>1 DEF IInv, Carried, Idle, Sending, Fetched, Holding, Locked
  <1>5. Found(op[p])' /\ Sent(p)'
    BY <1>1 DEF Found, Sent, Idle, Fetched, Holding, Locked
  <1>6. QED  BY <1>1, <1>2, <1>3, <1>4, <1>5, SendingHas, Steps

LEMMA SendGoes ==
    ASSUME Single, IInv, NEW p \in Procs, op[p].pc \in Sending,
           NEW l \in {"putSkills", "putManifest"}, Goto(p, l),
           UNCHANGED <<db, skills, late, clock, built>>,
           remote' \in [{"current", "legacy", "v1"} -> Directory],
           \A r \in {"current", "legacy", "v1"} : remote'[r].manifest = remote[r].manifest,
           op[p].alone => remote'.current.db = op[p].db,
           l = "putManifest" => remote'.current.skills = op[p].skills
    PROVE  IInv'
  <1> DEFINE n == [op[p] EXCEPT !.pc = l]
  <1>1. /\ n \in Op /\ n.pc = l /\ n.alone = op[p].alone
        /\ n.db = op[p].db /\ n.skills = op[p].skills
    BY OpType DEF Op, Labels, Sending
  <1>2. op' = [op EXCEPT ![p] = n]  BY DEF Goto
  <1> HIDE DEF n
  <1>3. /\ op' \in [Procs -> Op] /\ op'[p] = n
        /\ \A q \in Procs \ {p} : op'[q] = op[q] /\ Same(op[q], op'[q])
    BY <1>1, <1>2, Moves
  <1>4. TypeOK' /\ Announces'  BY <1>3 DEF IInv, TypeOK, Announces
  <1>5. Later' = Later  BY DEF Later
  <1>6. Carried(op[p], skills[Host[p]])'
    <2>1. Snapshot(n.db, n.skills) \in built /\ skills[Host[p]] \in Nat
      BY <1>1 DEF IInv, Carried, Sending
    <2>2. QED  BY <1>1, <1>3, <2>1 DEF Carried, Fetched, Holding, Locked
  <1>7. Found(op[p])'  BY <1>1, <1>3 DEF Found, Fetched, Holding, Locked
  <1>8. Sent(p)'
    BY <1>1, <1>3 DEF IInv, Sent, Uploading, Sending
  <1>9. QED  BY <1>3, <1>4, <1>5, <1>6, <1>7, <1>8, SendingHas, Steps

LEMMA PutDbKeeps == ASSUME Single, IInv, NEW p \in Procs, PutDb(p) PROVE IInv'
  <1>1. op[p].pc = "putDb" /\ op[p].pc \in Sending /\ Put(p, "db", op[p].db, "putSkills")
    BY DEF PutDb, At, Sending
  <1>2. op[p].db \in Nat  BY <1>1, SendingHas
  <1>3. UNCHANGED <<db, skills, clock, built>>  BY DEF PutDb
  <1>4. CASE /\ remote' = [remote EXCEPT !.current["db"] = op[p].db]
             /\ Goto(p, "putSkills") /\ UNCHANGED late
    <2>1. /\ remote' \in [{"current", "legacy", "v1"} -> Directory]
          /\ remote'.current.db = op[p].db
          /\ \A r \in {"current", "legacy", "v1"} : remote'[r].manifest = remote[r].manifest
      BY <1>2, <1>4 DEF IInv, TypeOK, Directory, MaybeVersion
    <2>2. QED  BY <1>1, <1>3, <1>4, <2>1, SendGoes
  <1>5. CASE End(p) /\ UNCHANGED <<remote, late>>
    BY <1>1, <1>3, <1>5, SendEnds DEF IInv, TypeOK, LateType, Announces, Later
  <1>6. CASE End(p) /\ late' = [late EXCEPT !["db"] = @ \cup {op[p].db}] /\ UNCHANGED remote
    <2>1. late' \in LateType /\ late'.manifest = late.manifest
      BY <1>2, <1>6 DEF IInv, TypeOK, LateType
    <2>2. QED
      BY <1>1, <1>3, <1>6, <2>1, SendEnds DEF IInv, TypeOK, Announces, Later
  <1>7. QED  BY <1>1, <1>4, <1>5, <1>6 DEF Put

LEMMA PutSkillsKeeps == ASSUME Single, IInv, NEW p \in Procs, PutSkills(p) PROVE IInv'
  <1>1. /\ op[p].pc = "putSkills" /\ op[p].pc \in Sending
        /\ Put(p, "skills", op[p].skills, "putManifest")
    BY DEF PutSkills, At, Sending
  <1>2. op[p].skills \in Nat  BY <1>1, SendingHas
  <1>3. UNCHANGED <<db, skills, clock, built>>  BY DEF PutSkills
  <1>4. CASE /\ remote' = [remote EXCEPT !.current["skills"] = op[p].skills]
             /\ Goto(p, "putManifest") /\ UNCHANGED late
    <2>1. /\ remote' \in [{"current", "legacy", "v1"} -> Directory]
          /\ remote'.current.skills = op[p].skills
          /\ remote'.current.db = remote.current.db
          /\ \A r \in {"current", "legacy", "v1"} : remote'[r].manifest = remote[r].manifest
      BY <1>2, <1>4 DEF IInv, TypeOK, Directory, MaybeVersion
    <2>2. op[p].alone => remote'.current.db = op[p].db
      BY <1>1, <2>1 DEF IInv, Sent
    <2>3. QED  BY <1>1, <1>3, <1>4, <2>1, <2>2, SendGoes
  <1>5. CASE End(p) /\ UNCHANGED <<remote, late>>
    BY <1>1, <1>3, <1>5, SendEnds DEF IInv, TypeOK, LateType, Announces, Later
  <1>6. CASE /\ End(p) /\ late' = [late EXCEPT !["skills"] = @ \cup {op[p].skills}]
             /\ UNCHANGED remote
    <2>1. late' \in LateType /\ late'.manifest = late.manifest
      BY <1>2, <1>6 DEF IInv, TypeOK, LateType, MaybeVersion
    <2>2. QED
      BY <1>1, <1>3, <1>6, <2>1, SendEnds DEF IInv, TypeOK, Announces, Later
  <1>7. QED  BY <1>1, <1>4, <1>5, <1>6 DEF Put

LEMMA PutManifestKeeps == ASSUME Single, IInv, NEW p \in Procs, PutManifest(p) PROVE IInv'
  <1>1. /\ op[p].pc = "putManifest" /\ op[p].pc \in Sending
        /\ Put(p, "manifest", InHand(p), "idle")
    BY DEF PutManifest, At, Sending
  <1>2. InHand(p) \in built /\ InHand(p) \in Snapshots /\ InHand(p) # NoManifest
    BY <1>1, SendingHas, NoneAssumption DEF Snapshots
  <1>3. UNCHANGED <<db, skills, clock, built>>  BY DEF PutManifest
  <1>4. CASE /\ remote' = [remote EXCEPT !.current["manifest"] = InHand(p)]
             /\ End(p) /\ UNCHANGED late
    <2>1. /\ remote' \in [{"current", "legacy", "v1"} -> Directory]
          /\ remote'.current.manifest = InHand(p)
          /\ \A r \in {"legacy", "v1"} : remote'[r] = remote[r]
      BY <1>2, <1>4 DEF IInv, TypeOK, Directory
    <2>2. QED
      BY <1>1, <1>2, <1>3, <1>4, <2>1, SendEnds DEF IInv, TypeOK, LateType, Announces, Later
  <1>5. CASE End(p) /\ UNCHANGED <<remote, late>>
    BY <1>1, <1>3, <1>5, SendEnds DEF IInv, TypeOK, LateType, Announces, Later
  <1>6. CASE /\ End(p) /\ late' = [late EXCEPT !["manifest"] = @ \cup {InHand(p)}]
             /\ UNCHANGED remote
    <2>1. late' \in LateType /\ late'.manifest = late.manifest \cup {InHand(p)}
      BY <1>2, <1>6 DEF IInv, TypeOK, LateType
    <2>2. QED
      BY <1>1, <1>2, <1>3, <1>6, <2>1, SendEnds DEF IInv, TypeOK, Announces, Later
  <1>7. QED  BY <1>1, <1>4, <1>5, <1>6 DEF Put

LEMMA LandKeeps == ASSUME IInv, NEW file \in Files, Land(file) PROVE IInv'
  <1>1. PICK c \in late[file] :
            /\ late' = [late EXCEPT ![file] = @ \ {c}]
            /\ remote' = [remote EXCEPT !.current[file] = c]
    BY DEF Land
  <1>2. /\ late' \in LateType /\ late'.manifest \subseteq late.manifest
        /\ remote' \in [{"current", "legacy", "v1"} -> Directory]
        /\ \A l \in {"current", "legacy", "v1"} :
               remote'[l].manifest \in {remote[l].manifest} \cup late.manifest
    <2>1. CASE file = "db"
      BY <1>1, <2>1 DEF IInv, TypeOK, LateType, Directory, MaybeVersion
    <2>2. CASE file = "skills"
      BY <1>1, <2>2 DEF IInv, TypeOK, LateType, Directory
    <2>3. CASE file = "manifest"
      BY <1>1, <2>3 DEF IInv, TypeOK, LateType, Directory
    <2>4. QED  BY <2>1, <2>2, <2>3 DEF Files
  <1>3. TypeOK'  BY <1>2 DEF Land, IInv, TypeOK, LateType
  <1>4. Announces'  BY <1>2 DEF Land, IInv, Announces
  <1>5. late.manifest \subseteq Snapshots /\ NoManifest \notin Snapshots
    BY NoneAssumption DEF IInv, TypeOK, Snapshots
  <1>6. Later => Later'  BY <1>2, <1>5 DEF Later
  <1>7. \A q \in Procs : ~op[q].alone
    BY <1>1 DEF IInv, Sent, NoneLate
  <1>8. \A q \in Procs : Carried(op[q], skills[Host[q]])' /\ Found(op[q])' /\ Sent(q)'
    BY <1>6, <1>7 DEF Land, IInv, Carried, Found, Sent
  <1>9. QED  BY <1>3, <1>4, <1>8 DEF Land, IInv
----------------------------------------------------------------------------
(* Downloads *)

LEMMA FetchGoes ==
    ASSUME Single, IInv, NEW p \in Procs, NEW n \in Op, op' = [op EXCEPT ![p] = n],
           n.pc \notin Uploading, ~n.alone,
           UNCHANGED <<late, clock, built>>,
           remote' \in [{"current", "legacy", "v1"} -> Directory],
           remote'.current = remote.current /\ remote'.legacy = remote.legacy,
           remote'.v1.manifest \in {remote.v1.manifest, NoManifest},
           db' \in [Devices -> Nat], skills' \in [Devices -> MaybeVersion],
           \A d \in Devices \ {Host[p]} : skills'[d] = skills[d],
           Carried(n, skills'[Host[p]]), Found(n)
    PROVE  IInv'
  <1>1. /\ op' \in [Procs -> Op] /\ op'[p] = n
        /\ \A q \in Procs \ {p} : op'[q] = op[q] /\ Same(op[q], op'[q])
    BY Moves
  <1>2. TypeOK' /\ Announces'  BY <1>1 DEF IInv, TypeOK, Announces
  <1>3. Later' = Later  BY DEF Later
  <1>4. Carried(op[p], skills[Host[p]])' /\ Found(op[p])'
    BY <1>1, <1>3 DEF Carried, Found
  <1>5. Sent(p)'  BY <1>1 DEF Sent
  <1>6. \A q \in Procs \ {p} : op'[q].alone => late' = NoneLate
    BY <1>1 DEF IInv, Sent
  <1>7. QED  BY <1>1, <1>2, <1>3, <1>4, <1>5, <1>6, Steps

\* FetchGoes for a step that touches nothing else.
LEMMA FetchKeeps ==
    ASSUME Single, IInv, NEW p \in Procs, NEW n \in Op, op' = [op EXCEPT ![p] = n],
           n.pc \notin Uploading, ~n.alone, Unmoved,
           Carried(n, skills[Host[p]]), Found(n)
    PROVE  IInv'
  BY FetchGoes DEF IInv, TypeOK, Unmoved

LEMMA OwnSkills == ASSUME IInv, NEW p \in Procs, op[p].pc # "copy" PROVE skills[Host[p]] \in Nat
  BY DEF IInv, Carried

LEMMA NotAlone == ASSUME IInv, NEW p \in Procs, op[p].pc \notin Uploading PROVE ~op[p].alone
  BY DEF IInv, Sent

LEMMA ReadsKeeps ==
    ASSUME Single, IInv, NEW p \in Procs, NEW kind \in {"download", "migrate"},
           NEW layout \in {"current", "legacy", "v1"}, Reads(p, kind, layout),
           remote[layout].manifest # NoManifest, layout = "v1" => kind = "migrate",
           op[p].pc # "copy", Unmoved
    PROVE  IInv'
  <1> DEFINE n == [Idle EXCEPT !.pc = "getDb", !.kind = kind, !.layout = layout,
                               !.man = remote[layout].manifest]
  <1>1. remote[layout].manifest \in Snapshots /\ remote[layout].manifest \in built
    BY DEF IInv, TypeOK, Announces
  <1>2. n \in Op /\ n.pc = "getDb" /\ n.kind = kind /\ n.man \in built /\ ~n.alone
    BY <1>1 DEF Idle, Op, Labels, Fetching, MaybeVersion
  <1>3. op' = [op EXCEPT ![p] = n]  BY DEF Reads
  <1> HIDE DEF n
  <1>4. Carried(n, skills[Host[p]])
    BY <1>2, OwnSkills DEF Carried, Sending, Holding, Locked
  <1>5. Found(n)  BY <1>2 DEF Found, Later
  <1>6. n.pc \notin Uploading  BY <1>2 DEF Uploading, Sending
  <1>7. QED  BY <1>2, <1>3, <1>4, <1>5, <1>6, FetchKeeps

LEMMA FindCurrentKeeps == ASSUME Single, IInv, NEW p \in Procs, FindCurrent(p) PROVE IInv'
  <1>1. op[p].pc = "idle" /\ Unmoved  BY DEF FindCurrent, At, Unmoved
  <1>2. CASE remote.current.manifest # NoManifest
    BY <1>1, <1>2, ReadsKeeps DEF FindCurrent
  <1>3. CASE remote.current.manifest = NoManifest
    <2> DEFINE n == [op[p] EXCEPT !.pc = "findLegacy", !.kind = "download"]
    <2>1. n \in Op /\ n.pc = "findLegacy" /\ n.kind = "download" /\ n.alone = op[p].alone
      BY OpType DEF Op, Labels, Fetching
    <2>2. op' = [op EXCEPT ![p] = n]  BY <1>3 DEF FindCurrent
    <2> HIDE DEF n
    <2>3. Carried(n, skills[Host[p]]) /\ Found(n)
      BY <1>1, <2>1, OwnSkills DEF Carried, Found, Sending, Fetched, Holding, Locked
    <2>4. n.pc \notin Uploading /\ op[p].pc \notin Uploading
      BY <1>1, <2>1 DEF Uploading, Sending
    <2>5. QED  BY <1>1, <2>1, <2>2, <2>3, <2>4, NotAlone, FetchKeeps
  <1>4. QED  BY <1>2, <1>3

LEMMA FindLegacyKeeps == ASSUME Single, IInv, NEW p \in Procs, FindLegacy(p) PROVE IInv'
  <1>1. op[p].pc = "findLegacy" /\ Unmoved  BY DEF FindLegacy, At, Unmoved
  <1>2. CASE remote.legacy.manifest # NoManifest
    BY <1>1, <1>2, ReadsKeeps DEF FindLegacy
  <1>3. CASE remote.legacy.manifest = NoManifest
    BY <1>1, <1>3, EndKeeps DEF FindLegacy
  <1>4. QED  BY <1>2, <1>3

LEMMA StartMigrationKeeps == ASSUME Single, IInv, NEW p \in Procs, StartMigration(p) PROVE IInv'
  BY ReadsKeeps DEF StartMigration, At, Unmoved

LEMMA GetDbKeeps == ASSUME Single, IInv, NEW p \in Procs, GetDb(p) PROVE IInv'
  <1>1. /\ op[p].pc = "getDb" /\ Unmoved
        /\ op[p].pc \in Fetched /\ op[p].pc \notin Uploading
    BY DEF GetDb, At, Get, Unmoved, Fetched, Uploading, Sending
  <1>2. CASE Verified(p, "db")
    <2> DEFINE n == [op[p] EXCEPT !.pc = "getSkills", !.db = remote[op[p].layout].db]
    <2>1. op[p].man \in built /\ op[p].man \in Snapshots
      BY <1>1 DEF IInv, TypeOK, Carried
    <2>2. remote[op[p].layout].db = op[p].man.db  BY <1>2 DEF Verified
    <2>3. /\ n \in Op /\ n.pc = "getSkills" /\ n.db = op[p].man.db
          /\ n.man = op[p].man /\ n.alone = op[p].alone /\ n.kind = op[p].kind
      BY <2>1, <2>2, OpType DEF Op, Labels, Locked, Fetching, Snapshots, MaybeVersion
    <2>4. op' = [op EXCEPT ![p] = n]  BY <1>2 DEF GetDb, Get
    <2> HIDE DEF n
    <2>5. Carried(n, skills[Host[p]])
      BY <1>1, <2>1, <2>3, OwnSkills DEF Carried, Sending, Locked
    <2>6. Found(n)  BY <1>1, <2>3 DEF IInv, Found
    <2>7. n.pc \notin Uploading  BY <2>3 DEF Uploading, Sending
    <2>8. QED  BY <1>1, <2>3, <2>4, <2>5, <2>6, <2>7, NotAlone, FetchKeeps
  <1>3. CASE ~Verified(p, "db")  BY <1>1, <1>3, EndKeeps DEF GetDb, Get
  <1>4. QED  BY <1>2, <1>3

LEMMA GetSkillsKeeps == ASSUME Single, IInv, NEW p \in Procs, GetSkills(p) PROVE IInv'
  <1>1. /\ op[p].pc = "getSkills" /\ Unmoved
        /\ op[p].pc \in Fetched /\ op[p].pc \in Holding /\ op[p].pc \notin Uploading
    BY DEF GetSkills, At, Get, Unmoved, Fetched, Holding, Uploading, Sending
  <1>2. CASE Verified(p, "skills")
    <2> DEFINE n == [op[p] EXCEPT !.pc = "guard", !.skills = remote[op[p].layout].skills]
    <2>1. op[p].man \in built /\ op[p].man \in Snapshots /\ op[p].db = op[p].man.db
      BY <1>1 DEF IInv, TypeOK, Carried
    <2>2. remote[op[p].layout].skills = op[p].man.skills  BY <1>2 DEF Verified
    <2>3. /\ n \in Op /\ n.pc = "guard" /\ n.skills = op[p].man.skills /\ n.db = op[p].db
          /\ n.man = op[p].man /\ n.alone = op[p].alone /\ n.kind = op[p].kind
      BY <2>1, <2>2, OpType DEF Op, Labels, Locked, Fetching, Snapshots, MaybeVersion
    <2>4. op' = [op EXCEPT ![p] = n]  BY <1>2 DEF GetSkills, Get
    <2> HIDE DEF n
    <2>5. Carried(n, skills[Host[p]])
      BY <1>1, <2>1, <2>3, OwnSkills DEF Carried, Sending, Locked
    <2>6. Found(n)  BY <1>1, <2>3 DEF IInv, Found
    <2>7. n.pc \notin Uploading  BY <2>3 DEF Uploading, Sending
    <2>8. QED  BY <1>1, <2>3, <2>4, <2>5, <2>6, <2>7, NotAlone, FetchKeeps
  <1>3. CASE ~Verified(p, "skills")  BY <1>1, <1>3, EndKeeps DEF GetSkills, Get
  <1>4. QED  BY <1>2, <1>3
----------------------------------------------------------------------------
(* Restores *)

\* What a restore changes on its own device, and what it leaves on the others.
LEMMA Become ==
    ASSUME IInv, NEW p \in Procs, NEW v \in MaybeVersion, SkillsBecome(p, v)
    PROVE  /\ skills' \in [Devices -> MaybeVersion] /\ skills'[Host[p]] = v
           /\ \A d \in Devices \ {Host[p]} : skills'[d] = skills[d]
  BY HostAssumption DEF IInv, TypeOK, SkillsBecome

\* What a process that restores has in hand.
LEMMA LockedHas ==
    ASSUME IInv, NEW p \in Procs, op[p].pc \in {"guard"} \cup Locked
    PROVE  /\ op[p].man \in built /\ op[p].man \in Snapshots
           /\ op[p].db = op[p].man.db /\ op[p].skills = op[p].man.skills
           /\ op[p].db \in Nat /\ op[p].skills \in Nat
           /\ ~op[p].alone
           /\ op[p].kind # "migrate" => Later
           /\ op[p].pc \in Locked => op[p].backup \in Nat
           /\ op[p].pc = "import" => skills[Host[p]] = op[p].skills
  <1>1. op[p].pc \in Holding /\ op[p].pc \in Fetched /\ op[p].pc \notin Uploading
    BY DEF Holding, Fetched, Locked, Uploading, Sending
  <1>2. op[p].man \in built /\ op[p].man \in Snapshots
    BY <1>1 DEF IInv, TypeOK, Carried
  <1>3. op[p].db = op[p].man.db /\ op[p].skills = op[p].man.skills
    BY <1>1 DEF IInv, Carried
  <1>4. QED  BY <1>1, <1>2, <1>3, NotAlone DEF IInv, Carried, Found, Snapshots

LEMMA MoveAsideKeeps == ASSUME Single, IInv, NEW p \in Procs, MoveAside(p) PROVE IInv'
  <1> DEFINE n == [op[p] EXCEPT !.pc = "copy", !.backup = skills[Host[p]]]
  <1>1. op[p].pc = "guard" /\ skills[Host[p]] \in Nat
    BY OwnSkills DEF MoveAside, At
  <1>2. /\ n \in Op /\ n.pc = "copy" /\ n.backup = skills[Host[p]] /\ n.kind = op[p].kind
        /\ n.db = op[p].db /\ n.skills = op[p].skills /\ n.man = op[p].man
        /\ n.alone = op[p].alone
    BY <1>1, OpType DEF Op, Labels, Locked, MaybeVersion
  <1>3. op' = [op EXCEPT ![p] = n]  BY DEF MoveAside
  <1> HIDE DEF n
  <1>4. Carried(n, NoVersion) /\ Found(n) /\ n.pc \notin Uploading /\ ~n.alone
    BY <1>1, <1>2, LockedHas DEF Carried, Found, Sending, Uploading
  <1>5. NoVersion \in MaybeVersion  BY DEF MaybeVersion
  <1>6. UNCHANGED <<db, remote, late, clock, built>> /\ SkillsBecome(p, NoVersion)
    BY DEF MoveAside
  <1>7. /\ skills' \in [Devices -> MaybeVersion] /\ skills'[Host[p]] = NoVersion
        /\ \A d \in Devices \ {Host[p]} : skills'[d] = skills[d]
    BY <1>5, <1>6, Become
  <1>8. QED  BY <1>2, <1>3, <1>4, <1>6, <1>7, FetchGoes DEF IInv, TypeOK

LEMMA CopySkillsKeeps == ASSUME Single, IInv, NEW p \in Procs, CopySkills(p) PROVE IInv'
  <1> DEFINE n == [op[p] EXCEPT !.pc = "import"]
  <1>1. op[p].pc = "copy" /\ op[p].pc \in Locked  BY DEF CopySkills, At, Locked
  <1>2. /\ n \in Op /\ n.pc = "import" /\ n.backup = op[p].backup /\ n.kind = op[p].kind
        /\ n.db = op[p].db /\ n.skills = op[p].skills /\ n.man = op[p].man
        /\ n.alone = op[p].alone
    BY OpType DEF Op, Labels, Locked
  <1>3. op' = [op EXCEPT ![p] = n]  BY DEF CopySkills, Goto
  <1> HIDE DEF n
  <1>4. Carried(n, op[p].skills) /\ Found(n) /\ n.pc \notin Uploading /\ ~n.alone
    BY <1>1, <1>2, LockedHas DEF Carried, Found, Sending, Uploading
  <1>5. op[p].skills \in MaybeVersion  BY <1>1, LockedHas DEF MaybeVersion
  <1>6. UNCHANGED <<db, remote, late, clock, built>> /\ SkillsBecome(p, op[p].skills)
    BY DEF CopySkills
  <1>7. QED  BY <1>2, <1>3, <1>4, <1>5, <1>6, Become, FetchGoes DEF IInv, TypeOK

LEMMA IdleCarries ==
    ASSUME NEW v \in Nat PROVE Carried(Idle, v) /\ Found(Idle) /\ Idle.pc \notin Uploading /\ ~Idle.alone
  BY DEF Idle, Carried, Found, Sending, Fetched, Holding, Locked, Uploading

LEMMA PutBackKeeps ==
    ASSUME Single, IInv, NEW p \in Procs, op[p].pc \in Locked, PutBack(p),
           UNCHANGED <<db, remote, late, clock, built>>
    PROVE  IInv'
  <1>1. op[p].backup \in Nat /\ op[p].backup \in MaybeVersion
    BY LockedHas DEF MaybeVersion
  <1>2. op' = [op EXCEPT ![p] = Idle] /\ SkillsBecome(p, op[p].backup)
    BY DEF PutBack, End
  <1>3. QED  BY <1>1, <1>2, IdleType, IdleCarries, Become, FetchGoes DEF IInv, TypeOK

LEMMA RestoreFailsKeeps == ASSUME Single, IInv, NEW p \in Procs, RestoreFails(p) PROVE IInv'
  BY PutBackKeeps DEF RestoreFails, At, Locked

LEMMA ImportFailsKeeps == ASSUME Single, IInv, NEW p \in Procs, ImportFails(p) PROVE IInv'
  BY PutBackKeeps DEF ImportFails, At, Locked, Single

LEMMA ImportKeeps == ASSUME Single, IInv, NEW p \in Procs, Import(p) PROVE IInv'
  <1> DEFINE n == [Idle EXCEPT !.pc = IF op[p].kind = "migrate" THEN "export" ELSE "cleanup"]
  <1>1. op[p].pc = "import" /\ op[p].pc \in Locked  BY DEF Import, At, Locked
  <1>2. /\ n \in Op /\ n.pc \in {"export", "cleanup"} /\ ~n.alone
        /\ n.pc = "cleanup" => op[p].kind # "migrate"
    BY DEF Idle, Op, Labels, MaybeVersion
  <1>3. op' = [op EXCEPT ![p] = n]  BY DEF Import
  <1> HIDE DEF n
  <1>4. skills[Host[p]] \in Nat /\ op[p].db \in Nat  BY <1>1, LockedHas
  <1>5. Carried(n, skills[Host[p]]) /\ Found(n) /\ n.pc \notin Uploading
    BY <1>1, <1>2, <1>4, LockedHas
    DEF Carried, Found, Sending, Uploading, Fetched, Holding, Locked
  <1>6. db' \in [Devices -> Nat]  BY <1>4 DEF Import, IInv, TypeOK
  <1>7. UNCHANGED <<skills, remote, late, clock, built>>  BY DEF Import
  <1>8. QED  BY <1>2, <1>3, <1>5, <1>6, <1>7, FetchGoes DEF IInv, TypeOK

LEMMA CleanupV1Keeps == ASSUME Single, IInv, NEW p \in Procs, CleanupV1(p) PROVE IInv'
  <1>1. op[p].pc = "cleanup" /\ skills[Host[p]] \in Nat
    BY OwnSkills DEF CleanupV1, At
  <1>2. op' = [op EXCEPT ![p] = Idle]  BY DEF CleanupV1, End
  <1>3. Empty \in Directory /\ Empty.manifest = NoManifest
    BY DEF Empty, Directory, MaybeVersion
  <1>4. /\ remote' \in [{"current", "legacy", "v1"} -> Directory]
        /\ remote'.current = remote.current /\ remote'.legacy = remote.legacy
        /\ remote'.v1.manifest \in {remote.v1.manifest, NoManifest}
    BY <1>3 DEF CleanupV1, IInv, TypeOK
  <1>5. UNCHANGED <<db, skills, late, clock, built>>  BY DEF CleanupV1
  <1>6. QED
    BY <1>1, <1>2, <1>4, <1>5, IdleType, IdleCarries, FetchGoes DEF IInv, TypeOK

----------------------------------------------------------------------------
(* The invariants *)

LEMMA Inductive == ASSUME Single PROVE IInv /\ [Next]_vars => IInv'
  <1> SUFFICES ASSUME IInv, [Next]_vars PROVE IInv'  OBVIOUS
  <1>1. CASE UNCHANGED vars
    BY <1>1 DEF vars, IInv, TypeOK, Announces, Carried, Found, Sent, Later
  <1>2. ASSUME NEW p \in Procs, Upload(p) PROVE IInv'
    BY <1>2, ExportDbKeeps, ZipSkillsKeeps, PutDbKeeps, PutSkillsKeeps, PutManifestKeeps
    DEF Upload
  <1>3. ASSUME NEW p \in Procs, Fetch(p) PROVE IInv'
    BY <1>3, FindCurrentKeeps, FindLegacyKeeps, StartMigrationKeeps, GetDbKeeps,
       GetSkillsKeeps, FetchFailsKeeps, RefusedKeeps DEF Fetch
  <1>4. ASSUME NEW p \in Procs, Apply(p) PROVE IInv'
    BY <1>4, MoveAsideKeeps, CopySkillsKeeps, RestoreFailsKeeps, ImportKeeps,
       ImportFailsKeeps, CleanupV1Keeps DEF Apply
  <1>5. ASSUME NEW p \in Procs, UpdateSkill(p) \/ Crash(p) PROVE IInv'
    BY <1>5, UpdateSkillKeeps, CrashKeeps
  <1>6. QED
    BY <1>1, <1>2, <1>3, <1>4, <1>5, EditRowsKeeps, LandKeeps DEF Next

\* The invariant that the theorems below rest on.
THEOREM Invariance == ASSUME Single PROVE Spec => []IInv
  <1>1. Init => IInv  BY Initially
  <1>2. IInv /\ [Next]_vars => IInv'  BY Inductive
  <1>3. QED  BY <1>1, <1>2, PTL DEF Spec

\* Every variable of CloudSync has its type; in particular no upload packs a
\* Skills directory that a restore has moved aside.
THEOREM TypeCorrect == ASSUME Single PROVE Spec => []TypeOK
  <1>1. IInv => TypeOK  BY DEF IInv
  <1>2. QED  BY <1>1, Invariance, PTL

\* The artifacts of an upload that no other overlaps are on the server when its
\* manifest is written.
THEOREM ArtifactsFirst == ASSUME Single PROVE Spec => []AnnouncedIsReady
  <1>1. IInv => AnnouncedIsReady
    BY DEF IInv, Sent, AnnouncedIsReady, At
  <1>2. QED  BY <1>1, Invariance, PTL

\* The first release's data is deleted only after a later layout has a manifest.
THEOREM OldDataLast == ASSUME Single PROVE Spec => V1OutlivesMigration
  <1> DEFINE Outlives ==
             remote.v1 # Empty /\ remote'.v1 = Empty =>
                 remote.current.manifest # NoManifest \/ remote.legacy.manifest # NoManifest
  <1>1. ASSUME IInv, [Next]_vars PROVE Outlives \/ UNCHANGED vars
    <2>1. ASSUME NEW p \in Procs, CleanupV1(p) PROVE Outlives
      BY <1>1, <2>1 DEF IInv, Found, Later, CleanupV1, At
    <2>2. ASSUME remote'.v1 = remote.v1 PROVE Outlives  BY <2>2
    <2>3. ASSUME NEW p \in Procs, PutDb(p) \/ PutSkills(p) \/ PutManifest(p)
          PROVE  remote'.v1 = remote.v1
      BY <1>1, <2>3 DEF IInv, TypeOK, PutDb, PutSkills, PutManifest, Put
    <2>4. ASSUME NEW file \in Files, Land(file) PROVE remote'.v1 = remote.v1
      BY <1>1, <2>4 DEF IInv, TypeOK, Land
    <2>5. ASSUME UNCHANGED remote PROVE Outlives  BY <2>2, <2>5
    <2>6. QED
      BY <1>1, <2>1, <2>2, <2>3, <2>4, <2>5
      DEF Next, Upload, Fetch, Apply, UpdateSkill, Crash, EditRows, ExportDb, ZipSkills,
          FindCurrent, FindLegacy, StartMigration, GetDb, GetSkills, Get, FetchFails,
          Refused, MoveAside, CopySkills, RestoreFails, Import, ImportFails
  <1>2. QED  BY <1>1, Invariance, PTL DEF Spec, V1OutlivesMigration
----------------------------------------------------------------------------
(* CloudSync implements SnapshotExchange *)

\* A device's state is its rows and its Skills, or those that the one process
\* on it would put back.
Kept(p) == IF op[p].pc \in Locked THEN op[p].backup ELSE skills[Host[p]]

LEMMA OwnState ==
    ASSUME Single, NEW p \in Procs
    PROVE  /\ State[Host[p]] = [db |-> db[Host[p]], skills |-> Kept(p)]
           /\ (State[Host[p]] = [db |-> db[Host[p]], skills |-> Kept(p)])'
  <1>1. Host[p] \in Devices /\ \A q \in Procs : Host[q] = Host[p] => q = p
    BY HostAssumption DEF Single
  <1>2. Restoring(Host[p]) = IF op[p].pc \in Locked THEN {p} ELSE {}
    BY <1>1 DEF Restoring
  <1>3. (Restoring(Host[p]) = IF op[p].pc \in Locked THEN {p} ELSE {})'
    BY <1>1 DEF Restoring
  <1>4. QED  BY <1>1, <1>2, <1>3 DEF State, Kept

LEMMA OtherStates ==
    ASSUME Single, NEW p \in Procs, \A q \in Procs \ {p} : Same(op[q], op'[q]),
           NEW d \in Devices, d # Host[p], skills'[d] = skills[d], db'[d] = db[d]
    PROVE  State'[d] = State[d]
  <1>1. Restoring(d)' = Restoring(d)  BY DEF Restoring, Same
  <1>2. \A q \in Restoring(d) : op'[q].backup = op[q].backup
    BY DEF Restoring, Same
  <1>3. CASE Restoring(d) = {}  BY <1>1, <1>3 DEF State
  <1>4. CASE Restoring(d) # {}
    <2>1. (CHOOSE q \in Restoring(d) : TRUE) \in Restoring(d)  BY <1>4
    <2>2. QED  BY <1>1, <1>2, <1>4, <2>1 DEF State
  <1>5. QED  BY <1>3, <1>4

\* A step of p that leaves its device's rows and Skills is a stutter.
LEMMA Stutters ==
    ASSUME Single, NEW p \in Procs, \A q \in Procs \ {p} : Same(op[q], op'[q]),
           UNCHANGED <<db, clock, built>>,
           \A d \in Devices \ {Host[p]} : skills'[d] = skills[d],
           Kept(p)' = Kept(p)
    PROVE  UNCHANGED Exchange!vars
  <1>1. \A d \in Devices : State'[d] = State[d]
    BY OwnState, OtherStates
  <1>2. State' = State  BY <1>1 DEF State
  <1>3. QED  BY <1>2 DEF Exchange!vars

LEMMA InitImplements == Init => Exchange!Init
  <1> SUFFICES ASSUME Init PROVE Exchange!Init  OBVIOUS
  <1>1. \A d \in Devices : Restoring(d) = {}  BY DEF Init, Restoring, Idle, Locked
  <1>2. State = [d \in Devices |-> [db |-> 0, skills |-> 0]]  BY <1>1 DEF Init, State
  <1>3. built \subseteq Exchange!Snapshots /\ clock \in Nat
        /\ \A s \in built : s.db <= clock /\ s.skills <= clock
    BY DEF Init, First, Exchange!Snapshots
  <1>4. QED  BY <1>2, <1>3 DEF Exchange!Init
LEMMA Passes ==
    ASSUME Single, NEW p \in Procs, \A q \in Procs \ {p} : Same(op[q], op'[q]),
           UNCHANGED <<db, skills, clock, built>>,
           op[p].pc \notin Locked, op'[p].pc \notin Locked
    PROVE  UNCHANGED Exchange!vars
  BY Stutters DEF Kept

LEMMA Ends ==
    ASSUME Single, IInv, NEW p \in Procs, End(p), op[p].pc \notin Locked,
           UNCHANGED <<db, skills, clock, built>>
    PROVE  UNCHANGED Exchange!vars
  <1>1. op'[p].pc \notin Locked /\ \A q \in Procs \ {p} : Same(op[q], op'[q])
    BY Moves, IdleType DEF End, Idle, Locked
  <1>2. QED  BY <1>1, Passes

LEMMA Goes ==
    ASSUME Single, IInv, NEW p \in Procs, NEW n \in Op, op' = [op EXCEPT ![p] = n],
           op[p].pc \notin Locked, n.pc \notin Locked,
           UNCHANGED <<db, skills, clock, built>>
    PROVE  UNCHANGED Exchange!vars
  BY Moves, Passes

LEMMA SendImplements ==
    ASSUME Single, IInv, NEW p \in Procs, PutDb(p) \/ PutSkills(p) \/ PutManifest(p)
    PROVE  UNCHANGED Exchange!vars
  <1>1. op[p].pc \notin Locked /\ UNCHANGED <<db, skills, clock, built>>
    BY DEF PutDb, PutSkills, PutManifest, At, Locked
  <1>2. End(p) \/ Goto(p, "putSkills") \/ Goto(p, "putManifest")
    BY DEF PutDb, PutSkills, PutManifest, Put
  <1>3. ASSUME NEW l \in {"putSkills", "putManifest"}, Goto(p, l)
        PROVE  UNCHANGED Exchange!vars
    <2> DEFINE n == [op[p] EXCEPT !.pc = l]
    <2>1. n \in Op /\ n.pc \notin Locked  BY OpType DEF Op, Labels, Sending, Locked
    <2>2. op' = [op EXCEPT ![p] = n]  BY <1>3 DEF Goto
    <2> HIDE DEF n
    <2>3. QED  BY <1>1, <2>1, <2>2, Goes
  <1>4. QED  BY <1>1, <1>2, <1>3, Ends

LEMMA ZipImplements ==
    ASSUME Single, IInv, NEW p \in Procs, ZipSkills(p) PROVE UNCHANGED Exchange!vars
  <1> DEFINE n == [op[p] EXCEPT !.pc = "putDb", !.skills = skills[Host[p]]]
  <1>1. skills[Host[p]] \in MaybeVersion  BY HostAssumption DEF IInv, TypeOK
  <1>2. n \in Op /\ n.pc \notin Locked
    BY <1>1, OpType DEF Op, Labels, Sending, Locked
  <1>3. op' = [op EXCEPT ![p] = n]  BY DEF ZipSkills
  <1> HIDE DEF n
  <1>4. op[p].pc \notin Locked /\ UNCHANGED <<db, skills, clock, built>>
    BY DEF ZipSkills, At, Locked
  <1>5. QED  BY <1>2, <1>3, <1>4, Goes

LEMMA FetchImplements ==
    ASSUME Single, IInv, NEW p \in Procs, Fetch(p) PROVE UNCHANGED Exchange!vars
  <1>1. op[p].pc \notin Locked /\ UNCHANGED <<db, skills, clock, built>>
    BY DEF Fetch, FindCurrent, FindLegacy, StartMigration, GetDb, GetSkills, Get, FetchFails,
           Refused, At, Fetching, Locked
  <1>2. CASE End(p)  BY <1>1, <1>2, Ends
  <1>3. ASSUME NEW kind \in {"download", "migrate"},
               NEW layout \in {"current", "legacy", "v1"}, Reads(p, kind, layout)
        PROVE  UNCHANGED Exchange!vars
    <2> DEFINE n == [Idle EXCEPT !.pc = "getDb", !.kind = kind, !.layout = layout,
                                 !.man = remote[layout].manifest]
    <2>1. remote[layout].manifest \in Snapshots \cup {NoManifest}
      BY DEF IInv, TypeOK, Directory
    <2>2. n \in Op /\ n.pc \notin Locked
      BY <2>1 DEF Idle, Op, Labels, Fetching, Locked, MaybeVersion
    <2>3. op' = [op EXCEPT ![p] = n]  BY <1>3 DEF Reads
    <2> HIDE DEF n
    <2>4. QED  BY <1>1, <2>2, <2>3, Goes
  <1>4. CASE op' = [op EXCEPT ![p].pc = "findLegacy", ![p].kind = "download"]
    <2> DEFINE n == [op[p] EXCEPT !.pc = "findLegacy", !.kind = "download"]
    <2>1. n \in Op /\ n.pc \notin Locked  BY OpType DEF Op, Labels, Fetching, Locked
    <2>2. op' = [op EXCEPT ![p] = n]  BY <1>4
    <2> HIDE DEF n
    <2>3. QED  BY <1>1, <2>1, <2>2, Goes
  <1>5. ASSUME NEW v \in MaybeVersion,
               op' = [op EXCEPT ![p].pc = "getSkills", ![p].db = v]
        PROVE  UNCHANGED Exchange!vars
    <2> DEFINE n == [op[p] EXCEPT !.pc = "getSkills", !.db = v]
    <2>1. n \in Op /\ n.pc \notin Locked
      BY OpType DEF Op, Labels, Fetching, Locked
    <2>2. op' = [op EXCEPT ![p] = n]  BY <1>5
    <2> HIDE DEF n
    <2>3. QED  BY <1>1, <2>1, <2>2, Goes
  <1>6. ASSUME NEW v \in MaybeVersion,
               op' = [op EXCEPT ![p].pc = "guard", ![p].skills = v]
        PROVE  UNCHANGED Exchange!vars
    <2> DEFINE n == [op[p] EXCEPT !.pc = "guard", !.skills = v]
    <2>1. n \in Op /\ n.pc \notin Locked
      BY OpType DEF Op, Labels, Fetching, Locked
    <2>2. op' = [op EXCEPT ![p] = n]  BY <1>6
    <2> HIDE DEF n
    <2>3. QED  BY <1>1, <2>1, <2>2, Goes
  <1>7. /\ remote[op[p].layout].db \in MaybeVersion
        /\ remote[op[p].layout].skills \in MaybeVersion
    BY OpType DEF IInv, TypeOK, Op, Directory
  <1>8. GetDb(p) => End(p) \/ \E v \in MaybeVersion :
                        op' = [op EXCEPT ![p].pc = "getSkills", ![p].db = v]
    BY <1>7 DEF GetDb, Get
  <1>9. GetSkills(p) => End(p) \/ \E v \in MaybeVersion :
                            op' = [op EXCEPT ![p].pc = "guard", ![p].skills = v]
    BY <1>7 DEF GetSkills, Get
  <1>10. QED
    BY <1>2, <1>3, <1>4, <1>5, <1>6, <1>8, <1>9
    DEF Fetch, FindCurrent, FindLegacy, StartMigration, FetchFails, Refused
LEMMA PutBackImplements ==
    ASSUME Single, IInv, NEW p \in Procs, op[p].pc \in Locked, PutBack(p),
           UNCHANGED <<db, clock, built>>
    PROVE  UNCHANGED Exchange!vars
  <1>1. op'[p] = Idle /\ \A q \in Procs \ {p} : Same(op[q], op'[q])
    BY Moves, IdleType DEF PutBack, End
  <1>2. op[p].backup \in MaybeVersion /\ SkillsBecome(p, op[p].backup)
    BY LockedHas DEF PutBack, MaybeVersion
  <1>3. /\ skills'[Host[p]] = op[p].backup
        /\ \A d \in Devices \ {Host[p]} : skills'[d] = skills[d]
    BY <1>2, Become
  <1>4. Kept(p)' = Kept(p)  BY <1>1, <1>3 DEF Kept, Idle, Locked
  <1>5. QED  BY <1>1, <1>3, <1>4, Stutters

LEMMA MoveAsideImplements ==
    ASSUME Single, IInv, NEW p \in Procs, MoveAside(p) PROVE UNCHANGED Exchange!vars
  <1> DEFINE n == [op[p] EXCEPT !.pc = "copy", !.backup = skills[Host[p]]]
  <1>1. skills[Host[p]] \in MaybeVersion /\ op[p].pc \notin Locked
    BY HostAssumption DEF IInv, TypeOK, MoveAside, At, Locked
  <1>2. n \in Op /\ n.pc \in Locked /\ n.backup = skills[Host[p]]
    BY <1>1, OpType DEF Op, Labels, Locked
  <1>3. op' = [op EXCEPT ![p] = n]  BY DEF MoveAside
  <1> HIDE DEF n
  <1>4. op'[p] = n /\ \A q \in Procs \ {p} : Same(op[q], op'[q])
    BY <1>2, <1>3, Moves
  <1>5. NoVersion \in MaybeVersion /\ SkillsBecome(p, NoVersion)
        /\ UNCHANGED <<db, clock, built>>
    BY DEF MaybeVersion, MoveAside
  <1>6. \A d \in Devices \ {Host[p]} : skills'[d] = skills[d]  BY <1>5, Become
  <1>7. Kept(p)' = Kept(p)  BY <1>1, <1>2, <1>4 DEF Kept
  <1>8. QED  BY <1>4, <1>5, <1>6, <1>7, Stutters

LEMMA CopyImplements ==
    ASSUME Single, IInv, NEW p \in Procs, CopySkills(p) PROVE UNCHANGED Exchange!vars
  <1> DEFINE n == [op[p] EXCEPT !.pc = "import"]
  <1>1. op[p].pc \in Locked  BY DEF CopySkills, At, Locked
  <1>2. n \in Op /\ n.pc \in Locked /\ n.backup = op[p].backup
    BY OpType DEF Op, Labels, Locked
  <1>3. op' = [op EXCEPT ![p] = n]  BY DEF CopySkills, Goto
  <1> HIDE DEF n
  <1>4. op'[p] = n /\ \A q \in Procs \ {p} : Same(op[q], op'[q])
    BY <1>2, <1>3, Moves
  <1>5. op[p].skills \in MaybeVersion /\ SkillsBecome(p, op[p].skills)
        /\ UNCHANGED <<db, clock, built>>
    BY <1>1, LockedHas DEF MaybeVersion, CopySkills
  <1>6. \A d \in Devices \ {Host[p]} : skills'[d] = skills[d]  BY <1>5, Become
  <1>7. Kept(p)' = Kept(p)  BY <1>1, <1>2, <1>4 DEF Kept
  <1>8. QED  BY <1>4, <1>5, <1>6, <1>7, Stutters

LEMMA ImportImplements ==
    ASSUME Single, IInv, NEW p \in Procs, Import(p) PROVE Exchange!Take(Host[p])
  <1> DEFINE d == Host[p]
             n == [Idle EXCEPT !.pc = IF op[p].kind = "migrate" THEN "export" ELSE "cleanup"]
  <1>1. d \in Devices /\ op[p].pc = "import" /\ op[p].pc \in Locked
    BY HostAssumption DEF Import, At, Locked
  <1>2. n \in Op /\ n.pc \notin Locked
    BY DEF Idle, Op, Labels, MaybeVersion, Locked
  <1>3. op' = [op EXCEPT ![p] = n]  BY DEF Import
  <1>4. op'[p].pc \notin Locked /\ \A q \in Procs \ {p} : Same(op[q], op'[q])
    BY <1>2, <1>3, Moves
  <1>5. /\ op[p].man \in built /\ op[p].man \in Snapshots
        /\ op[p].db = op[p].man.db /\ skills[d] = op[p].man.skills
    BY <1>1, LockedHas
  <1>6. /\ db'[d] = op[p].db /\ \A e \in Devices \ {d} : db'[e] = db[e]
        /\ UNCHANGED <<skills, clock, built>>
    BY <1>1 DEF Import, IInv, TypeOK
  <1>7. State'[d] = op[p].man
    <2>1. Kept(p)' = op[p].man.skills  BY <1>4, <1>5, <1>6 DEF Kept
    <2>2. State'[d] = [db |-> op[p].man.db, skills |-> op[p].man.skills]
      BY <1>5, <1>6, <2>1, OwnState
    <2>3. QED  BY <1>5, <2>2 DEF Snapshots
  <1>8. \A e \in Devices \ {d} : State'[e] = State[e]
    BY <1>4, <1>6, OtherStates
  <1>9. State' = [State EXCEPT ![d] = op[p].man]
    BY <1>1, <1>7, <1>8 DEF State
  <1>10. QED  BY <1>5, <1>6, <1>9 DEF Exchange!Take

LEMMA ApplyImplements ==
    ASSUME Single, IInv, NEW p \in Procs, Apply(p)
    PROVE  Exchange!Take(Host[p]) \/ UNCHANGED Exchange!vars
  <1>1. CASE MoveAside(p)  BY <1>1, MoveAsideImplements
  <1>2. CASE CopySkills(p)  BY <1>2, CopyImplements
  <1>3. CASE RestoreFails(p) \/ ImportFails(p)
    BY <1>3, PutBackImplements DEF RestoreFails, ImportFails, At, Locked, Single
  <1>4. CASE Import(p)  BY <1>4, ImportImplements
  <1>5. CASE CleanupV1(p)  BY <1>5, Ends DEF CleanupV1, At, Locked
  <1>6. QED  BY <1>1, <1>2, <1>3, <1>4, <1>5 DEF Apply

LEMMA ExportImplements ==
    ASSUME Single, IInv, NEW p \in Procs, ExportDb(p) PROVE Exchange!Build(Host[p])
  <1>1. Host[p] \in Devices /\ op[p].pc \notin Locked
    BY HostAssumption DEF ExportDb, Locked
  <1>2. \A q \in Procs \ {p} : op'[q] = [op[q] EXCEPT !.alone = FALSE] /\ op[q] \in Op
    BY OpType DEF ExportDb
  <1>3. \A q \in Procs \ {p} : Same(op[q], op'[q])  BY <1>2 DEF Op, Same
  <1>4. op'[p].pc \notin Locked
    <2>1. op'[p] = [Idle EXCEPT !.pc = "zip", !.db = db[Host[p]], !.alone = Quiet]
      BY DEF ExportDb
    <2>2. QED  BY <2>1 DEF Idle, Locked
  <1>5. UNCHANGED <<db, skills, clock>>  BY DEF ExportDb
  <1>6. Kept(p)' = Kept(p)  BY <1>1, <1>4, <1>5 DEF Kept
  <1>7. \A d \in Devices : State'[d] = State[d]
    BY <1>3, <1>5, <1>6, OwnState, OtherStates
  <1>8. State' = State  BY <1>7 DEF State
  <1>9. State[Host[p]] = Local(Host[p])  BY <1>1, OwnState DEF Kept, Local
  <1>10. QED  BY <1>5, <1>8, <1>9 DEF ExportDb, Exchange!Build

LEMMA UpdateImplements ==
    ASSUME Single, IInv, NEW p \in Procs, UpdateSkill(p) PROVE Exchange!Edit(Host[p])
  <1> DEFINE d == Host[p]
  <1>1. d \in Devices /\ op[p].pc \notin Locked  BY HostAssumption DEF UpdateSkill
  <1>2. /\ db'[d] = clock + 1 /\ \A e \in Devices \ {d} : db'[e] = db[e]
        /\ skills'[d] = clock + 1 /\ \A e \in Devices \ {d} : skills'[e] = skills[e]
        /\ op' = op
    BY <1>1 DEF UpdateSkill, IInv, TypeOK
  <1>3. State'[d] = [db |-> clock + 1, skills |-> clock + 1]
    BY <1>1, <1>2, OwnState DEF Kept
  <1>4. \A q \in Procs \ {p} : Same(op[q], op'[q])  BY <1>2 DEF Same
  <1>5. \A e \in Devices \ {d} : State'[e] = State[e]
    BY <1>2, <1>4, OtherStates
  <1>6. State' = [State EXCEPT ![d] = [db |-> clock + 1, skills |-> clock + 1]]
    BY <1>1, <1>3, <1>5 DEF State
  <1>7. QED  BY <1>6 DEF UpdateSkill, Exchange!Edit

LEMMA EditRowsImplements ==
    ASSUME IInv, NEW d \in Devices, EditRows(d) PROVE Exchange!Edit(d)
  <1>1. /\ db'[d] = clock + 1 /\ \A e \in Devices \ {d} : db'[e] = db[e]
        /\ UNCHANGED <<skills, op>>
    BY DEF EditRows, IInv, TypeOK
  <1>2. \A e \in Devices : Restoring(e)' = Restoring(e)  BY <1>1 DEF Restoring
  <1>3. State'[d] = [db |-> clock + 1, skills |-> State[d].skills]
    BY <1>1, <1>2 DEF State
  <1>4. \A e \in Devices \ {d} : State'[e] = State[e]  BY <1>1, <1>2 DEF State
  <1>5. State' = [State EXCEPT ![d] = [db |-> clock + 1, skills |-> State[d].skills]]
    BY <1>3, <1>4 DEF State
  <1>6. QED  BY <1>5 DEF EditRows, Exchange!Edit

LEMMA NextImplements ==
    ASSUME Single, IInv, [Next]_vars PROVE [Exchange!Next]_(Exchange!vars)
  <1>1. \A p \in Procs : Host[p] \in Devices  BY HostAssumption
  <1>2. CASE UNCHANGED vars
    <2>1. \A d \in Devices : Restoring(d)' = Restoring(d)  BY <1>2 DEF vars, Restoring
    <2>2. State' = State  BY <1>2, <2>1 DEF vars, State
    <2>3. QED  BY <1>2, <2>2 DEF vars, Exchange!vars
  <1>3. ASSUME NEW p \in Procs, Upload(p) PROVE Exchange!Build(Host[p]) \/ UNCHANGED Exchange!vars
    BY <1>3, ExportImplements, ZipImplements, SendImplements DEF Upload
  <1>4. ASSUME NEW p \in Procs, Fetch(p) PROVE UNCHANGED Exchange!vars
    BY <1>4, FetchImplements
  <1>5. ASSUME NEW p \in Procs, Apply(p) PROVE Exchange!Take(Host[p]) \/ UNCHANGED Exchange!vars
    BY <1>5, ApplyImplements
  <1>6. ASSUME NEW p \in Procs, Crash(p) PROVE UNCHANGED Exchange!vars
    BY <1>6, Ends DEF Crash, Single
  <1>7. ASSUME NEW file \in Files, Land(file) PROVE UNCHANGED Exchange!vars
    <2>1. \A d \in Devices : Restoring(d)' = Restoring(d)  BY <1>7 DEF Land, Restoring
    <2>2. State' = State  BY <1>7, <2>1 DEF Land, State
    <2>3. QED  BY <1>7, <2>2 DEF Land, Exchange!vars
  <1>8. QED
    BY <1>1, <1>2, <1>3, <1>4, <1>5, <1>6, <1>7, UpdateImplements, EditRowsImplements
    DEF Next, Exchange!Next

\* A device only ever takes over whole snapshots: whatever uploads overlap, PUTs
\* land late, restores fail and edits come between, on any number of devices.
THEOREM Implementation == ASSUME Single PROVE Spec => ImplementsExchange
  <1>1. Init => Exchange!Init  BY InitImplements
  <1>2. IInv /\ [Next]_vars => [Exchange!Next]_(Exchange!vars)  BY NextImplements
  <1>3. QED  BY <1>1, <1>2, Invariance, PTL DEF Spec, ImplementsExchange, Exchange!Spec
=============================================================================
