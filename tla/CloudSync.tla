------------------------------ MODULE CloudSync ------------------------------
(***************************************************************************)
(* Cloud synchronisation (services/sync_protocol.rs over the transports    *)
(* webdav_sync and s3_sync): processes on several devices upload their     *)
(* database and Skills to one remote directory, or take its snapshot over. *)
(* A snapshot is two artifacts and a manifest with their hashes; a number  *)
(* stands for an artifact's bytes, and equal numbers for equal hashes.     *)
(*                                                                         *)
(* sync_mutex gives each process at most one operation (`op').  Each       *)
(* request to the server and each step of a restore is an action.  S3 is   *)
(* the case of an empty `Older': it knows only the current layout.         *)
(***************************************************************************)
EXTENDS Naturals, FiniteSets

CONSTANTS
    Devices, Procs,
    Host,           \* the device that each process runs on
    Older,          \* the layouts of earlier releases that the server holds
    Faults,         \* "network", "late", "restore", "import", "rollback", "crash", "midway"
    NoVersion, NoManifest,
    MaxEdits,       \* bound on local edits
    MaxLate         \* bound on files with late PUTs

ASSUME HostAssumption == Host \in [Procs -> Devices]
ASSUME NoneAssumption == NoVersion \notin Nat /\ NoManifest \notin [db : Nat, skills : Nat]

VARIABLES
    db, skills,     \* each device's synchronised rows, its Skills directory
    remote,         \* the server: the artifacts and the manifest of each layout
    late,           \* the PUTs of each file that may still land after the client gave up
    op,             \* the operation of each process
    clock,          \* the last version created
    built           \* history: what the devices held when a snapshot was taken

vars == <<db, skills, remote, late, op, clock, built>>

Snapshots == [db : Nat, skills : Nat]
Files     == {"db", "skills", "manifest"}
Empty     == [db |-> NoVersion, skills |-> NoVersion, manifest |-> NoManifest]
NoneLate  == [f \in Files |-> {}]
Whole(s)  == [db |-> s.db, skills |-> s.skills, manifest |-> s]

MaybeVersion == Nat \cup {NoVersion}

Directory == [db : MaybeVersion, skills : MaybeVersion, manifest : Snapshots \cup {NoManifest}]

Fetching == {"findLegacy", "getDb", "getSkills", "guard"}
Locked   == {"copy", "import"}      \* restore guard and Skills write guard held
Sending  == {"putDb", "putSkills", "putManifest"}
Labels   == {"idle", "export", "zip", "cleanup"} \cup Fetching \cup Locked \cup Sending

\* `db' and `skills' are the artifacts in hand, `man' the manifest that was
\* read, `alone' that no other upload has overlapped this one.
Op == [pc : Labels, kind : {"none", "download", "migrate"},
       layout : {"current", "legacy", "v1"}, man : Snapshots \cup {NoManifest},
       db : MaybeVersion, skills : MaybeVersion, backup : MaybeVersion, alone : BOOLEAN]

Idle == [pc |-> "idle", kind |-> "none", layout |-> "current", man |-> NoManifest,
         db |-> NoVersion, skills |-> NoVersion, backup |-> NoVersion, alone |-> FALSE]

TypeOK ==
    /\ db \in [Devices -> Nat] /\ skills \in [Devices -> MaybeVersion]
    /\ remote \in [{"current", "legacy", "v1"} -> Directory]
    /\ late \in [db : SUBSET Nat, skills : SUBSET MaybeVersion, manifest : SUBSET Snapshots]
    /\ op \in [Procs -> Op]
    /\ clock \in Nat /\ built \subseteq Snapshots

First == [legacy |-> [db |-> 1, skills |-> 1], v1 |-> [db |-> 2, skills |-> 2]]

Init ==
    /\ db = [d \in Devices |-> 0] /\ skills = [d \in Devices |-> 0]
    /\ remote = [l \in {"current", "legacy", "v1"} |->
                     IF l \in Older \ {"current"} THEN Whole(First[l]) ELSE Empty]
    /\ late = NoneLate /\ op = [p \in Procs |-> Idle]
    /\ clock = 2 /\ built = {First["legacy"], First["v1"]}

----------------------------------------------------------------------------
Local(d)  == [db |-> db[d], skills |-> skills[d]]
May(f)    == f \in Faults
At(p, l)  == op[p].pc = l
Goto(p, l) == op' = [op EXCEPT ![p].pc = l]
End(p)    == op' = [op EXCEPT ![p] = Idle]

\* No PUT of another upload is on its way or still to come.
Quiet == late = NoneLate /\ \A q \in Procs : op[q].pc \notin {"zip"} \cup Sending

(* What else happens on a device. *)

\* update_skill and the other Skills commands replace the directory and its
\* rows under the process's Skills write guard.
UpdateSkill(p) ==
    /\ op[p].pc \notin Locked \cup {"zip"} /\ clock < MaxEdits + 2
    /\ clock' = clock + 1
    /\ db' = [db EXCEPT ![Host[p]] = clock + 1]
    /\ skills' = [skills EXCEPT ![Host[p]] = clock + 1]
    /\ UNCHANGED <<remote, late, op, built>>

EditRows(d) ==
    /\ clock < MaxEdits + 2
    /\ clock' = clock + 1
    /\ db' = [db EXCEPT ![d] = clock + 1]
    /\ UNCHANGED <<skills, remote, late, op, built>>

\* The locks go with the process; a request on its way does not.
Crash(p) ==
    /\ op[p].pc \notin {"idle"} \cup (IF May("midway") THEN {} ELSE Locked)
    /\ May("crash")
    /\ End(p)
    /\ UNCHANGED <<db, skills, remote, late, clock, built>>

(* Upload. *)

\* build_local_snapshot takes the Skills read guard before it exports the rows.
ExportDb(p) ==
    /\ op[p].pc \in {"idle", "export"}
    /\ op' = [q \in Procs |->
                 IF q = p
                 THEN [Idle EXCEPT !.pc = "zip", !.db = db[Host[p]], !.alone = Quiet]
                 ELSE [op[q] EXCEPT !.alone = FALSE]]
    /\ built' = built \cup {Local(Host[p])}
    /\ UNCHANGED <<db, skills, remote, late, clock>>

ZipSkills(p) ==
    /\ At(p, "zip")
    /\ op' = [op EXCEPT ![p].pc = "putDb", ![p].skills = skills[Host[p]]]
    /\ UNCHANGED <<db, skills, remote, late, clock, built>>

LateOnes == Cardinality({f \in Files : late[f] # {}})

\* Mutant: a failed request does not end the upload.
PutGoesOn(p, file, content, next) ==
    /\ IF next = "idle" THEN End(p) ELSE Goto(p, next)
    /\ \/ remote' = [remote EXCEPT !.current[file] = content]
       \/ May("network") /\ UNCHANGED remote
    /\ UNCHANGED late

\* The artifacts first and the manifest last, each overwriting its predecessor.
Put(p, file, content, next) ==
    \/ /\ remote' = [remote EXCEPT !.current[file] = content]
       /\ IF next = "idle" THEN End(p) ELSE Goto(p, next)
       /\ UNCHANGED late
    \/ /\ May("network") /\ End(p) /\ UNCHANGED <<remote, late>>
    \/ /\ May("late") /\ LateOnes < MaxLate /\ End(p)
       /\ late' = [late EXCEPT ![file] = @ \cup {content}] /\ UNCHANGED remote

PutDb(p) ==
    /\ At(p, "putDb") /\ Put(p, "db", op[p].db, "putSkills")
    /\ UNCHANGED <<db, skills, clock, built>>

PutSkills(p) ==
    /\ At(p, "putSkills") /\ Put(p, "skills", op[p].skills, "putManifest")
    /\ UNCHANGED <<db, skills, clock, built>>

InHand(p) == [db |-> op[p].db, skills |-> op[p].skills]

PutManifest(p) ==
    /\ At(p, "putManifest") /\ Put(p, "manifest", InHand(p), "idle")
    /\ UNCHANGED <<db, skills, clock, built>>

\* The server executes a PUT whose answer nobody waits for.
Land(file) ==
    /\ \E content \in late[file] :
           /\ late' = [late EXCEPT ![file] = @ \ {content}]
           /\ remote' = [remote EXCEPT !.current[file] = content]
    /\ UNCHANGED <<db, skills, op, clock, built>>

(* Download. *)

Reads(p, kind, layout) ==
    op' = [op EXCEPT ![p] = [Idle EXCEPT !.pc = "getDb", !.kind = kind, !.layout = layout,
                                         !.man = remote[layout].manifest]]

FindCurrent(p) ==
    /\ At(p, "idle")
    /\ IF remote.current.manifest # NoManifest
       THEN Reads(p, "download", "current")
       ELSE op' = [op EXCEPT ![p].pc = "findLegacy", ![p].kind = "download"]
    /\ UNCHANGED <<db, skills, remote, late, clock, built>>

\* Without either manifest the user is asked to migrate, or told there is nothing.
FindLegacy(p) ==
    /\ At(p, "findLegacy")
    /\ IF remote.legacy.manifest # NoManifest THEN Reads(p, "download", "legacy") ELSE End(p)
    /\ UNCHANGED <<db, skills, remote, late, clock, built>>

StartMigration(p) ==
    /\ At(p, "idle") /\ remote.v1.manifest # NoManifest
    /\ Reads(p, "migrate", "v1")
    /\ UNCHANGED <<db, skills, remote, late, clock, built>>

\* Mutant: an artifact that the server no longer has counts as empty.
MissingPasses(p, file) == remote[op[p].layout][file] \in {op[p].man[file], NoVersion}

\* Mutant: an artifact that is there is good enough.
Present(p, file) == remote[op[p].layout][file] # NoVersion

\* verify_artifact, with what an artifact that is missing comes to.
Verified(p, file) == remote[op[p].layout][file] = op[p].man[file]

Get(p, file, next) ==
    /\ IF Verified(p, file)
       THEN op' = [op EXCEPT ![p].pc = next, ![p][file] = remote[op[p].layout][file]]
       ELSE End(p)
    /\ UNCHANGED <<db, skills, remote, late, clock, built>>

GetDb(p)     == At(p, "getDb") /\ Get(p, "db", "getSkills")
GetSkills(p) == At(p, "getSkills") /\ Get(p, "skills", "guard")

FetchFails(p) ==
    /\ op[p].pc \in Fetching /\ May("network")
    /\ End(p)
    /\ UNCHANGED <<db, skills, remote, late, clock, built>>

\* ensure_restore_allowed refuses while the proxy runs or a takeover is active;
\* the checks before the directory is renamed may refuse too.
Refused(p) ==
    /\ At(p, "guard") /\ End(p)
    /\ UNCHANGED <<db, skills, remote, late, clock, built>>

SkillsBecome(p, version) == skills' = [skills EXCEPT ![Host[p]] = version]

\* Both guards, SkillsBackup and, in restore_skills_zip, the directory renamed.
MoveAside(p) ==
    /\ At(p, "guard")
    /\ \A q \in Procs : Host[q] = Host[p] => op[q].pc \notin Locked
    /\ op' = [op EXCEPT ![p].pc = "copy", ![p].backup = skills[Host[p]]]
    /\ SkillsBecome(p, NoVersion)
    /\ UNCHANGED <<db, remote, late, clock, built>>

CopySkills(p) ==
    /\ At(p, "copy")
    /\ SkillsBecome(p, op[p].skills) /\ Goto(p, "import")
    /\ UNCHANGED <<db, remote, late, clock, built>>

\* Renaming the directory back, or copying SkillsBackup back.
PutBack(p) ==
    /\ SkillsBecome(p, op[p].backup)
    /\ End(p)

RestoreFails(p) ==
    /\ At(p, "copy") /\ May("restore")
    /\ PutBack(p)
    /\ UNCHANGED <<db, remote, late, clock, built>>

\* Mutant: a migration deletes the old data before it uploads.
ImportThenClean(p) ==
    /\ At(p, "import")
    /\ db' = [db EXCEPT ![Host[p]] = op[p].db]
    /\ op' = [op EXCEPT ![p] = [Idle EXCEPT !.pc = "cleanup"]]
    /\ UNCHANGED <<skills, remote, late, clock, built>>

\* One SQLite transaction replaces the rows.
Import(p) ==
    /\ At(p, "import")
    /\ db' = [db EXCEPT ![Host[p]] = op[p].db]
    /\ op' = [op EXCEPT ![p] = [Idle EXCEPT
                  !.pc = IF op[p].kind = "migrate" THEN "export" ELSE "cleanup"]]
    /\ UNCHANGED <<skills, remote, late, clock, built>>

ImportFails(p) ==
    /\ At(p, "import") /\ May("import")
    /\ \/ PutBack(p)
       \/ May("rollback") /\ SkillsBecome(p, NoVersion) /\ End(p)
    /\ UNCHANGED <<db, remote, late, clock, built>>

CleanupV1(p) ==
    /\ At(p, "cleanup")
    /\ End(p)
    /\ \/ remote' = [remote EXCEPT !.v1 = Empty]
       \/ May("network") /\ UNCHANGED remote
    /\ UNCHANGED <<db, skills, late, clock, built>>

----------------------------------------------------------------------------
Upload(p)   == ExportDb(p) \/ ZipSkills(p) \/ PutDb(p) \/ PutSkills(p)
                   \/ PutManifest(p)
Fetch(p)    == FindCurrent(p) \/ FindLegacy(p) \/ StartMigration(p) \/ GetDb(p)
                   \/ GetSkills(p) \/ FetchFails(p) \/ Refused(p)
Apply(p)    == MoveAside(p) \/ CopySkills(p) \/ RestoreFails(p) \/ Import(p)
                   \/ ImportFails(p) \/ CleanupV1(p)

Next ==
    \/ \E p \in Procs : Upload(p) \/ Fetch(p) \/ Apply(p) \/ UpdateSkill(p) \/ Crash(p)
    \/ \E d \in Devices : EditRows(d)
    \/ \E file \in Files : Land(file)

Spec == Init /\ [][Next]_vars

----------------------------------------------------------------------------
(* Properties. *)

\* Until its rows are imported a device still counts as what it was: its
\* Skills are those that the restoring process would put back.
Restoring(d) == {p \in Procs : Host[p] = d /\ op[p].pc \in Locked}

State == [d \in Devices |->
             [db |-> db[d],
              skills |-> IF Restoring(d) = {} THEN skills[d]
                         ELSE op[CHOOSE p \in Restoring(d) : TRUE].backup]]

Exchange == INSTANCE SnapshotExchange WITH state <- State

\* A device only ever takes over, rows and Skills together, a snapshot that
\* some device once was: torn uploads of two devices, PUTs that land late,
\* failed restores and edits made during a transfer never mix two snapshots
\* (verify_artifact, the Skills guards, SkillsBackup, restore_skills_zip).
ImplementsExchange == Exchange!Spec

\* When an upload that no other overlaps writes its manifest, the artifacts it
\* announces are there ("uploaded last", webdav_sync/mod.rs upload).
AnnouncedIsReady ==
    \A p \in Procs : op[p].alone /\ At(p, "putManifest") =>
        remote.current.db = op[p].db /\ remote.current.skills = op[p].skills

\* The first release's data is deleted only once a later layout has a manifest
\* (download after it applied one; a migration leaves the data to it).
V1OutlivesMigration ==
    [][remote.v1 # Empty /\ remote'.v1 = Empty =>
           remote.current.manifest # NoManifest \/ remote.legacy.manifest # NoManifest]_vars
==============================================================================
