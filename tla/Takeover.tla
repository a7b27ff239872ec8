------------------------------ MODULE Takeover ------------------------------
(***************************************************************************)
(* Proxy takeover of one application's client file (services/proxy.rs):    *)
(* while the local proxy serves the application, the file names the proxy  *)
(* ("taken") and a row of the database keeps the content to put back.      *)
(*                                                                         *)
(* Commands (CLI, TUI, daemon) enable and disable takeover and recover it  *)
(* at their start, under the restore guard that spans processes.  A switch *)
(* of provider, the failover switch and the worker's own failover take no  *)
(* guard.  Each access to the database or to the file is an action, and    *)
(* any operation can fail or die at any of them.                           *)
(***************************************************************************)
EXTENDS Naturals

CONSTANTS
    Providers,
    Procs,          \* processes that run commands
    Worker,         \* the process that proxies requests
    NoBackup, NoContent

ASSUME NoneAssumption == NoBackup # NoContent /\ Worker \notin Procs

\* What the file holds that takeover and switches write: the fields of a
\* provider, with its own address or with the proxy's.
Content == [of : Providers, taken : BOOLEAN]

ASSUME NotContentAssumption == NoBackup \notin Content /\ NoContent \notin Content

VARIABLES
    pointer,        \* the current provider
    row,            \* the application's proxy_config row
    backup, live,   \* the saved content, the client file
    worker,         \* a managed worker serves the application
    op,             \* the operation of each process
    upset,          \* history: what has disturbed takeover since it last came to rest
    drift           \* history: the pointer moved without the file's content

vars == <<pointer, row, backup, live, worker, op, upset, drift>>

Actors == Procs \cup {Worker}
Row    == [enabled : BOOLEAN, auto : BOOLEAN]
Saved  == Content \cup {NoBackup}

Enabling  == {"saveBackup", "writeTaken", "setEnabled"}
Restoring == {"restore", "delete", "direct", "clear"}
Guarded   == Enabling \cup Restoring \cup {"reconcile"}
Switching == {"hot", "pointer", "backup", "base", "write"}
Labels    == Guarded \cup Switching
                \cup {"idle", "commit", "autoBase", "autoRead", "autoWrite",
                      "select", "refresh", "detect"}

\* `row', `has' and `taken' are what the operation read when it began, `content'
\* what it is about to write, `alone' that no other has run since it began.
Op == [pc : Labels, row : Row, has : BOOLEAN, taken : BOOLEAN, target : Providers,
       auto : BOOLEAN, content : Content \cup {NoContent}, alone : BOOLEAN]

Off == [enabled |-> FALSE, auto |-> FALSE]

Idle == [pc |-> "idle", row |-> Off, has |-> FALSE, taken |-> FALSE,
         target |-> CHOOSE p \in Providers : TRUE, auto |-> FALSE,
         content |-> NoContent, alone |-> FALSE]

Direct(p) == [of |-> p, taken |-> FALSE]
Taken(p)  == [of |-> p, taken |-> TRUE]

Init == /\ pointer \in Providers
        /\ row = Off /\ backup = NoBackup /\ live = Direct(pointer)
        /\ worker = FALSE
        /\ op = [a \in Actors |-> Idle]
        /\ upset = {} /\ drift = FALSE

---------------------------------------------------------------------------
(* Operations, one at a time in a process *)

Busy(a) == op[a].pc # "idle"
Others(a) == \E b \in Actors \ {a} : Busy(b)
Reads == [Idle EXCEPT !.row = row, !.has = backup # NoBackup, !.taken = live.taken]

Begin(a, start) ==
    /\ ~Busy(a)
    /\ start.pc \in Guarded => \A b \in Actors : op[b].pc \notin Guarded
    /\ op' = [b \in Actors |-> IF b = a THEN [start EXCEPT !.alone = ~Others(a)]
                               ELSE [op[b] EXCEPT !.alone = FALSE]]
    /\ upset' = IF Others(a) THEN upset \cup {"overlap"} ELSE upset
    /\ drift' = (drift \/ Others(a))

Becomes(a, next) == op' = [op EXCEPT ![a] = next]
GoTo(a, from, to) == op[a].pc = from /\ Becomes(a, [op[a] EXCEPT !.pc = to])
Ends(a, from) == op[a].pc = from /\ Becomes(a, Idle)

\* An operation fails, or its process is killed.
Abort(a) ==
    /\ Busy(a)
    /\ Becomes(a, Idle)
    /\ upset' = upset \cup {"abort"} /\ drift' = TRUE
    /\ worker' \in (IF a = Worker THEN {FALSE, worker} ELSE {worker})
    /\ UNCHANGED <<pointer, row, backup, live>>

WorkerStarts ==
    /\ ~worker /\ worker' = TRUE
    /\ UNCHANGED <<pointer, row, backup, live, op, upset, drift>>

WorkerStops ==
    /\ worker /\ ~Busy(Worker) /\ worker' = FALSE
    /\ UNCHANGED <<pointer, row, backup, live, op, upset, drift>>

---------------------------------------------------------------------------
(* Enabling takeover *)

Enable(a) ==
    /\ ~(row.enabled /\ backup # NoBackup /\ live.taken)
    /\ Begin(a, [Reads EXCEPT !.pc = "saveBackup"])
    /\ UNCHANGED <<pointer, row, backup, live, worker>>

SavedBase == IF backup = NoBackup THEN live ELSE backup

\* Mutant: the content to write is dropped with the backup.
SaveBackupOnly(a) ==
    /\ op[a].pc = "saveBackup"
    /\ backup' = (IF op[a].has THEN backup ELSE live)
    /\ Becomes(a, [op[a] EXCEPT !.pc = "writeTaken"])
    /\ UNCHANGED <<pointer, row, live, worker, upset, drift>>

\* The file is read and, unless there was a backup, saved as one.
SaveBackup(a) ==
    /\ op[a].pc = "saveBackup"
    /\ backup' = (IF op[a].has THEN backup ELSE live)
    /\ Becomes(a, [op[a] EXCEPT !.pc = "writeTaken", !.content = Taken(live.of)])
    /\ UNCHANGED <<pointer, row, live, worker, upset, drift>>

WriteTaken(a) ==
    /\ GoTo(a, "writeTaken", "setEnabled")
    /\ live' = op[a].content
    /\ UNCHANGED <<pointer, row, backup, worker, upset, drift>>

SetEnabled(a) ==
    /\ Ends(a, "setEnabled")
    /\ row' = IF op[a].row.enabled THEN row ELSE [op[a].row EXCEPT !.enabled = TRUE]
    /\ UNCHANGED <<pointer, backup, live, worker, upset, drift>>

---------------------------------------------------------------------------
(* Disabling takeover, and recovering it when a command starts *)

\* Mutant: the backup is deleted before the file is put back.
DeletesFirst == [Reads EXCEPT !.pc = IF backup # NoBackup THEN "delete"
                                     ELSE IF live.taken THEN "direct" ELSE "clear"]

Disabling == [Reads EXCEPT !.pc = IF backup # NoBackup THEN "restore"
                                  ELSE IF live.taken THEN "direct" ELSE "clear"]

Disable(a) == Begin(a, Disabling) /\ UNCHANGED <<pointer, row, backup, live, worker>>

Recover(a) ==
    /\ Begin(a, IF worker THEN [Reads EXCEPT !.pc = "reconcile"] ELSE Disabling)
    /\ UNCHANGED <<pointer, row, backup, live, worker>>

Reconcile(a) ==
    /\ Ends(a, "reconcile")
    /\ row' = IF ~op[a].row.enabled /\ (op[a].has \/ op[a].taken)
              THEN [op[a].row EXCEPT !.enabled = TRUE] ELSE row
    /\ UNCHANGED <<pointer, backup, live, worker, upset, drift>>

\* Mutant: any backup counts as put back, even one that names the proxy.
RestoreAny(a) ==
    /\ op[a].pc = "restore"
    /\ live' = IF backup # NoBackup /\ ~backup.taken THEN backup ELSE live
    /\ Becomes(a, [op[a] EXCEPT !.pc = "delete", !.taken = FALSE])
    /\ UNCHANGED <<pointer, row, backup, worker, upset, drift>>

\* A backup that names the proxy is not put back.  `taken' then stays, and the
\* current provider is written instead.
Restore(a) ==
    /\ op[a].pc = "restore"
    /\ LET trusted == backup # NoBackup /\ ~backup.taken IN
       /\ live' = IF trusted THEN backup ELSE live
       /\ Becomes(a, [op[a] EXCEPT !.pc = "delete", !.taken = @ /\ ~trusted])
    /\ UNCHANGED <<pointer, row, backup, worker, upset, drift>>

Delete(a) ==
    /\ GoTo(a, "delete", IF op[a].taken THEN "direct" ELSE "clear")
    /\ backup' = NoBackup
    /\ UNCHANGED <<pointer, row, live, worker, upset, drift>>

WriteDirect(a) ==
    /\ GoTo(a, "direct", "clear")
    /\ live' = Direct(pointer)
    /\ UNCHANGED <<pointer, row, backup, worker, upset, drift>>

\* The row read at the start is written back whole.  Takeover is at rest if
\* nothing else has run since.
Clear(a) ==
    /\ Ends(a, "clear")
    /\ row' = IF op[a].row = Off THEN row ELSE Off
    /\ upset' = IF op[a].alone THEN {} ELSE upset
    /\ UNCHANGED <<pointer, backup, live, worker, drift>>

---------------------------------------------------------------------------
(* Switching provider *)

\* ProviderService::switch: an active takeover is switched in place, otherwise the
\* file operation (LiveOperation) writes the provider's content.
Switch(a, p) ==
    /\ LET active == row.enabled \/ backup # NoBackup \/ live.taken IN
       Begin(a, [Idle EXCEPT !.pc = IF active THEN "hot" ELSE "commit", !.target = p])
    /\ UNCHANGED <<pointer, row, backup, live, worker>>

Settled(a) == drift' = (drift /\ ~(op[a].alone /\ upset = {}))

Commit(a) ==
    /\ Ends(a, "commit")
    /\ pointer' = op[a].target /\ live' = Direct(op[a].target)
    /\ Settled(a)
    /\ UNCHANGED <<row, backup, worker, upset>>

HotRead(a) ==
    /\ op[a].pc = "hot"
    /\ Becomes(a, [op[a] EXCEPT !.pc = "pointer", !.has = backup # NoBackup \/ live.taken])
    /\ UNCHANGED <<pointer, row, backup, live, worker, upset, drift>>

\* What follows a switch: persisting automatic failover, if that asked for it.
After(a) == IF op[a].auto THEN [op[a] EXCEPT !.pc = "autoRead"] ELSE Idle

SetPointer(a) ==
    /\ op[a].pc = "pointer"
    /\ pointer' = op[a].target
    /\ Becomes(a, IF op[a].has THEN [op[a] EXCEPT !.pc = "backup"] ELSE After(a))
    /\ UNCHANGED <<row, backup, live, worker, upset, drift>>

\* Mutant: a switch in place leaves the backup of the provider before.
KeepBackup(a) ==
    /\ GoTo(a, "backup", "base")
    /\ UNCHANGED <<pointer, row, backup, live, worker, upset, drift>>

UpdateBackup(a) ==
    /\ GoTo(a, "backup", "base")
    /\ backup' = Direct(op[a].target)
    /\ UNCHANGED <<pointer, row, live, worker, upset, drift>>

\* The provider's snapshot comes from the cache, or is built on the backup; with
\* no backup, the file becomes one.
TakeBase(a) ==
    /\ GoTo(a, "base", "write")
    /\ backup' \in {backup, SavedBase}
    /\ UNCHANGED <<pointer, row, live, worker, upset, drift>>

WriteSnapshot(a) ==
    /\ op[a].pc = "write"
    /\ live' = Taken(op[a].target)
    /\ Becomes(a, After(a))
    /\ IF a = Worker THEN UNCHANGED drift ELSE Settled(a)
    /\ UNCHANGED <<pointer, row, backup, worker, upset>>

---------------------------------------------------------------------------
(* Automatic failover: the command that sets it, and the worker's switch *)

SetAuto(a, on, first) ==
    /\ on => worker /\ row.enabled
    /\ Begin(a, [Idle EXCEPT !.pc = IF on THEN "autoBase" ELSE "autoRead",
                           !.target = first, !.auto = on])
    /\ UNCHANGED <<pointer, row, backup, live, worker>>

AutoBase(a) ==
    /\ GoTo(a, "autoBase", "hot")
    /\ backup' = SavedBase
    /\ UNCHANGED <<pointer, row, live, worker, upset, drift>>

AutoRead(a) ==
    /\ op[a].pc = "autoRead"
    /\ Becomes(a, [op[a] EXCEPT !.pc = "autoWrite", !.row = [row EXCEPT !.auto = op[a].auto]])
    /\ UNCHANGED <<pointer, row, backup, live, worker, upset, drift>>

AutoWrite(a) ==
    /\ Ends(a, "autoWrite")
    /\ row' = op[a].row
    /\ UNCHANGED <<pointer, backup, live, worker, upset, drift>>

\* sync_successful_provider_selection, after a request was served by p.
Failover(p) ==
    /\ worker
    /\ Begin(Worker, [Reads EXCEPT !.pc = "select", !.target = p, !.has = row.enabled,
                                   !.taken = FALSE, !.row = Off])
    /\ UNCHANGED <<pointer, row, backup, live, worker>>

Select(a) ==
    /\ op[a].pc = "select"
    /\ pointer' = op[a].target
    /\ drift' = TRUE
    /\ Becomes(a, IF op[a].has THEN [op[a] EXCEPT !.pc = "refresh"] ELSE Idle)
    /\ UNCHANGED <<row, backup, live, worker, upset>>

Refresh(a) ==
    /\ GoTo(a, "refresh", "detect")
    /\ backup' = SavedBase
    /\ UNCHANGED <<pointer, row, live, worker, upset, drift>>

Detect(a) ==
    /\ op[a].pc = "detect"
    /\ Becomes(a, IF live.taken THEN [op[a] EXCEPT !.pc = "base"] ELSE Idle)
    /\ UNCHANGED <<pointer, row, backup, live, worker, upset, drift>>

Step(a) == \/ SaveBackup(a) \/ WriteTaken(a) \/ SetEnabled(a)
           \/ Reconcile(a) \/ Restore(a) \/ Delete(a) \/ WriteDirect(a) \/ Clear(a)
           \/ Commit(a) \/ HotRead(a) \/ SetPointer(a) \/ UpdateBackup(a)
           \/ TakeBase(a) \/ WriteSnapshot(a)
           \/ AutoBase(a) \/ AutoRead(a) \/ AutoWrite(a)
           \/ Select(a) \/ Refresh(a) \/ Detect(a)

Start(a) == \/ Enable(a) \/ Disable(a) \/ Recover(a)
            \/ \E p \in Providers : Switch(a, p) \/ SetAuto(a, TRUE, p)
            \/ SetAuto(a, FALSE, pointer)

Next == \/ \E a \in Actors : Step(a) \/ Abort(a)
        \/ \E a \in Procs : Start(a)
        \/ \E p \in Providers : Failover(p)
        \/ WorkerStarts \/ WorkerStops

Spec == Init /\ [][Next]_vars

---------------------------------------------------------------------------
(* Properties *)

\* Every variable has its type.
TypeOK ==
    /\ pointer \in Providers /\ row \in Row
    /\ backup \in Saved /\ live \in Content
    /\ worker \in BOOLEAN /\ drift \in BOOLEAN
    /\ op \in [Actors -> Op]
    /\ upset \subseteq {"overlap", "abort"}

\* Write-ahead: at every step, whatever failed or died before, a file that
\* names the proxy has a backup, and the backup does not name the proxy; so the
\* next command can put the file back.  The guard covers only enabling,
\* disabling and recovery, and a switch or failover that overlaps another
\* operation breaks this: see RestIsClean.
TakenIsSaved ==
    "overlap" \notin upset => /\ live.taken => backup # NoBackup
                              /\ backup # NoBackup => ~backup.taken

AtRest == \A a \in Actors : ~Busy(a)

\* Once nothing runs, the row, the backup and the file agree on whether the
\* application is taken over, and automatic failover is on only if it is.  This
\* holds until two operations overlap or one aborts, and again from the first
\* disable or recovery that ran alone, whatever state that one found.
RestIsClean ==
    AtRest /\ upset = {} => /\ live.taken = row.enabled
                            /\ (backup # NoBackup) = row.enabled
                            /\ row.auto => row.enabled

\* Once nothing runs, the file and the backup hold the content of the current
\* provider, so that disabling takeover never puts back another one: unless
\* the worker failed over, or an operation overlapped or aborted, since the
\* last switch.
FilesFollowPointer ==
    AtRest /\ ~drift => /\ live.of = pointer
                        /\ backup # NoBackup => backup.of = pointer
=============================================================================
