--------------------------- MODULE LiveOperation ---------------------------
(***************************************************************************)
(* One application's client files, the write-ahead intent kept beside them *)
(* in live-state.json, and every CC Switch process that rewrites them      *)
(* (mode/operation.rs, mode/state.rs, live/engine.rs), together with the   *)
(* command that stores a provider row and then runs the operation          *)
(* (services/provider/mod.rs).                                             *)
(*                                                                         *)
(* The disk survives a crash: live, tmp, marker, pending, row, settings    *)
(* and dbp.  up, holder, pc and loc are process memory.  The remaining     *)
(* variables record history for the properties and the bounds.             *)
(***************************************************************************)
EXTENDS Naturals

CONSTANTS
    Process, Writer, ProcessOf,     \* the threads that write, and where they run
    File, Guarded,                  \* files in publishing order; whole-file ones
    Provider, Deleting, Row, User,  \* Deleting: providers without a login file
    FirstProvider, FirstRow,        \* who is current, and with which row, at first
    Absent, Broken, NoKey, Refused, \* contents that carry no provider, no result
    NoPending, NotPart, NoTemp, NoPointer, Nobody,
    MaxReplans,
    Kinds,                          \* the commands that are given
    Faults,                         \* the calls that may fail
    CrashInAbandon,                 \* a crash may fall within an abandonment
    Coincide,                       \* whether the client may write what was planned
    MaxOps, MaxEdits, MaxCrashes,
    EndlessEdits                    \* the client never stops editing

ASSUME FilesAssumption == File \subseteq Nat /\ Guarded \subseteq File
ASSUME WritersAssumption == ProcessOf \in [Writer -> Process] /\ Nobody \notin Writer
ASSUME KindsAssumption == Kinds \subseteq {"switch", "apply", "sync"}
ASSUME CoincideAssumption == Coincide \in {"never", "user", "any"}
ASSUME InitialAssumption ==
    FirstProvider \in Provider /\ FirstRow \in Row /\ 0 \in User
ASSUME BoundsAssumption ==
    MaxReplans \in Nat /\ MaxOps \in Nat \ {0} /\ MaxEdits \in Nat /\ MaxCrashes \in Nat

VARIABLES
    live,      \* what each client file holds
    tmp,       \* the staged files that exist beside them
    marker,    \* files whose first-write backup has been taken
    pending,   \* the intent in live-state.json
    row,       \* the stored configuration of each provider (database)
    settings,  \* current provider in settings.json
    dbp,       \* current provider in the database (is_current)
    up,        \* life cycle of each process
    holder,    \* lock_app of each process
    pc, loc,   \* control and local state of each writer
    carried,   \* files the pending operation has written
    since,     \* files the client changed after the pending intent's reading
    foreign,   \* files the client changed after CC Switch last wrote them
    ops, edits, crashes

disk    == <<live, tmp, marker, pending>>
store   == <<row, settings, dbp>>
history == <<carried, since, foreign>>
bounds  == <<ops, edits, crashes>>
vars    == <<disk, store, up, holder, pc, loc, history, bounds>>

----------------------------------------------------------------------------
(* Data.  A file is the keys CC Switch owns, stamped with the provider row  *)
(* they were projected from, and everything else in it, the user's.         *)

Key     == Provider \X Row
Content == [key : Key \cup {NoKey}, user : User] \cup {Absent, Broken}
Temp    == [op : 1..MaxOps, file : File, gen : 0..MaxReplans, content : Content]
Entry   == [pre : Content, planned : Content, staged : Temp \cup {NoTemp}]
Pending == [files : [File -> Entry \cup {NotPart}],
            pointer : Provider \cup {NoPointer}, published : BOOLEAN]

\* A file that takes part in an operation is told from one that does not.
ASSUME NotPartAssumption == NotPart \notin Entry

\* What stands for the lack of a thing is not such a thing.
ASSUME MarkersAssumption ==
    /\ NoKey \notin Key /\ NoTemp \notin Temp /\ NoPending \notin Pending
    /\ {Absent, Broken} \cap [key : Key \cup {NoKey}, user : User] = {}
    /\ Refused \notin Content /\ NoPointer \notin Provider

Empty == [files |-> [f \in File |-> NotPart], pointer |-> NoPointer, published |-> FALSE]

Labels == {"idle", "lock", "recover", "discard", "discardClear", "forward",
           "forwardPublish", "tidy", "prepare", "plan", "stage", "intent", "check",
           "mark", "publish", "record", "recordNoop", "dropOld", "abandon",
           "abandonClear", "commit", "commitDb", "clear", "adopt", "failed"}

Blank == [kind |-> "none", op |-> 1, provider |-> FirstProvider,
          key |-> <<FirstProvider, FirstRow>>, oldRow |-> FirstRow,
          expect |-> [f \in File |-> Absent], pointer |-> NoPointer,
          ret |-> "none", mem |-> Empty, todo |-> {}, seen |-> Absent,
          old |-> NoTemp, tries |-> 0, any |-> FALSE]

Local == [kind : {"none", "switch", "apply", "sync"}, op : 1..MaxOps, provider : Provider,
          key : Key, oldRow : Row, expect : [File -> Content],
          pointer : Provider \cup {NoPointer},
          ret : {"none", "first", "settle", "begin", "run", "startup", "op"},
          mem : Pending, todo : SUBSET File, seen : Content,
          old : Temp \cup {NoTemp}, tries : 0..(MaxReplans + 1), any : BOOLEAN]

\* The whole-file content of a provider, and the patch every writer submits.
Whole(key) == IF key[1] \in Deleting THEN Absent ELSE [key |-> key, user |-> 0]

Patch(f, key, expected, c) ==
    IF f \in Guarded
    THEN IF c = expected THEN Whole(key) ELSE Refused
    ELSE IF c = Broken THEN Refused
         ELSE IF c = Absent THEN [key |-> key, user |-> 0] ELSE [c EXCEPT !.key = key]

Parts(p)   == {f \in File : p.files[f] # NotPart}
TempsOf(p) == {p.files[f].staged : f \in Parts(p)} \ {NoTemp}

\* The file whose turn it is: files are published in order.
Turn(w, f) == f \in loc[w].todo /\ \A g \in loc[w].todo : f <= g

\* A staged file, for a write; a delete has none.
Staged(w, f, c, gen) ==
    IF c = Absent THEN NoTemp
    ELSE [op |-> loc[w].op, file |-> f, gen |-> gen, content |-> c]

Usable(e) == IF e.staged = NoTemp THEN e.planned = Absent ELSE e.staged \in tmp

----------------------------------------------------------------------------
TypeOK ==
    /\ live \in [File -> Content]
    /\ tmp \subseteq Temp
    /\ marker \subseteq File
    /\ pending \in Pending \cup {NoPending}
    /\ row \in [Provider -> Row]
    /\ settings \in Provider
    /\ dbp \in Provider
    /\ up \in [Process -> {"down", "starting", "up"}]
    /\ holder \in [Process -> Writer \cup {Nobody}]
    /\ pc \in [Writer -> Labels]
    /\ loc \in [Writer -> Local]
    /\ carried \subseteq File
    /\ since \subseteq File
    /\ foreign \subseteq File
    /\ ops \in 0..MaxOps
    /\ edits \in 0..MaxEdits
    /\ crashes \in 0..MaxCrashes

Init ==
    /\ live = [f \in File |->
                 IF f \in Guarded THEN Whole(<<FirstProvider, FirstRow>>)
                 ELSE [key |-> <<FirstProvider, FirstRow>>, user |-> 0]]
    /\ tmp = {} /\ marker = {} /\ pending = NoPending
    /\ row = [p \in Provider |-> FirstRow]
    /\ settings = FirstProvider /\ dbp = FirstProvider
    /\ up = [p \in Process |-> "up"]
    /\ holder = [p \in Process |-> Nobody]
    /\ pc = [w \in Writer |-> "idle"]
    /\ loc = [w \in Writer |-> Blank]
    /\ carried = {} /\ since = {} /\ foreign = {}
    /\ ops = 0 /\ edits = 0 /\ crashes = 0

----------------------------------------------------------------------------
(* Control. *)

Goto(w, label)  == pc' = [pc EXCEPT ![w] = label] /\ UNCHANGED <<up, holder>>
Set(w, r)       == loc' = [loc EXCEPT ![w] = r]

\* The guard is dropped; a command that is over forgets everything.
Leave(w, label, r) ==
    /\ holder' = [holder EXCEPT ![ProcessOf[w]] = Nobody]
    /\ pc' = [pc EXCEPT ![w] = label]
    /\ Set(w, r)
    /\ UNCHANGED up

Finish(w) == Leave(w, "idle", Blank)
Return(w) == IF loc[w].kind = "switch" THEN Leave(w, "adopt", loc[w]) ELSE Finish(w)
Fail(w)   == Leave(w, "failed", loc[w])

\* What the caller of recover does with its outcome.
AfterRecover(w, outcome) ==
    LET l == loc[w] IN
    \/ /\ l.ret = "first"
       /\ IF outcome = "error" THEN Finish(w)
          ELSE Leave(w, "lock", [l EXCEPT !.ret = "settle"])
    \/ /\ l.ret = "settle"
       /\ IF outcome = "none" THEN Leave(w, "prepare", l) ELSE Finish(w)
    \/ /\ l.ret = "begin"
       /\ IF outcome \in {"none", "discarded"}
          THEN Goto(w, "recover") /\ Set(w, [l EXCEPT !.ret = "run"])
          ELSE Fail(w)
    \/ /\ l.ret = "run"
       /\ IF outcome # "error" THEN Goto(w, "plan") /\ Set(w, l) ELSE Fail(w)
    \/ /\ l.ret = "startup"
       /\ holder' = [holder EXCEPT ![ProcessOf[w]] = Nobody]
       /\ up' = [up EXCEPT ![ProcessOf[w]] = "up"]
       /\ pc' = [pc EXCEPT ![w] = "idle"]
       /\ Set(w, Blank)

\* Writing the pending entry of live-state.json.
Forget == pending' = NoPending /\ carried' = {} /\ since' = {}

KeepStaged(p) == tmp
DiscardStaged(p) == tmp \ TempsOf(p)

\* publish: the staged file replaces the target, or the target is deleted.
Rename(f, e) ==
    /\ live' = [live EXCEPT ![f] = e.planned]
    /\ tmp' = tmp \ {e.staged}
    /\ carried' = carried \cup {f}
    /\ since' = since \ {f}
    /\ foreign' = foreign \ {f}

----------------------------------------------------------------------------
(* The lock and recovery. *)

EveryoneEnters(w) == TRUE
LockFree(w) == holder[ProcessOf[w]] = Nobody

Lock(w) ==
    /\ pc[w] = "lock" /\ LockFree(w)
    /\ holder' = [holder EXCEPT ![ProcessOf[w]] = w]
    /\ pc' = [pc EXCEPT ![w] = "recover"]
    /\ UNCHANGED <<disk, store, up, loc, history, bounds>>

OnlyPublishedRecovers == pending # NoPending /\ pending.published
HasPending == pending # NoPending

RecoverNothing(w) ==
    /\ pc[w] = "recover" /\ ~HasPending
    /\ AfterRecover(w, "none")
    /\ UNCHANGED <<disk, store, history, bounds>>

AtPlanned(f) == live[f] = pending.files[f].planned
NeverAtPre(f) == FALSE
AtPre(f)     == ~AtPlanned(f) /\ live[f] = pending.files[f].pre

\* A file that carries the operation, or the flag, says publishing began.
BegunByFiles(p)    == \E f \in Parts(p) : AtPlanned(f)
BegunByAllFiles(p) == \A f \in Parts(p) : AtPlanned(f)
Begun(p)           == p.published \/ \E f \in Parts(p) : AtPlanned(f)

RecoverDecide(w) ==
    /\ pc[w] = "recover" /\ HasPending
    /\ Set(w, [loc[w] EXCEPT !.mem = pending,
                             !.todo = {f \in Parts(pending) : AtPre(f)}])
    /\ Goto(w, IF Begun(pending) THEN "forward" ELSE "discard")
    /\ UNCHANGED <<disk, store, history, bounds>>

Discard(w) ==
    /\ pc[w] = "discard"
    /\ tmp' = DiscardStaged(loc[w].mem)
    /\ Goto(w, "discardClear")
    /\ UNCHANGED <<live, marker, pending, store, loc, history, bounds>>

DiscardClear(w) ==
    /\ pc[w] = "discardClear"
    /\ \/ Forget /\ AfterRecover(w, "discarded")
       \/ /\ "discard" \in Faults
          /\ AfterRecover(w, "error")
          /\ UNCHANGED <<pending, carried, since>>
    /\ UNCHANGED <<live, tmp, marker, store, foreign, bounds>>

\* A file whose staged content is gone is left as it is.
ForwardSkip(w) ==
    /\ pc[w] = "forward"
    /\ \E f \in File : /\ Turn(w, f) /\ ~Usable(loc[w].mem.files[f])
                       /\ Set(w, [loc[w] EXCEPT !.todo = @ \ {f}])
    /\ Goto(w, "forward")
    /\ UNCHANGED <<disk, store, history, bounds>>

\* The file is read once more, for the backup only.
ForwardRead(w) ==
    /\ pc[w] = "forward"
    /\ \E f \in File : /\ Turn(w, f) /\ Usable(loc[w].mem.files[f])
                       /\ marker' = marker \cup {f}
                       /\ Set(w, [loc[w] EXCEPT !.seen = live[f]])
    /\ Goto(w, "forwardPublish")
    /\ UNCHANGED <<live, tmp, pending, store, history, bounds>>

ForwardPublish(w) ==
    /\ pc[w] = "forwardPublish"
    /\ \E f \in File :
         /\ Turn(w, f)
         /\ \/ /\ Usable(loc[w].mem.files[f])
               /\ Rename(f, loc[w].mem.files[f])
               /\ Set(w, [loc[w] EXCEPT !.todo = @ \ {f}])
               /\ Goto(w, "forward")
            \/ /\ "publish" \in Faults \/ ~Usable(loc[w].mem.files[f])
               /\ AfterRecover(w, "error")
               /\ UNCHANGED <<live, tmp, history>>
    /\ UNCHANGED <<marker, pending, store, bounds>>

ForwardDone(w) ==
    /\ pc[w] = "forward" /\ loc[w].todo = {}
    /\ Goto(w, "commit")
    /\ UNCHANGED <<disk, store, loc, history, bounds>>

----------------------------------------------------------------------------
(* commit_target, run by an operation and by recovery. *)

Recovering(w) == loc[w].ret # "op"

CommitError(w) == IF Recovering(w) THEN AfterRecover(w, "error") ELSE Fail(w)

Committed(w) ==
    IF Recovering(w) THEN Goto(w, "tidy") /\ UNCHANGED loc
    ELSE IF Parts(loc[w].mem) = {} THEN Return(w)
    ELSE Goto(w, "clear") /\ UNCHANGED loc

\* A writer without a database refuses to move the pointer.
Commit(w) ==
    /\ pc[w] = "commit"
    /\ LET p == loc[w].mem.pointer IN
       \/ /\ p = NoPointer /\ Committed(w) /\ UNCHANGED settings
       \/ /\ p # NoPointer /\ loc[w].kind # "sync"
          /\ settings' = p
          /\ Goto(w, "commitDb") /\ UNCHANGED loc
       \/ /\ p # NoPointer /\ (loc[w].kind = "sync" \/ "commit" \in Faults)
          /\ CommitError(w) /\ UNCHANGED settings
    /\ UNCHANGED <<disk, row, dbp, history, bounds>>

CommitDb(w) ==
    /\ pc[w] = "commitDb"
    /\ \/ dbp' = loc[w].mem.pointer /\ Committed(w)
       \/ "commit" \in Faults /\ CommitError(w) /\ UNCHANGED dbp
    /\ UNCHANGED <<disk, row, settings, history, bounds>>

\* Recovery removes the staged files it did not use before it clears.
Tidy(w) ==
    /\ pc[w] = "tidy"
    /\ tmp' = DiscardStaged(loc[w].mem)
    /\ Goto(w, "clear")
    /\ UNCHANGED <<live, marker, pending, store, loc, history, bounds>>

Clear(w) ==
    /\ pc[w] = "clear"
    /\ \/ /\ Forget
          /\ IF Recovering(w) THEN AfterRecover(w, "forwarded") ELSE Return(w)
       \/ /\ "clear" \in Faults /\ CommitError(w)
          /\ UNCHANGED <<pending, carried, since>>
    /\ UNCHANGED <<live, tmp, marker, store, foreign, bounds>>

----------------------------------------------------------------------------
(* A command: settle what was left over, work out the change, store the row *)
(* and run the operation; "switch" moves the pointer, "apply" edits the     *)
(* current provider's row, "sync" writes files only, without a database.    *)

Begin(w) ==
    /\ pc[w] = "idle" /\ up[ProcessOf[w]] = "up" /\ ops < MaxOps
    /\ \E k \in Kinds, p \in Provider :
         /\ k # "switch" => p = settings
         /\ Set(w, [Blank EXCEPT !.kind = k, !.op = ops + 1, !.provider = p,
                                 !.ret = IF k = "switch" THEN "first" ELSE "settle"])
         /\ Goto(w, IF k = "sync" THEN "prepare" ELSE "lock")
    /\ ops' = ops + 1
    /\ UNCHANGED <<disk, store, history, edits, crashes>>

\* Whole-file patches remember the content they were computed from.
Prepare(w) ==
    /\ pc[w] = "prepare"
    /\ LET l == loc[w]  p == l.provider IN
       \E r \in Row, pointer \in {NoPointer, p} :
         /\ IF l.kind = "apply" THEN r # row[p] ELSE r = row[p]
         /\ row' = [row EXCEPT ![p] = r]
         /\ Set(w, [l EXCEPT !.key = <<p, r>>, !.oldRow = row[p], !.expect = live,
                             !.pointer = pointer, !.ret = "begin"])
         /\ IF l.kind = "sync" THEN pointer = NoPointer
            ELSE pointer = p \/ (settings = p /\ dbp = p)
    /\ Goto(w, "lock")
    /\ UNCHANGED <<disk, settings, dbp, history, bounds>>

PatchOf(w, f) == Patch(f, loc[w].key, loc[w].expect[f], live[f])

Planned(w) ==
    [files |-> [f \in File |->
                  IF PatchOf(w, f) = live[f] THEN NotPart
                  ELSE [pre |-> live[f], planned |-> PatchOf(w, f),
                        staged |-> Staged(w, f, PatchOf(w, f), 0)]],
     pointer |-> loc[w].pointer, published |-> FALSE]

Plan(w) ==
    /\ pc[w] = "plan"
    /\ \/ /\ \E f \in File : PatchOf(w, f) = Refused
          /\ Fail(w)
       \/ /\ \A f \in File : PatchOf(w, f) # Refused
          /\ Set(w, [loc[w] EXCEPT !.mem = Planned(w), !.ret = "op", !.tries = 0,
                                   !.todo = Parts(Planned(w)), !.any = FALSE])
          /\ Goto(w, IF Parts(Planned(w)) = {} THEN "commit" ELSE "stage")
    /\ UNCHANGED <<disk, store, history, bounds>>

Stage(w) ==
    /\ pc[w] = "stage"
    /\ \/ /\ tmp' = tmp \cup TempsOf(loc[w].mem)
          /\ Goto(w, "intent") /\ UNCHANGED loc
       \/ "stage" \in Faults /\ Fail(w) /\ UNCHANGED tmp
    /\ UNCHANGED <<live, marker, pending, store, history, bounds>>

Intent(w) ==
    /\ pc[w] = "intent"
    /\ \/ /\ pending' = loc[w].mem
          /\ carried' = {}
          /\ since' = {f \in loc[w].todo : live[f] # loc[w].mem.files[f].pre}
          /\ Goto(w, "check") /\ UNCHANGED <<tmp, loc>>
       \/ /\ "intent" \in Faults
          /\ tmp' = DiscardStaged(loc[w].mem)
          /\ Fail(w) /\ UNCHANGED <<pending, carried, since>>
    /\ UNCHANGED <<live, marker, store, foreign, bounds>>

Next1(w, todo) == IF todo = {} THEN "commit" ELSE "check"

NeverReread(w, f) == TRUE
Unchanged(w, f)  == live[f] = loc[w].mem.files[f].pre

Uncounted(tries) == tries
Counted(tries)   == tries + 1

AlwaysReplans(w) == TRUE
MayReplan(w)     == loc[w].tries < MaxReplans

\* The last reading before the rename: unchanged since the plan was made.
CheckSame(w) ==
    /\ pc[w] = "check"
    /\ \E f \in File :
         /\ Turn(w, f) /\ Unchanged(w, f)
         /\ marker' = marker \cup {f}
         /\ Set(w, [loc[w] EXCEPT !.seen = live[f]])
    /\ Goto(w, IF loc[w].mem.published THEN "publish" ELSE "mark")
    /\ UNCHANGED <<live, tmp, pending, store, history, bounds>>

\* Changed again and again, or into something the patch refuses.
CheckGiveUp(w) ==
    /\ pc[w] = "check"
    /\ \E f \in File :
         /\ Turn(w, f) /\ ~Unchanged(w, f)
         /\ ~MayReplan(w) \/ PatchOf(w, f) = Refused
    /\ IF loc[w].any THEN Fail(w) ELSE Goto(w, "abandon") /\ UNCHANGED loc
    /\ UNCHANGED <<disk, store, history, bounds>>

\* The client wrote exactly what the operation was going to write.
CheckNoop(w) ==
    /\ pc[w] = "check" /\ MayReplan(w)
    /\ \E f \in File :
         /\ Turn(w, f) /\ ~Unchanged(w, f)
         /\ PatchOf(w, f) = live[f]
         /\ tmp' = tmp \ {loc[w].mem.files[f].staged}
         /\ Set(w, [loc[w] EXCEPT
              !.mem.files[f] = [pre |-> live[f], planned |-> live[f], staged |-> NoTemp],
              !.seen = live[f]])
    /\ Goto(w, "recordNoop")
    /\ UNCHANGED <<live, marker, pending, store, history, bounds>>

\* The plan is made again on top of the new content.
CheckReplan(w) ==
    /\ pc[w] = "check" /\ MayReplan(w)
    /\ \E f \in File :
         /\ Turn(w, f) /\ ~Unchanged(w, f)
         /\ PatchOf(w, f) \notin {Refused, live[f]}
         /\ LET t == Staged(w, f, PatchOf(w, f), loc[w].tries + 1) IN
            /\ tmp' = (tmp \cup {t}) \ {NoTemp}
            /\ Set(w, [loc[w] EXCEPT
                 !.mem.files[f] = [pre |-> live[f], planned |-> PatchOf(w, f), staged |-> t],
                 !.old = loc[w].mem.files[f].staged, !.tries = Counted(@), !.seen = live[f]])
    /\ Goto(w, "record")
    /\ UNCHANGED <<live, marker, pending, store, history, bounds>>

\* A read, a backup or a staging that fails here returns at once.
CheckFails(w) ==
    /\ pc[w] = "check" /\ "loop" \in Faults
    /\ Fail(w)
    /\ UNCHANGED <<disk, store, history, bounds>>

NothingRecorded(w) == pending
Recorded(w)        == loc[w].mem

\* The new intent is on disk before the old staged file goes.
Record(w) ==
    /\ pc[w] \in {"record", "recordNoop"}
    /\ \/ \E f \in File :
            /\ Turn(w, f)
            /\ pending' = Recorded(w)
            /\ since' = IF live[f] = loc[w].mem.files[f].pre
                        THEN since \ {f} ELSE since \cup {f}
            /\ IF pc[w] = "record" THEN Goto(w, "dropOld") /\ UNCHANGED loc
               ELSE /\ Goto(w, Next1(w, loc[w].todo \ {f}))
                    /\ Set(w, [loc[w] EXCEPT !.todo = @ \ {f}, !.tries = 0])
       \/ "loop" \in Faults /\ Fail(w) /\ UNCHANGED <<pending, since>>
    /\ UNCHANGED <<live, tmp, marker, store, carried, foreign, bounds>>

DropOld(w) ==
    /\ pc[w] = "dropOld"
    /\ tmp' = tmp \ {loc[w].old}
    /\ Goto(w, "check")
    /\ Set(w, [loc[w] EXCEPT !.old = NoTemp])
    /\ UNCHANGED <<live, marker, pending, store, history, bounds>>

Unmarked(w) == loc[w].mem
Marked(w)   == [loc[w].mem EXCEPT !.published = TRUE]

\* "Publishing has begun" is on disk before the first rename.
Mark(w) ==
    /\ pc[w] = "mark"
    /\ Set(w, [loc[w] EXCEPT !.mem.published = TRUE])
    /\ \/ pending' = Marked(w) /\ Goto(w, "publish")
       \/ "mark" \in Faults /\ Goto(w, "abandon") /\ UNCHANGED pending
    /\ UNCHANGED <<live, tmp, marker, store, history, bounds>>

Publish(w) ==
    /\ pc[w] = "publish"
    /\ \E f \in File :
         /\ Turn(w, f)
         /\ \/ /\ Usable(loc[w].mem.files[f])
               /\ Rename(f, loc[w].mem.files[f])
               /\ Set(w, [loc[w] EXCEPT !.todo = @ \ {f}, !.any = TRUE, !.tries = 0])
               /\ Goto(w, Next1(w, loc[w].todo \ {f}))
            \/ /\ "publish" \in Faults \/ ~Usable(loc[w].mem.files[f])
               /\ IF loc[w].any THEN Fail(w) ELSE Goto(w, "abandon") /\ UNCHANGED loc
               /\ UNCHANGED <<live, tmp, history>>
    /\ UNCHANGED <<marker, pending, store, bounds>>

\* drop_unpublished: the staged files, then the intent.
Abandon(w) ==
    /\ pc[w] = "abandon"
    /\ tmp' = DiscardStaged(loc[w].mem)
    /\ Goto(w, "abandonClear")
    /\ UNCHANGED <<live, marker, pending, store, loc, history, bounds>>

AbandonClear(w) ==
    /\ pc[w] = "abandonClear"
    /\ \/ Forget
       \/ "abandon" \in Faults /\ UNCHANGED <<pending, carried, since>>
    /\ Fail(w)
    /\ UNCHANGED <<live, tmp, marker, store, foreign, bounds>>

\* switch() sets the local pointer once more when the lock has been released.
Adopt(w) ==
    /\ pc[w] = "adopt"
    /\ \/ settings' = loc[w].provider
       \/ "commit" \in Faults /\ UNCHANGED settings
    /\ Goto(w, "idle") /\ Set(w, Blank)
    /\ UNCHANGED <<disk, row, dbp, history, bounds>>

RestoredRow(w) == [row EXCEPT ![loc[w].provider] = loc[w].oldRow]
RolledBack(w)  ==
    IF pending = NoPending /\ loc[w].kind # "sync" THEN RestoredRow(w) ELSE row

\* The command failed: its row stays only if an intent is still there.
Rollback(w) ==
    /\ pc[w] = "failed"
    /\ row' = RolledBack(w)
    /\ Goto(w, "idle") /\ Set(w, Blank)
    /\ UNCHANGED <<disk, settings, dbp, history, bounds>>

----------------------------------------------------------------------------
(* The environment. *)

InAbandon(w) == pc[w] \in {"abandonClear", "discardClear"}

Crash(p) ==
    /\ up[p] # "down" /\ crashes < MaxCrashes
    /\ CrashInAbandon \/ \A w \in Writer : ProcessOf[w] = p => ~InAbandon(w)
    /\ up' = [up EXCEPT ![p] = "down"]
    /\ holder' = [holder EXCEPT ![p] = Nobody]
    /\ pc' = [w \in Writer |-> IF ProcessOf[w] = p THEN "idle" ELSE pc[w]]
    /\ loc' = [w \in Writer |-> IF ProcessOf[w] = p THEN Blank ELSE loc[w]]
    /\ crashes' = crashes + 1
    /\ UNCHANGED <<disk, store, history, ops, edits>>

\* try_new: one thread recovers before the process does anything else.
Restart(w) ==
    /\ up[ProcessOf[w]] = "down"
    /\ up' = [up EXCEPT ![ProcessOf[w]] = "starting"]
    /\ pc' = [pc EXCEPT ![w] = "lock"]
    /\ Set(w, [Blank EXCEPT !.ret = "startup"])
    /\ UNCHANGED <<disk, store, holder, history, bounds>>

\* The client, or the user, rewrites a file: the user's part of it, which may
\* make it just what an operation under way will write, or all of it.
Rewritten(c) ==
    {Absent, Broken} \cup
    (IF c \in {Absent, Broken} THEN [key : {NoKey}, user : User]
     ELSE {[c EXCEPT !.user = u] : u \in User})

UnderWay(f) ==
    {p \in {pending} \cup {loc[w].mem : w \in Writer} : p # NoPending /\ f \in Parts(p)}
PlannedFor(f) == {p.files[f].planned : p \in UnderWay(f)}

ClientContent(f) ==
    CASE Coincide = "never" -> Rewritten(live[f]) \ PlannedFor(f)
      [] Coincide = "user"  -> Rewritten(live[f])
      [] Coincide = "any"   -> Rewritten(live[f]) \cup PlannedFor(f)

Edit(f) ==
    /\ edits < MaxEdits \/ EndlessEdits
    /\ \E c \in ClientContent(f) \ {live[f]} : live' = [live EXCEPT ![f] = c]
    /\ since' = since \cup {f}
    /\ foreign' = foreign \cup {f}
    /\ edits' = IF EndlessEdits THEN edits ELSE edits + 1
    /\ UNCHANGED <<tmp, marker, pending, store, up, holder, pc, loc, carried, ops, crashes>>

----------------------------------------------------------------------------
Recovery(w) ==
    \/ Lock(w) \/ RecoverNothing(w) \/ RecoverDecide(w) \/ Discard(w) \/ DiscardClear(w)
    \/ ForwardSkip(w) \/ ForwardRead(w) \/ ForwardPublish(w) \/ ForwardDone(w) \/ Tidy(w)

Operation(w) ==
    \/ Plan(w) \/ Stage(w) \/ Intent(w) \/ CheckSame(w) \/ CheckGiveUp(w)
    \/ CheckNoop(w) \/ CheckReplan(w) \/ CheckFails(w) \/ Record(w) \/ DropOld(w)
    \/ Mark(w) \/ Publish(w) \/ Abandon(w) \/ AbandonClear(w)

Step(w) ==
    \/ Recovery(w) \/ Operation(w) \/ Prepare(w) \/ Rollback(w)
    \/ Commit(w) \/ CommitDb(w) \/ Clear(w) \/ Adopt(w)

Next ==
    \/ \E w \in Writer : Begin(w) \/ Step(w) \/ Restart(w)
    \/ \E p \in Process : Crash(p)
    \/ \E f \in File : Edit(f)

Spec == Init /\ [][Next]_vars

\* A running thread goes on, and the program is started again after a crash.
Fairness ==
    \A w \in Writer : WF_vars(Step(w)) /\ WF_vars(Restart(w))

FairSpec == Spec /\ Fairness

----------------------------------------------------------------------------
(* Properties. *)

Quiet == pending = NoPending /\ \A w \in Writer : pc[w] = "idle"

\* What a file holds once it has been written for provider p (with row r).
Carries(f, p, rows) ==
    IF f \in Guarded /\ p \in Deleting THEN live[f] = Absent
    ELSE live[f] \notin {Absent, Broken} /\ \E r \in rows : live[f].key = <<p, r>>

(* When nothing is under way, every file the client has not changed since   *)
(* CC Switch last wrote it belongs to the provider settings.json names, and *)
(* the database names the same one, as long as no client has changed a file *)
(* at all: no crash or failed write leaves a switch half done (the rules at *)
(* the top of mode/operation.rs).                                           *)
PointerMatchesFiles ==
    Quiet => /\ \A f \in File \ foreign : Carries(f, settings, Row)
             /\ edits = 0 => settings = dbp

(* A command that failed without a crash keeps the stored row exactly when  *)
(* its operation will be completed: at rest the files hold the stored row   *)
(* (has_pending_live_write in services/provider/mod.rs).                    *)
RowMatchesFiles ==
    Quiet /\ crashes = 0 => \A f \in File \ foreign : Carries(f, settings, {row[settings]})

(* Staged files hold API keys: without a crash none outlives its operation. *)
NoStagedFileLeft == Quiet /\ crashes = 0 => tmp = {}

(* Once a file has been replaced, the disk says that publishing began and   *)
(* the first-write backup of that file has been taken, whatever dies next.  *)
PublishedIsRecorded ==
    carried # {} => /\ pending # NoPending /\ pending.published
                    /\ carried \subseteq marker

(* While publishing has begun, every file of the operation is written, was  *)
(* taken over by the client, or can still be written from its staged file:  *)
(* recovery never has to skip a file that nobody else changed.              *)
Accounted(f) ==
    \/ f \in carried \cup since
    \/ pending.files[f].pre = pending.files[f].planned

CanRollForward ==
    pending # NoPending /\ pending.published /\ (\A w \in Writer : ~InAbandon(w))
        => \A f \in Parts(pending) :
             Accounted(f) \/ (live[f] = pending.files[f].pre /\ Usable(pending.files[f]))

(* The pointer never moves while a file of the operation is neither written *)
(* nor changed by the client: an operation that gave up "changed nothing"   *)
(* (drop_unpublished in mode/operation.rs).                                 *)
PointerMovesLast ==
    [][settings' # settings /\ pending # NoPending
         => \A f \in Parts(pending) : Accounted(f)]_vars

(* The whole protocol, crashes, failed calls and interfering clients        *)
(* included, behaves as one operation that is done or not done at all, with *)
(* the pointer in the database (the local one is also written without the   *)
(* lock, at the end of a switch).                                           *)
Atomic == INSTANCE AtomicOperation WITH
    pointer <- dbp,
    open    <- pending # NoPending,
    goal    <- IF pending = NoPending THEN NoPointer ELSE pending.pointer,
    left    <- IF pending = NoPending THEN {}
               ELSE {f \in Parts(pending) : ~Accounted(f)},
    begun   <- carried # {}

ImplementsAtomicOperation == Atomic!Spec

(* A rename replaces what its writer last read, except for a client's write *)
(* that falls between that reading and the rename (live/engine.rs).  In an  *)
(* operation the user's part is that of the reading.                        *)
EditsSurvive(label) ==
    \A w \in Writer, f \in File \ Guarded :
        /\ pc[w] = label /\ Turn(w, f) /\ live'[f] # live[f]
        /\ pc'[w] \notin {label, "idle"}
        /\ loc[w].seen \notin {Absent, Broken}
        => live'[f].user = loc[w].seen.user

OperationKeepsEdits == [][EditsSurvive("publish")]_vars

(* Recovery leaves alone a file that was changed when it last read it.      *)
RecoveryKeepsEdits == [][EditsSurvive("forwardPublish")]_vars

(* Two writers of CC Switch never overwrite each other: a file about to be  *)
(* replaced holds what its writer read, or the client changed it meanwhile  *)
(* (lock_app in live/engine.rs).                                            *)
WritersNeverOverwriteEachOther ==
    \A w \in Writer, f \in File :
        pc[w] = "publish" /\ Turn(w, f) /\ f \notin foreign => live[f] = loc[w].seen

(* Every command and every startup comes to an end, however often the       *)
(* client changes the files meanwhile.                                      *)
CommandsReturn == \A w \in Writer : pc[w] # "idle" ~> pc[w] = "idle"

(* A process that died comes back with nothing left to recover.             *)
StartupRecovers ==
    \A p \in Process : up[p] = "down" ~> (up[p] = "up" /\ pending = NoPending)
=============================================================================
