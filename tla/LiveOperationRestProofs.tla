------------------------ MODULE LiveOperationRestProofs ------------------------
(***************************************************************************)
(* What the client files, settings.json and the database say once nothing  *)
(* is under way (PointerMatchesFiles), for any number of files, providers, *)
(* rows, commands, edits, crashes and failed calls.                        *)
(*                                                                         *)
(* On top of Assumed in LiveOperationAtomicProofs, one thread gives the    *)
(* commands: the write at the end of switch is made without the lock.  The *)
(* client may write anything, also just what an operation planned.         *)
(*                                                                         *)
(* FilesInv is about the disk: a file the client left alone belongs to the *)
(* provider in settings.json until the pending operation writes it, and    *)
(* from then on to the provider that operation leads to.  AimInv is about  *)
(* the thread: what it plans, and the pointer it will set, are those of    *)
(* the provider its command names.                                         *)
(*                                                                         *)
(* The last part is about staged files (NoStagedFileLeft).  There the      *)
(* commands may come from several threads of the process.                  *)
(***************************************************************************)
EXTENDS LiveOperationAtomicProofs

\* The content a file has once it is written for row r of provider p.
Exact(f, c, p, r) ==
    IF f \in Guarded /\ p \in Deleting THEN c = Absent
    ELSE c \notin {Absent, Broken} /\ c.key = <<p, r>>

\* A content a file may have for provider p, whatever the row.
BelongsTo(f, c, p) ==
    IF f \in Guarded /\ p \in Deleting THEN c = Absent
    ELSE c \notin {Absent, Broken} /\ \E r \in Row : c.key = <<p, r>>

\* The provider the pending operation will leave behind.
Goal == IF pending.pointer = NoPointer THEN settings ELSE pending.pointer

\* Every file of an intent is to be written for provider p; one that already
\* held what was planned is as the client, or the operation, wrote it.
LeadsTo(m, p) ==
    \A f \in Parts(m) :
        /\ m.files[f].pre = m.files[f].planned => f \in foreign \cup carried
        /\ BelongsTo(f, m.files[f].planned, p)

FilesInv ==
    /\ since \subseteq foreign
    /\ \A f \in File \ (foreign \cup carried) : BelongsTo(f, live[f], settings)
    /\ pending # NoPending =>
         /\ LeadsTo(pending, Goal)
         /\ \A f \in File \ foreign :
              f \in carried \/ f \notin Parts(pending) => BelongsTo(f, live[f], Goal)

----------------------------------------------------------------------------
(* The thread. *)

\* An operation, from the plan to the end.
Acting(w) == loc[w].ret = "op" /\ pc[w] \notin {"idle", "failed", "adopt"}

\* From storing the row to the end of the operation.
Aiming(w) ==
    \/ loc[w].ret = "begin" /\ pc[w] \in {"lock", "recover", "discard", "discardClear"}
    \/ loc[w].ret = "run" /\ pc[w] = "recover"
    \/ pc[w] = "plan"
    \/ Acting(w)

Aimed(w) ==
    LET l == loc[w] IN
    /\ l.key[1] = l.provider
    /\ IF l.pointer = NoPointer THEN settings = l.provider ELSE l.pointer = l.provider

\* "sync" takes the current provider, and moves no pointer.
Started(w) ==
    LET l == loc[w] IN
    /\ l.kind = "sync" /\ l.ret \in {"first", "settle"} => pc[w] = "prepare"
    /\ l.kind = "sync" /\ pc[w] = "prepare" => settings = l.provider
    /\ l.ret = "run" => /\ pc[w] \in {"recover", "plan", "failed"}
                        /\ pc[w] = "recover" => pending = NoPending

Outlined(w) ==
    LET l == loc[w] IN
    /\ LeadsTo(l.mem, l.provider) /\ l.mem.pointer = l.pointer
    /\ \A f \in File \ (foreign \cup Parts(l.mem)) : BelongsTo(f, live[f], l.provider)

\* A file that is not as it was read has been changed by the client.
Watched(w) ==
    \A f \in loc[w].todo : live[f] = loc[w].mem.files[f].pre \/ f \in foreign

AimInv(w) ==
    /\ Started(w)
    /\ Aiming(w) => Aimed(w)
    /\ Acting(w) => Outlined(w)
    /\ pc[w] \in {"stage", "intent"} \cup Looping => Watched(w)
    /\ pc[w] \in {"commitDb", "tidy", "clear"} => loc[w].mem.pointer \in {NoPointer, settings}
    /\ pc[w] = "adopt" => settings = loc[w].provider

Resting == Here /\ Alone /\ FilesInv /\ \A w \in Writer : AimInv(w)

LEMMA RestingFacts ==
    ASSUME Resting, NEW w \in Writer
    PROVE  /\ Here /\ FilesInv /\ AimInv(w) /\ WriterInv(w) /\ PendingInv
           /\ loc[w] \in Local /\ loc[w].todo \subseteq Parts(loc[w].mem)
           /\ loc[w].mem # NoPending
           /\ pc \in [Writer -> Labels] /\ pc[w] \in Labels /\ loc \in [Writer -> Local]
           /\ live \in [File -> Content] /\ pending \in Pending \cup {NoPending}
           /\ settings \in Provider /\ foreign \subseteq File
           /\ CarriedInv /\ (pending = NoPending => carried = {})
  <1>1. loc[w] \in Local  BY DEF Resting, Here, Inv, Control
  <1>2. loc[w].mem # NoPending  BY <1>1, MarkersAssumption DEF Local
  <1>3. QED
    BY <1>1, <1>2 DEF Resting, Here, AtomicInv, Inv, Control, Disk, Good, PendingInv,
       CarriedInv

----------------------------------------------------------------------------
(* The disk. *)

LEMMA FilesSame ==
    ASSUME FilesInv, UNCHANGED <<live, pending, carried, since, foreign, settings>>
    PROVE  FilesInv'
  BY DEF FilesInv, LeadsTo, Goal, BelongsTo, Parts

\* The intent is dropped before a file was written, or once all are.
LEMMA FilesForget ==
    ASSUME FilesInv, Forget, UNCHANGED <<live, foreign, settings>>,
           carried \subseteq foreign \/ (pending # NoPending /\ Goal = settings)
    PROVE  FilesInv'
  BY DEF FilesInv, Forget, BelongsTo

\* A file is written.
LEMMA FilesRename ==
    ASSUME Resting, pending # NoPending, NEW f \in Parts(pending),
           Rename(f, pending.files[f]), UNCHANGED <<pending, settings>>
    PROVE  FilesInv'
  <1>0. f \in File /\ live \in [File -> Content] /\ FilesInv
    BY DEF Parts, Resting, Here, Inv, Disk
  <1>1. /\ live'[f] = pending.files[f].planned
        /\ \A g \in File \ {f} : live'[g] = live[g]
        /\ carried' = carried \cup {f}
        /\ since' = since \ {f} /\ foreign' = foreign \ {f}
    BY <1>0 DEF Rename
  <1>2. Goal' = Goal  BY DEF Goal
  <1>3. LeadsTo(pending, Goal)  BY <1>0 DEF FilesInv
  <1>4. LeadsTo(pending, Goal)'  BY <1>0, <1>1, <1>2, <1>3 DEF LeadsTo, BelongsTo
  <1>5. BelongsTo(f, live'[f], Goal)  BY <1>1, <1>3 DEF LeadsTo
  <1>6. since' \subseteq foreign'  BY <1>0, <1>1 DEF FilesInv
  <1>7. ASSUME NEW g \in File \ (foreign' \cup carried') PROVE BelongsTo(g, live'[g], settings')
    <2>1. g # f /\ g \in File \ (foreign \cup carried)  BY <1>1, <1>7
    <2>2. QED  BY <1>0, <1>1, <2>1 DEF FilesInv
  <1>8. ASSUME NEW g \in File \ foreign', g \in carried' \/ g \notin Parts(pending)
        PROVE  BelongsTo(g, live'[g], Goal)
    <2>1. CASE g = f  BY <1>5, <2>1
    <2>2. CASE g # f
      <3>1. g \in File \ foreign /\ (g \in carried \/ g \notin Parts(pending))
        BY <1>1, <1>8, <2>2
      <3>2. QED  BY <1>0, <1>1, <2>2, <3>1 DEF FilesInv
    <2>3. QED  BY <2>1, <2>2
  <1>9. QED  BY <1>2, <1>4, <1>6, <1>7, <1>8 DEF FilesInv, BelongsTo

\* The intent is written again, for the same files and the same provider.
LEMMA FilesAmended ==
    ASSUME FilesInv, pending # NoPending, pending' # NoPending,
           Parts(pending') = Parts(pending), pending'.pointer = pending.pointer,
           LeadsTo(pending', Goal), since' \subseteq foreign,
           UNCHANGED <<live, carried, foreign, settings>>
    PROVE  FilesInv'
  <1>1. Goal' = Goal  BY DEF Goal
  <1>2. LeadsTo(pending, Goal)'  BY <1>1 DEF LeadsTo, BelongsTo
  <1>3. QED  BY <1>1, <1>2 DEF FilesInv, BelongsTo

\* The pointer is set: every file is written, or is not part of it.
LEMMA FilesCommitted ==
    ASSUME FilesInv, pending # NoPending, AllAccounted, pending.pointer # NoPointer,
           settings' = pending.pointer, UNCHANGED <<live, pending, carried, since, foreign>>
    PROVE  FilesInv'
  <1>1. Goal' = Goal /\ settings' = Goal  BY DEF Goal
  <1>2. LeadsTo(pending, Goal)  BY DEF FilesInv
  <1>3. LeadsTo(pending, Goal)'  BY <1>1, <1>2 DEF LeadsTo, BelongsTo
  <1>4. ASSUME NEW f \in File \ (foreign \cup carried) PROVE BelongsTo(f, live[f], Goal)
    <2>1. f \notin Parts(pending)
      BY <1>2, <1>4 DEF AllAccounted, Accounted, LeadsTo, FilesInv
    <2>2. QED  BY <1>4, <2>1 DEF FilesInv
  <1>5. QED  BY <1>1, <1>3, <1>4 DEF FilesInv, BelongsTo

----------------------------------------------------------------------------
(* Where a thread goes when its part is over. *)

\* At rest, or on the way to store a row.
LEMMA AimNone ==
    ASSUME NEW w \in Writer, pc'[w] \in {"idle", "failed", "lock", "prepare"},
           loc'[w].kind = "sync" /\ loc'[w].ret \in {"first", "settle"} => pc'[w] = "prepare",
           loc'[w].kind = "sync" /\ pc'[w] = "prepare" => settings' = loc'[w].provider,
           loc'[w].ret = "run" => pc'[w] = "failed",
           pc'[w] \in {"lock", "prepare"} => loc'[w].ret \notin {"begin", "op"}
    PROVE  AimInv(w)'
  BY DEF AimInv, Started, Aiming, Acting, Looping

LEMMA AimFinish ==
    ASSUME Resting, NEW w \in Writer, Finish(w) \/ Fail(w), pc[w] # "prepare"
    PROVE  AimInv(w)'
  <1>1. CASE Finish(w)
    <2>1. pc'[w] = "idle" /\ loc'[w] = Blank  BY <1>1, LeavesTo, RestingFacts DEF Finish
    <2>2. Blank.ret = "none"  BY DEF Blank
    <2>3. QED  BY <2>1, <2>2, AimNone
  <1>2. CASE Fail(w)
    <2>1. pc'[w] = "failed" /\ loc'[w] = loc[w]  BY <1>2, LeavesTo, RestingFacts DEF Fail
    <2>2. QED  BY <2>1, AimNone, RestingFacts DEF AimInv, Started
  <1>3. QED  BY <1>1, <1>2

\* Where recovery hands over, and what it has found.
LEMMA AimAfterRecover ==
    ASSUME Resting, NEW w \in Writer, NEW outcome, AfterRecover(w, outcome),
           loc[w].ret # "op", pc[w] \notin {"idle", "lock", "prepare", "plan", "failed"},
           settings' = settings,
           outcome \in {"none", "discarded"}
             => pc[w] \in {"recover", "discard", "discardClear"} /\ pending' = NoPending
    PROVE  AimInv(w)'
  <1> DEFINE l == loc[w]
  <1>0. l \in Local /\ AimInv(w) /\ Here  BY RestingFacts
  <1>1. CASE Finish(w) \/ Fail(w)  BY <1>1, AimFinish
  <1>2. CASE l.ret = "first" /\ Leave(w, "lock", [l EXCEPT !.ret = "settle"])
    <2>1. /\ pc'[w] = "lock" /\ loc'[w].ret = "settle"
          /\ loc'[w].kind = l.kind
      BY <1>0, <1>2, LeavesTo DEF Local
    <2>2. l.kind # "sync"  BY <1>0, <1>2 DEF AimInv, Started
    <2>3. QED  BY <2>1, <2>2, AimNone
  <1>3. CASE l.ret = "settle" /\ Leave(w, "prepare", l)
    <2>1. pc'[w] = "prepare" /\ loc'[w] = l  BY <1>0, <1>3, LeavesTo
    <2>2. l.kind # "sync"  BY <1>0, <1>3 DEF AimInv, Started
    <2>3. QED  BY <1>3, <2>1, <2>2, AimNone
  <1>4. CASE /\ l.ret = "begin" /\ outcome \in {"none", "discarded"}
             /\ Goto(w, "recover") /\ Set(w, [l EXCEPT !.ret = "run"])
    <2>1. /\ pc'[w] = "recover" /\ loc'[w].ret = "run" /\ loc'[w].key = l.key
          /\ loc'[w].provider = l.provider /\ loc'[w].pointer = l.pointer
      BY <1>0, <1>4, GoesTo DEF Local
    <2>2. Aimed(w)  BY <1>0, <1>4 DEF AimInv, Aiming
    <2>3. Aimed(w)' /\ pending' = NoPending  BY <1>4, <2>1, <2>2 DEF Aimed
    <2>4. QED
      BY <2>1, <2>3 DEF AimInv, Started, Aiming, Acting, Looping
  <1>5. CASE l.ret = "run" /\ Goto(w, "plan") /\ Set(w, l)
    <2>1. pc'[w] = "plan" /\ loc'[w] = l  BY <1>0, <1>5, GoesTo
    <2>2. pc[w] = "recover"  BY <1>0, <1>5 DEF AimInv, Started
    <2>3. Aimed(w)  BY <1>0, <1>5, <2>2 DEF AimInv, Aiming
    <2>4. Aimed(w)'  BY <2>1, <2>3 DEF Aimed
    <2>5. QED
      BY <1>5, <2>1, <2>4 DEF AimInv, Started, Aiming, Acting, Looping
  <1>6. CASE pc' = [pc EXCEPT ![w] = "idle"] /\ Set(w, Blank)
    <2>1. pc'[w] = "idle" /\ loc'[w] = Blank  BY <1>6, RestingFacts DEF Set
    <2>2. Blank.ret = "none"  BY DEF Blank
    <2>3. QED  BY <2>1, <2>2, AimNone
  <1>7. QED
    BY <1>1, <1>2, <1>3, <1>4, <1>5, <1>6 DEF AfterRecover

----------------------------------------------------------------------------
(* Recovery. *)

LEMMA RecoverRests ==
    ASSUME Resting, NEW w \in Writer,
           RecoverNothing(w) \/ RecoverDecide(w) \/ Discard(w) \/ DiscardClear(w)
    PROVE  FilesInv' /\ AimInv(w)'
  <1> DEFINE l == loc[w]
  <1>0. /\ l \in Local /\ AimInv(w) /\ Here /\ FilesInv /\ WriterInv(w)
        /\ pc[w] \in {"recover", "discard", "discardClear"}
    BY RestingFacts DEF RecoverNothing, RecoverDecide, Discard, DiscardClear
  <1>1. l.ret # "op"  BY <1>0 DEF WriterInv, Leaving
  <1>2. CASE RecoverNothing(w)
    <2>1. FilesInv'  BY <1>0, <1>2, FilesSame DEF RecoverNothing, disk, store, history
    <2>2. pending' = NoPending /\ settings' = settings
      BY <1>2 DEF RecoverNothing, HasPending, disk, store
    <2>3. AimInv(w)'  BY <1>0, <1>1, <1>2, <2>2, AimAfterRecover DEF RecoverNothing
    <2>4. QED  BY <2>1, <2>3
  <1>3. CASE RecoverDecide(w)
    <2>1. FilesInv'  BY <1>0, <1>3, FilesSame DEF RecoverDecide, disk, store, history
    <2>2. /\ pc'[w] \in {"forward", "discard"}
          /\ loc'[w] = [l EXCEPT !.mem = pending, !.todo = {f \in Parts(pending) : AtPre(f)}]
      BY <1>0, <1>3, GoesTo DEF RecoverDecide
    <2>3. /\ loc'[w].ret = l.ret /\ loc'[w].key = l.key /\ loc'[w].kind = l.kind
          /\ loc'[w].provider = l.provider /\ loc'[w].pointer = l.pointer
      BY <1>0, <2>2 DEF Local
    <2>4. /\ settings' = settings /\ pending # NoPending /\ pc[w] = "recover"
      BY <1>3 DEF RecoverDecide, store, HasPending
    <2>5. Started(w)'  BY <1>0, <2>2, <2>3, <2>4 DEF AimInv, Started
    <2>6. Aiming(w)' => Aiming(w)  BY <1>1, <2>2, <2>3, <2>4 DEF Aiming, Acting
    <2>7. Aiming(w)' => Aimed(w)'  BY <1>0, <2>3, <2>4, <2>6 DEF AimInv, Aimed
    <2>8. QED  BY <1>1, <2>1, <2>2, <2>3, <2>5, <2>7 DEF AimInv, Acting, Looping
  <1>4. CASE Discard(w)
    <2>1. FilesInv'  BY <1>0, <1>4, FilesSame DEF Discard, store, history
    <2>2. pc'[w] = "discardClear" /\ loc'[w] = l /\ pc[w] = "discard"
      BY <1>0, <1>4, GoesTo DEF Discard
    <2>3. settings' = settings /\ pending' = pending  BY <1>4 DEF Discard, store
    <2>4. QED
      BY <1>0, <1>1, <2>1, <2>2, <2>3 DEF AimInv, Started, Aiming, Acting, Aimed, Looping
  <1>5. CASE DiscardClear(w)
    <2>1. settings' = settings /\ UNCHANGED <<live, foreign>> /\ pc[w] = "discardClear"
      BY <1>5 DEF DiscardClear, store
    <2>2. CASE Forget /\ AfterRecover(w, "discarded")
      <3>1. carried \subseteq foreign  BY <1>0, <2>1 DEF WriterInv, Leaving, FilesInv
      <3>2. FilesInv'  BY <1>0, <2>1, <2>2, <3>1, FilesForget
      <3>3. AimInv(w)'  BY <1>1, <2>1, <2>2, AimAfterRecover DEF Forget
      <3>4. QED  BY <3>2, <3>3
    <2>3. CASE AfterRecover(w, "error") /\ UNCHANGED <<pending, carried, since>>
      BY <1>0, <1>1, <2>1, <2>3, FilesSame, AimAfterRecover
    <2>4. QED  BY <1>5, <2>2, <2>3 DEF DiscardClear
  <1>6. QED  BY <1>0, <1>2, <1>3, <1>4, <1>5

LEMMA ForwardRests ==
    ASSUME Resting, NEW w \in Writer,
           ForwardSkip(w) \/ ForwardRead(w) \/ ForwardPublish(w) \/ ForwardDone(w)
    PROVE  FilesInv' /\ AimInv(w)'
  <1> DEFINE l == loc[w]
  <1>0. /\ l \in Local /\ AimInv(w) /\ Here /\ FilesInv
        /\ pc[w] \in Forth
    BY RestingFacts DEF ForwardSkip, ForwardRead, ForwardPublish, ForwardDone, Forth
  <1>1. /\ l.ret # "op" /\ pending # NoPending /\ pending = l.mem
        /\ l.todo \subseteq Parts(pending)
    BY <1>0, ForthFacts
  <1>2. l.ret # "run" /\ (l.kind = "sync" => l.ret \notin {"first", "settle"})
    BY <1>0 DEF AimInv, Started, Forth
  <1>3. ASSUME NEW label \in {"forward", "forwardPublish", "commit"}, Goto(w, label),
               loc'[w].ret = l.ret, loc'[w].kind = l.kind
        PROVE  AimInv(w)'
    <2>1. pc'[w] = label  BY <1>0, <1>3, GoesTo
    <2>2. QED
      BY <1>1, <1>2, <1>3, <2>1 DEF AimInv, Started, Aiming, Acting, Looping
  <1>4. CASE ForwardSkip(w) \/ ForwardRead(w) \/ ForwardDone(w)
    <2>1. FilesInv'
      BY <1>0, <1>4, FilesSame DEF ForwardSkip, ForwardRead, ForwardDone, disk, store, history
    <2>2. \/ \E f \in File : Set(w, [l EXCEPT !.todo = @ \ {f}])
          \/ \E f \in File : Set(w, [l EXCEPT !.seen = live[f]])
          \/ loc' = loc
      BY <1>4 DEF ForwardSkip, ForwardRead, ForwardDone
    <2>3. loc'[w].ret = l.ret /\ loc'[w].kind = l.kind
      BY <1>0, <2>2, RestingFacts DEF Set, Local
    <2>4. AimInv(w)'
      BY <1>3, <1>4, <2>3 DEF ForwardSkip, ForwardRead, ForwardDone
    <2>5. QED  BY <2>1, <2>4
  <1>5. CASE ForwardPublish(w)
    <2>1. settings' = settings /\ UNCHANGED pending /\ pc[w] = "forwardPublish"
      BY <1>5 DEF ForwardPublish, store
    <2>2. CASE \E f \in File : /\ Turn(w, f) /\ Rename(f, l.mem.files[f])
                               /\ Set(w, [l EXCEPT !.todo = @ \ {f}])
                               /\ Goto(w, "forward")
      <3>1. PICK f \in File : /\ Turn(w, f) /\ Rename(f, l.mem.files[f])
                              /\ Set(w, [l EXCEPT !.todo = @ \ {f}])
                              /\ Goto(w, "forward")
        BY <2>2
      <3>2. f \in Parts(pending)  BY <1>1, <3>1 DEF Turn
      <3>3. FilesInv'  BY <1>1, <2>1, <3>1, <3>2, FilesRename
      <3>4. loc'[w].ret = l.ret /\ loc'[w].kind = l.kind
        BY <1>0, <3>1, RestingFacts DEF Set, Local
      <3>5. QED  BY <1>3, <3>1, <3>3, <3>4
    <2>3. CASE AfterRecover(w, "error") /\ UNCHANGED <<live, tmp, history>>
      <3>1. FilesInv'  BY <1>0, <2>1, <2>3, FilesSame DEF history
      <3>2. AimInv(w)'  BY <1>1, <2>1, <2>3, AimAfterRecover
      <3>3. QED  BY <3>1, <3>2
    <2>4. QED  BY <1>5, <2>2, <2>3 DEF ForwardPublish
  <1>6. QED  BY <1>4, <1>5

----------------------------------------------------------------------------
(* The target and the end. *)

\* A command that is done leaves settings.json naming its provider.
LEMMA AimReturn ==
    ASSUME Resting, NEW w \in Writer, Return(w), pc[w] # "prepare", loc[w].ret = "op",
           settings' = loc[w].provider
    PROVE  AimInv(w)'
  <1>1. CASE Finish(w)  BY <1>1, AimFinish
  <1>2. CASE Leave(w, "adopt", loc[w])
    <2>1. pc'[w] = "adopt" /\ loc'[w] = loc[w]  BY <1>2, LeavesTo, RestingFacts
    <2>2. QED
      BY <2>1 DEF AimInv, Started, Aiming, Acting, Looping
  <1>3. QED  BY <1>1, <1>2 DEF Return

\* From one label of commit_target to another.
LEMMA AimTarget ==
    ASSUME Resting, NEW w \in Writer, NEW label \in {"commitDb", "tidy", "clear"},
           Goto(w, label), UNCHANGED <<loc, live, foreign, carried>>,
           pc[w] \in {"commit", "commitDb", "tidy"},
           loc[w].mem.pointer \in {NoPointer, settings'},
           settings' = settings \/ loc[w].mem.pointer # NoPointer
    PROVE  AimInv(w)'
  <1>0. AimInv(w) /\ Here /\ loc[w] \in Local  BY RestingFacts
  <1>1. pc'[w] = label /\ loc'[w] = loc[w]  BY <1>0, GoesTo
  <1>2. Started(w)'  BY <1>0, <1>1 DEF AimInv, Started
  <1>3. Acting(w)' = Acting(w)  BY <1>1 DEF Acting
  <1>4. Aiming(w)' => Acting(w)  BY <1>1, <1>3 DEF Aiming
  <1>5. Acting(w) => Aimed(w) /\ Outlined(w)  BY <1>0 DEF AimInv, Aiming
  <1>6. Acting(w) => Aimed(w)'  BY <1>1, <1>5 DEF Aimed, Outlined
  <1>7. Acting(w) => Outlined(w)'  BY <1>1, <1>5 DEF Outlined, LeadsTo, BelongsTo
  <1>8. QED  BY <1>1, <1>2, <1>3, <1>4, <1>6, <1>7 DEF AimInv, Looping

LEMMA AimCommitError ==
    ASSUME Resting, NEW w \in Writer, CommitError(w), UNCHANGED settings,
           pc[w] \in {"commit", "commitDb", "clear"}
    PROVE  AimInv(w)'
  BY AimFinish, AimAfterRecover DEF CommitError, Recovering

\* With the pointer where it is to be, an operation ends or goes on to clear.
LEMMA AimCommitted ==
    ASSUME Resting, NEW w \in Writer, Committed(w), pc[w] \in {"commit", "commitDb"},
           loc[w].mem.pointer \in {NoPointer, settings},
           UNCHANGED <<settings, live, foreign, carried>>
    PROVE  AimInv(w)'
  <1>1. CASE Return(w) /\ loc[w].ret = "op"
    <2>1. Acting(w)  BY <1>1 DEF Acting
    <2>2. Aimed(w) /\ Outlined(w)  BY <2>1, RestingFacts DEF AimInv, Aiming
    <2>3. settings = loc[w].provider  BY <2>2 DEF Aimed, Outlined
    <2>4. QED  BY <1>1, <2>3, AimReturn
  <1>2. CASE (Goto(w, "tidy") \/ Goto(w, "clear")) /\ UNCHANGED loc
    BY <1>2, AimTarget
  <1>3. QED  BY <1>1, <1>2 DEF Committed, Recovering

LEMMA CommitRests ==
    ASSUME Resting, NEW w \in Writer, Commit(w) \/ CommitDb(w)
    PROVE  FilesInv' /\ AimInv(w)'
  <1> DEFINE l == loc[w]
  <1>0. /\ l \in Local /\ AimInv(w) /\ Here /\ FilesInv
        /\ pc[w] \in {"commit", "commitDb"} /\ InEnding(w)
        /\ UNCHANGED <<live, pending, carried, since, foreign>>
    BY RestingFacts DEF Commit, CommitDb, WriterInv, Ending, disk, history
  <1>1. CASE settings' = settings
    <2>1. FilesInv'  BY <1>0, <1>1, FilesSame
    <2>2. CASE CommitError(w)  BY <1>0, <1>1, <2>1, <2>2, AimCommitError
    <2>3. CASE Committed(w) /\ l.mem.pointer \in {NoPointer, settings}
      BY <1>0, <1>1, <2>1, <2>3, AimCommitted
    <2>4. CASE Goto(w, "commitDb") /\ UNCHANGED loc /\ settings' = l.mem.pointer
      BY <1>0, <1>1, <2>1, <2>4, AimTarget
    <2>5. pc[w] = "commitDb" => l.mem.pointer \in {NoPointer, settings}
      BY <1>0 DEF AimInv
    <2>6. QED  BY <2>2, <2>3, <2>4, <2>5 DEF Commit, CommitDb
  <1>2. CASE settings' # settings
    <2>1. /\ Goto(w, "commitDb") /\ UNCHANGED loc
          /\ settings' = l.mem.pointer /\ l.mem.pointer # NoPointer
      BY <1>2 DEF Commit, CommitDb
    <2>2. AimInv(w)'  BY <1>0, <2>1, AimTarget
    <2>3. CASE pending # NoPending
      <3>1. pending = l.mem /\ AllAccounted  BY <1>0, <2>3 DEF InEnding
      <3>2. FilesInv'  BY <1>0, <2>1, <2>3, <3>1, FilesCommitted
      <3>3. QED  BY <2>2, <3>2
    <2>4. CASE pending = NoPending
      <3>1. Acting(w) /\ Parts(l.mem) = {}  BY <1>0, <2>4 DEF InEnding, Acting
      <3>2. Aimed(w) /\ Outlined(w)  BY <1>0, <3>1 DEF AimInv, Aiming
      <3>3. settings' = l.provider  BY <2>1, <3>2 DEF Aimed, Outlined
      <3>4. \A f \in File \ foreign : BelongsTo(f, live[f], l.provider)
        BY <3>1, <3>2 DEF Outlined
      <3>5. FilesInv'  BY <1>0, <2>4, <3>3, <3>4 DEF FilesInv, BelongsTo
      <3>6. QED  BY <2>2, <3>5
    <2>5. QED  BY <2>3, <2>4
  <1>3. QED  BY <1>1, <1>2

LEMMA ClearRests ==
    ASSUME Resting, NEW w \in Writer, Tidy(w) \/ Clear(w)
    PROVE  FilesInv' /\ AimInv(w)'
  <1> DEFINE l == loc[w]
  <1>0. /\ l \in Local /\ AimInv(w) /\ Here /\ FilesInv
        /\ pc[w] \in {"tidy", "clear"} /\ pending # NoPending /\ pending = l.mem
        /\ UNCHANGED <<live, foreign, settings>>
    BY RestingFacts DEF Tidy, Clear, WriterInv, Ending, InEnding, store, history
  <1>1. l.mem.pointer \in {NoPointer, settings}  BY <1>0 DEF AimInv
  <1>2. Goal = settings  BY <1>0, <1>1 DEF Goal
  <1>3. CASE Tidy(w)
    <2>1. FilesInv'  BY <1>0, <1>3, FilesSame DEF Tidy, history
    <2>2. AimInv(w)'  BY <1>0, <1>1, <1>3, AimTarget DEF Tidy, history
    <2>3. QED  BY <2>1, <2>2
  <1>4. CASE Clear(w)
    <2>0. pc[w] = "clear"  BY <1>4 DEF Clear
    <2>1. CASE Forget /\ IF Recovering(w) THEN AfterRecover(w, "forwarded") ELSE Return(w)
      <3>1. FilesInv'  BY <1>0, <1>2, <2>1, FilesForget
      <3>2. CASE Recovering(w)
        BY <1>0, <2>0, <2>1, <3>1, <3>2, AimAfterRecover DEF Recovering
      <3>3. CASE ~Recovering(w)
        <4>1. Acting(w)  BY <2>0, <3>3 DEF Acting, Recovering
        <4>2. Aimed(w) /\ Outlined(w)  BY <1>0, <4>1 DEF AimInv, Aiming
        <4>3. settings = l.provider  BY <1>1, <4>2 DEF Aimed, Outlined
        <4>4. QED  BY <1>0, <2>0, <2>1, <3>1, <3>3, <4>3, AimReturn DEF Recovering
      <3>4. QED  BY <3>2, <3>3
    <2>2. CASE CommitError(w) /\ UNCHANGED <<pending, carried, since>>
      BY <1>0, <2>0, <2>2, FilesSame, AimCommitError
    <2>3. QED  BY <1>4, <2>1, <2>2 DEF Clear
  <1>5. QED  BY <1>3, <1>4

----------------------------------------------------------------------------
(* Planning, staging, announcing. *)

LEMMA PatchExact ==
    ASSUME NEW f \in File, NEW key \in Key, NEW expected, NEW c \in Content,
           Patch(f, key, expected, c) # Refused
    PROVE  Exact(f, Patch(f, key, expected, c), key[1], key[2])
  <1> DEFINE new == [key |-> key, user |-> 0]
             Rendered == [key : Key \cup {NoKey}, user : User]
  <1>0. key = <<key[1], key[2]>>  BY DEF Key
  <1>1. new \in Rendered /\ new.key = key  BY InitialAssumption
  <1>2. ASSUME NEW d \in Rendered PROVE d \notin {Absent, Broken}
    BY MarkersAssumption
  <1>3. CASE f \in Guarded
    <2>1. Patch(f, key, expected, c) = IF key[1] \in Deleting THEN Absent ELSE new
      BY <1>3 DEF Patch, Whole
    <2>2. QED  BY <1>0, <1>1, <1>2, <1>3, <2>1 DEF Exact
  <1>4. CASE f \notin Guarded
    <2>1. CASE c = Absent
      <3>1. Patch(f, key, expected, c) = new  BY <1>4, <2>1 DEF Patch
      <3>2. QED  BY <1>0, <1>1, <1>2, <1>4, <3>1 DEF Exact
    <2>2. CASE c \notin {Absent, Broken}
      <3>1. c \in Rendered  BY <2>2 DEF Content
      <3>2. Patch(f, key, expected, c) = [c EXCEPT !.key = key]  BY <1>4, <2>2 DEF Patch
      <3>3. [c EXCEPT !.key = key] \in Rendered /\ [c EXCEPT !.key = key].key = key
        BY <3>1
      <3>4. QED  BY <1>0, <1>2, <1>4, <3>2, <3>3 DEF Exact
    <2>3. c # Broken  BY <1>4 DEF Patch
    <2>4. QED  BY <2>1, <2>2, <2>3
  <1>5. QED  BY <1>3, <1>4


LEMMA PatchBelongs ==
    ASSUME NEW f \in File, NEW key \in Key, NEW expected, NEW c \in Content,
           Patch(f, key, expected, c) # Refused
    PROVE  BelongsTo(f, Patch(f, key, expected, c), key[1])
  <1>1. key[2] \in Row  BY DEF Key
  <1>2. QED  BY <1>1, PatchExact DEF Exact, BelongsTo

\* A file takes part in a plan exactly when its content would change.
LEMMA PlannedFacts ==
    ASSUME Resting, NEW w \in Writer, loc[w].key \in Key,
           \A f \in File : PatchOf(w, f) # Refused
    PROVE  /\ \A f \in Parts(Planned(w)) :
                LET e == Planned(w).files[f] IN
                /\ f \in File /\ e.pre = live[f] /\ e.planned = PatchOf(w, f)
                /\ PatchOf(w, f) # live[f]
           /\ \A f \in File \ Parts(Planned(w)) : PatchOf(w, f) = live[f]
  <1> DEFINE m == Planned(w)
  <1>0. loc[w] \in Local /\ live \in [File -> Content]  BY RestingFacts
  <1>1. ASSUME NEW f \in Parts(m)
        PROVE  /\ f \in File /\ m.files[f].pre = live[f]
               /\ m.files[f].planned = PatchOf(w, f) /\ PatchOf(w, f) # live[f]
    <2>1. f \in File /\ m.files[f] # NotPart  BY <1>1 DEF Parts
    <2>2. PatchOf(w, f) # live[f]  BY <2>1 DEF Planned
    <2>3. QED  BY <2>1, <2>2 DEF Planned
  <1>2. ASSUME NEW f \in File \ Parts(m) PROVE PatchOf(w, f) = live[f]
    <2>1. m.files[f] = NotPart  BY <1>2 DEF Parts
    <2>2. CASE PatchOf(w, f) # live[f]
      <3> DEFINE e == [pre |-> live[f], planned |-> PatchOf(w, f),
                       staged |-> Staged(w, f, PatchOf(w, f), 0)]
      <3>1. m.files[f] = e  BY <2>2 DEF Planned
      <3>2. live[f] \in Content /\ PatchOf(w, f) \in Content
        BY <1>0, PatchType DEF PatchOf
      <3>3. 0 \in 0..MaxReplans  BY BoundsAssumption
      <3>4. Staged(w, f, PatchOf(w, f), 0) \in Temp \cup {NoTemp}
        BY <1>0, <3>2, <3>3, StagedType
      <3>5. e \in Entry  BY <3>2, <3>4 DEF Entry
      <3>6. QED  BY <2>1, <3>1, <3>5, NotPartAssumption
    <2>3. QED  BY <2>2
  <1>3. QED  BY <1>1, <1>2

LEMMA PlanRests ==
    ASSUME Resting, NEW w \in Writer, Plan(w)
    PROVE  FilesInv' /\ AimInv(w)'
  <1> DEFINE l == loc[w]
             m == Planned(w)
             todo == Parts(m)
             label == IF todo = {} THEN "commit" ELSE "stage"
  <1>0. /\ l \in Local /\ AimInv(w) /\ Here /\ FilesInv /\ pc[w] = "plan"
        /\ live \in [File -> Content]
    BY RestingFacts DEF Plan
  <1>1. FilesInv'  BY <1>0, FilesSame DEF Plan, disk, store, history
  <1>2. UNCHANGED <<live, settings, foreign, carried>>  BY DEF Plan, disk, store, history
  <1>3. CASE Fail(w)  BY <1>0, <1>1, <1>3, AimFinish
  <1>4. CASE \A f \in File : PatchOf(w, f) # Refused
    <2>1. /\ Set(w, [l EXCEPT !.mem = m, !.ret = "op", !.tries = 0,
                              !.todo = todo, !.any = FALSE]) \/ Fail(w)
          /\ Goto(w, label) \/ Fail(w)
      BY <1>0 DEF Plan
    <2>2. CASE Set(w, [l EXCEPT !.mem = m, !.ret = "op", !.tries = 0,
                               !.todo = todo, !.any = FALSE]) /\ Goto(w, label)
      <3> HIDE DEF m, todo
      <3>1. /\ pc'[w] = label
            /\ loc'[w] = [l EXCEPT !.mem = m, !.ret = "op", !.tries = 0,
                                   !.todo = todo, !.any = FALSE]
        BY <1>0, <2>2, GoesTo
      <3>2. /\ loc'[w].mem = m /\ loc'[w].ret = "op" /\ loc'[w].todo = todo
            /\ loc'[w].key = l.key /\ loc'[w].provider = l.provider
            /\ loc'[w].pointer = l.pointer
        BY <1>0, <3>1 DEF Local
      <3>3. Aimed(w)  BY <1>0 DEF AimInv, Aiming
      <3>4. l.key \in Key /\ l.key[1] = l.provider  BY <1>0, <3>3 DEF Local, Aimed
      <3>5. ASSUME NEW f \in File PROVE BelongsTo(f, PatchOf(w, f), l.provider)
        <4>1. live[f] \in Content  BY <1>0
        <4>2. QED  BY <1>4, <3>4, <4>1, PatchBelongs DEF PatchOf
      <3>6. \A f \in todo :
              /\ f \in File /\ m.files[f].pre = live[f]
              /\ m.files[f].planned = PatchOf(w, f) /\ PatchOf(w, f) # live[f]
        BY <1>4, <3>4, PlannedFacts DEF m, todo
      <3>7. \A f \in File \ todo : PatchOf(w, f) = live[f]
        BY <1>4, <3>4, PlannedFacts DEF m, todo
      <3>8. LeadsTo(m, l.provider)  BY <3>5, <3>6 DEF LeadsTo, todo
      <3>9. \A f \in File \ todo : BelongsTo(f, live[f], l.provider)  BY <3>5, <3>7
      <3>10. m.pointer = l.pointer  BY DEF m, Planned
      <3>11. Outlined(w)'
        BY <1>2, <3>2, <3>8, <3>9, <3>10 DEF Outlined, LeadsTo, BelongsTo, todo
      <3>12. Aimed(w)'  BY <1>2, <3>2, <3>3 DEF Aimed
      <3>13. Watched(w)'  BY <1>2, <3>2, <3>6 DEF Watched
      <3>14. Started(w)'  BY <3>1, <3>2 DEF Started
      <3>15. QED
        BY <1>1, <3>1, <3>11, <3>12, <3>13, <3>14 DEF AimInv
    <2>3. QED  BY <1>0, <1>1, <2>1, <2>2, AimFinish
  <1>5. QED  BY <1>3, <1>4 DEF Plan

----------------------------------------------------------------------------
(* The steps of an operation that change its plan little, or not at all. *)

\* Who goes on in the operation, with its plan and the files as they are.
LEMMA AimGoesOn ==
    ASSUME Resting, NEW w \in Writer, Acting(w),
           pc'[w] \notin {"idle", "failed", "adopt", "prepare", "commitDb", "tidy", "clear"},
           loc'[w].ret = "op", loc'[w].key = loc[w].key,
           loc'[w].provider = loc[w].provider, loc'[w].pointer = loc[w].pointer,
           UNCHANGED settings,
           Outlined(w)', pc'[w] \in {"stage", "intent"} \cup Looping => Watched(w)'
    PROVE  AimInv(w)'
  <1>1. Aimed(w)  BY RestingFacts DEF AimInv, Aiming
  <1>2. Aimed(w)'  BY <1>1 DEF Aimed
  <1>3. QED  BY <1>2 DEF AimInv, Started

\* With the same plan, and the same files or one of its own written.
LEMMA OutlinedStays ==
    ASSUME Resting, NEW w \in Writer, Outlined(w), loc'[w].mem.files = loc[w].mem.files,
           loc'[w].mem.pointer = loc[w].mem.pointer, loc'[w].pointer = loc[w].pointer,
           loc'[w].provider = loc[w].provider,
           foreign \cup carried \subseteq foreign' \cup carried',
           \A f \in File \ Parts(loc[w].mem) : live'[f] = live[f] /\ (f \in foreign => f \in foreign')
    PROVE  Outlined(w)'
  <1>1. Parts(loc'[w].mem) = Parts(loc[w].mem)  BY DEF Parts
  <1>2. LeadsTo(loc[w].mem, loc[w].provider)'
    BY <1>1 DEF Outlined, LeadsTo, BelongsTo
  <1>3. QED  BY <1>1, <1>2 DEF Outlined, BelongsTo

\* An intent that leads to the provider leads to the goal it sets.
LEMMA GoalIsProvider ==
    ASSUME Resting, NEW w \in Writer, Acting(w), NEW p, p = loc[w].provider
    PROVE  /\ IF loc[w].mem.pointer = NoPointer THEN settings = p ELSE loc[w].mem.pointer = p
           /\ Outlined(w)
  <1>1. Aimed(w) /\ Outlined(w)  BY RestingFacts DEF AimInv, Aiming
  <1>2. QED  BY <1>1 DEF Aimed, Outlined

LEMMA StageRests ==
    ASSUME Resting, NEW w \in Writer, Stage(w) \/ Intent(w)
    PROVE  FilesInv' /\ AimInv(w)'
  <1> DEFINE l == loc[w]
  <1>0. /\ l \in Local /\ AimInv(w) /\ Here /\ FilesInv /\ pc[w] \in {"stage", "intent"}
        /\ pending = NoPending /\ Drafted(w) /\ carried = {} /\ l.mem # NoPending
        /\ UNCHANGED <<live, foreign, settings>>
    BY RestingFacts DEF Stage, Intent, WriterInv, store, history
  <1>1. Acting(w) /\ Watched(w)  BY <1>0 DEF AimInv, Acting, Drafted
  <1>2. Outlined(w)  BY <1>1, GoalIsProvider
  <1>3. CASE Fail(w) /\ UNCHANGED <<pending, carried, since>>
    <2>1. FilesInv'  BY <1>0, <1>3, FilesSame
    <2>2. QED  BY <1>0, <1>3, <2>1, AimFinish
  <1>4. ASSUME NEW label \in {"intent", "check"}, Goto(w, label), UNCHANGED loc
        PROVE  AimInv(w)'
    <2>1. pc'[w] = label /\ loc'[w] = l  BY <1>0, <1>4, GoesTo
    <2>2. Outlined(w)'  BY <1>0, <1>2, <2>1, OutlinedStays
    <2>3. Watched(w)'  BY <1>0, <1>1, <2>1 DEF Watched
    <2>4. QED  BY <1>0, <1>1, <2>1, <2>2, <2>3, AimGoesOn DEF Drafted
  <1>5. CASE Stage(w) /\ Goto(w, "intent") /\ UNCHANGED loc
    <2>1. FilesInv'  BY <1>0, <1>5, FilesSame DEF Stage, history
    <2>2. QED  BY <1>4, <1>5, <2>1
  <1>6. CASE /\ pending' = l.mem /\ carried' = {}
             /\ since' = {f \in l.todo : live[f] # l.mem.files[f].pre}
             /\ Goto(w, "check") /\ UNCHANGED loc
    <2>1. since' \subseteq foreign'  BY <1>0, <1>1, <1>6 DEF Watched
    <2>2. Goal' = l.provider
      BY <1>0, <1>1, <1>6, GoalIsProvider DEF Goal
    <2>3. LeadsTo(pending, Goal)'
      BY <1>0, <1>2, <1>6, <2>2 DEF Outlined, LeadsTo, BelongsTo
    <2>4. FilesInv'
      BY <1>0, <1>2, <1>6, <2>1, <2>2, <2>3 DEF FilesInv, Outlined, BelongsTo
    <2>5. QED  BY <1>4, <1>6, <2>4
  <1>7. QED  BY <1>3, <1>5, <1>6 DEF Stage, Intent, history

----------------------------------------------------------------------------
(* The publishing loop. *)

LEMMA LoopRestFacts ==
    ASSUME Resting, NEW w \in Writer, pc[w] \in Looping
    PROVE  /\ loc[w] \in Local /\ AimInv(w) /\ Here /\ FilesInv
           /\ Acting(w) /\ Outlined(w) /\ Watched(w) /\ loc[w].ret = "op"
           /\ pending # NoPending
           /\ Parts(pending) = Parts(loc[w].mem) /\ pending.pointer = loc[w].mem.pointer
           /\ Goal = loc[w].provider
  <1>1. Here /\ AimInv(w) /\ FilesInv  BY RestingFacts
  <1>2. Announced(w) /\ InLoop(w) /\ loc[w] \in Local /\ pending # NoPending
    BY <1>1, LoopFacts
  <1>3. Acting(w)  BY <1>2 DEF Acting, Announced, Looping
  <1>4. Outlined(w)  BY <1>3, GoalIsProvider
  <1>5. Goal = loc[w].provider
    BY <1>2, <1>3, GoalIsProvider DEF Goal, Announced
  <1>6. QED  BY <1>1, <1>2, <1>3, <1>4, <1>5 DEF AimInv, Announced, InLoop

\* To a place in the loop, or to the abandonment, with the same plan.
LEMMA LoopGoesOn ==
    ASSUME Resting, NEW w \in Writer, pc[w] \in Looping, NEW label, Goto(w, label),
           label \in Looping \cup {"abandon", "commit"},
           loc'[w].ret = loc[w].ret, loc'[w].key = loc[w].key,
           loc'[w].provider = loc[w].provider, loc'[w].pointer = loc[w].pointer,
           loc'[w].mem.files = loc[w].mem.files, loc'[w].mem.pointer = loc[w].mem.pointer,
           loc'[w].todo \subseteq loc[w].todo, UNCHANGED settings,
           foreign \cup carried \subseteq foreign' \cup carried',
           \A f \in File \ Parts(loc[w].mem) : live'[f] = live[f] /\ (f \in foreign => f \in foreign'),
           \A f \in loc'[w].todo : live'[f] = live[f] /\ (f \in foreign => f \in foreign')
    PROVE  AimInv(w)'
  <1>0. Here /\ Acting(w) /\ Outlined(w) /\ Watched(w) /\ loc[w].ret = "op"
    BY LoopRestFacts
  <1>1. pc'[w] = label  BY <1>0, GoesTo
  <1>2. Outlined(w)'  BY <1>0, OutlinedStays
  <1>3. Watched(w)'  BY <1>0 DEF Watched
  <1>4. QED  BY <1>0, <1>1, <1>2, <1>3, AimGoesOn DEF Looping

LEMMA CheckRests ==
    ASSUME Resting, NEW w \in Writer, CheckSame(w) \/ CheckGiveUp(w) \/ CheckFails(w)
    PROVE  FilesInv' /\ AimInv(w)'
  <1> DEFINE l == loc[w]
  <1>0. /\ pc[w] = "check" /\ pc[w] \in Looping
        /\ UNCHANGED <<live, pending, carried, since, foreign, settings>>
    BY DEF CheckSame, CheckGiveUp, CheckFails, Looping, disk, store, history
  <1>1. FilesInv' /\ Here /\ l \in Local  BY <1>0, LoopRestFacts, FilesSame
  <1>2. CASE CheckSame(w)
    <2>1. PICK f \in File : Set(w, [l EXCEPT !.seen = live[f]])  BY <1>2 DEF CheckSame
    <2>2. loc'[w] = [l EXCEPT !.seen = live[f]]  BY <1>1, <2>1, RestingFacts DEF Set
    <2>3. /\ loc'[w].ret = l.ret /\ loc'[w].key = l.key /\ loc'[w].provider = l.provider
          /\ loc'[w].pointer = l.pointer /\ loc'[w].mem = l.mem /\ loc'[w].todo = l.todo
      BY <1>1, <2>2 DEF Local
    <2>4. \E label \in {"publish", "mark"} : Goto(w, label)  BY <1>2 DEF CheckSame
    <2>5. QED  BY <1>0, <1>1, <2>3, <2>4, LoopGoesOn DEF Looping
  <1>3. CASE Fail(w)  BY <1>0, <1>1, <1>3, AimFinish
  <1>4. CASE Goto(w, "abandon") /\ UNCHANGED loc  BY <1>0, <1>1, <1>4, LoopGoesOn
  <1>5. QED  BY <1>2, <1>3, <1>4 DEF CheckGiveUp, CheckFails

\* The plan of one file is made again, from what it holds now.
LEMMA ReplanFacts ==
    ASSUME Resting, NEW w \in Writer, CheckReplan(w)
    PROVE  LET l == loc[w]  new == loc'[w] IN
           /\ pc[w] = "check" /\ pc'[w] = "record"
           /\ UNCHANGED <<live, pending, carried, since, foreign, settings, row>>
           /\ new.kind = l.kind /\ new.ret = l.ret /\ new.key = l.key
           /\ new.provider = l.provider /\ new.pointer = l.pointer
           /\ new.oldRow = l.oldRow /\ new.todo = l.todo /\ new.any = l.any
           /\ new.mem.pointer = l.mem.pointer /\ Parts(new.mem) = Parts(l.mem)
           /\ new.mem.published = l.mem.published
           /\ \E f \in l.todo :
                /\ PatchOf(w, f) \notin {Refused, live[f]}
                /\ new.mem.files[f].pre = live[f]
                /\ new.mem.files[f].planned = PatchOf(w, f)
                /\ \A g \in File \ {f} : new.mem.files[g] = l.mem.files[g]
  <1> DEFINE l == loc[w]
             m == loc[w].mem
  <1>0. /\ pc[w] = "check" /\ pc[w] \in Looping
        /\ UNCHANGED <<live, pending, carried, since, foreign, settings, row>>
    BY DEF CheckReplan, Looping, store, history
  <1>1. /\ Here /\ l \in Local /\ m \in Pending /\ live \in [File -> Content]
        /\ l.todo \subseteq Parts(m)
    BY <1>0, LoopRestFacts, LoopFacts
  <1>2. PICK f \in File :
          /\ Turn(w, f) /\ ~Unchanged(w, f) /\ PatchOf(w, f) \notin {Refused, live[f]}
          /\ LET t == Staged(w, f, PatchOf(w, f), l.tries + 1) IN
             Set(w, [l EXCEPT
                  !.mem.files[f] = [pre |-> live[f], planned |-> PatchOf(w, f), staged |-> t],
                  !.old = m.files[f].staged, !.tries = Counted(@), !.seen = live[f]])
    BY DEF CheckReplan
  <1> DEFINE t == Staged(w, f, PatchOf(w, f), l.tries + 1)
             e == [pre |-> live[f], planned |-> PatchOf(w, f), staged |-> t]
             now == l.tries + 1
  <1>3. /\ pc'[w] = "record"
        /\ loc'[w] = [l EXCEPT !.mem.files[f] = e, !.old = m.files[f].staged,
                               !.tries = now, !.seen = live[f]]
    BY <1>1, <1>2, GoesTo DEF CheckReplan, Counted
  <1>4. e.pre = live[f] /\ e.planned = PatchOf(w, f)  OBVIOUS
  <1> HIDE DEF t, e, now
  <1>5. /\ loc'[w].mem = [m EXCEPT !.files[f] = e] /\ loc'[w].ret = l.ret
        /\ loc'[w].todo = l.todo /\ loc'[w].key = l.key /\ loc'[w].kind = l.kind
        /\ loc'[w].provider = l.provider /\ loc'[w].pointer = l.pointer
        /\ loc'[w].oldRow = l.oldRow /\ loc'[w].any = l.any
    BY <1>1, <1>3 DEF Local
  <1>6. /\ loc'[w].mem.files[f] = e
        /\ \A g \in File \ {f} : loc'[w].mem.files[g] = m.files[g]
        /\ loc'[w].mem.pointer = m.pointer /\ loc'[w].mem.published = m.published
    BY <1>1, <1>5 DEF Pending
  <1>7. f \in Parts(m) /\ f \in l.todo  BY <1>1, <1>2 DEF Turn
  <1>8. f \in Parts(loc'[w].mem)
    <2>1. PatchOf(w, f) \in Content
      BY <1>0, <1>1, <1>2, ChangedFacts
    <2>2. now \in 0..MaxReplans
      BY <1>1, BoundsAssumption DEF CheckReplan, MayReplan, Local, now
    <2>3. t \in Temp \cup {NoTemp}  BY <1>1, <2>1, <2>2, StagedType DEF t, now
    <2>4. e \in Entry  BY <1>1, <2>1, <2>3 DEF e, Entry
    <2>5. QED  BY <1>6, <2>4, NotPartAssumption DEF Parts
  <1>9. Parts(loc'[w].mem) = Parts(m)
    <2>1. \A g \in File \ {f} : g \in Parts(loc'[w].mem) <=> g \in Parts(m)
      BY <1>6 DEF Parts
    <2>2. Parts(loc'[w].mem) \subseteq File /\ Parts(m) \subseteq File  BY DEF Parts
    <2>3. QED  BY <1>7, <1>8, <2>1, <2>2
  <1>10. QED  BY <1>0, <1>2, <1>3, <1>4, <1>5, <1>6, <1>7, <1>9

LEMMA ReplanRests ==
    ASSUME Resting, NEW w \in Writer, CheckReplan(w)
    PROVE  FilesInv' /\ AimInv(w)'
  <1> DEFINE l == loc[w]
             m == loc[w].mem
             new == loc'[w]
  <1>0. /\ pc[w] \in Looping /\ pc'[w] = "record"
        /\ UNCHANGED <<live, pending, carried, since, foreign, settings>>
        /\ new.ret = l.ret /\ new.key = l.key /\ new.provider = l.provider
        /\ new.pointer = l.pointer /\ new.todo = l.todo
        /\ new.mem.pointer = m.pointer /\ Parts(new.mem) = Parts(m)
    BY ReplanFacts DEF Looping
  <1>1. /\ FilesInv' /\ l \in Local /\ live \in [File -> Content] /\ AimInv(w)
        /\ Acting(w) /\ Outlined(w) /\ Watched(w) /\ l.ret = "op"
        /\ l.todo \subseteq Parts(m)
    BY <1>0, LoopRestFacts, LoopFacts, FilesSame
  <1>2. PICK f \in l.todo :
          /\ PatchOf(w, f) \notin {Refused, live[f]}
          /\ new.mem.files[f].pre = live[f]
          /\ new.mem.files[f].planned = PatchOf(w, f)
          /\ \A g \in File \ {f} : new.mem.files[g] = m.files[g]
    BY ReplanFacts
  <1>3. BelongsTo(f, PatchOf(w, f), l.provider)
    <2>1. f \in File /\ live[f] \in Content  BY <1>1 DEF Parts
    <2>2. l.key \in Key /\ l.key[1] = l.provider
      BY <1>1 DEF Local, AimInv, Aiming, Aimed
    <2>3. QED  BY <1>2, <2>1, <2>2, PatchBelongs DEF PatchOf
  <1>4. LeadsTo(new.mem, l.provider)
    <2>1. SUFFICES ASSUME NEW g \in Parts(m)
                   PROVE  /\ new.mem.files[g].pre = new.mem.files[g].planned
                               => g \in foreign \cup carried
                          /\ BelongsTo(g, new.mem.files[g].planned, l.provider)
      BY <1>0 DEF LeadsTo
    <2>2. CASE g = f  BY <1>2, <1>3, <2>2
    <2>3. CASE g # f  BY <1>1, <1>2, <2>3 DEF Outlined, LeadsTo, Parts
    <2>4. QED  BY <2>2, <2>3
  <1>5. Outlined(w)'
    BY <1>0, <1>1, <1>4 DEF Outlined, LeadsTo, BelongsTo
  <1>6. Watched(w)'
    <2>1. SUFFICES ASSUME NEW g \in l.todo
                   PROVE  live[g] = new.mem.files[g].pre \/ g \in foreign
      BY <1>0 DEF Watched
    <2>2. g \in File  BY <1>1 DEF Parts
    <2>3. QED  BY <1>1, <1>2, <2>2 DEF Watched
  <1>7. QED  BY <1>0, <1>1, <1>5, <1>6, AimGoesOn

LEMMA RecordRests ==
    ASSUME Resting, NEW w \in Writer, Record(w) \/ DropOld(w)
    PROVE  FilesInv' /\ AimInv(w)'
  <1> DEFINE l == loc[w]
             m == loc[w].mem
  <1>0. /\ pc[w] \in {"record", "recordNoop", "dropOld"} /\ pc[w] \in Looping
        /\ UNCHANGED <<live, carried, foreign, settings>>
    BY DEF Record, DropOld, Looping, store, history
  <1>1. /\ FilesInv /\ Here /\ l \in Local /\ m # NoPending
        /\ Outlined(w) /\ Watched(w) /\ pending # NoPending /\ Goal = l.provider
        /\ Parts(pending) = Parts(m) /\ pending.pointer = m.pointer
    BY <1>0, LoopRestFacts, RestingFacts
  <1>2. CASE Record(w)
    <2>0. pc[w] \in {"record", "recordNoop"}  BY <1>2 DEF Record
    <2>1. CASE Fail(w) /\ UNCHANGED <<pending, since>>
      BY <1>0, <1>1, <2>0, <2>1, AimFinish, FilesSame
    <2>2. ASSUME NEW f \in File, Turn(w, f), pending' = Recorded(w),
                 since' = IF live[f] = m.files[f].pre THEN since \ {f} ELSE since \cup {f},
                 IF pc[w] = "record" THEN Goto(w, "dropOld") /\ UNCHANGED loc
                 ELSE /\ Goto(w, Next1(w, l.todo \ {f}))
                      /\ Set(w, [l EXCEPT !.todo = @ \ {f}, !.tries = 0])
          PROVE  FilesInv' /\ AimInv(w)'
      <3>1. pending' = m  BY <2>2 DEF Recorded
      <3>2. since' \subseteq foreign
        BY <1>1, <2>2 DEF FilesInv, Watched, Turn
      <3>3. FilesInv'
        BY <1>0, <1>1, <3>1, <3>2, FilesAmended DEF Outlined
      <3>4. CASE pc[w] = "record"
        BY <1>0, <2>2, <3>3, <3>4, LoopGoesOn DEF Looping
      <3>5. CASE pc[w] # "record"
        <4>1. loc'[w] = [l EXCEPT !.todo = @ \ {f}, !.tries = 0]
          BY <2>2, <3>5, RestingFacts DEF Set
        <4>2. /\ loc'[w].ret = l.ret /\ loc'[w].key = l.key /\ loc'[w].provider = l.provider
              /\ loc'[w].pointer = l.pointer /\ loc'[w].mem = m
              /\ loc'[w].todo = l.todo \ {f}
          BY <1>1, <4>1 DEF Local
        <4>3. Next1(w, l.todo \ {f}) \in {"commit", "check"}  BY DEF Next1
        <4>4. QED  BY <1>0, <2>2, <3>3, <3>5, <4>2, <4>3, LoopGoesOn DEF Looping
      <3>6. QED  BY <3>4, <3>5
    <2>3. QED  BY <1>2, <2>1, <2>2 DEF Record
  <1>3. CASE DropOld(w)
    <2>1. FilesInv'  BY <1>0, <1>1, <1>3, FilesSame DEF DropOld, history
    <2>2. loc'[w] = [l EXCEPT !.old = NoTemp] /\ Goto(w, "check")
      BY <1>3, RestingFacts DEF DropOld, Set
    <2>3. /\ loc'[w].ret = l.ret /\ loc'[w].key = l.key /\ loc'[w].provider = l.provider
          /\ loc'[w].pointer = l.pointer /\ loc'[w].mem = l.mem /\ loc'[w].todo = l.todo
      BY <1>1, <2>2 DEF Local
    <2>4. QED  BY <1>0, <2>1, <2>2, <2>3, LoopGoesOn DEF Looping
  <1>4. QED  BY <1>2, <1>3

LEMMA MarkRests ==
    ASSUME Resting, NEW w \in Writer, Mark(w)
    PROVE  FilesInv' /\ AimInv(w)'
  <1> DEFINE l == loc[w]
             m == loc[w].mem
  <1>0. /\ pc[w] = "mark" /\ pc[w] \in Looping
        /\ UNCHANGED <<live, carried, since, foreign, settings>>
    BY DEF Mark, Looping, store, history
  <1>1. /\ FilesInv /\ Here /\ l \in Local /\ m \in Pending
        /\ Outlined(w) /\ pending # NoPending /\ Goal = l.provider
        /\ Parts(pending) = Parts(m) /\ pending.pointer = m.pointer
    BY <1>0, LoopRestFacts, LoopFacts
  <1>2. loc'[w] = [l EXCEPT !.mem.published = TRUE]  BY RestingFacts DEF Mark, Set
  <1>3. /\ loc'[w].ret = l.ret /\ loc'[w].key = l.key /\ loc'[w].provider = l.provider
        /\ loc'[w].pointer = l.pointer /\ loc'[w].todo = l.todo
        /\ loc'[w].mem = [m EXCEPT !.published = TRUE]
    BY <1>1, <1>2 DEF Local
  <1>4. loc'[w].mem.files = m.files /\ loc'[w].mem.pointer = m.pointer
    BY <1>1, <1>3 DEF Pending
  <1>5. \E label \in {"publish", "abandon"} : Goto(w, label)  BY DEF Mark
  <1>6. AimInv(w)'  BY <1>0, <1>3, <1>4, <1>5, LoopGoesOn DEF Looping
  <1>7. CASE pending' = pending  BY <1>0, <1>1, <1>6, <1>7, FilesSame
  <1>8. CASE pending' = [m EXCEPT !.published = TRUE]
    <2>1. pending' \in Pending /\ pending' # NoPending
      BY <1>1, <1>8, MarkersAssumption DEF Pending
    <2>2. pending'.files = m.files /\ pending'.pointer = m.pointer
      BY <1>1, <1>8 DEF Pending
    <2>3. Parts(pending') = Parts(m)  BY <2>2 DEF Parts
    <2>4. LeadsTo(pending', Goal)  BY <1>1, <2>2, <2>3 DEF Outlined, LeadsTo
    <2>5. since' \subseteq foreign  BY <1>0, <1>1 DEF FilesInv
    <2>6. FilesInv'
      BY <1>0, <1>1, <2>1, <2>2, <2>3, <2>4, <2>5, FilesAmended
    <2>7. QED  BY <1>6, <2>6
  <1>9. QED  BY <1>7, <1>8 DEF Mark, Marked

LEMMA PublishRests ==
    ASSUME Resting, NEW w \in Writer, Publish(w)
    PROVE  FilesInv' /\ AimInv(w)'
  <1> DEFINE l == loc[w]
             m == loc[w].mem
  <1>0. pc[w] = "publish" /\ pc[w] \in Looping /\ UNCHANGED <<pending, settings>>
    BY DEF Publish, Looping, store
  <1>1. /\ FilesInv /\ Here /\ l \in Local /\ pending = m /\ pending # NoPending
        /\ live \in [File -> Content] /\ l.todo \subseteq Parts(m)
    BY <1>0, LoopRestFacts, LoopFacts
  <1>2. CASE Fail(w) /\ UNCHANGED <<live, tmp, history>>
    BY <1>0, <1>1, <1>2, AimFinish, FilesSame DEF history
  <1>3. CASE Goto(w, "abandon") /\ UNCHANGED loc /\ UNCHANGED <<live, tmp, history>>
    BY <1>0, <1>1, <1>3, LoopGoesOn, FilesSame DEF history
  <1>4. CASE \E f \in File :
               /\ Turn(w, f) /\ Rename(f, m.files[f])
               /\ Set(w, [l EXCEPT !.todo = @ \ {f}, !.any = TRUE, !.tries = 0])
               /\ Goto(w, Next1(w, l.todo \ {f}))
    <2>1. PICK f \in File :
            /\ Turn(w, f) /\ Rename(f, m.files[f])
            /\ Set(w, [l EXCEPT !.todo = @ \ {f}, !.any = TRUE, !.tries = 0])
            /\ Goto(w, Next1(w, l.todo \ {f}))
      BY <1>4
    <2>2. f \in Parts(m)  BY <1>1, <2>1 DEF Turn
    <2>3. FilesInv'  BY <1>0, <1>1, <2>1, <2>2, FilesRename
    <2>4. loc'[w] = [l EXCEPT !.todo = @ \ {f}, !.any = TRUE, !.tries = 0]
      BY <2>1, RestingFacts DEF Set
    <2>5. /\ loc'[w].ret = l.ret /\ loc'[w].key = l.key /\ loc'[w].provider = l.provider
          /\ loc'[w].pointer = l.pointer /\ loc'[w].mem = m /\ loc'[w].todo = l.todo \ {f}
      BY <1>1, <2>4 DEF Local
    <2>6. /\ \A g \in File \ {f} : live'[g] = live[g] /\ (g \in foreign => g \in foreign')
          /\ foreign \cup carried \subseteq foreign' \cup carried'
      BY <1>1, <2>1 DEF Rename
    <2>7. l.todo \subseteq File /\ f \notin File \ Parts(m)  BY <1>1, <2>2 DEF Parts
    <2>8. Next1(w, l.todo \ {f}) \in {"commit", "check"}  BY DEF Next1
    <2>9. AimInv(w)'
      BY <1>0, <2>1, <2>5, <2>6, <2>7, <2>8, LoopGoesOn DEF Looping
    <2>10. QED  BY <2>3, <2>9
  <1>5. QED  BY <1>2, <1>3, <1>4 DEF Publish

LEMMA AbandonRests ==
    ASSUME Resting, NEW w \in Writer, Abandon(w) \/ AbandonClear(w)
    PROVE  FilesInv' /\ AimInv(w)'
  <1> DEFINE l == loc[w]
  <1>0. /\ FilesInv /\ Here /\ l \in Local /\ AimInv(w) /\ pc[w] \in Giving
        /\ Announced(w) /\ ~l.any
        /\ UNCHANGED <<live, foreign, settings>>
    BY RestingFacts DEF Abandon, AbandonClear, Giving, WriterInv, store, history
  <1>1. Acting(w)  BY <1>0 DEF Acting, Announced, Giving
  <1>2. Outlined(w)  BY <1>1, GoalIsProvider
  <1>3. CASE Abandon(w)
    <2>1. FilesInv'  BY <1>0, <1>3, FilesSame DEF Abandon, history
    <2>2. pc'[w] = "abandonClear" /\ loc'[w] = l  BY <1>0, <1>3, GoesTo DEF Abandon
    <2>3. Outlined(w)'  BY <1>0, <1>2, <1>3, <2>2, OutlinedStays DEF Abandon, history
    <2>4. AimInv(w)'
      BY <1>0, <1>1, <2>2, <2>3, AimGoesOn DEF Announced, Looping
    <2>5. QED  BY <2>1, <2>4
  <1>4. CASE AbandonClear(w)
    <2>1. Forget /\ Fail(w)  BY <1>0, <1>4 DEF AbandonClear, Here, Assumed
    <2>2. FilesInv'  BY <1>0, <2>1, FilesForget DEF Announced
    <2>3. AimInv(w)'  BY <1>0, <2>1, AimFinish DEF Giving
    <2>4. QED  BY <2>2, <2>3
  <1>5. QED  BY <1>3, <1>4

\* The client has done the work: what it wrote is what was planned.
LEMMA NoopFacts ==
    ASSUME Here, NEW w \in Writer, CheckNoop(w)
    PROVE  LET l == loc[w]  new == loc'[w] IN
           /\ pc[w] = "check" /\ pc'[w] = "recordNoop" /\ Coincide = "any"
           /\ UNCHANGED <<live, pending, carried, since, foreign, settings, row>>
           /\ new.kind = l.kind /\ new.ret = l.ret /\ new.key = l.key
           /\ new.provider = l.provider /\ new.pointer = l.pointer
           /\ new.oldRow = l.oldRow /\ new.todo = l.todo /\ new.any = l.any
           /\ new.mem.pointer = l.mem.pointer /\ Parts(new.mem) = Parts(l.mem)
           /\ new.mem.published = l.mem.published
           /\ \E f \in l.todo :
                /\ Turn(w, f) /\ ~Unchanged(w, f) /\ PatchOf(w, f) = live[f]
                /\ tmp' = tmp \ {l.mem.files[f].staged}
                /\ new.mem.files[f].pre = live[f] /\ new.mem.files[f].planned = live[f]
                /\ new.mem.files[f].staged = NoTemp
                /\ \A g \in File \ {f} : new.mem.files[g] = l.mem.files[g]
  <1> DEFINE l == loc[w]
             m == loc[w].mem
  <1>0. /\ pc[w] = "check" /\ pc[w] \in Looping
        /\ UNCHANGED <<live, pending, carried, since, foreign, settings, row>>
    BY DEF CheckNoop, Looping, store, history
  <1>1. /\ Here /\ l \in Local /\ m \in Pending /\ live \in [File -> Content]
        /\ l.todo \subseteq Parts(m)
    BY <1>0, LoopFacts
  <1>2. PICK f \in File :
          /\ Turn(w, f) /\ ~Unchanged(w, f) /\ PatchOf(w, f) = live[f]
          /\ tmp' = tmp \ {m.files[f].staged}
          /\ Set(w, [l EXCEPT
               !.mem.files[f] = [pre |-> live[f], planned |-> live[f], staged |-> NoTemp],
               !.seen = live[f]])
    BY DEF CheckNoop
  <1> DEFINE e == [pre |-> live[f], planned |-> live[f], staged |-> NoTemp]
  <1>3. /\ pc'[w] = "recordNoop"
        /\ loc'[w] = [l EXCEPT !.mem.files[f] = e, !.seen = live[f]]
    BY <1>1, <1>2, GoesTo DEF CheckNoop
  <1>4. e.pre = live[f] /\ e.planned = live[f] /\ e.staged = NoTemp  OBVIOUS
  <1>5. e \in Entry /\ e # NotPart  BY <1>1, NotPartAssumption DEF Entry
  <1> HIDE DEF e
  <1>6. /\ loc'[w].mem = [m EXCEPT !.files[f] = e] /\ loc'[w].ret = l.ret
        /\ loc'[w].todo = l.todo /\ loc'[w].key = l.key /\ loc'[w].kind = l.kind
        /\ loc'[w].provider = l.provider /\ loc'[w].pointer = l.pointer
        /\ loc'[w].oldRow = l.oldRow /\ loc'[w].any = l.any
    BY <1>1, <1>3 DEF Local
  <1>7. /\ loc'[w].mem.files[f] = e
        /\ \A g \in File \ {f} : loc'[w].mem.files[g] = m.files[g]
        /\ loc'[w].mem.pointer = m.pointer /\ loc'[w].mem.published = m.published
    BY <1>1, <1>6 DEF Pending
  <1>8. f \in Parts(m) /\ f \in l.todo  BY <1>1, <1>2 DEF Turn
  <1>9. Parts(loc'[w].mem) = Parts(m)
    <2>1. \A g \in File : g \in Parts(loc'[w].mem) <=> g \in Parts(m)
      BY <1>5, <1>7, <1>8 DEF Parts
    <2>2. Parts(loc'[w].mem) \subseteq File /\ Parts(m) \subseteq File  BY DEF Parts
    <2>3. QED  BY <2>1, <2>2
  <1>10. Coincide = "any"
    <2>1. PatchOf(w, f) # Refused  BY <1>1, <1>2, MarkersAssumption
    <2>2. QED  BY <1>0, <1>1, <1>2, <2>1, ChangedFacts
  <1>11. QED  BY <1>0, <1>2, <1>3, <1>4, <1>6, <1>7, <1>8, <1>9, <1>10

LEMMA NoopRests ==
    ASSUME Resting, NEW w \in Writer, CheckNoop(w)
    PROVE  FilesInv' /\ AimInv(w)'
  <1> DEFINE l == loc[w]
             m == loc[w].mem
             new == loc'[w]
  <1>0. /\ pc[w] \in Looping /\ pc'[w] = "recordNoop"
        /\ UNCHANGED <<live, pending, carried, since, foreign, settings>>
        /\ new.ret = l.ret /\ new.key = l.key /\ new.provider = l.provider
        /\ new.pointer = l.pointer /\ new.todo = l.todo
        /\ new.mem.pointer = m.pointer /\ Parts(new.mem) = Parts(m)
    BY RestingFacts, NoopFacts DEF Looping
  <1>1. /\ FilesInv' /\ l \in Local /\ live \in [File -> Content] /\ AimInv(w)
        /\ Acting(w) /\ Outlined(w) /\ Watched(w) /\ l.ret = "op"
        /\ l.todo \subseteq Parts(m)
    BY <1>0, LoopRestFacts, LoopFacts, FilesSame
  <1>2. PICK f \in l.todo :
          /\ ~Unchanged(w, f) /\ PatchOf(w, f) = live[f]
          /\ new.mem.files[f].pre = live[f] /\ new.mem.files[f].planned = live[f]
          /\ \A g \in File \ {f} : new.mem.files[g] = m.files[g]
    BY RestingFacts, NoopFacts
  <1>3. f \in foreign  BY <1>1, <1>2 DEF Watched, Unchanged
  <1>4. BelongsTo(f, live[f], l.provider)
    <2>1. f \in File /\ live[f] \in Content  BY <1>1 DEF Parts
    <2>2. l.key \in Key /\ l.key[1] = l.provider
      BY <1>1 DEF Local, AimInv, Aiming, Aimed
    <2>3. PatchOf(w, f) # Refused  BY <1>2, <2>1, MarkersAssumption
    <2>4. QED  BY <1>2, <2>1, <2>2, <2>3, PatchBelongs DEF PatchOf
  <1>5. LeadsTo(new.mem, l.provider)
    <2>1. SUFFICES ASSUME NEW g \in Parts(m)
                   PROVE  /\ new.mem.files[g].pre = new.mem.files[g].planned
                               => g \in foreign \cup carried
                          /\ BelongsTo(g, new.mem.files[g].planned, l.provider)
      BY <1>0 DEF LeadsTo
    <2>2. CASE g = f  BY <1>2, <1>3, <1>4, <2>2
    <2>3. CASE g # f  BY <1>1, <1>2, <2>3 DEF Outlined, LeadsTo, Parts
    <2>4. QED  BY <2>2, <2>3
  <1>6. Outlined(w)'
    BY <1>0, <1>1, <1>5 DEF Outlined, LeadsTo, BelongsTo
  <1>7. Watched(w)'
    <2>1. SUFFICES ASSUME NEW g \in l.todo
                   PROVE  live[g] = new.mem.files[g].pre \/ g \in foreign
      BY <1>0 DEF Watched
    <2>2. g \in File  BY <1>1 DEF Parts
    <2>3. QED  BY <1>1, <1>2, <2>2 DEF Watched
  <1>8. QED  BY <1>0, <1>1, <1>6, <1>7, AimGoesOn

LEMMA OperationRests ==
    ASSUME Resting, NEW w \in Writer, Operation(w)
    PROVE  FilesInv' /\ AimInv(w)'
  BY NoopRests, PlanRests, StageRests, CheckRests, ReplanRests, RecordRests, MarkRests,
     PublishRests, AbandonRests DEF Operation

----------------------------------------------------------------------------
(* Commands, the environment, and all steps together. *)

LEMMA PrepareRests ==
    ASSUME Resting, NEW w \in Writer, Prepare(w)
    PROVE  AimInv(w)'
  <1> DEFINE l == loc[w]
             q == l.provider
             old == row[q]
  <1>0. /\ l \in Local /\ AimInv(w) /\ Here /\ pc[w] = "prepare" /\ settings' = settings
        /\ q \in Provider
    BY RestingFacts DEF Prepare, Local
  <1>1. PICK r \in Row, pointer \in {NoPointer, q} :
          /\ Set(w, [l EXCEPT !.key = <<q, r>>, !.oldRow = old, !.expect = live,
                              !.pointer = pointer, !.ret = "begin"])
          /\ IF l.kind = "sync" THEN pointer = NoPointer
             ELSE pointer = q \/ (settings = q /\ dbp = q)
    BY DEF Prepare
  <1> DEFINE key == <<q, r>>
             new == [l EXCEPT !.key = key, !.oldRow = old, !.expect = live,
                              !.pointer = pointer, !.ret = "begin"]
  <1>2. key[1] = q  OBVIOUS
  <1>3. pc'[w] = "lock" /\ loc'[w] = new  BY <1>0, <1>1, GoesTo DEF Prepare
  <1> HIDE DEF key, old, q
  <1>4. new.key = key /\ new.pointer = pointer /\ new.ret = "begin" /\ new.provider = q
    BY <1>0 DEF Local, q
  <1> HIDE DEF new
  <1>5. IF pointer = NoPointer THEN settings = q ELSE pointer = q
    BY <1>0, <1>1, MarkersAssumption DEF AimInv, Started, q
  <1>6. Aimed(w)'  BY <1>0, <1>2, <1>3, <1>4, <1>5 DEF Aimed
  <1>7. QED
    BY <1>3, <1>4, <1>6 DEF AimInv, Started, Acting, Looping

LEMMA CommandRests ==
    ASSUME Resting, NEW w \in Writer,
           Begin(w) \/ Prepare(w) \/ Adopt(w) \/ Rollback(w) \/ Restart(w) \/ Lock(w)
    PROVE  FilesInv' /\ AimInv(w)'
  <1> DEFINE l == loc[w]
  <1>0. /\ FilesInv /\ Here /\ l \in Local /\ AimInv(w) /\ WriterInv(w)
        /\ UNCHANGED <<live, pending, carried, since, foreign>>
    BY RestingFacts DEF Begin, Prepare, Adopt, Rollback, Restart, Lock, disk, history
  <1>1. Blank \in Local /\ Blank.ret = "none" /\ Blank.kind = "none"
    BY BlankGood DEF Good, Blank
  <1>2. settings' = settings
    BY <1>0 DEF Begin, Prepare, Adopt, Rollback, Restart, Lock, store, AimInv
  <1>3. FilesInv'  BY <1>0, <1>2, FilesSame
  <1>4. CASE Begin(w)
    <2>1. PICK k \in Kinds, p \in Provider :
            /\ k # "switch" => p = settings
            /\ Set(w, [Blank EXCEPT !.kind = k, !.op = ops + 1, !.provider = p,
                                    !.ret = IF k = "switch" THEN "first" ELSE "settle"])
            /\ Goto(w, IF k = "sync" THEN "prepare" ELSE "lock")
      BY <1>4 DEF Begin
    <2> DEFINE first == IF k = "switch" THEN "first" ELSE "settle"
               op == ops + 1
               new == [Blank EXCEPT !.kind = k, !.op = op, !.provider = p, !.ret = first]
    <2>2. /\ pc'[w] = (IF k = "sync" THEN "prepare" ELSE "lock") /\ loc'[w] = new
      BY <1>0, <2>1, GoesTo
    <2>3. first \in {"first", "settle"}  OBVIOUS
    <2> HIDE DEF first, op
    <2>4. new.kind = k /\ new.provider = p /\ new.ret = first  BY <1>1 DEF Local
    <2> HIDE DEF new
    <2>5. QED  BY <1>2, <1>3, <2>1, <2>2, <2>3, <2>4, AimNone
  <1>5. CASE Adopt(w) \/ Rollback(w)
    <2>1. pc'[w] = "idle" /\ loc'[w] = Blank  BY <1>0, <1>5, GoesTo DEF Adopt, Rollback
    <2>2. QED  BY <1>1, <1>3, <2>1, AimNone
  <1>6. CASE Restart(w)
    <2>1. pc'[w] = "lock" /\ loc'[w] = [Blank EXCEPT !.ret = "startup"]
      BY <1>6, RestingFacts DEF Restart, Set
    <2>2. loc'[w].ret = "startup" /\ loc'[w].kind = "none"  BY <1>1, <2>1 DEF Local
    <2>3. QED  BY <1>3, <2>1, <2>2, AimNone
  <1>7. CASE Lock(w)
    <2>1. pc[w] = "lock" /\ pc'[w] = "recover" /\ loc'[w] = l
      BY <1>7, RestingFacts DEF Lock
    <2>2. l.ret # "op" /\ l.ret # "run"
      BY <1>0, <2>1 DEF WriterInv, AimInv, Started
    <2>3. Aiming(w)' => Aiming(w)  BY <2>1, <2>2 DEF Aiming, Acting
    <2>4. QED
      BY <1>0, <1>2, <1>3, <2>1, <2>2, <2>3 DEF AimInv, Started, Aimed, Acting, Looping
  <1>8. QED  BY <1>3, <1>4, <1>5, <1>6, <1>7, PrepareRests

\* A thread that does not move, while the client may change a file.
LEMMA AimStays ==
    ASSUME NEW w \in Writer, AimInv(w), pc'[w] = pc[w], loc'[w] = loc[w],
           UNCHANGED <<pending, settings, carried>>, foreign \subseteq foreign',
           \A f \in File \ foreign' : live'[f] = live[f],
           loc[w].todo \subseteq File
    PROVE  AimInv(w)'
  <1>1. Started(w)' = Started(w)  BY DEF Started
  <1>2. Aiming(w)' = Aiming(w) /\ Acting(w)' = Acting(w)  BY DEF Aiming, Acting
  <1>3. Aimed(w)' = Aimed(w)  BY DEF Aimed
  <1>4. Outlined(w) => Outlined(w)'  BY DEF Outlined, LeadsTo, BelongsTo
  <1>5. Watched(w) => Watched(w)'  BY DEF Watched
  <1>6. QED  BY <1>1, <1>2, <1>3, <1>4, <1>5 DEF AimInv

LEMMA EnvironmentRests ==
    ASSUME Resting,
           \/ \E p \in Process : Crash(p)
           \/ \E f \in File : Edit(f)
           \/ UNCHANGED vars
    PROVE  FilesInv' /\ \A w \in Writer : AimInv(w)'
  <1>0. FilesInv /\ live \in [File -> Content] /\ foreign \subseteq File
    BY DEF Resting, Here, Inv, Disk
  <1>00. \A w \in Writer : AimInv(w) /\ loc[w].todo \subseteq File
    BY RestingFacts DEF Resting, Parts
  <1>1. CASE UNCHANGED vars
    <2>1. UNCHANGED <<live, pending, carried, since, foreign, settings, pc, loc>>
      BY <1>1 DEF vars, disk, store, history
    <2>2. QED  BY <1>0, <1>00, <2>1, FilesSame, AimStays
  <1>2. ASSUME NEW p \in Process, Crash(p) PROVE FilesInv' /\ \A w \in Writer : AimInv(w)'
    <2>1. UNCHANGED <<live, pending, carried, since, foreign, settings>>
      BY <1>2 DEF Crash, disk, store, history
    <2>2. \A w \in Writer : \/ pc'[w] = "idle" /\ loc'[w] = Blank
                            \/ pc'[w] = pc[w] /\ loc'[w] = loc[w]
      BY <1>2 DEF Crash
    <2>3. Blank.ret = "none"  BY DEF Blank
    <2>4. ASSUME NEW w \in Writer PROVE AimInv(w)'
      <3>1. CASE pc'[w] = "idle" /\ loc'[w] = Blank  BY <2>3, <3>1, AimNone
      <3>2. CASE pc'[w] = pc[w] /\ loc'[w] = loc[w]  BY <1>00, <2>1, <3>2, AimStays
      <3>3. QED  BY <2>2, <3>1, <3>2
    <2>5. QED  BY <1>0, <2>1, <2>4, FilesSame
  <1>3. ASSUME NEW f \in File, Edit(f) PROVE FilesInv' /\ \A w \in Writer : AimInv(w)'
    <2>1. /\ \A g \in File \ {f} : live'[g] = live[g]
          /\ since' = since \cup {f} /\ foreign' = foreign \cup {f}
          /\ UNCHANGED <<pending, carried, settings, pc, loc>>
      BY <1>0, <1>3 DEF Edit, store
    <2>2. Goal' = Goal  BY <2>1 DEF Goal
    <2>3. pending # NoPending => LeadsTo(pending, Goal)'
      BY <1>0, <2>1, <2>2 DEF FilesInv, LeadsTo, BelongsTo
    <2>4. FilesInv'  BY <1>0, <2>1, <2>2, <2>3 DEF FilesInv, BelongsTo
    <2>5. \A w \in Writer : AimInv(w)'  BY <1>00, <2>1, AimStays
    <2>6. QED  BY <2>4, <2>5
  <1>4. QED  BY <1>1, <1>2, <1>3

LEMMA StepRests ==
    ASSUME Resting, [Next]_vars
    PROVE  FilesInv' /\ \A w \in Writer : AimInv(w)'
  <1>1. ASSUME NEW w \in Writer, Begin(w) \/ Step(w) \/ Restart(w)
        PROVE  FilesInv' /\ \A v \in Writer : AimInv(v)'
    <2>1. FilesInv' /\ AimInv(w)'
      BY <1>1, RecoverRests, ForwardRests, ClearRests, CommitRests, OperationRests,
         CommandRests DEF Step, Recovery
    <2>2. \A v \in Writer : v = w  BY DEF Resting, Alone
    <2>3. QED  BY <2>1, <2>2
  <1>2. QED  BY <1>1, EnvironmentRests DEF Next

----------------------------------------------------------------------------
(* The two pointers.  Between the first and the second write of a target   *)
(* the pending intent, of which a file is written, names the new provider; *)
(* without one, a switch only goes straight to the target when every file  *)
(* already belongs to its provider, which is then the current one.         *)

AgreeInv ==
    edits = 0 =>
      /\ foreign = {}
      /\ \/ settings = dbp
         \/ /\ pending # NoPending /\ settings = pending.pointer
            /\ pending.pointer # NoPointer /\ carried # {}

Shared == ~EndlessEdits /\ File \ Guarded # {}

\* A file of which the client keeps a part carries one provider.
LEMMA OneOwner ==
    ASSUME NEW f \in File \ Guarded, NEW c, NEW p, NEW q, BelongsTo(f, c, p), BelongsTo(f, c, q)
    PROVE  p = q
  BY DEF BelongsTo

LEMMA AgreeSame ==
    ASSUME AgreeInv, UNCHANGED <<settings, dbp, edits>>, foreign' \subseteq foreign,
           \/ pending' = pending /\ carried \subseteq carried'
           \/ pending # NoPending => /\ pending' # NoPending /\ carried' = carried
                                     /\ pending'.pointer = pending.pointer
    PROVE  AgreeInv'
  BY DEF AgreeInv

LEMMA AgreeForget ==
    ASSUME Resting, AgreeInv, Forget, UNCHANGED <<settings, dbp, edits, foreign>>,
           \/ carried \subseteq foreign
           \/ pending.pointer \in {NoPointer, settings} /\ pending.pointer \in {NoPointer, dbp}
    PROVE  AgreeInv'
  BY DEF AgreeInv, Forget

LEMMA AgreeCommit ==
    ASSUME Shared, Resting, AgreeInv, NEW w \in Writer, Commit(w) \/ CommitDb(w) \/ Clear(w)
    PROVE  AgreeInv'
  <1> DEFINE l == loc[w]
  <1>0. /\ AimInv(w) /\ WriterInv(w) /\ FilesInv /\ settings \in Provider
        /\ edits' = edits /\ foreign' = foreign
    BY RestingFacts DEF Commit, CommitDb, Clear, bounds, history
  <1>1. CASE Commit(w)
    <2>0. /\ UNCHANGED <<live, dbp, pending, carried>> /\ InEnding(w)
      BY <1>0, <1>1 DEF Commit, disk, history, WriterInv, Ending
    <2>1. CASE settings' = settings  BY <1>0, <2>0, <2>1, AgreeSame
    <2>2. CASE settings' # settings
      <3>1. settings' = l.mem.pointer /\ l.mem.pointer # NoPointer
        BY <1>1, <2>2 DEF Commit
      <3>2. SUFFICES ASSUME edits = 0 PROVE /\ pending # NoPending /\ carried # {}
                                            /\ settings' = pending.pointer
        BY <1>0, <2>0, <3>1 DEF AgreeInv
      <3>3. foreign = {} /\ since = {}  BY <1>0, <3>2 DEF AgreeInv, FilesInv
      <3>4. PICK f : f \in File \ Guarded  BY DEF Shared
      <3>5. f \in carried \/ BelongsTo(f, live[f], settings)
        BY <1>0, <3>3, <3>4 DEF FilesInv
      <3>6. CASE pending = NoPending
        <4>1. Acting(w) /\ Parts(l.mem) = {} /\ carried = {}
          BY <1>1, <2>0, <3>6, RestingFacts DEF InEnding, Acting, Commit
        <4>2. Outlined(w) /\ settings' = l.provider
          BY <3>1, <4>1, GoalIsProvider
        <4>3. BelongsTo(f, live[f], l.provider)  BY <3>3, <3>4, <4>1, <4>2 DEF Outlined
        <4>4. settings = l.provider  BY <3>4, <3>5, <4>1, <4>3, OneOwner
        <4>5. QED  BY <2>2, <4>2, <4>4
      <3>7. CASE pending # NoPending
        <4>1. pending = l.mem /\ AllAccounted  BY <2>0, <3>7 DEF InEnding
        <4>2. Goal = settings'  BY <3>1, <4>1 DEF Goal
        <4>3. ASSUME f \notin carried PROVE FALSE
          <5>1. f \notin Parts(pending)
            BY <1>0, <3>3, <3>7, <4>1, <4>3
               DEF AllAccounted, Accounted, FilesInv, LeadsTo
          <5>2. BelongsTo(f, live[f], Goal)  BY <1>0, <3>3, <3>4, <3>7, <5>1 DEF FilesInv
          <5>3. settings = Goal  BY <3>4, <3>5, <4>3, <5>2, OneOwner
          <5>4. QED  BY <2>2, <4>2, <5>3
        <4>4. QED  BY <3>1, <3>7, <4>1, <4>3
      <3>8. QED  BY <3>6, <3>7
    <2>3. QED  BY <2>1, <2>2
  <1>2. CASE CommitDb(w)
    <2>1. UNCHANGED <<settings, pending, carried>>  BY <1>2 DEF CommitDb, disk, history
    <2>2. CASE dbp' = dbp  BY <1>0, <2>1, <2>2, AgreeSame
    <2>3. CASE dbp' = l.mem.pointer
      <3>1. l.mem.pointer # NoPointer
        BY <1>2 DEF CommitDb, Resting, Here, Inv, Control
      <3>2. l.mem.pointer = settings  BY <1>0, <1>2, <3>1 DEF AimInv, CommitDb
      <3>3. QED  BY <1>0, <2>1, <2>3, <3>2 DEF AgreeInv
    <2>4. QED  BY <1>2, <2>2, <2>3 DEF CommitDb
  <1>3. CASE Clear(w)
    <2>1. UNCHANGED <<settings, dbp>> /\ pc[w] = "clear"  BY <1>3 DEF Clear, store
    <2>2. pending = l.mem /\ l.mem.pointer \in {NoPointer, dbp}
      BY <1>0, <2>1 DEF WriterInv, Ending, InEnding
    <2>3. l.mem.pointer \in {NoPointer, settings}  BY <1>0, <2>1 DEF AimInv
    <2>4. CASE Forget  BY <1>0, <2>1, <2>2, <2>3, <2>4, AgreeForget
    <2>5. CASE UNCHANGED <<pending, carried>>  BY <1>0, <2>1, <2>5, AgreeSame
    <2>6. QED  BY <1>3, <2>4, <2>5 DEF Clear
  <1>4. QED  BY <1>1, <1>2, <1>3

LEMMA AgreeNext == Shared /\ Resting /\ AgreeInv /\ [Next]_vars => AgreeInv'
  <1> SUFFICES ASSUME Shared, Resting, AgreeInv, [Next]_vars PROVE AgreeInv'
    OBVIOUS
  <1>1. CASE UNCHANGED vars
    BY <1>1, AgreeSame DEF vars, disk, store, history, bounds
  <1>2. ASSUME NEW p \in Process, Crash(p) PROVE AgreeInv'
    BY <1>2, AgreeSame DEF Crash, disk, store, history
  <1>3. ASSUME NEW f \in File, Edit(f) PROVE AgreeInv'
    <2>1. edits \in Nat /\ edits' = edits + 1
      BY <1>3, BoundsAssumption DEF Edit, Shared, Resting, Here, Inv, Disk
    <2>2. QED  BY <2>1 DEF AgreeInv
  <1>4. ASSUME NEW w \in Writer, Begin(w) \/ Restart(w) PROVE AgreeInv'
    BY <1>4, AgreeSame DEF Begin, Restart, disk, store, history, bounds
  <1>5. ASSUME NEW w \in Writer, Recovery(w) PROVE AgreeInv'
    <2>1. CASE DiscardClear(w)
      <3>1. carried \subseteq foreign
        BY <2>1, RestingFacts DEF DiscardClear, WriterInv, Leaving, FilesInv
      <3>2. CASE Forget
        BY <2>1, <3>1, <3>2, AgreeForget DEF DiscardClear, store, bounds
      <3>3. CASE UNCHANGED <<pending, carried, since>>
        BY <2>1, <3>3, AgreeSame DEF DiscardClear, store, bounds
      <3>4. QED  BY <2>1, <3>2, <3>3 DEF DiscardClear
    <2>2. CASE ForwardPublish(w)
      BY <2>2, AgreeSame DEF ForwardPublish, Rename, store, history, bounds
    <2>3. CASE Lock(w) \/ RecoverNothing(w) \/ RecoverDecide(w) \/ Discard(w)
      BY <2>3, AgreeSame DEF Lock, RecoverNothing, RecoverDecide, Discard, disk, store,
         history, bounds
    <2>4. CASE ForwardSkip(w) \/ ForwardRead(w) \/ ForwardDone(w) \/ Tidy(w)
      BY <2>4, AgreeSame DEF ForwardSkip, ForwardRead, ForwardDone, Tidy, disk, store,
         history, bounds
    <2>5. QED  BY <1>5, <2>1, <2>2, <2>3, <2>4 DEF Recovery
  <1>6. ASSUME NEW w \in Writer, Operation(w) PROVE AgreeInv'
    <2>1. CASE Plan(w) \/ Stage(w) \/ CheckSame(w) \/ CheckGiveUp(w) \/ CheckFails(w)
      BY <2>1, AgreeSame DEF Plan, Stage, CheckSame, CheckGiveUp, CheckFails, disk, store,
         history, bounds
    <2>2. CASE CheckNoop(w) \/ CheckReplan(w) \/ DropOld(w) \/ Abandon(w)
      BY <2>2, AgreeSame DEF CheckNoop, CheckReplan, DropOld, Abandon, store, history, bounds
    <2>3. CASE Intent(w)
      <3>1. pending = NoPending  BY <2>3, RestingFacts DEF Intent, WriterInv
      <3>2. QED  BY <2>3, <3>1 DEF Intent, AgreeInv, store, bounds
    <2>4. CASE Record(w) \/ Mark(w)
      <3>1. pc[w] \in Looping  BY <2>4 DEF Record, Mark, Looping
      <3>2. /\ pending.pointer = loc[w].mem.pointer /\ loc[w].mem \in Pending
            /\ loc[w].mem # NoPending
        BY <3>1, LoopRestFacts, RestingFacts DEF Local
      <3>3. [loc[w].mem EXCEPT !.published = TRUE] \in Pending
        BY <3>2 DEF Pending
      <3>4. [loc[w].mem EXCEPT !.published = TRUE].pointer = loc[w].mem.pointer
        BY <3>2 DEF Pending
      <3>5. \/ pending' = pending
            \/ pending' # NoPending /\ pending'.pointer = pending.pointer
        BY <2>4, <3>2, <3>3, <3>4, MarkersAssumption DEF Record, Recorded, Mark, Marked
      <3>6. UNCHANGED <<carried, foreign, settings, dbp, edits>>
        BY <2>4 DEF Record, Mark, store, history, bounds
      <3>7. QED  BY <3>5, <3>6, AgreeSame
    <2>5. CASE Publish(w)
      BY <2>5, AgreeSame DEF Publish, Rename, store, history, bounds
    <2>6. CASE AbandonClear(w)
      <3>1. carried = {} /\ Forget
        BY <2>6, RestingFacts DEF AbandonClear, WriterInv, Giving, Announced, Here, Assumed
      <3>2. QED  BY <2>6, <3>1, AgreeForget DEF AbandonClear, store, bounds
    <2>7. QED  BY <1>6, <2>1, <2>2, <2>3, <2>4, <2>5, <2>6 DEF Operation
  <1>7. ASSUME NEW w \in Writer, Prepare(w) \/ Rollback(w) \/ Adopt(w) PROVE AgreeInv'
    <2>1. settings' = settings
      BY <1>7, RestingFacts DEF Prepare, Rollback, Adopt, AimInv
    <2>2. QED  BY <1>7, <2>1, AgreeSame DEF Prepare, Rollback, Adopt, disk, history, bounds
  <1>8. QED
    BY <1>1, <1>2, <1>3, <1>4, <1>5, <1>6, <1>7, AgreeCommit DEF Next, Step

----------------------------------------------------------------------------
LEMMA RestInit == Init => FilesInv /\ (\A w \in Writer : AimInv(w)) /\ AgreeInv
  <1> SUFFICES ASSUME Init PROVE FilesInv /\ (\A w \in Writer : AimInv(w)) /\ AgreeInv
    OBVIOUS
  <1>1. \A w \in Writer : pc[w] = "idle" /\ loc[w] = Blank  BY DEF Init
  <1>2. Blank.ret = "none"  BY DEF Blank
  <1>3. \A w \in Writer : AimInv(w)
    BY <1>1, <1>2 DEF AimInv, Started, Aiming, Acting, Looping
  <1>4. ASSUME NEW f \in File PROVE BelongsTo(f, live[f], settings)
    <2> DEFINE key == <<FirstProvider, FirstRow>>
               c == [key |-> key, user |-> 0]
    <2>1. live[f] = IF f \in Guarded /\ FirstProvider \in Deleting THEN Absent ELSE c
      BY DEF Init, Whole
    <2>2. c \in [key : Key \cup {NoKey}, user : User] /\ c.key = key /\ settings = FirstProvider
      BY InitialAssumption DEF Key, Init
    <2>3. c \notin {Absent, Broken}  BY <2>2, MarkersAssumption
    <2>4. QED  BY <2>1, <2>2, <2>3, InitialAssumption DEF BelongsTo
  <1>5. FilesInv  BY <1>4 DEF FilesInv, Init
  <1>6. AgreeInv  BY DEF AgreeInv, Init
  <1>7. QED  BY <1>3, <1>5, <1>6

(* With one thread giving commands, at rest a file belongs to the provider  *)
(* in settings.json unless the client has changed it, after any number of   *)
(* failed calls, crashes and recoveries; and the database names the same    *)
(* provider while no client has changed a file.  The last part supposes a   *)
(* file of which the client keeps a part, as every client has one.          *)
THEOREM RestsOnPointer ==
    ASSUME Assumed, Alone, ~EndlessEdits, File \ Guarded # {}
    PROVE  Spec => []PointerMatchesFiles
  <1>1. Init => Alone /\ FilesInv /\ (\A w \in Writer : AimInv(w)) /\ AgreeInv
    BY RestInit
  <1>2. ASSUME Here, FilesInv, \A w \in Writer : AimInv(w), AgreeInv, [Next]_vars
        PROVE  FilesInv' /\ (\A w \in Writer : AimInv(w))' /\ AgreeInv'
    BY <1>2, StepRests, AgreeNext DEF Resting, Shared
  <1>3. ASSUME FilesInv, AgreeInv, Here PROVE PointerMatchesFiles
    BY <1>3 DEF PointerMatchesFiles, Quiet, FilesInv, AgreeInv, Carries, BelongsTo, Here,
       AtomicInv, PendingInv, CarriedInv
  <1>4. QED
    BY <1>1, <1>2, <1>3, AlwaysHere, PTL DEF Spec
----------------------------------------------------------------------------
(* Staged files, which hold API keys.  Until a process dies, one that       *)
(* exists is named by the intent on disk, or by the thread that is about to *)
(* write or has just written the intent; and what an intent names is gone   *)
(* when the intent is cleared.  Writers may be several threads here.        *)

Named(t) == pending # NoPending /\ t \in TempsOf(pending)

OwnedBy(w, t) ==
    \/ pc[w] \in {"intent", "record"} /\ t \in TempsOf(loc[w].mem)
    \/ pc[w] = "dropOld" /\ t = loc[w].old

UsedUp(w) == \A t \in TempsOf(loc[w].mem) : t \notin tmp

TempsInv(w) ==
    /\ pc[w] \in Looping =>
         \A f \in Parts(loc[w].mem) \ loc[w].todo : loc[w].mem.files[f].staged \notin tmp
    /\ pc[w] = "record" =>
         \A f \in File : Turn(w, f) => pending.files[f].staged = loc[w].old
    /\ pc[w] = "recordNoop" =>
         \A f \in File : Turn(w, f) => /\ pending.files[f].staged \notin tmp
                                       /\ loc[w].mem.files[f].staged \notin tmp
    /\ pc[w] \in Giving => pending.files = loc[w].mem.files
    /\ pc[w] \in {"discardClear", "abandonClear", "clear"} => UsedUp(w)
    /\ pc[w] \in {"commit", "commitDb"} /\ loc[w].ret = "op" => UsedUp(w)

StagedInv ==
    crashes = 0 =>
      /\ \A t \in tmp : Named(t) \/ \E w \in Writer : OwnedBy(w, t)
      /\ \A w \in Writer : TempsInv(w)

\* Labels that say nothing about staged files.
Free == Labels \ (Looping \cup Giving \cup {"intent", "discardClear", "clear", "commit", "commitDb"})

LEMMA FreeTemps ==
    ASSUME NEW w \in Writer, pc'[w] \in Free \cup {"intent"}
    PROVE  TempsInv(w)'
  BY DEF TempsInv, Free, Looping, Giving

\* The thread inside the guard accounts for every staged file.
LEMMA StagedInside ==
    ASSUME Here, StagedInv, crashes = 0, NEW w \in Writer, pc[w] \in Held
    PROVE  /\ TempsInv(w) /\ NoTemp \notin tmp
           /\ \A t \in tmp : Named(t) \/ OwnedBy(w, t)
  <1>1. TempsInv(w) /\ NoTemp \notin tmp
    BY MarkersAssumption DEF StagedInv, Here, Inv, Disk
  <1>2. ASSUME NEW t \in tmp, ~Named(t) PROVE OwnedBy(w, t)
    <2>1. PICK v \in Writer : OwnedBy(v, t)  BY <1>2 DEF StagedInv
    <2>2. pc[v] \in Held  BY <2>1 DEF OwnedBy, Held, Labels
    <2>3. v = w  BY <2>2, OneHolder DEF Here
    <2>4. QED  BY <2>1, <2>3
  <1>3. QED  BY <1>1, <1>2

\* A step inside the guard is about its own thread and the disk.
LEMMA StagedMoves ==
    ASSUME Here, StagedInv, NEW w \in Writer, OthersStay(w), pc[w] \in Held,
           crashes' = crashes,
           crashes = 0 => /\ TempsInv(w)'
                          /\ \A t \in tmp' : Named(t)' \/ OwnedBy(w, t)'
    PROVE  StagedInv'
  <1> SUFFICES ASSUME crashes = 0, NEW v \in Writer \ {w} PROVE TempsInv(v)'
    BY DEF StagedInv
  <1>1. pc[v] \notin Held  BY OneHolder DEF Here
  <1>2. pc'[v] = pc[v] /\ pc[v] \in Labels  BY DEF OthersStay, Here, Inv, Control
  <1>3. pc'[v] \in Free  BY <1>1, <1>2 DEF Free, Held, Labels, Looping, Giving
  <1>4. QED  BY <1>3, FreeTemps

\* A step outside it changes nothing on the disk.
LEMMA StagedOutside ==
    ASSUME Here, StagedInv, NEW w \in Writer, OthersStay(w), pc[w] \notin Held,
           pc'[w] \in Free, UNCHANGED <<tmp, pending, crashes>>
    PROVE  StagedInv'
  <1> SUFFICES ASSUME crashes = 0 PROVE StagedInv'
    BY DEF StagedInv
  <1>1. ASSUME NEW v \in Writer PROVE TempsInv(v)'
    <2>1. CASE v = w  BY <2>1, FreeTemps
    <2>2. CASE v # w
      <3>1. pc'[v] = pc[v] /\ loc'[v] = loc[v] /\ TempsInv(v)
        BY <2>2 DEF OthersStay, StagedInv
      <3>2. QED  BY <3>1 DEF TempsInv, UsedUp, Turn
    <2>3. QED  BY <2>1, <2>2
  <1>2. ASSUME NEW t \in tmp' PROVE Named(t)' \/ \E v \in Writer : OwnedBy(v, t)'
    <2>1. Named(t) \/ \E v \in Writer \ {w} : OwnedBy(v, t)
      BY <1>2 DEF StagedInv, OwnedBy, Held, Labels
    <2>2. \A v \in Writer \ {w} : OwnedBy(v, t) => OwnedBy(v, t)'
      BY DEF OwnedBy, OthersStay
    <2>3. QED  BY <2>1, <2>2 DEF Named
  <1>3. QED  BY <1>1, <1>2 DEF StagedInv

\* The intent stays, and names whatever still exists.
LEMMA StagedStays ==
    ASSUME Here, StagedInv, NEW w \in Writer, OthersStay(w),
           pc[w] \in Held \ {"intent", "record", "dropOld"},
           crashes' = crashes, tmp' \subseteq tmp, pending' = pending,
           crashes = 0 /\ TempsInv(w) => TempsInv(w)'
    PROVE  StagedInv'
  <1>1. ASSUME crashes = 0 PROVE TempsInv(w)' /\ \A t \in tmp' : Named(t)'
    <2>1. TempsInv(w) /\ \A t \in tmp : Named(t)
      BY <1>1, StagedInside DEF OwnedBy
    <2>2. QED  BY <1>1, <2>1 DEF Named
  <1>2. QED  BY <1>1, StagedMoves

\* The intent goes when nothing it named exists.
LEMMA StagedForgotten ==
    ASSUME Here, StagedInv, NEW w \in Writer, OthersStay(w),
           pc[w] \in {"discardClear", "abandonClear", "clear"}, pc'[w] \in Free,
           crashes' = crashes, tmp' = tmp,
           TempsOf(pending) = TempsOf(loc[w].mem)
    PROVE  StagedInv'
  <1>1. pc[w] \in Held  BY DEF Held, Labels
  <1>2. ASSUME crashes = 0 PROVE tmp' = {}
    BY <1>1, <1>2, StagedInside DEF TempsInv, UsedUp, Named, OwnedBy
  <1>3. QED  BY <1>1, <1>2, StagedMoves, FreeTemps

\* Where a call that is over goes.
LEMMA EndFree ==
    ASSUME Here, NEW w \in Writer, Finish(w) \/ Fail(w) \/ Return(w)
    PROVE  pc'[w] \in Free /\ OthersStay(w)
  BY EndWriter DEF Free, Labels, Looping, Giving

LEMMA AfterRecoverFree ==
    ASSUME Here, NEW w \in Writer, NEW outcome, AfterRecover(w, outcome)
    PROVE  pc'[w] \in Free /\ OthersStay(w)
  <1>1. CASE Finish(w) \/ Fail(w)  BY <1>1, EndFree
  <1>2. ASSUME NEW r, Leave(w, "lock", r) \/ Leave(w, "prepare", r)
        PROVE  pc'[w] \in Free /\ OthersStay(w)
    BY <1>2, LeavesTo DEF Free, Labels, Looping, Giving
  <1>3. ASSUME NEW r, Goto(w, "recover") \/ Goto(w, "plan"), Set(w, r)
        PROVE  pc'[w] \in Free /\ OthersStay(w)
    BY <1>3, GoesTo DEF Free, Labels, Looping, Giving
  <1>4. CASE pc' = [pc EXCEPT ![w] = "idle"] /\ Set(w, Blank)
    BY <1>4 DEF Here, Inv, Control, Set, OthersStay, Free, Labels, Looping, Giving
  <1>5. QED
    BY <1>1, <1>2, <1>3, <1>4 DEF AfterRecover

LEMMA CommitErrorFree ==
    ASSUME Here, NEW w \in Writer, CommitError(w)
    PROVE  pc'[w] \in Free /\ OthersStay(w)
  BY EndFree, AfterRecoverFree DEF CommitError
----------------------------------------------------------------------------
LEMMA RecoveryStaged ==
    ASSUME Here, StagedInv, NEW w \in Writer, Recovery(w)
    PROVE  StagedInv'
  <1>0. WriterInv(w) /\ Control /\ crashes' = crashes
    BY DEF Here, AtomicInv, Inv, Recovery, Lock, RecoverNothing, RecoverDecide, Discard,
       DiscardClear, ForwardSkip, ForwardRead, ForwardPublish, ForwardDone, Tidy, bounds
  <1>1. CASE Lock(w)
    <2>1. OthersStay(w) /\ pc'[w] = "recover"  BY <1>0, <1>1 DEF Lock, OthersStay, Control
    <2>2. pc[w] \notin Held /\ pc'[w] \in Free /\ UNCHANGED <<tmp, pending>>
      BY <1>1, <2>1 DEF Lock, Held, Free, Labels, Looping, Giving, disk
    <2>3. QED  BY <1>0, <2>1, <2>2, StagedOutside
  <1>2. CASE RecoverNothing(w)
    <2>1. pc[w] \in Held \ {"intent", "record", "dropOld"} /\ UNCHANGED <<tmp, pending>>
      BY <1>2 DEF RecoverNothing, Held, Labels, disk
    <2>2. pc'[w] \in Free /\ OthersStay(w)  BY <1>2, AfterRecoverFree DEF RecoverNothing
    <2>3. QED  BY <1>0, <2>1, <2>2, FreeTemps, StagedStays
  <1>3. CASE RecoverDecide(w)
    <2>1. pc[w] \in Held \ {"intent", "record", "dropOld"} /\ UNCHANGED <<tmp, pending>>
      BY <1>3 DEF RecoverDecide, Held, Labels, disk
    <2>2. pc'[w] \in Free /\ OthersStay(w)
      BY <1>3, GoesTo DEF RecoverDecide, Free, Labels, Looping, Giving
    <2>3. QED  BY <1>0, <2>1, <2>2, FreeTemps, StagedStays
  <1>4. CASE Discard(w)
    <2>1. /\ pc[w] \in Held \ {"intent", "record", "dropOld"} /\ pending' = pending
          /\ tmp' = tmp \ TempsOf(loc[w].mem)
      BY <1>4 DEF Discard, DiscardStaged, Held, Labels
    <2>2. pc'[w] = "discardClear" /\ OthersStay(w) /\ loc'[w] = loc[w]
      BY <1>4, GoesTo DEF Discard
    <2>3. TempsInv(w)'  BY <2>1, <2>2 DEF TempsInv, UsedUp, Looping, Giving
    <2>4. QED  BY <1>0, <2>1, <2>2, <2>3, StagedStays
  <1>5. CASE DiscardClear(w)
    <2>1. pc[w] = "discardClear" /\ tmp' = tmp /\ pc'[w] \in Free /\ OthersStay(w)
      BY <1>5, AfterRecoverFree DEF DiscardClear
    <2>2. pending = loc[w].mem  BY <1>0, <2>1 DEF WriterInv, Leaving
    <2>3. pc[w] \in Held \ {"intent", "record", "dropOld"}  BY <2>1 DEF Held, Labels
    <2>4. CASE Forget  BY <1>0, <2>1, <2>2, StagedForgotten
    <2>5. CASE pending' = pending  BY <1>0, <2>1, <2>3, <2>5, FreeTemps, StagedStays
    <2>6. QED  BY <1>5, <2>4, <2>5 DEF DiscardClear
  <1>6. CASE ForwardSkip(w) \/ ForwardRead(w)
    <2>1. pc[w] \in Held \ {"intent", "record", "dropOld"} /\ UNCHANGED <<tmp, pending>>
      BY <1>6 DEF ForwardSkip, ForwardRead, Held, Labels, disk
    <2>2. PICK r : Set(w, r) /\ (Goto(w, "forward") \/ Goto(w, "forwardPublish"))
      BY <1>6 DEF ForwardSkip, ForwardRead
    <2>3. pc'[w] \in {"forward", "forwardPublish"} /\ OthersStay(w)  BY <2>2, GoesTo
    <2>4. pc'[w] \in Free  BY <2>3 DEF Free, Labels, Looping, Giving
    <2>5. QED  BY <1>0, <2>1, <2>3, <2>4, FreeTemps, StagedStays
  <1>7. CASE ForwardPublish(w)
    <2>1. /\ pc[w] \in Held \ {"intent", "record", "dropOld"} /\ pending' = pending
          /\ tmp' \subseteq tmp
      BY <1>7 DEF ForwardPublish, Rename, Held, Labels
    <2>2. pc'[w] \in Free /\ OthersStay(w)
      BY <1>7, GoesTo, AfterRecoverFree DEF ForwardPublish, Free, Labels, Looping, Giving
    <2>3. QED  BY <1>0, <2>1, <2>2, FreeTemps, StagedStays
  <1>8. CASE ForwardDone(w)
    <2>1. pc[w] \in Held \ {"intent", "record", "dropOld"} /\ UNCHANGED <<tmp, pending>>
      BY <1>8 DEF ForwardDone, Held, Labels, disk
    <2>2. pc'[w] = "commit" /\ OthersStay(w) /\ loc'[w].ret # "op"
      BY <1>0, <1>8, GoesTo DEF ForwardDone, WriterInv, Forth
    <2>3. TempsInv(w)'  BY <2>2 DEF TempsInv, Looping, Giving
    <2>4. QED  BY <1>0, <2>1, <2>2, <2>3, StagedStays
  <1>9. CASE Tidy(w)
    <2>1. /\ pc[w] \in Held \ {"intent", "record", "dropOld"} /\ pending' = pending
          /\ tmp' = tmp \ TempsOf(loc[w].mem)
      BY <1>9 DEF Tidy, DiscardStaged, Held, Labels
    <2>2. pc'[w] = "clear" /\ OthersStay(w) /\ loc'[w] = loc[w]
      BY <1>9, GoesTo DEF Tidy
    <2>3. TempsInv(w)'  BY <2>1, <2>2 DEF TempsInv, UsedUp, Looping, Giving
    <2>4. QED  BY <1>0, <2>1, <2>2, <2>3, StagedStays
  <1>10. QED
    BY <1>1, <1>2, <1>3, <1>4, <1>5, <1>6, <1>7, <1>8, <1>9 DEF Recovery

LEMMA TargetStaged ==
    ASSUME Here, StagedInv, NEW w \in Writer, Commit(w) \/ CommitDb(w) \/ Clear(w)
    PROVE  StagedInv'
  <1>0. /\ WriterInv(w) /\ crashes' = crashes /\ tmp' = tmp
        /\ pc[w] \in {"commit", "commitDb", "clear"}
        /\ pc[w] \in Held \ {"intent", "record", "dropOld"}
    BY DEF Here, AtomicInv, Commit, CommitDb, Clear, bounds, disk, Held, Labels
  <1>1. CASE (Commit(w) \/ CommitDb(w)) /\ CommitError(w)
    BY <1>0, <1>1, CommitErrorFree, FreeTemps, StagedStays DEF Commit, CommitDb, disk
  <1>2. CASE (Commit(w) \/ CommitDb(w)) /\ Committed(w)
    <2>1. pending' = pending /\ pc[w] \in {"commit", "commitDb"}
      BY <1>2 DEF Commit, CommitDb, disk
    <2>2. CASE Recovering(w) /\ Goto(w, "tidy")
      <3>1. pc'[w] \in Free /\ OthersStay(w)
        BY <1>2, <2>2, GoesTo DEF Committed, Free, Labels, Looping, Giving
      <3>2. QED  BY <1>0, <2>1, <3>1, FreeTemps, StagedStays
    <2>3. CASE Return(w)
      BY <1>0, <2>1, <2>3, EndFree, FreeTemps, StagedStays
    <2>4. CASE loc[w].ret = "op" /\ Goto(w, "clear") /\ UNCHANGED loc
      <3>1. pc'[w] = "clear" /\ OthersStay(w) /\ loc'[w] = loc[w]  BY <2>4, GoesTo
      <3>2. TempsInv(w) => TempsInv(w)'
        BY <1>0, <2>1, <2>4, <3>1 DEF TempsInv, UsedUp, Looping, Giving
      <3>3. QED  BY <1>0, <2>1, <3>1, <3>2, StagedStays
    <2>5. QED  BY <1>2, <2>2, <2>3, <2>4 DEF Committed, Recovering
  <1>3. CASE Commit(w) /\ Goto(w, "commitDb") /\ UNCHANGED loc
    <2>1. pc[w] = "commit" /\ pending' = pending  BY <1>3 DEF Commit, disk
    <2>2. pc'[w] = "commitDb" /\ OthersStay(w) /\ loc'[w] = loc[w]  BY <1>3, GoesTo
    <2>3. TempsInv(w) => TempsInv(w)'
      BY <1>0, <2>1, <2>2 DEF TempsInv, UsedUp, Looping, Giving
    <2>4. QED  BY <1>0, <2>1, <2>2, <2>3, StagedStays
  <1>4. CASE Clear(w)
    <2>1. pc[w] = "clear" /\ pending = loc[w].mem
      BY <1>0, <1>4 DEF Clear, WriterInv, Ending, InEnding
    <2>2. pc'[w] \in Free /\ OthersStay(w)
      BY <1>4, EndFree, AfterRecoverFree, CommitErrorFree DEF Clear
    <2>3. CASE Forget  BY <1>0, <2>1, <2>2, StagedForgotten
    <2>4. CASE pending' = pending  BY <1>0, <2>2, <2>4, FreeTemps, StagedStays
    <2>5. QED  BY <1>4, <2>3, <2>4 DEF Clear
  <1>5. QED  BY <1>1, <1>2, <1>3, <1>4 DEF Commit, CommitDb

LEMMA BeginStaged ==
    ASSUME Here, StagedInv, NEW w \in Writer, Plan(w) \/ Stage(w) \/ Intent(w)
    PROVE  StagedInv'
  <1> DEFINE m == loc[w].mem
  <1>0. /\ WriterInv(w) /\ crashes' = crashes /\ loc[w] \in Local /\ m \in Pending
        /\ pc[w] \in Held \ {"record", "dropOld"} /\ pending = NoPending
    BY DEF Here, AtomicInv, Inv, Control, Local, WriterInv, Plan, Stage, Intent, bounds,
       Held, Labels
  <1>1. CASE Plan(w) /\ Fail(w)
    <2>1. UNCHANGED <<tmp, pending>> /\ pc[w] = "plan"  BY <1>1 DEF Plan, disk
    <2>2. QED  BY <1>0, <1>1, <2>1, EndFree, FreeTemps, StagedStays
  <1>2. CASE Plan(w) /\ ~Fail(w)
    <2>1. /\ UNCHANGED <<tmp, pending>> /\ pc[w] = "plan"
          /\ Goto(w, IF Parts(Planned(w)) = {} THEN "commit" ELSE "stage")
          /\ Set(w, [loc[w] EXCEPT !.mem = Planned(w), !.ret = "op", !.tries = 0,
                                   !.todo = Parts(Planned(w)), !.any = FALSE])
      BY <1>2 DEF Plan, disk
    <2>2. /\ OthersStay(w) /\ pc'[w] = IF Parts(Planned(w)) = {} THEN "commit" ELSE "stage"
          /\ loc'[w] = [loc[w] EXCEPT !.mem = Planned(w), !.ret = "op", !.tries = 0,
                                      !.todo = Parts(Planned(w)), !.any = FALSE]
      BY <2>1, GoesTo
    <2>3. loc'[w].mem = Planned(w)  BY <1>0, <2>2 DEF Local
    <2>4. pc'[w] = "commit" => TempsOf(loc'[w].mem) = {}  BY <2>2, <2>3 DEF TempsOf
    <2>5. TempsInv(w)'  BY <2>2, <2>4 DEF TempsInv, UsedUp, Looping, Giving
    <2>6. QED  BY <1>0, <2>1, <2>2, <2>5, StagedStays
  <1>3. CASE Stage(w) /\ Fail(w) /\ tmp' = tmp
    <2>1. pending' = pending /\ pc[w] = "stage"  BY <1>3 DEF Stage
    <2>2. QED  BY <1>0, <1>3, <2>1, EndFree, FreeTemps, StagedStays
  <1>4. CASE Stage(w) /\ tmp' = tmp \cup TempsOf(m) /\ Goto(w, "intent") /\ UNCHANGED loc
    <2>1. pc[w] = "stage" /\ pc'[w] = "intent" /\ OthersStay(w) /\ loc'[w] = loc[w]
      BY <1>4, GoesTo DEF Stage
    <2>2. crashes = 0 => tmp = {}
      BY <1>0, <2>1, StagedInside DEF Named, OwnedBy
    <2>3. crashes = 0 => \A t \in tmp' : OwnedBy(w, t)'
      BY <1>4, <2>1, <2>2 DEF OwnedBy
    <2>4. QED  BY <1>0, <2>1, <2>3, FreeTemps, StagedMoves
  <1>5. CASE Intent(w) /\ pending' = m /\ Goto(w, "check") /\ UNCHANGED <<tmp, loc>>
    <2>1. pc[w] = "intent" /\ pc'[w] = "check" /\ OthersStay(w) /\ loc'[w] = loc[w]
      BY <1>5, GoesTo DEF Intent
    <2>2. loc[w].todo = Parts(m)  BY <1>0, <2>1 DEF WriterInv, Drafted
    <2>3. TempsInv(w)'  BY <2>1, <2>2 DEF TempsInv, Looping, Giving
    <2>4. crashes = 0 => \A t \in tmp : OwnedBy(w, t)
      BY <1>0, StagedInside DEF Named
    <2>5. crashes = 0 => \A t \in tmp' : Named(t)'
      BY <1>0, <1>5, <2>1, <2>4, MarkersAssumption DEF OwnedBy, Named
    <2>6. QED  BY <1>0, <2>1, <2>3, <2>5, StagedMoves
  <1>6. CASE Intent(w) /\ tmp' = DiscardStaged(m) /\ Fail(w) /\ pending' = pending
    <2>1. pc[w] = "intent" /\ pc'[w] \in Free /\ OthersStay(w)
      BY <1>6, EndFree DEF Intent
    <2>2. crashes = 0 => tmp' = {}
      BY <1>0, <1>6, <2>1, StagedInside DEF Named, OwnedBy, DiscardStaged
    <2>3. QED  BY <1>0, <2>1, <2>2, FreeTemps, StagedMoves
  <1>7. QED
    BY <1>1, <1>2, <1>3, <1>4, <1>5, <1>6 DEF Plan, Stage, Intent

LEMMA CheckStaged ==
    ASSUME Here, StagedInv, NEW w \in Writer,
           CheckSame(w) \/ CheckGiveUp(w) \/ CheckFails(w) \/ CheckNoop(w)
    PROVE  StagedInv'
  <1>0. /\ pc[w] = "check" /\ pc[w] \in Looping /\ crashes' = crashes
        /\ pc[w] \in Held \ {"intent", "record", "dropOld"}
    BY DEF CheckSame, CheckGiveUp, CheckFails, CheckNoop, bounds, Looping, Held, Labels
  <1>1. loc[w] \in Local /\ pending = loc[w].mem  BY <1>0, LoopFacts
  <1>2. CASE CheckSame(w)
    <2>1. PICK f \in File : Set(w, [loc[w] EXCEPT !.seen = live[f]])  BY <1>2 DEF CheckSame
    <2>2. /\ pc'[w] \in {"publish", "mark"} /\ OthersStay(w)
          /\ loc'[w].mem = loc[w].mem /\ loc'[w].todo = loc[w].todo
          /\ UNCHANGED <<tmp, pending>>
      BY <1>1, <1>2, <2>1, GoesTo DEF CheckSame, Local
    <2>3. TempsInv(w) => TempsInv(w)'
      BY <1>0, <2>2 DEF TempsInv, Looping, Giving
    <2>4. QED  BY <1>0, <2>2, <2>3, StagedStays
  <1>3. CASE UNCHANGED <<tmp, pending>> /\ Fail(w)
    BY <1>0, <1>3, EndFree, FreeTemps, StagedStays
  <1>4. CASE UNCHANGED <<tmp, pending>> /\ Goto(w, "abandon") /\ UNCHANGED loc
    <2>1. pc'[w] = "abandon" /\ OthersStay(w) /\ loc'[w] = loc[w]  BY <1>4, GoesTo
    <2>2. TempsInv(w)'  BY <1>1, <1>4, <2>1 DEF TempsInv, Looping, Giving
    <2>3. QED  BY <1>0, <1>4, <2>1, <2>2, StagedStays
  <1>5. CASE CheckNoop(w)
    <2> DEFINE m == loc[w].mem
               new == loc'[w]
    <2>1. PICK f \in loc[w].todo :
            /\ Turn(w, f) /\ tmp' = tmp \ {m.files[f].staged}
            /\ new.mem.files[f].staged = NoTemp
            /\ \A g \in File \ {f} : new.mem.files[g] = m.files[g]
      BY <1>5, NoopFacts
    <2>2. /\ pc'[w] = "recordNoop" /\ pending' = pending
          /\ new.todo = loc[w].todo /\ Parts(new.mem) = Parts(m)
      BY <1>5, NoopFacts
    <2>3. OthersStay(w)  BY <1>5, GoesTo DEF CheckNoop
    <2>4. ASSUME crashes = 0, TempsInv(w) PROVE TempsInv(w)'
      <3>1. \A g \in Parts(m) \ loc[w].todo : g \in File \ {f} /\ m.files[g].staged \notin tmp
        BY <1>0, <2>4 DEF TempsInv, Parts
      <3>2. NoTemp \notin tmp  BY <1>0, <2>4, StagedInside
      <3>3. f \in File /\ \A g \in File : Turn(w, g)' => g = f
        BY <1>0, <2>1, <2>2, LoopFacts, TurnUnique DEF Turn, Parts
      <3>4. QED
        BY <1>1, <2>1, <2>2, <3>1, <3>2, <3>3 DEF TempsInv, Giving
    <2>5. QED  BY <1>0, <2>1, <2>2, <2>3, <2>4, StagedStays
  <1>6. QED
    BY <1>2, <1>3, <1>4, <1>5 DEF CheckGiveUp, CheckFails, disk

\* The plan made again has a staged file of its own; the old one stays in
\* the intent on disk until that is replaced.
LEMMA ReplanStaged ==
    ASSUME Here, StagedInv, NEW w \in Writer, CheckReplan(w)
    PROVE  StagedInv'
  <1> DEFINE m == loc[w].mem
  <1>0. /\ pc[w] = "check" /\ pc[w] \in Looping /\ MayReplan(w) /\ pc[w] \in Held
        /\ crashes' = crashes /\ pending' = pending
    BY DEF CheckReplan, Looping, bounds, Held, Labels
  <1>1. PICK f \in File :
          /\ Turn(w, f) /\ ~Unchanged(w, f) /\ PatchOf(w, f) \notin {Refused, live[f]}
          /\ LET t == Staged(w, f, PatchOf(w, f), loc[w].tries + 1) IN
             /\ tmp' = (tmp \cup {t}) \ {NoTemp}
             /\ Set(w, [loc[w] EXCEPT
                  !.mem.files[f] = [pre |-> live[f], planned |-> PatchOf(w, f), staged |-> t],
                  !.old = loc[w].mem.files[f].staged, !.tries = Counted(@), !.seen = live[f]])
    BY DEF CheckReplan
  <1> DEFINE t == Staged(w, f, PatchOf(w, f), loc[w].tries + 1)
             e == [pre |-> live[f], planned |-> PatchOf(w, f), staged |-> t]
  <1>2. /\ loc[w] \in Local /\ m \in Pending /\ pending = m /\ Own(m)
        /\ f \in loc[w].todo /\ f \in Parts(m) /\ loc[w].todo \subseteq Parts(m)
    BY <1>0, <1>1, LoopFacts DEF Turn
  <1>3. t # NoTemp => t.file = f
    <2>1. loc[w].tries \in Nat /\ loc[w].tries + 1 \in 0..MaxReplans
      BY <1>0, <1>2, BoundsAssumption DEF MayReplan, Local
    <2>2. PatchOf(w, f) \in Content  BY <1>0, <1>1, ChangedFacts
    <2>3. QED  BY <1>2, <2>1, <2>2, StagedFacts
  <1>4. e # NotPart
    <2>1. PatchOf(w, f) \in Content /\ live[f] \in Content
      BY <1>0, <1>1, ChangedFacts, LoopFacts
    <2>2. loc[w].tries \in Nat /\ loc[w].tries + 1 \in 0..MaxReplans
      BY <1>0, <1>2, BoundsAssumption DEF MayReplan, Local
    <2>3. t \in Temp \cup {NoTemp}  BY <1>2, <2>1, <2>2, StagedType
    <2>4. e \in Entry  BY <2>1, <2>3 DEF Entry
    <2>5. QED  BY <2>4, NotPartAssumption
  <1>5. /\ pc'[w] = "record" /\ OthersStay(w)
        /\ loc'[w] = [loc[w] EXCEPT !.mem.files[f] = e, !.old = m.files[f].staged,
                                    !.tries = Counted(@), !.seen = live[f]]
        /\ tmp' = (tmp \cup {t}) \ {NoTemp} /\ e.staged = t
    BY <1>1, GoesTo DEF CheckReplan
  <1> HIDE DEF t, e
  <1>6. /\ loc'[w].mem = [m EXCEPT !.files[f] = e]
        /\ loc'[w].todo = loc[w].todo /\ loc'[w].old = m.files[f].staged
    BY <1>2, <1>5 DEF Local
  <1>7. /\ loc'[w].mem.files[f] = e
        /\ \A g \in File \ {f} : loc'[w].mem.files[g] = m.files[g]
    BY <1>2, <1>6 DEF Pending
  <1>8. f \in Parts(loc'[w].mem) /\ Parts(loc'[w].mem) = Parts(m)
    BY <1>2, <1>4, <1>7 DEF Parts
  <1>9. ASSUME crashes = 0 PROVE TempsInv(w)'
    <2>1. TempsInv(w)  BY <1>0, <1>9, StagedInside
    <2>2. ASSUME NEW g \in Parts(m) \ loc[w].todo PROVE loc'[w].mem.files[g].staged \notin tmp'
      <3>1. g # f /\ g \in File  BY <1>2, <2>2 DEF Parts
      <3>2. m.files[g].staged \notin tmp  BY <1>0, <2>1, <2>2 DEF TempsInv
      <3>3. m.files[g].staged # NoTemp => m.files[g].staged.file = g
        BY <1>2, <2>2 DEF Own
      <3>4. QED  BY <1>3, <1>5, <1>7, <3>1, <3>2, <3>3
    <2>3. \A g \in File : Turn(w, g)' => g = f
      BY <1>1, <1>6, FilesAssumption DEF Turn
    <2>4. QED
      BY <1>0, <1>2, <1>5, <1>6, <1>8, <2>2, <2>3 DEF TempsInv, Giving
  <1>10. ASSUME crashes = 0, NEW u \in tmp' PROVE Named(u)' \/ OwnedBy(w, u)'
    <2>1. CASE u = t
      <3>1. u # NoTemp  BY <1>5, <1>10
      <3>2. u \in TempsOf(loc'[w].mem)
        BY <1>5, <1>7, <1>8, <2>1, <3>1 DEF TempsOf
      <3>3. QED  BY <1>5, <3>2 DEF OwnedBy
    <2>2. CASE u # t
      <3>1. u \in tmp  BY <1>5, <1>10, <2>2
      <3>2. Named(u)  BY <1>0, <1>10, <3>1, StagedInside DEF OwnedBy
      <3>3. QED  BY <1>0, <3>2 DEF Named
    <2>3. QED  BY <2>1, <2>2
  <1>11. QED  BY <1>0, <1>5, <1>9, <1>10, StagedMoves

LEMMA RecordStaged ==
    ASSUME Here, StagedInv, "loop" \notin Faults, NEW w \in Writer, Record(w) \/ DropOld(w)
    PROVE  StagedInv'
  <1> DEFINE m == loc[w].mem
  <1>0. /\ pc[w] \in {"record", "recordNoop", "dropOld"} /\ pc[w] \in Looping /\ pc[w] \in Held
        /\ crashes' = crashes
    BY DEF Record, DropOld, Looping, bounds, Held, Labels
  <1>1. /\ loc[w] \in Local /\ m \in Pending /\ InLoop(w)
        /\ loc[w].todo \subseteq Parts(m)
    BY <1>0, LoopFacts
  <1>2. CASE Record(w) /\ pc[w] = "record"
    <2>1. PICK f \in File : Turn(w, f) /\ pending' = m /\ Goto(w, "dropOld") /\ UNCHANGED loc
      BY <1>2 DEF Record, Recorded
    <2>2. /\ pc[w] = "record" /\ pc'[w] = "dropOld" /\ OthersStay(w) /\ loc'[w] = loc[w]
          /\ tmp' = tmp
      BY <1>2, <2>1, GoesTo DEF Record
    <2>3. m # NoPending  BY <1>1, MarkersAssumption
    <2>4. ASSUME crashes = 0 PROVE TempsInv(w)'
      BY <1>0, <2>2, <2>4, StagedInside DEF TempsInv, Looping, Giving
    <2>5. ASSUME crashes = 0, NEW t \in tmp' PROVE Named(t)' \/ OwnedBy(w, t)'
      <3>1. (Named(t) \/ t \in TempsOf(m)) /\ t # NoTemp /\ TempsInv(w)
        BY <1>0, <2>2, <2>5, StagedInside DEF OwnedBy
      <3>2. CASE t \in TempsOf(m)  BY <2>1, <2>3, <3>2 DEF Named
      <3>3. CASE Named(t) /\ t \notin TempsOf(m)
        <4>1. PICK g \in Parts(pending) : t = pending.files[g].staged
          BY <3>3 DEF Named, TempsOf
        <4>2. g \in File /\ Parts(pending) = Parts(m)  BY <1>1, <2>2, <4>1 DEF InLoop, Parts
        <4>3. Turn(w, g)
          BY <1>1, <2>2, <3>1, <3>3, <4>1, <4>2 DEF InLoop, TempsOf
        <4>4. t = loc[w].old  BY <2>2, <3>1, <4>1, <4>2, <4>3 DEF TempsInv
        <4>5. QED  BY <2>2, <4>4 DEF OwnedBy
      <3>4. QED  BY <3>1, <3>2, <3>3
    <2>6. QED  BY <1>0, <2>2, <2>4, <2>5, StagedMoves
  <1>3. CASE DropOld(w)
    <2>1. /\ pc[w] = "dropOld" /\ pc'[w] = "check" /\ OthersStay(w)
          /\ loc'[w] = [loc[w] EXCEPT !.old = NoTemp]
          /\ tmp' = tmp \ {loc[w].old} /\ pending' = pending
      BY <1>3, GoesTo DEF DropOld
    <2>2. loc'[w].mem = m /\ loc'[w].todo = loc[w].todo  BY <1>1, <2>1 DEF Local
    <2>3. ASSUME crashes = 0 PROVE TempsInv(w)'
      BY <1>0, <2>1, <2>2, <2>3, StagedInside DEF TempsInv, Looping, Giving
    <2>4. ASSUME crashes = 0 PROVE \A t \in tmp' : Named(t)'
      BY <1>0, <2>1, <2>4, StagedInside DEF OwnedBy, Named
    <2>5. QED  BY <1>0, <2>1, <2>3, <2>4, StagedMoves
  <1>4. CASE Record(w) /\ pc[w] # "record"
    <2>1. PICK f \in File :
            /\ Turn(w, f) /\ pending' = m /\ Goto(w, Next1(w, loc[w].todo \ {f}))
            /\ Set(w, [loc[w] EXCEPT !.todo = @ \ {f}, !.tries = 0])
      BY <1>4 DEF Record, Recorded
    <2>2. /\ pc[w] = "recordNoop" /\ tmp' = tmp /\ OthersStay(w)
          /\ pc'[w] = IF loc[w].todo \ {f} = {} THEN "commit" ELSE "check"
          /\ loc'[w] = [loc[w] EXCEPT !.todo = @ \ {f}, !.tries = 0]
      BY <1>4, <2>1, GoesTo DEF Record, Next1
    <2>3. loc'[w].mem = m /\ loc'[w].todo = loc[w].todo \ {f} /\ m # NoPending
      BY <1>1, <2>2, MarkersAssumption DEF Local
    <2>4. ASSUME crashes = 0 PROVE TempsInv(w)'
      <3>1. TempsInv(w)  BY <1>0, <2>4, StagedInside
      <3>2. \A g \in Parts(m) \ (loc[w].todo \ {f}) : m.files[g].staged \notin tmp
        BY <1>0, <2>1, <2>2, <3>1 DEF TempsInv
      <3>3. loc[w].todo \ {f} = {} => UsedUp(w)'
        BY <2>2, <2>3, <3>2 DEF UsedUp, TempsOf
      <3>4. QED  BY <2>2, <2>3, <3>2, <3>3 DEF TempsInv, Looping, Giving
    <2>5. ASSUME crashes = 0, NEW t \in tmp' PROVE Named(t)'
      <3>1. TempsInv(w) /\ Named(t) /\ t # NoTemp
        BY <1>0, <2>2, <2>5, StagedInside DEF OwnedBy
      <3>2. PICK g \in Parts(pending) : t = pending.files[g].staged
        BY <3>1 DEF Named, TempsOf
      <3>3. g \in File /\ Parts(pending) = Parts(m)  BY <1>1, <2>2, <3>2 DEF InLoop, Parts
      <3>4. ~Turn(w, g)  BY <2>2, <2>5, <3>1, <3>2, <3>3 DEF TempsInv
      <3>5. t = m.files[g].staged  BY <1>1, <2>2, <3>2, <3>3, <3>4 DEF InLoop
      <3>6. QED  BY <2>1, <2>3, <3>1, <3>3, <3>5 DEF Named, TempsOf
    <2>6. QED  BY <1>0, <2>2, <2>4, <2>5, StagedMoves
  <1>5. QED  BY <1>2, <1>3, <1>4

LEMMA PublishStaged ==
    ASSUME Here, StagedInv, NEW w \in Writer, Mark(w) \/ Publish(w)
    PROVE  StagedInv'
  <1> DEFINE m == loc[w].mem
  <1>0. /\ pc[w] \in {"mark", "publish"} /\ pc[w] \in Looping
        /\ pc[w] \in Held \ {"intent", "record", "dropOld"} /\ crashes' = crashes
    BY DEF Mark, Publish, Looping, bounds, Held, Labels
  <1>1. /\ loc[w] \in Local /\ m \in Pending /\ pending = m /\ pending # NoPending
        /\ loc[w].todo \subseteq Parts(m) /\ loc[w].ret = "op"
    BY <1>0, LoopFacts DEF Announced
  <1>2. CASE Mark(w)
    <2>1. /\ pc[w] = "mark" /\ tmp' = tmp
          /\ loc'[w] = [loc[w] EXCEPT !.mem.published = TRUE] /\ OthersStay(w)
          /\ \/ pending' = Marked(w) /\ pc'[w] = "publish"
             \/ pending' = pending /\ pc'[w] = "abandon"
      BY <1>2, GoesTo DEF Mark
    <2>2. /\ loc'[w].mem = [m EXCEPT !.published = TRUE] /\ loc'[w].todo = loc[w].todo
          /\ pending' \in {m, [m EXCEPT !.published = TRUE]}
      BY <1>1, <2>1 DEF Local, Marked
    <2>3. /\ loc'[w].mem.files = m.files /\ pending'.files = m.files
          /\ pending' \in Pending
      BY <1>1, <2>2 DEF Pending
    <2>4. ASSUME crashes = 0 PROVE TempsInv(w)'
      <3>1. TempsInv(w)  BY <1>0, <2>4, StagedInside
      <3>2. QED
        BY <1>0, <2>1, <2>2, <2>3, <3>1 DEF TempsInv, Parts, Looping, Giving
    <2>5. ASSUME crashes = 0 PROVE \A t \in tmp' : Named(t)'
      <3>1. \A t \in tmp : t \in TempsOf(m)
        BY <1>0, <1>1, <2>5, StagedInside DEF OwnedBy, Named
      <3>2. TempsOf(pending') = TempsOf(m)  BY <1>1, <2>3 DEF TempsOf, Parts
      <3>3. QED  BY <2>1, <2>3, <3>1, <3>2, MarkersAssumption DEF Named
    <2>6. QED  BY <1>0, <2>1, <2>4, <2>5, StagedMoves
  <1>3. CASE Publish(w) /\ UNCHANGED tmp /\ Fail(w)
    <2>1. pending' = pending  BY <1>3 DEF Publish
    <2>2. QED  BY <1>0, <1>3, <2>1, EndFree, FreeTemps, StagedStays
  <1>4. CASE Publish(w) /\ UNCHANGED <<tmp, loc>> /\ Goto(w, "abandon")
    <2>1. pending' = pending /\ pc'[w] = "abandon" /\ OthersStay(w) /\ loc'[w] = loc[w]
      BY <1>4, GoesTo DEF Publish
    <2>2. TempsInv(w)'  BY <1>1, <2>1 DEF TempsInv, Looping, Giving
    <2>3. QED  BY <1>0, <1>4, <2>1, <2>2, StagedStays
  <1>5. ASSUME NEW f \in File, Publish(w), Turn(w, f), Rename(f, m.files[f]),
               Set(w, [loc[w] EXCEPT !.todo = @ \ {f}, !.any = TRUE, !.tries = 0]),
               Goto(w, Next1(w, loc[w].todo \ {f}))
        PROVE  StagedInv'
    <2>0. /\ OthersStay(w) /\ pc'[w] = Next1(w, loc[w].todo \ {f})
          /\ loc'[w] = [loc[w] EXCEPT !.todo = @ \ {f}, !.any = TRUE, !.tries = 0]
      BY <1>5, GoesTo
    <2>1. /\ pending' = pending /\ tmp' = tmp \ {m.files[f].staged} /\ OthersStay(w)
          /\ pc'[w] = Next1(w, loc[w].todo \ {f})
          /\ loc'[w].todo = loc[w].todo \ {f} /\ loc'[w].mem = m
      BY <1>1, <1>5, <2>0 DEF Publish, Rename, Local
    <2>2. ASSUME TempsInv(w)
          PROVE  \A g \in Parts(m) \ loc'[w].todo : m.files[g].staged \notin tmp'
      BY <1>0, <2>1, <2>2 DEF TempsInv
    <2>3. CASE loc[w].todo \ {f} = {}
      <3>1. pc'[w] = "commit"  BY <2>1, <2>3 DEF Next1
      <3>2. TempsInv(w) => UsedUp(w)'
        BY <2>1, <2>2, <2>3 DEF UsedUp, TempsOf
      <3>3. TempsInv(w) => TempsInv(w)'  BY <3>1, <3>2 DEF TempsInv, Looping, Giving
      <3>4. QED  BY <1>0, <2>1, <3>3, StagedStays
    <2>4. CASE loc[w].todo \ {f} # {}
      <3>1. pc'[w] = "check"  BY <2>1, <2>4 DEF Next1
      <3>2. TempsInv(w) => TempsInv(w)'
        BY <2>1, <2>2, <3>1 DEF TempsInv, Looping, Giving
      <3>3. QED  BY <1>0, <2>1, <3>2, StagedStays
    <2>5. QED  BY <2>3, <2>4
  <1>6. QED  BY <1>2, <1>3, <1>4, <1>5 DEF Publish

LEMMA AbandonStaged ==
    ASSUME Here, StagedInv, NEW w \in Writer, Abandon(w) \/ AbandonClear(w)
    PROVE  StagedInv'
  <1>0. /\ pc[w] \in Held \ {"intent", "record", "dropOld"} /\ crashes' = crashes
        /\ pc[w] \in Giving
    BY DEF Abandon, AbandonClear, bounds, Held, Labels, Giving
  <1>1. CASE Abandon(w)
    <2>1. /\ pc'[w] = "abandonClear" /\ OthersStay(w) /\ loc'[w] = loc[w]
          /\ tmp' = tmp \ TempsOf(loc[w].mem) /\ pending' = pending
      BY <1>1, GoesTo DEF Abandon, DiscardStaged
    <2>2. TempsInv(w) => TempsInv(w)'
      BY <1>0, <2>1 DEF TempsInv, UsedUp, Looping, Giving
    <2>3. QED  BY <1>0, <2>1, <2>2, StagedStays
  <1>2. CASE AbandonClear(w)
    <2>1. /\ pc[w] = "abandonClear" /\ pc'[w] \in Free /\ OthersStay(w) /\ tmp' = tmp
      BY <1>2, EndFree DEF AbandonClear
    <2>2. CASE crashes = 0
      <3>1. pending.files = loc[w].mem.files
        BY <1>0, <2>2, StagedInside DEF TempsInv
      <3>2. TempsOf(pending) = TempsOf(loc[w].mem)  BY <3>1 DEF TempsOf, Parts
      <3>3. QED  BY <1>0, <2>1, <3>2, StagedForgotten
    <2>3. CASE crashes # 0  BY <1>0, <2>3 DEF StagedInv
    <2>4. QED  BY <2>2, <2>3
  <1>3. QED  BY <1>1, <1>2

LEMMA CommandStaged ==
    ASSUME Here, StagedInv, NEW w \in Writer,
           Begin(w) \/ Restart(w) \/ Prepare(w) \/ Adopt(w) \/ Rollback(w)
    PROVE  StagedInv'
  <1>0. DownInv /\ Control  BY DEF Here, Inv
  <1>1. pc[w] \notin Held
    BY <1>0 DEF Begin, Restart, Prepare, Adopt, Rollback, DownInv, Held
  <1>2. UNCHANGED <<tmp, pending, crashes>>
    BY DEF Begin, Restart, Prepare, Adopt, Rollback, disk, bounds
  <1>3. pc'[w] \in {"idle", "lock", "prepare"} /\ OthersStay(w)
    BY <1>0 DEF Begin, Restart, Prepare, Adopt, Rollback, Goto, Set, OthersStay, Control
  <1>4. QED  BY <1>1, <1>2, <1>3, StagedOutside DEF Free, Labels, Looping, Giving

LEMMA StagedInvNext ==
    ASSUME Here, StagedInv, "loop" \notin Faults, [Next]_vars
    PROVE  StagedInv'
  <1>1. CASE UNCHANGED vars
    BY <1>1 DEF vars, disk, bounds, StagedInv, TempsInv, UsedUp, Named, OwnedBy, Turn
  <1>2. ASSUME NEW p \in Process, Crash(p) PROVE StagedInv'
    <2>1. crashes' # 0  BY <1>2 DEF Crash, Here, Inv, Disk
    <2>2. QED  BY <2>1 DEF StagedInv
  <1>3. ASSUME NEW f \in File, Edit(f) PROVE StagedInv'
    BY <1>3 DEF Edit, StagedInv, TempsInv, UsedUp, Named, OwnedBy, Turn
  <1>4. ASSUME NEW w \in Writer, Operation(w) PROVE StagedInv'
    BY <1>4, BeginStaged, CheckStaged, ReplanStaged, RecordStaged, PublishStaged, AbandonStaged
       DEF Operation
  <1>5. QED
    BY <1>1, <1>2, <1>3, <1>4, RecoveryStaged, TargetStaged, CommandStaged DEF Next, Step

(* As long as no process has died, nothing is staged at rest: every way an  *)
(* operation or a recovery can end, an error or a plan made again included, *)
(* removes the files it staged or leaves an intent that names them          *)
(* (drop_unpublished, replan and publish in mode/operation.rs).  A failing  *)
(* write of the intent in the middle of the loop is the exception: there    *)
(* the code returns at once.                                                *)
THEOREM NothingStaged ==
    ASSUME Assumed, "loop" \notin Faults
    PROVE  Spec => []NoStagedFileLeft
  <1>1. Init => StagedInv
    <2>1. SUFFICES ASSUME Init PROVE StagedInv
      OBVIOUS
    <2>2. tmp = {} /\ \A w \in Writer : pc[w] = "idle"  BY <2>1 DEF Init
    <2>3. QED  BY <2>2 DEF StagedInv, TempsInv, Looping, Giving
  <1>2. Here /\ StagedInv /\ [Next]_vars => StagedInv'  BY StagedInvNext
  <1>3. StagedInv => NoStagedFileLeft
    BY DEF StagedInv, NoStagedFileLeft, Quiet, Named, OwnedBy
  <1>4. QED  BY <1>1, <1>2, <1>3, AlwaysHere, PTL DEF Spec

=============================================================================
