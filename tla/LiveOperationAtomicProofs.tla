----------------------- MODULE LiveOperationAtomicProofs -----------------------
(***************************************************************************)
(* An operation on the client files is done or not done at all (the rules  *)
(* at the top of mode/operation.rs), for any number of files, providers,   *)
(* rows, threads, edits, crashes and failed calls.                         *)
(*                                                                         *)
(* Assumed says what is needed throughout: the writers are threads of one  *)
(* process (the lock is not seen by another one), and nothing goes wrong   *)
(* between removing the staged files of an operation that is given up and  *)
(* clearing its intent (operation_abandon).  A file in which the client    *)
(* happens to write what an operation planned passes for a published one.  *)
(* So DoneOrNot and RecordedFirst need a client that does not (Distinct),  *)
(* and the rest only that dropping such an operation does not fail half    *)
(* way: the next recovery could take it for one that had begun.            *)
(*                                                                         *)
(* PendingInv is what the disk promises to whoever recovers next.          *)
(* WriterInv says, label by label, how the thread inside the guard relates *)
(* its memory to the disk; the other threads have nothing to say.          *)
(***************************************************************************)
EXTENDS LiveOperationProofs

\* The client never happens to write just what an operation planned.
Distinct == Coincide = "never"

Assumed ==
    /\ \A v, w \in Writer : ProcessOf[v] = ProcessOf[w]
    /\ ~CrashInAbandon /\ "abandon" \notin Faults
    /\ Distinct \/ "discard" \notin Faults

Looping  == {"check", "mark", "publish", "record", "recordNoop", "dropOld"}
Giving   == {"abandon", "abandonClear"}
Leaving  == {"discard", "discardClear"}
Clearing == {"abandonClear", "discardClear"}
Forth   == {"forward", "forwardPublish"}
Ending  == {"commit", "commitDb", "tidy", "clear"}

USE DEF Clearing

----------------------------------------------------------------------------
(* An intent: its staged files are its own, no file carries it, every file *)
(* outside S is accounted for, every other one can be written.             *)

Own(p)        == \A f \in Parts(p) : p.files[f].staged # NoTemp => p.files[f].staged.file = f
Unwritten(p)  == \A f \in Parts(p) : live[f] # p.files[f].planned
AllButTodo(w) == \A f \in Parts(pending) : f \in loc[w].todo \/ Accounted(f)
AllAccounted  == \A f \in Parts(pending) : Accounted(f)
AsRead        == \A f \in Parts(pending) : Accounted(f) \/ live[f] = pending.files[f].pre
Writable      == \A f \in Parts(pending) : Accounted(f) \/ Usable(pending.files[f])

\* Recovery may come to carry the operation forward.
Promised == pending.published \/ ~Distinct

\* What was written is still there, unless the client changed it.
CarriedInv ==
    /\ carried # {} => pending # NoPending
    /\ carried \subseteq marker
    /\ carried # {} /\ Distinct => pending.published
    /\ \A f \in carried : f \in Parts(pending)
    /\ \A f \in carried \ since : live[f] = pending.files[f].planned

PendingInv ==
    /\ CarriedInv
    /\ pending # NoPending =>
         /\ Own(pending) /\ AsRead
         /\ ~Promised => Unwritten(pending)
         /\ Promised => Writable \/ \E w \in Writer : pc[w] \in Clearing

----------------------------------------------------------------------------
(* The thread inside the guard. *)

\* Staged files are numbered apart.  A whole-file file yet to be written is
\* still planned from what the command started from; another one does not
\* carry the row, unless the client may write it there.
Foreign(f, key) == live[f] \in {Absent, Broken} \/ live[f].key # key

Fit(w) ==
    LET l == loc[w] IN
    /\ Own(l.mem)
    /\ \A f \in l.todo :
         LET t == l.mem.files[f].staged IN
         t # NoTemp => t.gen = 0 \/ (Turn(w, f) /\ t.gen <= l.tries)
    /\ \A f \in l.todo :
         IF f \in Guarded THEN l.mem.files[f].pre = l.expect[f]
         ELSE Coincide # "any" => Foreign(f, l.key)

Drafted(w) ==
    LET l == loc[w] IN
    /\ l.ret = "op" /\ l.todo = Parts(l.mem) /\ Parts(l.mem) # {}
    /\ ~l.mem.published /\ ~l.any
    /\ Fit(w) /\ (Distinct => Unwritten(l.mem))
    /\ \A f \in Parts(l.mem) :
         l.mem.files[f].staged = NoTemp => l.mem.files[f].planned = Absent

\* Everything is staged.
Ready(w) == \A f \in Parts(loc[w].mem) : Usable(loc[w].mem.files[f])

Announced(w) ==
    LET l == loc[w] IN
    /\ l.ret = "op" /\ pending # NoPending /\ Parts(l.mem) # {}
    /\ pending.pointer = l.mem.pointer
    /\ carried # {} => l.any

InLoop(w) ==
    LET l == loc[w] IN
    /\ Fit(w) /\ AllButTodo(w) /\ Writable
    /\ l.todo \cap carried = {}
    /\ pending.published = l.mem.published /\ Parts(pending) = Parts(l.mem)
    /\ l.any => l.mem.published
    /\ pc[w] \notin {"record", "recordNoop"} => pending = l.mem
    /\ pc[w] \in {"record", "recordNoop"} =>
         /\ \A f \in File : Turn(w, f) \/ pending.files[f] = l.mem.files[f]
         /\ ~l.mem.published /\ Distinct => Unwritten(l.mem)
    /\ pc[w] = "record" => \A f \in File : Turn(w, f) => Usable(l.mem.files[f])
    /\ pc[w] = "recordNoop" =>
         \A f \in File : Turn(w, f) => l.mem.files[f].pre = l.mem.files[f].planned
    /\ pc[w] \in {"record", "dropOld"} =>
         \A f \in Parts(l.mem) : l.mem.files[f].staged # NoTemp => l.mem.files[f].staged # l.old
    /\ pc[w] \in {"mark", "publish"} => \A f \in File : Turn(w, f) => f \in marker
    /\ pc[w] = "mark" => ~l.mem.published
    /\ pc[w] = "publish" => l.mem.published

InEnding(w) ==
    LET l == loc[w] IN
    \/ /\ pending = NoPending /\ pc[w] \in {"commit", "commitDb"}
       /\ l.ret = "op" /\ Parts(l.mem) = {}
    \/ /\ pending # NoPending /\ pending = l.mem /\ AllAccounted
       /\ l.ret = "op" => Parts(l.mem) # {}
       /\ pc[w] \in {"tidy", "clear"} => l.mem.pointer \in {NoPointer, dbp}

WriterInv(w) ==
    /\ pc[w] \in {"lock", "prepare", "recover", "tidy"} \cup Leaving \cup Forth
         => loc[w].ret # "op"
    /\ pc[w] \in {"plan", "stage", "intent"} => pending = NoPending
    /\ pc[w] \in {"stage", "intent"} => Drafted(w)
    /\ pc[w] = "intent" => Ready(w)
    /\ pc[w] \in Looping \cup Giving => Announced(w)
    /\ pc[w] \in Looping => InLoop(w)
    /\ pc[w] \in Giving => ~loc[w].any
    /\ pc[w] \in Leaving =>
         /\ pending # NoPending /\ pending = loc[w].mem /\ ~pending.published
         /\ carried \subseteq since
    /\ pc[w] \in Forth =>
         /\ pending # NoPending /\ pending = loc[w].mem /\ Promised
         /\ AllButTodo(w)
         /\ pc[w] = "forwardPublish" => \A f \in File : Turn(w, f) => f \in marker
    /\ pc[w] \in Ending => InEnding(w)

\* A dead process runs no thread.
DownInv == \A w \in Writer : up[ProcessOf[w]] = "down" => pc[w] = "idle"

AtomicInv == PendingInv /\ \A w \in Writer : WriterInv(w)

----------------------------------------------------------------------------
(* What the other threads, and steps that write nothing, leave true. *)

Untouched == UNCHANGED <<live, tmp, marker, pending, carried, since, dbp>>

OthersStay(w) == \A v \in Writer \ {w} : pc'[v] = pc[v] /\ loc'[v] = loc[v]

Here == Assumed /\ Inv /\ LockInv /\ DownInv /\ AtomicInv

LEMMA OneHolder ==
    ASSUME Assumed, LockInv, NEW v \in Writer, NEW w \in Writer, pc[v] \in Held, pc[w] \in Held
    PROVE  v = w
  BY DEF Assumed, LockInv

\* A thread outside the guard.
LEMMA Outside ==
    ASSUME NEW w \in Writer, pc'[w] \in Labels \ Held,
           pc'[w] \in {"lock", "prepare"} => loc'[w].ret # "op"
    PROVE  WriterInv(w)'
  BY DEF WriterInv, Labels, Held, Looping, Giving, Leaving, Forth, Ending

\* A thread whose memory and whose disk stay as they are.
LEMMA SameWriter ==
    ASSUME NEW v \in Writer, WriterInv(v), pc'[v] = pc[v], loc'[v] = loc[v], Untouched
    PROVE  WriterInv(v)'
  <1> USE DEF Untouched
  <1>1. Fit(v)' = Fit(v)  BY DEF Fit, Own, Turn, Foreign
  <1>2. Drafted(v)' = Drafted(v)  BY <1>1 DEF Drafted, Unwritten
  <1>3. Announced(v)' = Announced(v)  BY DEF Announced
  <1>4. AllButTodo(v)' = AllButTodo(v)  BY DEF AllButTodo, Accounted
  <1>5. Writable' = Writable  BY DEF Writable, Accounted, Usable
  <1>6. InLoop(v)' = InLoop(v)
    BY <1>1, <1>4, <1>5 DEF InLoop, Turn, Usable, Unwritten
  <1>7. InEnding(v)' = InEnding(v)  BY DEF InEnding, AllAccounted, Accounted
  <1>8. Ready(v)' = Ready(v)  BY DEF Ready, Usable
  <1>9. QED
    BY <1>2, <1>3, <1>4, <1>6, <1>7, <1>8 DEF WriterInv, Turn, Promised

LEMMA OthersHold ==
    ASSUME Here, NEW w \in Writer, OthersStay(w), pc[w] \in Held \/ Untouched
    PROVE  \A v \in Writer \ {w} : WriterInv(v)'
  <1> SUFFICES ASSUME NEW v \in Writer \ {w} PROVE WriterInv(v)'
    OBVIOUS
  <1>1. WriterInv(v) /\ pc'[v] = pc[v] /\ loc'[v] = loc[v] /\ pc[v] \in Labels
    BY DEF Here, AtomicInv, OthersStay, Inv, Control
  <1>2. CASE pc[w] \in Held
    <2>1. pc[v] \notin Held  BY <1>2, OneHolder DEF Here
    <2>2. QED  BY <1>1, <2>1, Outside DEF WriterInv
  <1>3. CASE Untouched  BY <1>1, <1>3, SameWriter
  <1>4. QED  BY <1>2, <1>3

\* Inside the guard, what is published can be written.
LEMMA HeldWritable ==
    ASSUME Here, NEW w \in Writer, pc[w] \in Held \ Clearing,
           pending # NoPending, Promised
    PROVE  Writable
  <1>1. \A v \in Writer : pc[v] \notin Clearing
    BY OneHolder DEF Here, Held, Labels, Clearing
  <1>2. QED  BY <1>1 DEF Here, AtomicInv, PendingInv

\* The files and the intent stay; staged files may come and go.
LEMMA DiskKept ==
    ASSUME Here, UNCHANGED <<live, pending, carried, since>>, marker \subseteq marker',
           pending # NoPending /\ Promised
             => Writable' \/ \E v \in Writer : pc'[v] \in Clearing
    PROVE  PendingInv'
  <1> USE DEF Here, AtomicInv, PendingInv, Promised
  <1>1. CarriedInv'  BY DEF CarriedInv, Parts
  <1>2. pending # NoPending => Own(pending)' /\ AsRead'
    BY DEF Own, AsRead, Accounted
  <1>3. Unwritten(pending)' = Unwritten(pending)  BY DEF Unwritten
  <1>4. QED  BY <1>1, <1>2, <1>3

LEMMA TmpKept ==
    ASSUME Here, NEW w \in Writer, OthersStay(w), pc[w] \notin Clearing,
           UNCHANGED <<live, tmp, pending, carried, since>>, marker \subseteq marker'
    PROVE  PendingInv'
  <1>1. Writable' = Writable  BY DEF Writable, Accounted, Usable
  <1>2. (\E v \in Writer : pc[v] \in Clearing) => \E v \in Writer : pc'[v] \in Clearing
    BY DEF OthersStay
  <1>3. QED  BY <1>1, <1>2, DiskKept DEF Here, AtomicInv, PendingInv

\* No intent: nothing is promised.
LEMMA ForgetKept ==
    ASSUME Forget
    PROVE  PendingInv'
  BY DEF Forget, PendingInv, CarriedInv, Parts

\* A thread that goes to a label, with a local state or with its own.
LEMMA GoesTo ==
    ASSUME Here, NEW w \in Writer, NEW label, Goto(w, label)
    PROVE  /\ pc'[w] = label
           /\ \A r : Set(w, r) => OthersStay(w) /\ loc'[w] = r
           /\ UNCHANGED loc => OthersStay(w) /\ loc'[w] = loc[w]
  BY DEF Here, Inv, Control, Goto, Set, OthersStay

LEMMA LeavesTo ==
    ASSUME Here, NEW w \in Writer, NEW label, NEW r, Leave(w, label, r)
    PROVE  pc'[w] = label /\ loc'[w] = r /\ OthersStay(w)
  BY DEF Here, Inv, Control, Leave, Set, OthersStay

LEMMA EndWriter ==
    ASSUME Here, NEW w \in Writer, Finish(w) \/ Fail(w) \/ Return(w)
    PROVE  WriterInv(w)' /\ OthersStay(w) /\ pc'[w] \in {"idle", "failed", "adopt"}
  <1>1. OthersStay(w) /\ pc'[w] \in {"idle", "failed", "adopt"}
    BY LeavesTo DEF Finish, Fail, Return
  <1>2. QED  BY <1>1, Outside DEF Labels, Held

LEMMA AfterRecoverWriter ==
    ASSUME Here, NEW w \in Writer, NEW outcome, AfterRecover(w, outcome),
           loc[w].ret # "op", outcome = "error" \/ pending' = NoPending
    PROVE  WriterInv(w)' /\ OthersStay(w) /\ pc'[w] \notin Clearing
  <1> DEFINE l == loc[w]
  <1>0. l \in Local  BY DEF Here, Inv, Control
  <1>1. CASE Finish(w) \/ Fail(w)  BY <1>1, EndWriter
  <1>2. CASE l.ret = "first" /\ Leave(w, "lock", [l EXCEPT !.ret = "settle"])
    <2>1. pc'[w] = "lock" /\ loc'[w].ret = "settle" /\ OthersStay(w)
      BY <1>0, <1>2, LeavesTo DEF Local
    <2>2. QED  BY <2>1, Outside DEF Labels, Held
  <1>3. CASE Leave(w, "prepare", l)
    <2>1. pc'[w] = "prepare" /\ loc'[w].ret # "op" /\ OthersStay(w)  BY <1>3, LeavesTo
    <2>2. QED  BY <2>1, Outside DEF Labels, Held
  <1>4. CASE Goto(w, "recover") /\ Set(w, [l EXCEPT !.ret = "run"])
    <2>1. pc'[w] = "recover" /\ loc'[w].ret = "run" /\ OthersStay(w)
      BY <1>0, <1>4, GoesTo DEF Local
    <2>2. QED  BY <2>1 DEF WriterInv, Looping, Giving, Leaving, Forth, Ending
  <1>5. CASE outcome # "error" /\ Goto(w, "plan") /\ Set(w, l)
    <2>1. pc'[w] = "plan" /\ OthersStay(w)  BY <1>5, GoesTo
    <2>2. QED  BY <1>5, <2>1 DEF WriterInv, Looping, Giving, Leaving, Forth, Ending
  <1>6. CASE /\ pc' = [pc EXCEPT ![w] = "idle"]
             /\ Set(w, Blank)
    <2>1. pc'[w] = "idle" /\ OthersStay(w)
      BY <1>6 DEF Here, Inv, Control, Set, OthersStay
    <2>2. QED  BY <2>1, Outside DEF Labels, Held
  <1>7. QED
    BY <1>1, <1>2, <1>3, <1>4, <1>5, <1>6 DEF AfterRecover

----------------------------------------------------------------------------
(* Recovery. *)

LEMMA DecideKeeps ==
    ASSUME Here, NEW w \in Writer, RecoverDecide(w)
    PROVE  PendingInv' /\ WriterInv(w)'
  <1> DEFINE r == [loc[w] EXCEPT !.mem = pending, !.todo = {f \in Parts(pending) : AtPre(f)}]
  <1>0. loc[w] \in Local /\ loc[w].ret # "op"
    BY DEF Here, AtomicInv, Inv, Control, RecoverDecide, WriterInv
  <1>1. pc'[w] \in {"forward", "discard"} /\ loc'[w] = r /\ OthersStay(w)
    BY GoesTo DEF RecoverDecide
  <1>2. /\ loc'[w].mem = pending /\ loc'[w].ret # "op"
        /\ loc'[w].todo = {f \in Parts(pending) : AtPre(f)}
    BY <1>0, <1>1 DEF Local
  <1>3. UNCHANGED <<live, tmp, marker, pending, carried, since>> /\ pending # NoPending
    BY DEF RecoverDecide, disk, history, HasPending
  <1>4. PendingInv'
    BY <1>1, <1>3, TmpKept DEF RecoverDecide
  <1>5. pc'[w] = "forward" => Promised
    BY <1>3, GoesTo
       DEF RecoverDecide, Begun, AtPlanned, Here, AtomicInv, PendingInv, Unwritten, Promised
  <1>6. pc'[w] = "discard" => ~pending.published /\ carried \subseteq since
    BY <1>3, GoesTo
       DEF RecoverDecide, Begun, AtPlanned, Here, AtomicInv, PendingInv, CarriedInv
  <1>7. \A f \in Parts(pending) : f \in loc'[w].todo \/ Accounted(f)
    BY <1>2, <1>3 DEF Here, AtomicInv, PendingInv, AsRead, AtPre, AtPlanned, Accounted
  <1>8. AllButTodo(w)'  BY <1>3, <1>7 DEF AllButTodo, Accounted
  <1>9. WriterInv(w)'
    BY <1>1, <1>2, <1>3, <1>5, <1>6, <1>8
       DEF WriterInv, Looping, Giving, Leaving, Forth, Ending, Promised
  <1>10. QED  BY <1>4, <1>9

LEMMA DiscardKeeps ==
    ASSUME Here, NEW w \in Writer, Discard(w) \/ DiscardClear(w)
    PROVE  PendingInv' /\ WriterInv(w)'
  <1>0. /\ loc[w].ret # "op" /\ pending # NoPending /\ pending = loc[w].mem
        /\ ~pending.published /\ carried \subseteq since
    BY DEF Here, AtomicInv, Discard, DiscardClear, WriterInv, Leaving
  <1>1. CASE Discard(w)
    <2>1. pc'[w] = "discardClear" /\ loc'[w] = loc[w]
      BY <1>1, GoesTo DEF Discard
    <2>2. UNCHANGED <<live, marker, pending, carried, since>>
      BY <1>1 DEF Discard, history
    <2>3. PendingInv'  BY <2>1, <2>2, DiskKept
    <2>4. WriterInv(w)'
      BY <1>0, <2>1, <2>2 DEF WriterInv, Looping, Giving, Leaving, Forth, Ending
    <2>5. QED  BY <2>3, <2>4
  <1>2. CASE DiscardClear(w)
    <2>1. CASE Forget /\ AfterRecover(w, "discarded")
      BY <1>0, <2>1, ForgetKept, AfterRecoverWriter DEF Forget
    <2>2. CASE /\ "discard" \in Faults
               /\ AfterRecover(w, "error") /\ UNCHANGED <<pending, carried, since>>
      <3>1. WriterInv(w)'  BY <1>0, <2>2, AfterRecoverWriter
      <3>2. ~Promised  BY <1>0, <2>2 DEF Here, Assumed, Promised
      <3>3. PendingInv'  BY <1>2, <2>2, <3>2, DiskKept DEF DiscardClear
      <3>4. QED  BY <3>1, <3>3
    <2>3. QED  BY <1>2, <2>1, <2>2 DEF DiscardClear
  <1>3. QED  BY <1>1, <1>2

\* What is known while recovery carries an operation forward.
LEMMA ForthFacts ==
    ASSUME Here, NEW w \in Writer, pc[w] \in Forth
    PROVE  /\ loc[w] \in Local /\ loc[w].ret # "op"
           /\ pending # NoPending /\ pending = loc[w].mem /\ Promised
           /\ pending \in Pending
           /\ AllButTodo(w) /\ Writable /\ Own(pending) /\ AsRead
           /\ loc[w].todo \subseteq Parts(pending)
  <1>1. pc[w] \in Held \ Clearing  BY DEF Forth, Held, Labels
  <1>2. loc[w] \in Local /\ loc[w].todo \subseteq Parts(loc[w].mem)
    BY DEF Here, Inv, Control, Good
  <1>3. QED
    BY <1>1, <1>2, HeldWritable DEF Here, AtomicInv, WriterInv, PendingInv, Forth, Local

\* Replacing one file: it is carried, and the other files stay as they were.
LEMMA RenameKeeps ==
    ASSUME Here, NEW w \in Writer, pc[w] \in Held \ Clearing, OthersStay(w),
           pending # NoPending, Promised, Writable,
           NEW f \in Parts(pending), f \in marker, Rename(f, pending.files[f]),
           UNCHANGED <<marker, pending>>
    PROVE  /\ PendingInv' /\ Writable'
           /\ \A g \in Parts(pending) : Accounted(g) => Accounted(g)'
           /\ Accounted(f)'
  <1> USE DEF Here, AtomicInv, PendingInv
  <1>0. pending \in Pending /\ f \in File /\ live \in [File -> Content] /\ marker \subseteq File
    BY DEF Inv, Disk, Parts
  <1>1. /\ \A g \in File \ {f} : live'[g] = live[g]
        /\ tmp' = tmp \ {pending.files[f].staged}
        /\ carried' = carried \cup {f} /\ since' = since \ {f}
    BY <1>0 DEF Rename
  <1>2. CarriedInv'
    <2>1. live'[f] = pending.files[f].planned  BY <1>0 DEF Rename
    <2>2. \A g \in carried' : g \in Parts(pending) /\ g \in File
      BY <1>1 DEF CarriedInv, Parts
    <2>3. \A g \in carried' \ since' : live'[g] = pending.files[g].planned
      BY <1>1, <2>1, <2>2 DEF CarriedInv
    <2>4. carried' \subseteq marker /\ (Distinct => pending.published)
      BY <1>1 DEF CarriedInv, Promised
    <2>5. QED  BY <2>2, <2>3, <2>4 DEF CarriedInv, Parts
  <1>3. \A g \in Parts(pending) : Accounted(g) => Accounted(g)'
    BY <1>1 DEF Accounted
  <1>4. Accounted(f)'  BY <1>1 DEF Accounted
  <1>5. ASSUME NEW g \in Parts(pending), g # f, Usable(pending.files[g])
        PROVE  Usable(pending.files[g])'
    <2>1. pending.files[g].staged # NoTemp
            => pending.files[g].staged # pending.files[f].staged \/ pending.files[f].staged = NoTemp
      BY <1>5 DEF Own
    <2>2. QED  BY <1>1, <1>5, <2>1 DEF Usable
  <1>6. Writable'  BY <1>3, <1>4, <1>5 DEF Writable
  <1>7. AsRead'
    BY <1>0, <1>1, <1>3, <1>4 DEF AsRead, Parts
  <1>8. Own(pending)'  BY DEF Own
  <1>9. PendingInv'  BY <1>2, <1>6, <1>7, <1>8 DEF Promised
  <1>10. QED  BY <1>3, <1>4, <1>6, <1>9

LEMMA ForwardKeeps ==
    ASSUME Here, NEW w \in Writer, ForwardSkip(w) \/ ForwardRead(w) \/ ForwardDone(w)
    PROVE  PendingInv' /\ WriterInv(w)'
  <1>0. pc[w] = "forward"  BY DEF ForwardSkip, ForwardRead, ForwardDone
  <1>1. pc[w] \in Forth  BY <1>0 DEF Forth
  <1>2. CASE ForwardSkip(w)
    <2>1. PICK f \in File : /\ Turn(w, f) /\ ~Usable(loc[w].mem.files[f])
                            /\ Set(w, [loc[w] EXCEPT !.todo = @ \ {f}])
      BY <1>2 DEF ForwardSkip
    <2>2. pc'[w] = "forward" /\ OthersStay(w)
      BY <1>2, <2>1, GoesTo DEF ForwardSkip
    <2>3. loc'[w] = [loc[w] EXCEPT !.todo = @ \ {f}]
      BY <1>2, <2>1, GoesTo DEF ForwardSkip
    <2>4. /\ loc'[w].mem = loc[w].mem /\ loc'[w].ret = loc[w].ret
          /\ loc'[w].todo = loc[w].todo \ {f}
      BY <1>1, <2>3, ForthFacts DEF Local
    <2>5. UNCHANGED <<live, tmp, marker, pending, carried, since>>
      BY <1>2 DEF ForwardSkip, disk, history
    <2>6. PendingInv'  BY <1>0, <2>2, <2>5, TmpKept
    <2>7. Accounted(f)  BY <1>1, <2>1, ForthFacts DEF Writable, Turn
    <2>8. AllButTodo(w)'  BY <1>1, <2>4, <2>5, <2>7, ForthFacts DEF AllButTodo, Accounted
    <2>9. WriterInv(w)'
      BY <1>1, <2>2, <2>4, <2>5, <2>8, ForthFacts
         DEF WriterInv, Looping, Giving, Leaving, Forth, Ending, Promised
    <2>10. QED  BY <2>6, <2>9
  <1>3. CASE ForwardRead(w)
    <2>1. PICK f \in File : /\ Turn(w, f) /\ marker' = marker \cup {f}
                            /\ Set(w, [loc[w] EXCEPT !.seen = live[f]])
      BY <1>3 DEF ForwardRead
    <2>2. /\ pc'[w] = "forwardPublish" /\ OthersStay(w)
          /\ loc'[w] = [loc[w] EXCEPT !.seen = live[f]]
      BY <1>3, <2>1, GoesTo DEF ForwardRead
    <2>3. /\ loc'[w].mem = loc[w].mem /\ loc'[w].ret = loc[w].ret
          /\ loc'[w].todo = loc[w].todo
      BY <1>1, <2>2, ForthFacts DEF Local
    <2>4. UNCHANGED <<live, tmp, pending, carried, since>>
      BY <1>3 DEF ForwardRead, history
    <2>5. PendingInv'  BY <1>0, <2>1, <2>2, <2>4, TmpKept
    <2>6. AllButTodo(w)'  BY <1>1, <2>3, <2>4, ForthFacts DEF AllButTodo, Accounted
    <2>7. \A g \in File : Turn(w, g) => g = f
      BY <2>1, FilesAssumption DEF Turn
    <2>8. \A g \in File : Turn(w, g)' => g \in marker'
      BY <2>1, <2>3, <2>7 DEF Turn
    <2>9. WriterInv(w)'
      BY <1>1, <2>2, <2>3, <2>4, <2>6, <2>8, ForthFacts
         DEF WriterInv, Looping, Giving, Leaving, Forth, Ending, Promised
    <2>10. QED  BY <2>5, <2>9
  <1>4. CASE ForwardDone(w)
    <2>1. pc'[w] = "commit" /\ OthersStay(w) /\ loc'[w] = loc[w]
      BY <1>4, GoesTo DEF ForwardDone
    <2>2. UNCHANGED <<live, tmp, marker, pending, carried, since>>
      BY <1>4 DEF ForwardDone, disk, history
    <2>3. PendingInv'  BY <1>0, <2>1, <2>2, TmpKept
    <2>4. AllAccounted  BY <1>1, <1>4, ForthFacts DEF ForwardDone, AllButTodo, AllAccounted
    <2>5. AllAccounted'  BY <2>2, <2>4 DEF AllAccounted, Accounted
    <2>6. InEnding(w)'  BY <1>1, <2>1, <2>2, <2>5, ForthFacts DEF InEnding
    <2>7. WriterInv(w)'
      BY <2>1, <2>6 DEF WriterInv, Looping, Giving, Leaving, Forth, Ending
    <2>8. QED  BY <2>3, <2>7
  <1>5. QED  BY <1>2, <1>3, <1>4

LEMMA ForwardPublishKeeps ==
    ASSUME Here, NEW w \in Writer, ForwardPublish(w)
    PROVE  PendingInv' /\ WriterInv(w)'
  <1>0. pc[w] = "forwardPublish" /\ pc[w] \in Forth /\ pc[w] \in Held \ Clearing
    BY DEF ForwardPublish, Forth, Held, Labels
  <1>1. CASE \E f \in File : /\ Turn(w, f) /\ Rename(f, loc[w].mem.files[f])
                             /\ Set(w, [loc[w] EXCEPT !.todo = @ \ {f}])
                             /\ Goto(w, "forward")
    <2>1. PICK f \in File : /\ Turn(w, f) /\ Rename(f, loc[w].mem.files[f])
                            /\ Set(w, [loc[w] EXCEPT !.todo = @ \ {f}])
                            /\ Goto(w, "forward")
      BY <1>1
    <2>2. /\ pc'[w] = "forward" /\ OthersStay(w)
          /\ loc'[w] = [loc[w] EXCEPT !.todo = @ \ {f}]
      BY <2>1, GoesTo
    <2>3. /\ loc'[w].mem = loc[w].mem /\ loc'[w].ret = loc[w].ret
          /\ loc'[w].todo = loc[w].todo \ {f}
      BY <1>0, <2>2, ForthFacts DEF Local
    <2>4. f \in Parts(pending)  BY <1>0, <2>1, ForthFacts DEF Turn
    <2>5. f \in marker  BY <1>0, <2>1 DEF Here, AtomicInv, WriterInv
    <2>6. UNCHANGED <<marker, pending>>  BY DEF ForwardPublish
    <2>7. /\ PendingInv' /\ Accounted(f)'
          /\ \A g \in Parts(pending) : Accounted(g) => Accounted(g)'
      BY <1>0, <2>1, <2>2, <2>4, <2>5, <2>6, ForthFacts, RenameKeeps
    <2>8. AllButTodo(w)'
      BY <1>0, <2>3, <2>6, <2>7, ForthFacts DEF AllButTodo
    <2>9. WriterInv(w)'
      BY <1>0, <2>2, <2>3, <2>6, <2>8, ForthFacts
         DEF WriterInv, Looping, Giving, Leaving, Forth, Ending, Promised
    <2>10. QED  BY <2>7, <2>9
  <1>2. CASE AfterRecover(w, "error") /\ UNCHANGED <<live, tmp, history>>
    <2>1. WriterInv(w)' /\ OthersStay(w)  BY <1>0, <1>2, ForthFacts, AfterRecoverWriter
    <2>2. PendingInv'
      BY <1>0, <1>2, <2>1, TmpKept DEF ForwardPublish, history
    <2>3. QED  BY <2>1, <2>2
  <1>3. QED  BY <1>1, <1>2 DEF ForwardPublish

----------------------------------------------------------------------------
(* The target and the end. *)

LEMMA CommittedKeeps ==
    ASSUME Here, NEW w \in Writer, Committed(w), InEnding(w), pc[w] \in {"commit", "commitDb"},
           UNCHANGED <<live, pending, carried, since>>,
           loc[w].mem.pointer \in {NoPointer, dbp'}
    PROVE  WriterInv(w)' /\ OthersStay(w) /\ pc'[w] \notin Clearing
  <1>1. CASE Return(w)  BY <1>1, EndWriter
  <1>2. CASE \/ Goto(w, "tidy") /\ UNCHANGED loc /\ loc[w].ret # "op"
             \/ Goto(w, "clear") /\ UNCHANGED loc /\ (loc[w].ret = "op" => Parts(loc[w].mem) # {})
    <2>1. /\ pc'[w] \in {"tidy", "clear"} /\ OthersStay(w) /\ loc'[w] = loc[w]
          /\ pc'[w] = "tidy" => loc[w].ret # "op"
      BY <1>2, GoesTo
    <2>2. pending = loc[w].mem /\ pending # NoPending /\ AllAccounted
          /\ (loc[w].ret = "op" => Parts(loc[w].mem) # {})
      BY <1>2 DEF InEnding
    <2>3. AllAccounted'  BY <2>2 DEF AllAccounted, Accounted
    <2>4. InEnding(w)'  BY <2>1, <2>2, <2>3 DEF InEnding
    <2>5. QED
      BY <2>1, <2>4 DEF WriterInv, Looping, Giving, Leaving, Forth, Ending
  <1>3. QED  BY <1>1, <1>2 DEF Committed, Recovering

LEMMA CommitErrorKeeps ==
    ASSUME Here, NEW w \in Writer, CommitError(w)
    PROVE  WriterInv(w)' /\ OthersStay(w) /\ pc'[w] \notin Clearing
  BY AfterRecoverWriter, EndWriter DEF CommitError, Recovering

LEMMA CommitKeeps ==
    ASSUME Here, NEW w \in Writer, Commit(w) \/ CommitDb(w)
    PROVE  PendingInv' /\ WriterInv(w)'
  <1>0. pc[w] \in {"commit", "commitDb"} /\ InEnding(w)
    BY DEF Here, AtomicInv, WriterInv, Commit, CommitDb, Ending
  <1>1. UNCHANGED <<live, tmp, marker, pending, carried, since>>
    BY DEF Commit, CommitDb, disk, history
  <1>2. WriterInv(w)' /\ OthersStay(w) /\ pc'[w] \notin Clearing
    <2>1. CASE CommitError(w)  BY <2>1, CommitErrorKeeps
    <2>2. CASE Commit(w) /\ Committed(w) /\ loc[w].mem.pointer = NoPointer
      BY <1>0, <1>1, <2>2, CommittedKeeps
    <2>3. CASE CommitDb(w) /\ Committed(w) /\ dbp' = loc[w].mem.pointer
      BY <1>0, <1>1, <2>3, CommittedKeeps
    <2>4. CASE Goto(w, "commitDb") /\ UNCHANGED loc
      <3>1. pc'[w] = "commitDb" /\ OthersStay(w) /\ loc'[w] = loc[w]  BY <2>4, GoesTo
      <3>2. AllAccounted' = AllAccounted  BY <1>1 DEF AllAccounted, Accounted
      <3>3. InEnding(w)'  BY <1>0, <1>1, <3>1, <3>2 DEF InEnding
      <3>4. QED
        BY <3>1, <3>3 DEF WriterInv, Looping, Giving, Leaving, Forth, Ending
    <2>5. QED  BY <2>1, <2>2, <2>3, <2>4 DEF Commit, CommitDb
  <1>3. PendingInv'  BY <1>0, <1>1, <1>2, TmpKept
  <1>4. QED  BY <1>2, <1>3

LEMMA ClearKeeps ==
    ASSUME Here, NEW w \in Writer, Tidy(w) \/ Clear(w)
    PROVE  PendingInv' /\ WriterInv(w)'
  <1>0. /\ pc[w] \in {"tidy", "clear"} /\ InEnding(w)
        /\ pending # NoPending /\ pending = loc[w].mem /\ AllAccounted
    BY DEF Here, AtomicInv, WriterInv, Tidy, Clear, Ending, InEnding
  <1>1. CASE Tidy(w)
    <2>1. pc'[w] = "clear" /\ loc'[w] = loc[w]  BY <1>1, GoesTo DEF Tidy
    <2>2. UNCHANGED <<live, marker, pending, carried, since, dbp>>
      BY <1>1 DEF Tidy, history, store
    <2>3. AllAccounted' /\ Writable'
      BY <1>0, <2>2 DEF AllAccounted, Accounted, Writable
    <2>4. PendingInv'  BY <2>2, <2>3, DiskKept
    <2>5. InEnding(w)'  BY <1>0, <1>1, <2>1, <2>2, <2>3 DEF InEnding, Tidy
    <2>6. WriterInv(w)'
      BY <2>1, <2>5 DEF WriterInv, Looping, Giving, Leaving, Forth, Ending
    <2>7. QED  BY <2>4, <2>6
  <1>2. CASE Clear(w)
    <2>1. CASE Forget /\ Recovering(w) /\ AfterRecover(w, "forwarded")
      BY <2>1, ForgetKept, AfterRecoverWriter DEF Forget, Recovering
    <2>2. CASE Forget /\ Return(w)  BY <2>2, ForgetKept, EndWriter
    <2>3. CASE CommitError(w) /\ UNCHANGED <<pending, carried, since>>
      <3>1. WriterInv(w)' /\ OthersStay(w)  BY <2>3, CommitErrorKeeps
      <3>2. PendingInv'  BY <1>0, <1>2, <2>3, <3>1, TmpKept DEF Clear
      <3>3. QED  BY <3>1, <3>2
    <2>4. QED  BY <1>2, <2>1, <2>2, <2>3 DEF Clear
  <1>3. QED  BY <1>1, <1>2

LEMMA RecoveryKeeps ==
    ASSUME Here, NEW w \in Writer, Recovery(w)
    PROVE  PendingInv' /\ WriterInv(w)'
  <1>1. CASE Lock(w)
    <2>1. pc'[w] = "recover" /\ loc'[w] = loc[w] /\ OthersStay(w) /\ loc[w].ret # "op"
      BY <1>1 DEF Lock, OthersStay, Here, Inv, Control, AtomicInv, WriterInv
    <2>2. UNCHANGED <<live, tmp, marker, pending, carried, since>> /\ pc[w] = "lock"
      BY <1>1 DEF Lock, disk, history
    <2>3. PendingInv'  BY <2>1, <2>2, TmpKept
    <2>4. WriterInv(w)'
      BY <2>1 DEF WriterInv, Looping, Giving, Leaving, Forth, Ending
    <2>5. QED  BY <2>3, <2>4
  <1>2. CASE RecoverNothing(w)
    <2>1. /\ UNCHANGED <<live, tmp, marker, pending, carried, since>>
          /\ pc[w] = "recover" /\ pending = NoPending /\ loc[w].ret # "op"
      BY <1>2 DEF RecoverNothing, disk, history, HasPending, Here, AtomicInv, WriterInv
    <2>2. WriterInv(w)' /\ OthersStay(w)
      BY <1>2, <2>1, AfterRecoverWriter DEF RecoverNothing
    <2>3. PendingInv'  BY <2>1, <2>2, TmpKept
    <2>4. QED  BY <2>2, <2>3
  <1>3. QED
    BY <1>1, <1>2, DecideKeeps, DiscardKeeps, ForwardKeeps, ForwardPublishKeeps, ClearKeeps
       DEF Recovery

----------------------------------------------------------------------------
(* Planning, staging, announcing. *)

LEMMA StagedFacts ==
    ASSUME NEW w \in Writer, loc[w] \in Local, NEW f \in File, NEW c \in Content,
           NEW gen \in 0..MaxReplans
    PROVE  LET t == Staged(w, f, c, gen) IN
           /\ t = NoTemp => c = Absent
           /\ t # NoTemp => t.file = f /\ t.gen = gen
  <1>1. [op |-> loc[w].op, file |-> f, gen |-> gen, content |-> c] \in Temp
    BY DEF Local, Temp
  <1>2. QED  BY <1>1, MarkersAssumption DEF Staged

\* A file that is not refused and not left alone does not carry the row yet.
LEMMA PatchFacts ==
    ASSUME NEW f \in File, NEW key \in Key, NEW expected, NEW c \in Content,
           Patch(f, key, expected, c) \notin {Refused, c}
    PROVE  IF f \in Guarded THEN c = expected
           ELSE c \in {Absent, Broken} \/ c.key # key
  <1>1. CASE f \in Guarded  BY <1>1 DEF Patch
  <1>2. CASE f \notin Guarded /\ c \notin {Absent, Broken}
    <2>1. c \in [key : Key \cup {NoKey}, user : User]  BY <1>2 DEF Content
    <2>2. [c EXCEPT !.key = key] # c  BY <1>2 DEF Patch
    <2>3. QED  BY <1>2, <2>1, <2>2
  <1>3. QED  BY <1>1, <1>2

LEMMA PlanKeeps ==
    ASSUME Here, NEW w \in Writer, Plan(w)
    PROVE  PendingInv' /\ WriterInv(w)'
  <1>0. /\ loc[w] \in Local /\ live \in [File -> Content]
        /\ pc[w] = "plan" /\ pending = NoPending
    BY DEF Here, Inv, Disk, Control, Plan, AtomicInv, WriterInv
  <1>1. UNCHANGED <<live, tmp, marker, pending, carried, since>>
    BY DEF Plan, disk, history
  <1>2. CASE Fail(w)
    <2>1. WriterInv(w)' /\ OthersStay(w)  BY <1>2, EndWriter
    <2>2. QED  BY <1>0, <1>1, <2>1, TmpKept
  <1>3. CASE \A f \in File : PatchOf(w, f) # Refused
    <2> DEFINE m == Planned(w)
               todo == Parts(m)
               label == IF todo = {} THEN "commit" ELSE "stage"
    <2>1. /\ Set(w, [loc[w] EXCEPT !.mem = m, !.ret = "op", !.tries = 0,
                                   !.todo = todo, !.any = FALSE])
          /\ Goto(w, label)
      BY <1>0, <1>3 DEF Plan
    <2> HIDE DEF m, todo
    <2>2. /\ pc'[w] = label /\ OthersStay(w)
          /\ loc'[w] = [loc[w] EXCEPT !.mem = m, !.ret = "op", !.tries = 0,
                                      !.todo = todo, !.any = FALSE]
      BY <2>1, GoesTo
    <2>3. /\ loc'[w].mem = m /\ loc'[w].ret = "op" /\ loc'[w].tries = 0
          /\ loc'[w].todo = todo /\ loc'[w].any = FALSE
          /\ loc'[w].key = loc[w].key /\ loc'[w].expect = loc[w].expect
      BY <1>0, <2>2 DEF Local
    <2>4. PendingInv'  BY <1>0, <1>1, <2>2, TmpKept
    <2>5. CASE todo = {}
      <3>1. InEnding(w)'  BY <1>0, <1>1, <2>2, <2>3, <2>5 DEF InEnding, todo
      <3>2. QED
        BY <2>2, <2>4, <2>5, <3>1 DEF WriterInv, Looping, Giving, Leaving, Forth, Ending
    <2>6. CASE todo # {}
      <3>1. ASSUME NEW f \in todo
            PROVE  /\ f \in File /\ PatchOf(w, f) \notin {Refused, live[f]}
                   /\ PatchOf(w, f) \in Content
                   /\ m.files[f].pre = live[f] /\ m.files[f].planned = PatchOf(w, f)
                   /\ m.files[f].staged = Staged(w, f, PatchOf(w, f), 0)
        <4>1. f \in File /\ m.files[f] # NotPart  BY <3>1 DEF todo, Parts
        <4>2. PatchOf(w, f) # live[f]  BY <4>1 DEF m, Planned
        <4>3. PatchOf(w, f) \in Content
          BY <1>0, <1>3, <4>1, PatchType DEF PatchOf, Local
        <4>4. QED  BY <1>3, <4>1, <4>2, <4>3 DEF m, Planned
      <3>2. ASSUME NEW f \in todo
            PROVE  /\ m.files[f].staged = NoTemp => m.files[f].planned = Absent
                   /\ m.files[f].staged # NoTemp
                        => m.files[f].staged.file = f /\ m.files[f].staged.gen = 0
        <4>1. 0 \in 0..MaxReplans  BY BoundsAssumption
        <4>2. f \in File /\ PatchOf(w, f) \in Content  BY <3>1
        <4>3. LET t == Staged(w, f, PatchOf(w, f), 0) IN
              /\ t = NoTemp => PatchOf(w, f) = Absent
              /\ t # NoTemp => t.file = f /\ t.gen = 0
          BY <1>0, <4>1, <4>2, StagedFacts
        <4>4. QED  BY <3>1, <4>3
      <3>3. ASSUME NEW f \in todo
            PROVE  IF f \in Guarded THEN live[f] = loc[w].expect[f]
                   ELSE live[f] \in {Absent, Broken} \/ live[f].key # loc[w].key
        <4>1. loc[w].key \in Key  BY <1>0 DEF Local
        <4>2. f \in File /\ live[f] \in Content  BY <1>0, <3>1
        <4>3. Patch(f, loc[w].key, loc[w].expect[f], live[f]) \notin {Refused, live[f]}
          BY <3>1 DEF PatchOf
        <4>4. QED  BY <4>1, <4>2, <4>3, PatchFacts
      <3>4. Own(m)
        BY <3>2 DEF Own, todo
      <3>5. \A f \in todo :
              m.files[f].staged # NoTemp => m.files[f].staged.gen = 0
        BY <3>2
      <3>6. \A f \in todo :
              IF f \in Guarded THEN m.files[f].pre = loc[w].expect[f]
              ELSE live[f] \in {Absent, Broken} \/ live[f].key # loc[w].key
        BY <3>1, <3>3
      <3>7. Fit(w)'
        BY <1>1, <2>3, <3>4, <3>5, <3>6 DEF Fit, Own, Foreign
      <3>8. /\ \A f \in Parts(m) : live[f] # m.files[f].planned
            /\ \A f \in Parts(m) : m.files[f].staged = NoTemp => m.files[f].planned = Absent
            /\ Parts(m) # {} /\ todo = Parts(m)
        BY <2>6, <3>1, <3>2 DEF todo
      <3>10. m.published = FALSE  BY DEF m, Planned
      <3>11. Drafted(w)'
        BY <1>1, <2>3, <3>7, <3>8, <3>10 DEF Drafted, Unwritten
      <3>9. QED
        BY <1>0, <1>1, <2>2, <2>4, <2>6, <3>11
           DEF WriterInv, Looping, Giving, Leaving, Forth, Ending
    <2>7. QED  BY <2>5, <2>6
  <1>4. QED  BY <1>2, <1>3 DEF Plan

LEMMA StageKeeps ==
    ASSUME Here, NEW w \in Writer, Stage(w)
    PROVE  PendingInv' /\ WriterInv(w)'
  <1>0. pc[w] = "stage" /\ pending = NoPending /\ Drafted(w)
    BY DEF Here, AtomicInv, WriterInv, Stage
  <1>1. UNCHANGED <<live, marker, pending, carried, since>>  BY DEF Stage, history
  <1>2. PendingInv'  BY <1>0, <1>1, DiskKept
  <1>3. CASE Fail(w)  BY <1>2, <1>3, EndWriter
  <1>4. CASE tmp' = tmp \cup TempsOf(loc[w].mem) /\ Goto(w, "intent") /\ UNCHANGED loc
    <2>1. pc'[w] = "intent" /\ loc'[w] = loc[w]  BY <1>4, GoesTo
    <2>2. Drafted(w)'
      BY <1>0, <1>1, <2>1 DEF Drafted, Fit, Own, Unwritten, Turn, Foreign
    <2>3. Ready(w)'
      BY <1>0, <1>4, <2>1 DEF Drafted, Ready, Usable, TempsOf
    <2>4. QED
      BY <1>0, <1>1, <1>2, <2>1, <2>2, <2>3
         DEF WriterInv, Looping, Giving, Leaving, Forth, Ending
  <1>5. QED  BY <1>3, <1>4 DEF Stage

LEMMA IntentKeeps ==
    ASSUME Here, NEW w \in Writer, Intent(w)
    PROVE  PendingInv' /\ WriterInv(w)'
  <1>0. /\ pc[w] = "intent" /\ pending = NoPending /\ Drafted(w)
        /\ Ready(w)
    BY DEF Here, AtomicInv, WriterInv, Intent
  <1>1. CASE Fail(w) /\ UNCHANGED <<pending, carried, since>>
    BY <1>0, <1>1, EndWriter, DiskKept DEF Intent
  <1>2. CASE /\ pending' = loc[w].mem /\ carried' = {}
             /\ since' = {f \in loc[w].todo : live[f] # loc[w].mem.files[f].pre}
             /\ Goto(w, "check") /\ UNCHANGED <<tmp, loc>>
    <2>1. pc'[w] = "check" /\ loc'[w] = loc[w]  BY <1>2, GoesTo
    <2>2. UNCHANGED <<live, marker, tmp>>  BY <1>2 DEF Intent
    <2>3. pending' # NoPending
      BY <1>2, MarkersAssumption DEF Here, Inv, Control, Local
    <2>4. Fit(w)'  BY <1>0, <2>1, <2>2 DEF Drafted, Fit, Own, Turn, Foreign
    <2>5. Writable'  BY <1>0, <1>2, <2>2 DEF Writable, Usable, Ready
    <2>6. AsRead' /\ AllButTodo(w)'
      BY <1>0, <1>2, <2>1, <2>2 DEF AsRead, AllButTodo, Accounted, Drafted
    <2>7. PendingInv'
      <3>1. CarriedInv'  BY <1>2 DEF CarriedInv
      <3>2. Own(pending)' /\ (~Promised' => Unwritten(pending)')
        BY <1>0, <1>2, <2>2 DEF Drafted, Fit, Own, Unwritten, Promised
      <3>3. QED  BY <2>5, <2>6, <3>1, <3>2 DEF PendingInv
    <2>8. Announced(w)' /\ InLoop(w)'
      BY <1>0, <1>2, <2>1, <2>3, <2>4, <2>5, <2>6 DEF Announced, InLoop, Drafted
    <2>9. QED
      BY <2>1, <2>7, <2>8 DEF WriterInv, Looping, Giving, Leaving, Forth, Ending
  <1>3. QED  BY <1>1, <1>2 DEF Intent

----------------------------------------------------------------------------
(* The publishing loop. *)

\* What is known in the loop.
LEMMA LoopFacts ==
    ASSUME Here, NEW w \in Writer, pc[w] \in Looping
    PROVE  /\ loc[w] \in Local /\ loc[w].mem \in Pending
           /\ pending \in Pending /\ pending # NoPending
           /\ live \in [File -> Content]
           /\ loc[w].todo \subseteq Parts(loc[w].mem)
           /\ Announced(w) /\ InLoop(w) /\ Fit(w) /\ Own(loc[w].mem)
           /\ AllButTodo(w) /\ Writable
           /\ Own(pending) /\ AsRead /\ CarriedInv
           /\ ~Promised => Unwritten(pending)
           /\ pc[w] \notin {"record", "recordNoop"} => pending = loc[w].mem
           /\ pc[w] \in Held \ Clearing
  <1>1. loc[w] \in Local /\ loc[w].todo \subseteq Parts(loc[w].mem) /\ loc[w].mem \in Pending
    BY DEF Here, Inv, Control, Good, Local
  <1>2. Announced(w) /\ InLoop(w)  BY DEF Here, AtomicInv, WriterInv
  <1>3. pending # NoPending /\ pending \in Pending /\ live \in [File -> Content]
    BY <1>2 DEF Announced, Here, Inv, Disk
  <1>4. pc[w] \in Held \ Clearing  BY DEF Looping, Held, Labels
  <1>5. QED
    BY <1>1, <1>2, <1>3, <1>4 DEF InLoop, Fit, Here, AtomicInv, PendingInv

LEMMA TurnUnique ==
    ASSUME NEW w \in Writer, NEW f \in File, NEW g \in File, Turn(w, f), Turn(w, g)
    PROVE  f = g
  BY FilesAssumption DEF Turn

\* Giving up before any file was written.
LEMMA GiveUpWriter ==
    ASSUME Here, NEW w \in Writer, Announced(w), ~loc[w].any,
           Goto(w, "abandon") \/ Goto(w, "abandonClear"),
           loc'[w].ret = loc[w].ret, loc'[w].any = loc[w].any,
           Parts(loc'[w].mem) = Parts(loc[w].mem),
           loc'[w].mem.pointer = loc[w].mem.pointer,
           UNCHANGED <<pending, carried>>
    PROVE  WriterInv(w)'
  <1>1. pc'[w] \in Giving  BY GoesTo DEF Giving
  <1>2. Announced(w)'  BY DEF Announced
  <1>3. QED
    BY <1>1, <1>2 DEF WriterInv, Looping, Giving, Leaving, Forth, Ending

LEMMA CheckSameKeeps ==
    ASSUME Here, NEW w \in Writer, CheckSame(w)
    PROVE  PendingInv' /\ WriterInv(w)'
  <1>0. pc[w] = "check" /\ pc[w] \in Looping  BY DEF CheckSame, Looping
  <1>1. PICK f \in File : /\ Turn(w, f) /\ marker' = marker \cup {f}
                          /\ Set(w, [loc[w] EXCEPT !.seen = live[f]])
    BY DEF CheckSame
  <1>2. /\ pc'[w] = IF loc[w].mem.published THEN "publish" ELSE "mark"
        /\ OthersStay(w) /\ loc'[w] = [loc[w] EXCEPT !.seen = live[f]]
    BY <1>1, GoesTo DEF CheckSame
  <1>3. /\ loc'[w].mem = loc[w].mem /\ loc'[w].ret = loc[w].ret
        /\ loc'[w].todo = loc[w].todo /\ loc'[w].any = loc[w].any
        /\ loc'[w].tries = loc[w].tries /\ loc'[w].key = loc[w].key
        /\ loc'[w].expect = loc[w].expect /\ loc'[w].old = loc[w].old
    BY <1>0, <1>2, LoopFacts DEF Local
  <1>4. UNCHANGED <<live, tmp, pending, carried, since>>  BY DEF CheckSame, history
  <1>5. PendingInv'  BY <1>0, <1>1, <1>2, <1>4, TmpKept
  <1>6. \A g \in File : Turn(w, g)' => g \in marker'
    BY <1>1, <1>3, TurnUnique DEF Turn
  <1>7. Fit(w)' /\ AllButTodo(w)' /\ Writable' /\ Announced(w)'
    BY <1>0, <1>3, <1>4, LoopFacts
       DEF Fit, Own, Turn, Foreign, AllButTodo, Accounted, Writable, Usable, Announced
  <1>8. InLoop(w)'
    BY <1>0, <1>2, <1>3, <1>4, <1>6, <1>7, LoopFacts DEF InLoop
  <1>9. QED
    BY <1>2, <1>5, <1>7, <1>8 DEF WriterInv, Looping, Giving, Leaving, Forth, Ending

LEMMA CheckGiveUpKeeps ==
    ASSUME Here, NEW w \in Writer, CheckGiveUp(w) \/ CheckFails(w)
    PROVE  PendingInv' /\ WriterInv(w)'
  <1>0. pc[w] = "check" /\ pc[w] \in Looping
    BY DEF CheckGiveUp, CheckFails, Looping
  <1>1. UNCHANGED <<live, tmp, marker, pending, carried, since>>
    BY DEF CheckGiveUp, CheckFails, disk, history
  <1>2. CASE Fail(w)
    <2>1. WriterInv(w)' /\ OthersStay(w)  BY <1>2, EndWriter
    <2>2. QED  BY <1>0, <1>1, <2>1, TmpKept
  <1>3. CASE Goto(w, "abandon") /\ UNCHANGED loc /\ ~loc[w].any
    <2>1. OthersStay(w)  BY <1>3, GoesTo
    <2>2. WriterInv(w)'  BY <1>0, <1>1, <1>3, LoopFacts, GiveUpWriter
    <2>3. QED  BY <1>0, <1>1, <2>1, <2>2, TmpKept
  <1>4. QED  BY <1>2, <1>3 DEF CheckGiveUp, CheckFails

\* The client changed the file: it is not a whole-file one, whose patch is
\* refused, and it does not carry the row, unless the client may write it.
LEMMA ChangedFacts ==
    ASSUME Here, NEW w \in Writer, pc[w] = "check", NEW f \in File, Turn(w, f),
           ~Unchanged(w, f), PatchOf(w, f) # Refused
    PROVE  /\ f \notin Guarded /\ PatchOf(w, f) \in Content
           /\ Coincide # "any" => PatchOf(w, f) # live[f]
  <1>1. pc[w] \in Looping  BY DEF Looping
  <1>2. /\ f \in loc[w].todo /\ live[f] \in Content
        /\ loc[w].key \in Key /\ loc[w].key # NoKey
    BY <1>1, LoopFacts, MarkersAssumption DEF Turn, Local
  <1>3. PatchOf(w, f) \in Content
    BY <1>2, PatchType DEF PatchOf
  <1>4. f \notin Guarded
    BY <1>1, <1>2, LoopFacts DEF Fit, Unchanged, PatchOf, Patch
  <1>5. Coincide # "any" => live[f] \in {Absent, Broken} \/ live[f].key # loc[w].key
    BY <1>1, <1>2, <1>4, LoopFacts DEF Fit, Foreign
  <1>6. CASE live[f] = Broken  BY <1>4, <1>6 DEF PatchOf, Patch
  <1>7. CASE live[f] = Absent /\ live[f] # Broken
    <2>1. PatchOf(w, f) = [key |-> loc[w].key, user |-> 0]  BY <1>4, <1>7 DEF PatchOf, Patch
    <2>2. PatchOf(w, f) \in [key : Key \cup {NoKey}, user : User]
      BY <1>2, <2>1, InitialAssumption
    <2>3. QED  BY <1>3, <1>4, <1>7, <2>2, MarkersAssumption
  <1>8. CASE live[f] \notin {Absent, Broken}
    <2>1. live[f] \in [key : Key \cup {NoKey}, user : User]  BY <1>2, <1>8 DEF Content
    <2>2. PatchOf(w, f) = [live[f] EXCEPT !.key = loc[w].key]
      BY <1>4, <1>8 DEF PatchOf, Patch
    <2>3. PatchOf(w, f).key = loc[w].key  BY <2>1, <2>2
    <2>4. QED  BY <1>3, <1>4, <1>5, <1>8, <2>3
  <1>9. QED  BY <1>6, <1>7, <1>8

LEMMA CheckReplanKeeps ==
    ASSUME Here, NEW w \in Writer, CheckReplan(w)
    PROVE  PendingInv' /\ WriterInv(w)'
  <1>0. pc[w] = "check" /\ pc[w] \in Looping /\ MayReplan(w)
    BY DEF CheckReplan, Looping
  <1>1. PICK f \in File :
          /\ Turn(w, f) /\ ~Unchanged(w, f) /\ PatchOf(w, f) \notin {Refused, live[f]}
          /\ LET t == Staged(w, f, PatchOf(w, f), loc[w].tries + 1) IN
             /\ tmp' = (tmp \cup {t}) \ {NoTemp}
             /\ Set(w, [loc[w] EXCEPT
                  !.mem.files[f] = [pre |-> live[f], planned |-> PatchOf(w, f), staged |-> t],
                  !.old = loc[w].mem.files[f].staged, !.tries = Counted(@), !.seen = live[f]])
    BY DEF CheckReplan
  <1> DEFINE t == Staged(w, f, PatchOf(w, f), loc[w].tries + 1)
             e == [pre |-> live[f], planned |-> PatchOf(w, f), staged |-> t]
             m == loc[w].mem
             now == loc[w].tries + 1
  <1>2. f \notin Guarded /\ PatchOf(w, f) \in Content /\ f \in loc[w].todo /\ f \in Parts(m)
    BY <1>0, <1>1, LoopFacts, ChangedFacts DEF Turn
  <1>3. loc[w].tries \in Nat /\ now \in 0..MaxReplans /\ m \in Pending
    BY <1>0, LoopFacts, BoundsAssumption DEF MayReplan, Local
  <1>4. /\ t = NoTemp => PatchOf(w, f) = Absent
        /\ t # NoTemp => t.file = f /\ t.gen = now
    BY <1>0, <1>2, <1>3, LoopFacts, StagedFacts
  <1>5. t \in Temp \cup {NoTemp}
    BY <1>0, <1>2, <1>3, LoopFacts, StagedType
  <1>6. e \in Entry /\ e # NotPart
    BY <1>0, <1>2, <1>5, LoopFacts, NotPartAssumption DEF Entry
  <1>7. /\ pc'[w] = "record" /\ OthersStay(w)
        /\ loc'[w] = [loc[w] EXCEPT !.mem.files[f] = e, !.old = m.files[f].staged,
                                    !.tries = now, !.seen = live[f]]
    BY <1>1, GoesTo DEF CheckReplan, Counted
  <1> HIDE DEF t, e, now
  <1>8. /\ loc'[w].mem = [m EXCEPT !.files[f] = e] /\ loc'[w].ret = loc[w].ret
        /\ loc'[w].todo = loc[w].todo /\ loc'[w].any = loc[w].any
        /\ loc'[w].tries = now /\ loc'[w].key = loc[w].key
        /\ loc'[w].expect = loc[w].expect /\ loc'[w].old = m.files[f].staged
    BY <1>0, <1>7, LoopFacts DEF Local
  <1>9. /\ loc'[w].mem.files[f] = e
        /\ \A g \in File \ {f} : loc'[w].mem.files[g] = m.files[g]
        /\ loc'[w].mem.published = m.published /\ loc'[w].mem.pointer = m.pointer
    BY <1>3, <1>8 DEF Pending
  <1>10. Parts(loc'[w].mem) = Parts(m)
    BY <1>2, <1>6, <1>9 DEF Parts
  <1>11. UNCHANGED <<live, marker, pending, carried, since>>
    BY DEF CheckReplan, history
  <1>12. tmp' = (tmp \cup {t}) \ {NoTemp}  BY <1>1 DEF t
  <1>13. /\ e.pre = live[f] /\ e.planned = PatchOf(w, f) /\ e.staged = t  BY DEF e
  <1>14. Writable'
    BY <1>0, <1>11, <1>12, LoopFacts DEF Writable, Accounted, Usable
  <1>15. PendingInv'  BY <1>11, <1>14, DiskKept
  <1>16. \A g \in File : Turn(w, g)' <=> Turn(w, g)  BY <1>8 DEF Turn
  <1>17. Own(loc[w].mem)'
    BY <1>0, <1>4, <1>9, <1>10, <1>13, LoopFacts DEF Own, Parts
  <1>18. Fit(w)'
    <2>1. ASSUME NEW g \in loc[w].todo, loc'[w].mem.files[g].staged # NoTemp
          PROVE  \/ loc'[w].mem.files[g].staged.gen = 0
                 \/ Turn(w, g)' /\ loc'[w].mem.files[g].staged.gen <= now
      <3>1. g \in File  BY <1>0, LoopFacts DEF Parts
      <3>2. CASE g = f
        <4>1. now <= now  BY <1>3
        <4>2. QED  BY <1>1, <1>4, <1>9, <1>13, <1>16, <2>1, <3>2, <4>1
      <3>3. CASE g # f
        BY <1>0, <1>1, <1>9, <2>1, <3>1, <3>3, LoopFacts, TurnUnique DEF Fit
      <3>4. QED  BY <3>2, <3>3
    <2>2. ASSUME NEW g \in loc[w].todo
          PROVE  IF g \in Guarded THEN loc'[w].mem.files[g].pre = loc[w].expect[g]
                 ELSE Coincide # "any" => Foreign(g, loc[w].key)
      <3>1. g \in File  BY <1>0, LoopFacts DEF Parts
      <3>2. QED  BY <1>0, <1>2, <1>9, <3>1, LoopFacts DEF Fit
    <2>3. QED  BY <1>8, <1>11, <1>17, <2>1, <2>2 DEF Fit, Foreign
  <1>19. AllButTodo(w)' /\ Announced(w)'
    BY <1>0, <1>8, <1>9, <1>10, <1>11, LoopFacts DEF AllButTodo, Accounted, Announced
  <1>20. \A g \in File : Turn(w, g) \/ pending.files[g] = loc'[w].mem.files[g]
    BY <1>0, <1>1, <1>9, LoopFacts
  <1>21. \A g \in File : Turn(w, g) => Usable(loc[w].mem.files[g])'
    BY <1>1, <1>4, <1>9, <1>12, <1>13, TurnUnique DEF Usable
  <1>22. ~m.published /\ Distinct => Unwritten(loc[w].mem)'
    BY <1>0, <1>1, <1>9, <1>10, <1>11, <1>13, LoopFacts DEF Unwritten, Parts, Promised
  <1>23. \A g \in Parts(m) : loc'[w].mem.files[g].staged # NoTemp
                               => loc'[w].mem.files[g].staged # m.files[f].staged
    <2>1. SUFFICES ASSUME NEW g \in Parts(m), loc'[w].mem.files[g].staged # NoTemp
                   PROVE  loc'[w].mem.files[g].staged # m.files[f].staged
      OBVIOUS
    <2>2. g \in File  BY DEF Parts
    <2>3. CASE g # f
      <3>1. Own(m)  BY <1>0, LoopFacts
      <3>2. m.files[g].staged # NoTemp /\ m.files[g].staged.file = g
        BY <1>9, <2>1, <2>2, <2>3, <3>1 DEF Own
      <3>3. m.files[f].staged # NoTemp => m.files[f].staged.file = f
        BY <1>2, <3>1 DEF Own
      <3>4. QED  BY <1>9, <2>2, <2>3, <3>2, <3>3
    <2>4. CASE g = f
      <3>1. t # NoTemp /\ t.gen = now /\ now > loc[w].tries /\ now # 0
        BY <1>3, <1>4, <1>9, <1>13, <2>1, <2>4 DEF now
      <3>2. m.files[f].staged # NoTemp
              => m.files[f].staged.gen = 0 \/ m.files[f].staged.gen <= loc[w].tries
        BY <1>0, <1>2, LoopFacts DEF Fit
      <3>3. m.files[f].staged # NoTemp => m.files[f].staged.gen # now
        BY <1>3, <3>1, <3>2
      <3>4. QED  BY <1>9, <1>13, <2>4, <3>1, <3>3
    <2>5. QED  BY <2>3, <2>4
  <1>24. InLoop(w)'
    BY <1>0, <1>7, <1>8, <1>9, <1>10, <1>11, <1>14, <1>16, <1>18, <1>19, <1>20, <1>21, <1>22,
       <1>23, LoopFacts DEF InLoop
  <1>25. QED
    BY <1>7, <1>15, <1>19, <1>24 DEF WriterInv, Looping, Giving, Leaving, Forth, Ending

\* The client wrote what the operation was going to write: only a client that
\* may write anything can.
LEMMA CheckNoopKeeps ==
    ASSUME Here, NEW w \in Writer, CheckNoop(w)
    PROVE  PendingInv' /\ WriterInv(w)'
  <1>0. pc[w] = "check" /\ pc[w] \in Looping
    BY DEF CheckNoop, Looping
  <1> DEFINE m == loc[w].mem
  <1>1. PICK f \in File :
          /\ Turn(w, f) /\ ~Unchanged(w, f) /\ PatchOf(w, f) = live[f]
          /\ tmp' = tmp \ {m.files[f].staged}
          /\ Set(w, [loc[w] EXCEPT
               !.mem.files[f] = [pre |-> live[f], planned |-> live[f], staged |-> NoTemp],
               !.seen = live[f]])
    BY DEF CheckNoop
  <1> DEFINE e == [pre |-> live[f], planned |-> live[f], staged |-> NoTemp]
  <1>2. /\ f \in loc[w].todo /\ f \in Parts(m) /\ live[f] \in Content
        /\ m \in Pending /\ pending = m
    BY <1>0, <1>1, LoopFacts DEF Turn
  <1>3. f \notin Guarded /\ ~Distinct
    BY <1>0, <1>1, <1>2, ChangedFacts, MarkersAssumption DEF Distinct
  <1>4. e \in Entry /\ e # NotPart
    BY <1>2, NotPartAssumption DEF Entry
  <1>5. /\ e.pre = live[f] /\ e.planned = live[f] /\ e.staged = NoTemp
    OBVIOUS
  <1>6. /\ pc'[w] = "recordNoop" /\ OthersStay(w)
        /\ loc'[w] = [loc[w] EXCEPT !.mem.files[f] = e, !.seen = live[f]]
    BY <1>1, GoesTo DEF CheckNoop
  <1> HIDE DEF e
  <1>7. /\ loc'[w].mem = [m EXCEPT !.files[f] = e] /\ loc'[w].ret = loc[w].ret
        /\ loc'[w].todo = loc[w].todo /\ loc'[w].any = loc[w].any
        /\ loc'[w].tries = loc[w].tries /\ loc'[w].key = loc[w].key
        /\ loc'[w].expect = loc[w].expect
    BY <1>0, <1>6, LoopFacts DEF Local
  <1>8. /\ loc'[w].mem.files[f] = e
        /\ \A g \in File \ {f} : loc'[w].mem.files[g] = m.files[g]
        /\ loc'[w].mem.published = m.published /\ loc'[w].mem.pointer = m.pointer
    BY <1>2, <1>7 DEF Pending
  <1>9. Parts(loc'[w].mem) = Parts(m)
    BY <1>2, <1>4, <1>8 DEF Parts
  <1>10. UNCHANGED <<live, marker, pending, carried, since>>
    BY DEF CheckNoop, history
  <1>11. Accounted(f)
    BY <1>0, <1>1, <1>2, LoopFacts DEF AsRead, Unchanged
  <1>12. Writable'
    <2>1. ASSUME NEW g \in Parts(pending), g # f, Usable(pending.files[g])
          PROVE  Usable(pending.files[g])'
      <3>1. pending.files[g].staged # NoTemp
              => pending.files[g].staged # m.files[f].staged \/ m.files[f].staged = NoTemp
        BY <1>0, <1>2, <2>1, LoopFacts DEF Own
      <3>2. QED  BY <1>1, <1>10, <2>1, <3>1 DEF Usable
    <2>2. QED  BY <1>0, <1>10, <1>11, <2>1, LoopFacts DEF Writable, Accounted
  <1>13. PendingInv'  BY <1>10, <1>12, DiskKept
  <1>14. \A g \in File : Turn(w, g)' <=> Turn(w, g)  BY <1>7 DEF Turn
  <1>15. Own(loc[w].mem)'
    BY <1>0, <1>5, <1>8, <1>9, LoopFacts DEF Own, Parts
  <1>16. Fit(w)'
    <2>1. ASSUME NEW g \in loc[w].todo
          PROVE  /\ loc'[w].mem.files[g].staged # NoTemp
                      => \/ loc'[w].mem.files[g].staged.gen = 0
                         \/ Turn(w, g)' /\ loc'[w].mem.files[g].staged.gen <= loc[w].tries
                 /\ IF g \in Guarded THEN loc'[w].mem.files[g].pre = loc[w].expect[g]
                    ELSE Coincide # "any" => Foreign(g, loc[w].key)
      <3>1. g \in File  BY <1>0, LoopFacts DEF Parts
      <3>2. CASE g = f
        BY <1>0, <1>3, <1>5, <1>8, <2>1, <3>2, LoopFacts DEF Fit
      <3>3. CASE g # f
        BY <1>0, <1>8, <1>14, <2>1, <3>1, <3>3, LoopFacts DEF Fit
      <3>4. QED  BY <3>2, <3>3
    <2>2. QED  BY <1>7, <1>10, <1>15, <2>1 DEF Fit, Foreign
  <1>17. AllButTodo(w)' /\ Announced(w)'
    BY <1>0, <1>7, <1>8, <1>9, <1>10, LoopFacts DEF AllButTodo, Accounted, Announced
  <1>18. \A g \in File : Turn(w, g) \/ pending.files[g] = loc'[w].mem.files[g]
    BY <1>1, <1>2, <1>8
  <1>19. \A g \in File : Turn(w, g) => loc'[w].mem.files[g].pre = loc'[w].mem.files[g].planned
    BY <1>1, <1>5, <1>8, TurnUnique
  <1>20. InLoop(w)'
    BY <1>0, <1>3, <1>6, <1>7, <1>8, <1>9, <1>10, <1>12, <1>14, <1>16, <1>17, <1>18, <1>19,
       LoopFacts DEF InLoop
  <1>21. QED
    BY <1>6, <1>13, <1>17, <1>20 DEF WriterInv, Looping, Giving, Leaving, Forth, Ending

\* One file is done: the loop goes on with the next one, or it ends.
LEMMA NextFile ==
    ASSUME Here, NEW w \in Writer, pc[w] \in {"publish", "recordNoop"},
           NEW f \in File, Turn(w, f),
           pc'[w] = (IF loc[w].todo \ {f} = {} THEN "commit" ELSE "check"),
           loc'[w].mem = loc[w].mem, loc'[w].ret = loc[w].ret,
           loc'[w].todo = loc[w].todo \ {f}, loc'[w].tries = 0,
           loc'[w].key = loc[w].key, loc'[w].expect = loc[w].expect,
           pending' = loc[w].mem, \A g \in File \ {f} : live'[g] = live[g],
           carried' \subseteq carried \cup {f},
           carried' # {} => loc'[w].any, loc'[w].any => loc[w].mem.published,
           AllButTodo(w)', Writable'
    PROVE  WriterInv(w)'
  <1> DEFINE m == loc[w].mem
             rest == loc[w].todo \ {f}
  <1>0. pc[w] \in Looping  BY DEF Looping
  <1>1. /\ m \in Pending /\ m # NoPending /\ Parts(m) # {} /\ loc[w].ret = "op"
    BY <1>0, LoopFacts, MarkersAssumption DEF Announced
  <1>2. CASE rest = {}
    <2>1. AllAccounted'  BY <1>2 DEF AllButTodo, AllAccounted
    <2>2. InEnding(w)'  BY <1>1, <1>2, <2>1 DEF InEnding
    <2>3. QED
      BY <1>2, <2>2 DEF WriterInv, Looping, Giving, Leaving, Forth, Ending
  <1>3. CASE rest # {}
    <2>1. ASSUME NEW g \in rest
          PROVE  /\ m.files[g].staged # NoTemp => m.files[g].staged.gen = 0
                 /\ IF g \in Guarded THEN m.files[g].pre = loc[w].expect[g]
                    ELSE Coincide # "any" => Foreign(g, loc[w].key)'
                 /\ g \notin carried'
      <3>1. g \in loc[w].todo /\ g # f /\ g \in File  BY <1>0, LoopFacts DEF Parts
      <3>2. ~Turn(w, g)  BY <3>1, TurnUnique
      <3>3. live'[g] = live[g]  BY <3>1
      <3>4. Fit(w) /\ InLoop(w)  BY <1>0, LoopFacts
      <3>5. g \notin carried  BY <3>1, <3>4 DEF InLoop
      <3>6. QED  BY <3>1, <3>2, <3>3, <3>4, <3>5 DEF Fit, Foreign
    <2>2. Fit(w)'
      BY <1>0, <2>1, LoopFacts DEF Fit, Own, Foreign
    <2>3. Announced(w)'
      BY <1>1 DEF Announced
    <2>4. rest \cap carried' = {}  BY <2>1
    <2>5. InLoop(w)'
      BY <1>3, <2>2, <2>4 DEF InLoop
    <2>6. QED
      BY <1>3, <2>3, <2>5 DEF WriterInv, Looping, Giving, Leaving, Forth, Ending
  <1>4. QED  BY <1>2, <1>3

LEMMA RecordKeeps ==
    ASSUME Here, NEW w \in Writer, Record(w)
    PROVE  PendingInv' /\ WriterInv(w)'
  <1>0. pc[w] \in {"record", "recordNoop"} /\ pc[w] \in Looping
    BY DEF Record, Looping
  <1>1. UNCHANGED <<live, tmp, marker, carried>>  BY DEF Record
  <1>2. CASE Fail(w) /\ UNCHANGED <<pending, since>>
    <2>1. WriterInv(w)' /\ OthersStay(w)  BY <1>2, EndWriter
    <2>2. QED  BY <1>0, <1>1, <1>2, <2>1, TmpKept
  <1>3. CASE \E f \in File :
               /\ Turn(w, f)
               /\ pending' = Recorded(w)
               /\ since' = IF live[f] = loc[w].mem.files[f].pre
                           THEN since \ {f} ELSE since \cup {f}
               /\ IF pc[w] = "record" THEN Goto(w, "dropOld") /\ UNCHANGED loc
                  ELSE /\ Goto(w, Next1(w, loc[w].todo \ {f}))
                       /\ Set(w, [loc[w] EXCEPT !.todo = @ \ {f}, !.tries = 0])
    <2> DEFINE m == loc[w].mem
    <2>1. PICK f \in File :
            /\ Turn(w, f) /\ pending' = m
            /\ since' = IF live[f] = m.files[f].pre THEN since \ {f} ELSE since \cup {f}
            /\ pc[w] = "record" => Goto(w, "dropOld") /\ UNCHANGED loc
            /\ pc[w] # "record" => /\ Goto(w, Next1(w, loc[w].todo \ {f}))
                                   /\ Set(w, [loc[w] EXCEPT !.todo = @ \ {f}, !.tries = 0])
      BY <1>3 DEF Recorded
    <2>2. /\ m \in Pending /\ m # NoPending /\ f \in loc[w].todo /\ f \in Parts(m)
          /\ Parts(pending) = Parts(m) /\ pending.published = m.published
          /\ pending.pointer = m.pointer /\ InLoop(w) /\ f \notin carried
      BY <1>0, <2>1, LoopFacts, MarkersAssumption DEF Turn, InLoop, Announced
    <2>3. \A g \in File \ {f} : pending'.files[g] = pending.files[g]
      BY <1>0, <2>1, LoopFacts, TurnUnique DEF InLoop
    <2>4. \A g \in Parts(m) \ {f} : Accounted(g)' <=> Accounted(g)
      BY <1>1, <2>1, <2>3 DEF Accounted, Parts
    <2>5. Usable(pending.files[f])' \/ Accounted(f)'
      BY <1>0, <1>1, <2>1, <2>2 DEF InLoop, Usable, Accounted
    <2>6. pc[w] = "recordNoop" => Accounted(f)'
      BY <2>1, <2>2 DEF InLoop, Accounted
    <2>7. AsRead' /\ Writable'
      <3>1. Accounted(f)' \/ live'[f] = pending'.files[f].pre
        BY <1>1, <2>1 DEF Accounted
      <3>2. \A g \in Parts(m) \ {f} :
              /\ Accounted(g)' \/ live'[g] = pending'.files[g].pre
              /\ Accounted(g)' \/ Usable(pending.files[g])'
        BY <1>0, <1>1, <2>2, <2>3, <2>4, LoopFacts DEF AsRead, Writable, Usable, Parts
      <3>3. QED  BY <2>1, <2>5, <3>1, <3>2 DEF AsRead, Writable
    <2>8. PendingInv'
      <3>1. CarriedInv'
        <4>1. \A g \in carried' \ since' : live'[g] = pending'.files[g].planned
          BY <1>0, <1>1, <2>1, <2>2, <2>3, LoopFacts DEF CarriedInv, Parts
        <4>2. QED  BY <1>0, <1>1, <2>1, <2>2, <4>1, LoopFacts DEF CarriedInv
      <3>2. Own(pending)' /\ (~Promised' => Unwritten(pending)')
        BY <1>0, <1>1, <2>1, <2>2, LoopFacts DEF Own, Unwritten, InLoop, Promised
      <3>3. QED  BY <2>7, <3>1, <3>2 DEF PendingInv
    <2>9. \A g \in Parts(m) : g \in loc[w].todo \/ Accounted(g)'
      BY <1>0, <2>2, <2>4, LoopFacts DEF AllButTodo
    <2>10. CASE pc[w] = "record"
      <3>1. pc'[w] = "dropOld" /\ loc'[w] = loc[w]  BY <2>1, <2>10, GoesTo
      <3>2. AllButTodo(w)'  BY <2>1, <2>9, <3>1 DEF AllButTodo
      <3>3. Announced(w)'
        BY <1>0, <1>1, <2>1, <2>2, <3>1, LoopFacts DEF Announced
      <3>4. Fit(w)'
        BY <1>0, <1>1, <3>1, LoopFacts DEF Fit, Own, Turn, Foreign
      <3>5. InLoop(w)'
        BY <1>1, <2>1, <2>2, <2>7, <2>10, <3>1, <3>2, <3>4 DEF InLoop
      <3>6. QED
        BY <2>8, <3>1, <3>3, <3>5 DEF WriterInv, Looping, Giving, Leaving, Forth, Ending
    <2>11. CASE pc[w] = "recordNoop"
      <3> DEFINE rest == loc[w].todo \ {f}
      <3>1. /\ pc'[w] = (IF rest = {} THEN "commit" ELSE "check")
            /\ loc'[w] = [loc[w] EXCEPT !.todo = @ \ {f}, !.tries = 0]
        BY <2>1, <2>11, GoesTo DEF Next1
      <3>2. /\ loc'[w].mem = m /\ loc'[w].ret = loc[w].ret
            /\ loc'[w].todo = rest /\ loc'[w].any = loc[w].any
            /\ loc'[w].tries = 0 /\ loc'[w].key = loc[w].key
            /\ loc'[w].expect = loc[w].expect
        BY <1>0, <3>1, LoopFacts DEF Local
      <3>3. AllButTodo(w)'  BY <2>1, <2>6, <2>9, <2>11, <3>2 DEF AllButTodo
      <3>4. (carried' # {} => loc'[w].any) /\ (loc'[w].any => m.published)
        BY <1>0, <1>1, <2>2, <3>2, LoopFacts DEF InLoop, Announced
      <3>5. WriterInv(w)'
        BY <1>1, <2>1, <2>7, <2>11, <3>1, <3>2, <3>3, <3>4, NextFile
      <3>6. QED  BY <2>8, <3>5
    <2>12. QED  BY <1>0, <2>10, <2>11
  <1>4. QED  BY <1>2, <1>3 DEF Record

LEMMA DropOldKeeps ==
    ASSUME Here, NEW w \in Writer, DropOld(w)
    PROVE  PendingInv' /\ WriterInv(w)'
  <1>0. pc[w] = "dropOld" /\ pc[w] \in Looping  BY DEF DropOld, Looping
  <1>1. /\ pc'[w] = "check" /\ loc'[w] = [loc[w] EXCEPT !.old = NoTemp]
        /\ tmp' = tmp \ {loc[w].old}
        /\ UNCHANGED <<live, marker, pending, carried, since>>
    BY GoesTo DEF DropOld, history
  <1>2. /\ loc'[w].mem = loc[w].mem /\ loc'[w].ret = loc[w].ret
        /\ loc'[w].todo = loc[w].todo /\ loc'[w].any = loc[w].any
        /\ loc'[w].tries = loc[w].tries /\ loc'[w].key = loc[w].key
        /\ loc'[w].expect = loc[w].expect
    BY <1>0, <1>1, LoopFacts DEF Local
  <1>3. Writable'
    BY <1>0, <1>1, LoopFacts DEF Writable, Accounted, Usable, InLoop
  <1>4. PendingInv'  BY <1>1, <1>3, DiskKept
  <1>5. Fit(w)' /\ AllButTodo(w)' /\ Announced(w)'
    BY <1>0, <1>1, <1>2, LoopFacts
       DEF Fit, Own, Turn, Foreign, AllButTodo, Accounted, Announced
  <1>6. InLoop(w)'
    BY <1>0, <1>1, <1>2, <1>3, <1>5, LoopFacts DEF InLoop
  <1>7. QED
    BY <1>1, <1>4, <1>5, <1>6 DEF WriterInv, Looping, Giving, Leaving, Forth, Ending

LEMMA MarkKeeps ==
    ASSUME Here, NEW w \in Writer, Mark(w)
    PROVE  PendingInv' /\ WriterInv(w)'
  <1> DEFINE m == loc[w].mem
  <1>0. pc[w] = "mark" /\ pc[w] \in Looping  BY DEF Mark, Looping
  <1>1. /\ loc'[w] = [loc[w] EXCEPT !.mem.published = TRUE]
        /\ UNCHANGED <<live, tmp, marker, carried, since>>
        /\ pc'[w] \in {"publish", "abandon"} /\ OthersStay(w)
        /\ \/ pending' = Marked(w) /\ pc'[w] = "publish"
           \/ pending' = pending /\ Goto(w, "abandon")
    BY GoesTo DEF Mark, history
  <1>2. pending = m /\ ~m.published /\ ~loc[w].any /\ m \in Pending /\ loc[w] \in Local
    BY <1>0, LoopFacts DEF InLoop
  <1>3. /\ loc'[w].mem = [m EXCEPT !.published = TRUE] /\ loc'[w].ret = loc[w].ret
        /\ loc'[w].todo = loc[w].todo /\ loc'[w].any = loc[w].any
        /\ loc'[w].tries = loc[w].tries /\ loc'[w].key = loc[w].key
        /\ loc'[w].expect = loc[w].expect
    BY <1>1, <1>2 DEF Local
  <1>4. /\ loc'[w].mem.files = m.files /\ loc'[w].mem.pointer = m.pointer
        /\ loc'[w].mem.published = TRUE /\ Parts(loc'[w].mem) = Parts(m)
        /\ loc'[w].mem \in Pending
    BY <1>2, <1>3 DEF Pending, Parts
  <1>5. CASE pending' = pending /\ Goto(w, "abandon")
    <2>1. PendingInv'  BY <1>0, <1>1, <1>5, TmpKept
    <2>2. WriterInv(w)'
      BY <1>0, <1>1, <1>2, <1>3, <1>4, <1>5, LoopFacts, GiveUpWriter
    <2>3. QED  BY <2>1, <2>2
  <1>6. CASE pending' = Marked(w) /\ pc'[w] = "publish"
    <2>1. /\ pending' = loc'[w].mem /\ pending'.files = pending.files
          /\ Parts(pending') = Parts(pending) /\ pending'.published
          /\ pending' # NoPending
      BY <1>2, <1>3, <1>4, <1>6, MarkersAssumption DEF Marked
    <2>2. \A g \in File : Accounted(g)' <=> Accounted(g)
      BY <1>1, <2>1 DEF Accounted
    <2>3. AsRead' /\ Writable' /\ AllButTodo(w)'
      BY <1>0, <1>1, <1>3, <2>1, <2>2, LoopFacts
         DEF AsRead, Writable, AllButTodo, Usable, Parts
    <2>4. Own(pending)' /\ CarriedInv'
      <3>1. Own(pending)'  BY <1>0, <2>1, LoopFacts DEF Own
      <3>2. \A g \in carried : g \in Parts(pending)
        BY <1>0, LoopFacts DEF CarriedInv
      <3>3. \A g \in carried \ since : live[g] = pending.files[g].planned
        BY <1>0, LoopFacts DEF CarriedInv
      <3>4. CarriedInv'
        BY <1>0, <1>1, <2>1, <3>2, <3>3, LoopFacts DEF CarriedInv
      <3>5. QED  BY <3>1, <3>4
    <2>5. PendingInv'  BY <2>1, <2>3, <2>4 DEF PendingInv, Promised
    <2>6. Fit(w)'
      <3>1. /\ loc'[w].todo = loc[w].todo /\ loc'[w].tries = loc[w].tries
            /\ loc'[w].key = loc[w].key /\ loc'[w].expect = loc[w].expect
        BY <1>3
      <3>2. \A g : loc'[w].mem.files[g] = loc[w].mem.files[g]  BY <1>4
      <3>3. \A g \in File : Turn(w, g)' <=> Turn(w, g)  BY <3>1 DEF Turn
      <3>4. Own(loc[w].mem)'  BY <1>0, <1>4, <3>2, LoopFacts DEF Own
      <3>5. loc[w].todo \subseteq File /\ Fit(w)  BY <1>0, LoopFacts DEF Parts
      <3>6. live' = live  BY <1>1
      <3>7. QED  BY <3>1, <3>2, <3>3, <3>4, <3>5, <3>6 DEF Fit, Foreign
    <2>7. Announced(w)'
      BY <1>0, <1>1, <1>3, <1>4, <2>1, LoopFacts DEF Announced
    <2>8. \A g \in File : Turn(w, g)' => g \in marker'
      BY <1>0, <1>1, <1>3, LoopFacts DEF InLoop, Turn
    <2>9. InLoop(w)'
      BY <1>0, <1>1, <1>2, <1>3, <1>4, <1>6, <2>1, <2>3, <2>6, <2>8, LoopFacts DEF InLoop
    <2>10. QED
      BY <1>6, <2>5, <2>7, <2>9 DEF WriterInv, Looping, Giving, Leaving, Forth, Ending
  <1>7. QED  BY <1>1, <1>5, <1>6

LEMMA PublishKeeps ==
    ASSUME Here, NEW w \in Writer, Publish(w)
    PROVE  PendingInv' /\ WriterInv(w)'
  <1> DEFINE m == loc[w].mem
  <1>0. pc[w] = "publish" /\ pc[w] \in Looping /\ pc[w] \in Held \ Clearing
    BY DEF Publish, Looping, Held, Labels
  <1>1. UNCHANGED <<marker, pending>>  BY DEF Publish
  <1>2. CASE Fail(w) /\ UNCHANGED <<live, tmp, history>>
    <2>1. WriterInv(w)' /\ OthersStay(w)  BY <1>2, EndWriter
    <2>2. QED  BY <1>0, <1>1, <1>2, <2>1, TmpKept DEF history
  <1>3. CASE ~loc[w].any /\ Goto(w, "abandon") /\ UNCHANGED loc /\ UNCHANGED <<live, tmp, history>>
    <2>1. OthersStay(w) /\ loc'[w] = loc[w]  BY <1>3, GoesTo
    <2>2. PendingInv'  BY <1>0, <1>1, <1>3, <2>1, TmpKept DEF history
    <2>3. UNCHANGED <<pending, carried>>  BY <1>1, <1>3 DEF history
    <2>4. WriterInv(w)'  BY <1>0, <1>3, <2>1, <2>3, LoopFacts, GiveUpWriter
    <2>5. QED  BY <2>2, <2>4
  <1>4. CASE \E f \in File :
               /\ Turn(w, f) /\ Rename(f, m.files[f])
               /\ Set(w, [loc[w] EXCEPT !.todo = @ \ {f}, !.any = TRUE, !.tries = 0])
               /\ Goto(w, Next1(w, loc[w].todo \ {f}))
    <2>1. PICK f \in File :
            /\ Turn(w, f) /\ Rename(f, m.files[f])
            /\ Set(w, [loc[w] EXCEPT !.todo = @ \ {f}, !.any = TRUE, !.tries = 0])
            /\ Goto(w, Next1(w, loc[w].todo \ {f}))
      BY <1>4
    <2> DEFINE rest == loc[w].todo \ {f}
    <2>2. /\ pc'[w] = (IF rest = {} THEN "commit" ELSE "check") /\ OthersStay(w)
          /\ loc'[w] = [loc[w] EXCEPT !.todo = @ \ {f}, !.any = TRUE, !.tries = 0]
      BY <2>1, GoesTo DEF Next1
    <2>3. /\ loc'[w].mem = m /\ loc'[w].ret = loc[w].ret
          /\ loc'[w].todo = rest /\ loc'[w].any = TRUE
          /\ loc'[w].tries = 0 /\ loc'[w].key = loc[w].key
          /\ loc'[w].expect = loc[w].expect
      BY <1>0, <2>2, LoopFacts DEF Local
    <2>4. /\ f \in Parts(pending) /\ f \in marker /\ pending = m /\ pending # NoPending
          /\ pending.published /\ f \in loc[w].todo
      BY <1>0, <2>1, LoopFacts DEF InLoop, Turn
    <2>5. /\ PendingInv' /\ Writable' /\ Accounted(f)'
          /\ \A g \in Parts(pending) : Accounted(g) => Accounted(g)'
      BY <1>0, <1>1, <2>1, <2>2, <2>4, LoopFacts, RenameKeeps DEF Promised
    <2>6. AllButTodo(w)'
      BY <1>0, <1>1, <2>3, <2>5, LoopFacts DEF AllButTodo
    <2>7. carried' = carried \cup {f} /\ \A g \in File \ {f} : live'[g] = live[g]
      BY <1>0, <2>1, LoopFacts DEF Rename
    <2>8. WriterInv(w)'
      BY <1>0, <1>1, <2>1, <2>2, <2>3, <2>4, <2>5, <2>6, <2>7, NextFile
    <2>9. QED  BY <2>5, <2>8
  <1>5. QED  BY <1>2, <1>3, <1>4 DEF Publish

LEMMA AbandonKeeps ==
    ASSUME Here, NEW w \in Writer, Abandon(w) \/ AbandonClear(w)
    PROVE  PendingInv' /\ WriterInv(w)'
  <1>0. Announced(w) /\ ~loc[w].any
    BY DEF Here, AtomicInv, WriterInv, Abandon, AbandonClear, Giving
  <1>1. CASE Abandon(w)
    <2>1. pc'[w] = "abandonClear" /\ loc'[w] = loc[w]  BY <1>1, GoesTo DEF Abandon
    <2>2. UNCHANGED <<live, marker, pending, carried, since>>
      BY <1>1 DEF Abandon, history
    <2>3. PendingInv'  BY <2>1, <2>2, DiskKept
    <2>4. WriterInv(w)'  BY <1>0, <1>1, <2>1, <2>2, GiveUpWriter DEF Abandon
    <2>5. QED  BY <2>3, <2>4
  <1>2. CASE AbandonClear(w)
    <2>1. Forget /\ Fail(w)  BY <1>2 DEF AbandonClear, Here, Assumed
    <2>2. QED  BY <2>1, ForgetKept, EndWriter
  <1>3. QED  BY <1>1, <1>2

----------------------------------------------------------------------------
(* Commands, the environment, and all steps together. *)

LEMMA CommandKeeps ==
    ASSUME Here, NEW w \in Writer, Begin(w) \/ Prepare(w) \/ Adopt(w) \/ Rollback(w)
    PROVE  PendingInv' /\ WriterInv(w)' /\ OthersStay(w) /\ pc[w] \notin Clearing
  <1>0. /\ UNCHANGED <<live, tmp, marker, pending, carried, since>>
        /\ pc[w] \in {"idle", "prepare", "adopt", "failed"}
    BY DEF Begin, Prepare, Adopt, Rollback, disk, history
  <1>1. Blank \in Local /\ loc[w] \in Local
    BY BlankGood DEF Good, Here, Inv, Control
  <1>2. /\ OthersStay(w) /\ pc'[w] \in {"idle", "lock", "prepare"}
        /\ pc'[w] \in {"lock", "prepare"} => loc'[w].ret # "op"
    <2>1. CASE Begin(w)
      <3>1. PICK k \in Kinds, p \in Provider :
              /\ Set(w, [Blank EXCEPT !.kind = k, !.op = ops + 1, !.provider = p,
                                      !.ret = IF k = "switch" THEN "first" ELSE "settle"])
              /\ Goto(w, IF k = "sync" THEN "prepare" ELSE "lock")
        BY <2>1 DEF Begin
      <3> DEFINE first == IF k = "switch" THEN "first" ELSE "settle"
                 op == ops + 1
      <3>2. OthersStay(w) /\ pc'[w] \in {"lock", "prepare"}
            /\ loc'[w] = [Blank EXCEPT !.kind = k, !.op = op, !.provider = p, !.ret = first]
        BY <3>1, GoesTo
      <3>3. first # "op"  OBVIOUS
      <3> HIDE DEF first, op
      <3>4. loc'[w].ret = first  BY <1>1, <3>2 DEF Local
      <3>5. QED  BY <3>2, <3>3, <3>4
    <2>2. CASE Prepare(w)
      <3>1. PICK r \in Row, pointer \in {NoPointer, loc[w].provider} :
              Set(w, [loc[w] EXCEPT !.key = <<loc[w].provider, r>>,
                         !.oldRow = row[loc[w].provider], !.expect = live,
                         !.pointer = pointer, !.ret = "begin"])
        BY <2>2 DEF Prepare
      <3> DEFINE key == <<loc[w].provider, r>>
                 old == row[loc[w].provider]
                 l == [loc[w] EXCEPT !.key = key, !.oldRow = old, !.expect = live,
                                     !.pointer = pointer, !.ret = "begin"]
      <3>2. Goto(w, "lock") /\ Set(w, l)  BY <2>2, <3>1 DEF Prepare
      <3> HIDE DEF key, old
      <3>5. l.ret = "begin"  BY <1>1 DEF Local
      <3> HIDE DEF l
      <3>3. OthersStay(w) /\ pc'[w] = "lock" /\ loc'[w].ret = "begin"
        BY <3>2, <3>5, GoesTo
      <3>4. QED  BY <3>3
    <2>3. CASE Adopt(w) \/ Rollback(w)
      BY <2>3, GoesTo DEF Adopt, Rollback
    <2>4. QED  BY <2>1, <2>2, <2>3
  <1>3. WriterInv(w)'  BY <1>2, Outside DEF Labels, Held
  <1>4. PendingInv'  BY <1>0, <1>2, TmpKept
  <1>5. QED  BY <1>0, <1>2, <1>3, <1>4

LEMMA OperationKeeps ==
    ASSUME Here, NEW w \in Writer, Operation(w)
    PROVE  PendingInv' /\ WriterInv(w)'
  BY PlanKeeps, StageKeeps, IntentKeeps, CheckSameKeeps, CheckGiveUpKeeps, CheckNoopKeeps,
     CheckReplanKeeps, RecordKeeps, DropOldKeeps, MarkKeeps, PublishKeeps, AbandonKeeps
     DEF Operation

\* Every step of a thread, seen from the other threads.
LEMMA StepFrame ==
    ASSUME Here, NEW w \in Writer, Step(w)
    PROVE  OthersStay(w) /\ (pc[w] \in Held \/ Untouched)
  <1> USE DEF Moves, OthersStay
  <1>0. Control  BY DEF Here, Inv
  <1>1. CASE Lock(w)
    BY <1>0, <1>1 DEF Lock, Untouched, disk, store, history, Control
  <1>2. CASE Recovery(w) /\ ~Lock(w)
    <2>1. pc[w] \in Held
      BY <1>2 DEF Recovery, RecoverNothing, RecoverDecide, Discard, DiscardClear,
         ForwardSkip, ForwardRead, ForwardPublish, ForwardDone, Tidy, Held, Labels
    <2>2. QED  BY <1>0, <1>2, <2>1, QuietRecovery, PublishMoves
  <1>3. CASE Operation(w)
    <2>1. pc[w] \in Held
      BY <1>3 DEF Operation, Plan, Stage, Intent, CheckSame, CheckGiveUp, CheckNoop,
         CheckReplan, CheckFails, Record, DropOld, Mark, Publish, Abandon, AbandonClear,
         Held, Labels
    <2>2. QED  BY <1>0, <1>3, <2>1, QuietOperation, PublishMoves, ApproachGuards DEF Operation
  <1>4. CASE Commit(w) \/ CommitDb(w) \/ Clear(w)
    <2>1. pc[w] \in Held  BY <1>4 DEF Commit, CommitDb, Clear, Held, Labels
    <2>2. QED  BY <1>0, <1>4, <2>1, QuietTarget
  <1>5. CASE Prepare(w) \/ Adopt(w) \/ Rollback(w)
    BY <1>5, CommandKeeps DEF Prepare, Adopt, Rollback, Untouched, disk, history
  <1>6. QED  BY <1>1, <1>2, <1>3, <1>4, <1>5 DEF Step

\* Only a crash brings a process down.
LEMMA StepUp ==
    ASSUME NEW w \in Writer, Begin(w) \/ Step(w), Control
    PROVE  \A p \in Process : up'[p] = "down" => up[p] = "down"
  <1> DEFINE Up == \A p \in Process : up'[p] = "down" => up[p] = "down"
  <1>1. ASSUME NEW label, Goto(w, label) PROVE Up  BY <1>1 DEF Goto
  <1>2. ASSUME Finish(w) \/ Fail(w) \/ Return(w) PROVE Up
    BY <1>2 DEF Finish, Fail, Return, Leave
  <1>3. ASSUME NEW o, AfterRecover(w, o) PROVE Up
    BY <1>1, <1>2, <1>3 DEF AfterRecover, Leave, Control
  <1>4. ASSUME CommitError(w) \/ Committed(w) PROVE Up
    BY <1>1, <1>2, <1>3, <1>4 DEF CommitError, Committed
  <1> HIDE DEF Up
  <1>5. CASE Recovery(w)
    BY <1>1, <1>3, <1>4, <1>5
       DEF Recovery, Lock, RecoverNothing, RecoverDecide, Discard, DiscardClear, ForwardSkip,
           ForwardRead, ForwardPublish, ForwardDone, Tidy, Up
  <1>6. CASE Plan(w) \/ Stage(w) \/ Intent(w) \/ CheckSame(w) \/ CheckGiveUp(w)
    BY <1>2, <1>6 DEF Plan, Stage, Intent, CheckSame, CheckGiveUp, Goto, Up
  <1>7. CASE CheckNoop(w) \/ CheckReplan(w) \/ CheckFails(w) \/ Record(w) \/ DropOld(w)
    BY <1>2, <1>7 DEF CheckNoop, CheckReplan, CheckFails, Record, DropOld, Goto, Up
  <1>8. CASE Mark(w) \/ Publish(w) \/ Abandon(w) \/ AbandonClear(w)
    BY <1>2, <1>8 DEF Mark, Publish, Abandon, AbandonClear, Goto, Up
  <1>9. CASE Commit(w) \/ CommitDb(w) \/ Clear(w)
    BY <1>2, <1>3, <1>4, <1>9 DEF Commit, CommitDb, Clear, Goto, Up
  <1>10. CASE Begin(w) \/ Prepare(w) \/ Adopt(w) \/ Rollback(w)
    BY <1>10 DEF Begin, Prepare, Adopt, Rollback, Goto, Up
  <1>11. QED  BY <1>5, <1>6, <1>7, <1>8, <1>9, <1>10 DEF Step, Operation

LEMMA DownInvNext == Here /\ [Next]_vars => DownInv'
  <1> SUFFICES ASSUME Here, [Next]_vars PROVE DownInv'
    OBVIOUS
  <1> USE DEF Here, DownInv
  <1>0. Control /\ ProcessOf \in [Writer -> Process]  BY WritersAssumption DEF Inv
  <1>1. CASE UNCHANGED vars  BY <1>1 DEF vars
  <1>2. ASSUME NEW w \in Writer, Begin(w) \/ Step(w) PROVE DownInv'
    <2>1. up[ProcessOf[w]] # "down"
      <3>1. Step(w) => pc[w] # "idle"
        BY DEF Step, Recovery, Operation, Lock, RecoverNothing, RecoverDecide, Discard,
           DiscardClear, ForwardSkip, ForwardRead, ForwardPublish, ForwardDone, Tidy, Plan,
           Stage, Intent, CheckSame, CheckGiveUp, CheckNoop, CheckReplan, CheckFails, Record,
           DropOld, Mark, Publish, Abandon, AbandonClear, Prepare, Rollback, Commit, CommitDb,
           Clear, Adopt
      <3>2. QED  BY <1>2, <3>1 DEF Begin
    <2>2. \A v \in Writer \ {w} : pc'[v] = pc[v]
      BY <1>2, StepFrame, CommandKeeps DEF OthersStay
    <2>3. QED  BY <1>0, <1>2, <2>1, <2>2, StepUp
  <1>3. ASSUME NEW w \in Writer, Restart(w) PROVE DownInv'
    BY <1>0, <1>3 DEF Restart, Control
  <1>4. ASSUME NEW p \in Process, Crash(p) PROVE DownInv'
    BY <1>0, <1>4 DEF Crash, Control
  <1>5. ASSUME NEW f \in File, Edit(f) PROVE DownInv'
    BY <1>5 DEF Edit
  <1>6. QED  BY <1>1, <1>2, <1>3, <1>4, <1>5 DEF Next

LEMMA EditKeeps ==
    ASSUME Here, NEW f \in File, Edit(f)
    PROVE  AtomicInv'
  <1> USE DEF Here, AtomicInv
  <1>1. PICK c \in ClientContent(f) \ {live[f]} : live' = [live EXCEPT ![f] = c]
    BY DEF Edit
  <1>2. /\ since' = since \cup {f}
        /\ UNCHANGED <<tmp, marker, pending, carried, pc, loc, dbp>>
    BY DEF Edit, store
  <1>3. live \in [File -> Content]  BY DEF Inv, Disk
  <1>4. live'[f] = c /\ \A g \in File \ {f} : live'[g] = live[g]
    BY <1>1, <1>3
  <1>5. /\ Coincide # "any" => c \in Rewritten(live[f])
        /\ Distinct => c \notin PlannedFor(f)
    BY <1>1, CoincideAssumption DEF ClientContent, Distinct
  <1>6. ASSUME Distinct
        PROVE  \A p : /\ p # NoPending /\ (p = pending \/ \E w \in Writer : p = loc[w].mem)
                      /\ f \in Parts(p)
                      => live'[f] # p.files[f].planned
    BY <1>4, <1>5, <1>6 DEF PlannedFor, UnderWay
  <1>7. \A g : Accounted(g) => Accounted(g)'  BY <1>2 DEF Accounted
  <1>8. Accounted(f)'  BY <1>2 DEF Accounted
  <1>9. PendingInv'
    <2>1. CarriedInv'
      <3>1. \A g \in carried' \ since' : live'[g] = pending.files[g].planned
        BY <1>2, <1>4 DEF PendingInv, CarriedInv, Parts
      <3>2. QED  BY <1>2, <3>1 DEF PendingInv, CarriedInv, Parts
    <2>2. ASSUME pending # NoPending PROVE Own(pending)' /\ AsRead'
      <3>1. AsRead  BY <2>2 DEF PendingInv
      <3>2. \A g \in Parts(pending) : Accounted(g)' \/ live'[g] = pending.files[g].pre
        BY <1>4, <1>7, <1>8, <3>1 DEF AsRead, Parts
      <3>3. QED  BY <1>2, <2>2, <3>2 DEF PendingInv, Own, AsRead
    <2>3. ASSUME pending # NoPending, ~Promised PROVE Unwritten(pending)'
      BY <1>2, <1>4, <1>6, <2>3 DEF PendingInv, Unwritten, Parts, Promised
    <2>4. Writable => Writable'  BY <1>2, <1>7 DEF Writable, Usable
    <2>5. Promised' = Promised  BY <1>2 DEF Promised
    <2>6. QED  BY <1>2, <2>1, <2>2, <2>3, <2>4, <2>5 DEF PendingInv
  <1>10. ASSUME NEW w \in Writer PROVE WriterInv(w)'
    <2>0. WriterInv(w) /\ loc[w] \in Local /\ loc[w].todo \subseteq Parts(loc[w].mem)
      BY DEF Inv, Control, Good
    <2>1. Fit(w) => Fit(w)'
      <3>1. SUFFICES ASSUME Fit(w) PROVE Fit(w)'
        OBVIOUS
      <3>2. ASSUME NEW g \in loc[w].todo, g \notin Guarded, Coincide # "any"
            PROVE  live'[g] \in {Absent, Broken} \/ live'[g].key # loc[w].key
        <4>1. g \in File  BY <2>0, <3>2 DEF Parts
        <4>2. live[g] \in {Absent, Broken} \/ live[g].key # loc[w].key
          BY <3>1, <3>2 DEF Fit, Foreign
        <4>3. CASE g # f  BY <1>4, <4>1, <4>2, <4>3
        <4>4. CASE g = f /\ live[f] \in {Absent, Broken}
          <5>1. loc[w].key # NoKey  BY <2>0, MarkersAssumption DEF Local
          <5>2. c \in {Absent, Broken} \/ c.key = NoKey  BY <1>5, <3>2, <4>4 DEF Rewritten
          <5>3. QED  BY <1>4, <4>4, <5>1, <5>2
        <4>5. CASE g = f /\ live[f] \notin {Absent, Broken}
          <5>1. live[f] \in [key : Key \cup {NoKey}, user : User]
            BY <1>3, <4>5 DEF Content
          <5>2. c \in {Absent, Broken} \/ \E u \in User : c = [live[f] EXCEPT !.user = u]
            BY <1>5, <3>2, <4>5 DEF Rewritten
          <5>3. c \in {Absent, Broken} \/ c.key = live[f].key  BY <5>1, <5>2
          <5>4. QED  BY <1>4, <4>2, <4>5, <5>3
        <4>6. QED  BY <4>3, <4>4, <4>5
      <3>3. Own(loc[w].mem)'  BY <1>2, <3>1 DEF Fit, Own
      <3>4. QED  BY <1>2, <3>1, <3>2, <3>3 DEF Fit, Turn, Foreign
    <2>2. Distinct /\ Unwritten(loc[w].mem) => Unwritten(loc[w].mem)'
      <3>1. loc[w].mem # NoPending  BY <2>0, MarkersAssumption DEF Local
      <3>2. QED  BY <1>2, <1>4, <1>6, <3>1 DEF Unwritten, Parts
    <2>3. Drafted(w) => Drafted(w)'  BY <1>2, <2>1, <2>2 DEF Drafted
    <2>4. AllButTodo(w) => AllButTodo(w)'  BY <1>2, <1>7 DEF AllButTodo
    <2>5. Writable => Writable'  BY <1>2, <1>7 DEF Writable, Usable
    <2>6. InLoop(w) => InLoop(w)'
      BY <1>2, <2>1, <2>2, <2>4, <2>5 DEF InLoop, Turn, Usable
    <2>7. InEnding(w) => InEnding(w)'  BY <1>2, <1>7 DEF InEnding, AllAccounted
    <2>8. Announced(w)' = Announced(w)  BY <1>2 DEF Announced
    <2>9. Ready(w)' = Ready(w)  BY <1>2 DEF Ready, Usable
    <2>10. QED
      BY <1>2, <2>0, <2>3, <2>4, <2>6, <2>7, <2>8, <2>9
         DEF WriterInv, Turn, Promised
  <1>11. QED  BY <1>9, <1>10

LEMMA CrashKeeps ==
    ASSUME Here, NEW p \in Process, Crash(p)
    PROVE  AtomicInv'
  <1> USE DEF Here, AtomicInv
  <1>1. UNCHANGED <<live, tmp, marker, pending, carried, since, dbp>>
    BY DEF Crash, disk, store, history
  <1>2. \A w \in Writer : IF ProcessOf[w] = p THEN pc'[w] = "idle"
                          ELSE pc'[w] = pc[w] /\ loc'[w] = loc[w]
    BY DEF Crash
  <1>3. \A w \in Writer : ProcessOf[w] = p => pc[w] \notin Clearing
    BY DEF Crash, Assumed, InAbandon
  <1>4. \A w \in Writer : WriterInv(w)'
    BY <1>1, <1>2, Outside, SameWriter DEF Untouched, Labels, Held
  <1>5. PendingInv'
    <2>1. Writable' = Writable  BY <1>1 DEF Writable, Accounted, Usable
    <2>2. (\E w \in Writer : pc[w] \in Clearing) => \E w \in Writer : pc'[w] \in Clearing
      BY <1>2, <1>3
    <2>3. QED  BY <1>1, <2>1, <2>2, DiskKept DEF PendingInv
  <1>6. QED  BY <1>4, <1>5

LEMMA AtomicInvNext == Here /\ [Next]_vars => AtomicInv'
  <1> SUFFICES ASSUME Here, [Next]_vars PROVE AtomicInv'
    OBVIOUS
  <1>1. CASE UNCHANGED vars
    <2>1. Untouched /\ UNCHANGED <<pc, loc>>
      BY <1>1 DEF vars, disk, store, history, Untouched
    <2>2. \A w \in Writer : WriterInv(w)'  BY <2>1, SameWriter DEF Here, AtomicInv
    <2>3. Writable' = Writable  BY <2>1 DEF Writable, Accounted, Usable, Untouched
    <2>4. PendingInv'  BY <2>1, <2>3, DiskKept DEF Untouched, Here, AtomicInv, PendingInv
    <2>5. QED  BY <2>2, <2>4 DEF AtomicInv
  <1>2. ASSUME NEW w \in Writer, Step(w) PROVE AtomicInv'
    <2>1. PendingInv' /\ WriterInv(w)'
      BY <1>2, RecoveryKeeps, OperationKeeps, CommandKeeps, CommitKeeps, ClearKeeps DEF Step
    <2>2. \A v \in Writer \ {w} : WriterInv(v)'  BY <1>2, StepFrame, OthersHold
    <2>3. QED  BY <2>1, <2>2 DEF AtomicInv
  <1>3. ASSUME NEW w \in Writer, Begin(w) PROVE AtomicInv'
    <2>1. PendingInv' /\ WriterInv(w)' /\ OthersStay(w)  BY <1>3, CommandKeeps
    <2>2. Untouched  BY <1>3 DEF Begin, Untouched, disk, store, history
    <2>3. QED  BY <2>1, <2>2, OthersHold DEF AtomicInv
  <1>4. ASSUME NEW w \in Writer, Restart(w) PROVE AtomicInv'
    <2>1. /\ Untouched /\ OthersStay(w) /\ pc'[w] = "lock"
          /\ loc'[w] = [Blank EXCEPT !.ret = "startup"]
      BY <1>4 DEF Restart, Set, Untouched, OthersStay, disk, store, history, Here, Inv, Control
    <2>2. loc'[w].ret = "startup"  BY <2>1, BlankGood DEF Good, Local
    <2>3. WriterInv(w)'  BY <2>1, <2>2, Outside DEF Labels, Held
    <2>4. pc[w] \notin Clearing
      BY <1>4 DEF Restart, Here, DownInv
    <2>5. PendingInv'  BY <2>1, <2>4, TmpKept DEF Untouched
    <2>6. QED  BY <2>1, <2>3, <2>5, OthersHold DEF AtomicInv
  <1>5. QED
    BY <1>1, <1>2, <1>3, <1>4, EditKeeps, CrashKeeps DEF Next

----------------------------------------------------------------------------
(* The abstract operation.  Only the steps that write the intent, a file   *)
(* or the pointer are steps of it.                                         *)

Left == {f \in Parts(pending) : ~Accounted(f)}

LEMMA Stutter ==
    ASSUME UNCHANGED <<pending, carried, since, dbp>>
    PROVE  UNCHANGED Atomic!vars
  BY DEF Atomic!vars, Accounted

\* Clearing the intent ends the operation one way or the other.
LEMMA ForgetSteps ==
    ASSUME Here, pending # NoPending, Forget, UNCHANGED dbp,
           \/ carried = {}
           \/ AllAccounted /\ pending.pointer \in {NoPointer, dbp}
    PROVE  Atomic!Next
  <1>1. Atomic!Close  BY DEF Forget, Atomic!Close
  <1>2. CASE carried = {}
    <2>1. Atomic!Abandon  BY <1>1, <1>2 DEF Atomic!Abandon
    <2>2. QED  BY <2>1 DEF Atomic!Next
  <1>3. CASE AllAccounted /\ pending.pointer \in {NoPointer, dbp}
    <2>1. Atomic!End  BY <1>1, <1>3 DEF Atomic!End, AllAccounted
    <2>2. QED  BY <2>1 DEF Atomic!Next
  <1>4. QED  BY <1>2, <1>3

LEMMA RenameSteps ==
    ASSUME pending # NoPending, NEW f \in Parts(pending), NEW e, Rename(f, e),
           UNCHANGED <<pending, dbp>>
    PROVE  Atomic!Next
  <1>1. carried' = carried \cup {f} /\ since' = since \ {f}  BY DEF Rename
  <1>2. \A g \in Parts(pending) : Accounted(g)' <=> Accounted(g) \/ g = f
    BY <1>1 DEF Accounted
  <1>3. Atomic!Write(f)  BY <1>1, <1>2 DEF Atomic!Write
  <1>4. f \in File  BY DEF Parts
  <1>5. QED  BY <1>3, <1>4 DEF Atomic!Next

LEMMA RecoverySteps ==
    ASSUME Here, Distinct, NEW w \in Writer, Recovery(w) \/ Clear(w)
    PROVE  Atomic!Next \/ UNCHANGED Atomic!vars
  <1>1. CASE Lock(w) \/ RecoverNothing(w) \/ RecoverDecide(w) \/ Discard(w) \/ ForwardSkip(w)
             \/ ForwardRead(w) \/ ForwardDone(w) \/ Tidy(w)
    BY <1>1, Stutter
       DEF Lock, RecoverNothing, RecoverDecide, Discard, ForwardSkip, ForwardRead, ForwardDone,
           Tidy, disk, store, history
  <1>2. CASE DiscardClear(w)
    <2>1. pending # NoPending /\ carried = {}
      BY <1>2 DEF DiscardClear, Here, AtomicInv, WriterInv, Leaving, PendingInv, CarriedInv
    <2>2. UNCHANGED dbp  BY <1>2 DEF DiscardClear, store
    <2>3. Forget \/ UNCHANGED <<pending, carried, since>>  BY <1>2 DEF DiscardClear
    <2>4. QED  BY <2>1, <2>2, <2>3, ForgetSteps, Stutter
  <1>3. CASE ForwardPublish(w)
    <2>1. pc[w] \in Forth  BY <1>3 DEF ForwardPublish, Forth
    <2>2. UNCHANGED <<pending, dbp>>  BY <1>3 DEF ForwardPublish, store
    <2>3. UNCHANGED history \/ \E f \in File : Turn(w, f) /\ Rename(f, loc[w].mem.files[f])
      BY <1>3 DEF ForwardPublish
    <2>4. \A f \in File : Turn(w, f) => f \in Parts(pending)
      BY <2>1, ForthFacts DEF Turn
    <2>5. QED  BY <2>1, <2>2, <2>3, <2>4, ForthFacts, RenameSteps, Stutter DEF history
  <1>4. CASE Clear(w)
    <2>1. pending # NoPending /\ AllAccounted /\ pending.pointer \in {NoPointer, dbp}
      BY <1>4 DEF Clear, Here, AtomicInv, WriterInv, Ending, InEnding
    <2>2. UNCHANGED dbp  BY <1>4 DEF Clear, store
    <2>3. Forget \/ UNCHANGED <<pending, carried, since>>  BY <1>4 DEF Clear
    <2>4. QED  BY <2>1, <2>2, <2>3, ForgetSteps, Stutter
  <1>5. QED  BY <1>1, <1>2, <1>3, <1>4 DEF Recovery

LEMMA TargetSteps ==
    ASSUME Here, NEW w \in Writer, Commit(w) \/ CommitDb(w)
    PROVE  Atomic!Next \/ UNCHANGED Atomic!vars
  <1>1. UNCHANGED <<pending, carried, since>>
    BY DEF Commit, CommitDb, disk, history
  <1>2. CASE UNCHANGED dbp  BY <1>1, <1>2, Stutter
  <1>3. CASE CommitDb(w) /\ dbp' = loc[w].mem.pointer
    <2>1. /\ InEnding(w) /\ loc[w].mem.pointer \in Provider \cup {NoPointer}
          /\ loc[w].mem.pointer # NoPointer
      BY <1>3, LocalFacts DEF CommitDb, Here, AtomicInv, WriterInv, Ending, Inv, Control, Pending
    <2>2. \A f : Accounted(f)' <=> Accounted(f)  BY <1>1 DEF Accounted
    <2>3. CASE pending = NoPending
      <3>1. Atomic!Direct  BY <1>1, <1>3, <2>1, <2>2, <2>3 DEF Atomic!Direct
      <3>2. QED  BY <3>1 DEF Atomic!Next
    <2>4. CASE pending # NoPending
      <3>1. Atomic!MovePointer
        BY <1>1, <1>3, <2>1, <2>2, <2>4 DEF Atomic!MovePointer, InEnding, AllAccounted
      <3>2. QED  BY <3>1 DEF Atomic!Next
    <2>5. QED  BY <2>3, <2>4
  <1>4. QED  BY <1>2, <1>3 DEF Commit, CommitDb

LEMMA OperationSteps ==
    ASSUME Here, NEW w \in Writer, Operation(w)
    PROVE  Atomic!Next \/ UNCHANGED Atomic!vars
  <1>1. CASE Plan(w) \/ Stage(w) \/ CheckSame(w) \/ CheckGiveUp(w) \/ CheckNoop(w)
             \/ CheckReplan(w) \/ CheckFails(w) \/ DropOld(w) \/ Abandon(w)
    BY <1>1, Stutter
       DEF Plan, Stage, CheckSame, CheckGiveUp, CheckNoop, CheckReplan, CheckFails, DropOld,
           Abandon, disk, store, history
  <1>2. CASE Intent(w)
    <2>1. UNCHANGED dbp  BY <1>2 DEF Intent, store
    <2>2. CASE UNCHANGED <<pending, carried, since>>  BY <2>1, <2>2, Stutter
    <2>3. CASE pending' = loc[w].mem /\ carried' = {}
      <3>1. pending = NoPending  BY <1>2 DEF Intent, Here, AtomicInv, WriterInv
      <3>2. /\ loc[w].mem # NoPending /\ loc[w].mem.pointer \in Provider \cup {NoPointer}
            /\ Parts(loc[w].mem) \subseteq File
        BY LocalFacts, MarkersAssumption DEF Here, Inv, Pending, Parts
      <3>3. Atomic!Announce  BY <2>1, <2>3, <3>1, <3>2 DEF Atomic!Announce
      <3>4. QED  BY <3>3 DEF Atomic!Next
    <2>4. QED  BY <1>2, <2>2, <2>3 DEF Intent
  <1>3. CASE Record(w)
    <2>1. /\ UNCHANGED <<carried, dbp>>
          /\ pc[w] \in {"record", "recordNoop"} /\ pc[w] \in Looping
      BY <1>3 DEF Record, store, Looping
    <2>2. CASE UNCHANGED <<pending, since>>  BY <2>1, <2>2, Stutter
    <2>3. CASE \E f \in File :
                 /\ Turn(w, f) /\ pending' = Recorded(w)
                 /\ since' = IF live[f] = loc[w].mem.files[f].pre
                             THEN since \ {f} ELSE since \cup {f}
      <3>1. PICK f \in File :
              /\ Turn(w, f) /\ pending' = loc[w].mem
              /\ since' = IF live[f] = loc[w].mem.files[f].pre
                          THEN since \ {f} ELSE since \cup {f}
        BY <2>3 DEF Recorded
      <3>2. /\ pending # NoPending /\ pending' # NoPending
            /\ pending'.pointer = pending.pointer /\ Parts(pending') = Parts(pending)
        BY <2>1, <3>1, LoopFacts, MarkersAssumption DEF InLoop, Announced
      <3>3. \A g \in File \ {f} : pending'.files[g] = pending.files[g]
        BY <2>1, <3>1, LoopFacts, TurnUnique DEF InLoop
      <3>4. \A g \in Parts(pending) \ {f} : Accounted(g)' <=> Accounted(g)
        BY <2>1, <3>1, <3>3 DEF Accounted, Parts
      <3>5. f \in Parts(pending)
        BY <2>1, <3>1, LoopFacts DEF Turn, InLoop
      <3>6. Left' \in {Left \ {f}, Left \cup {f}}
        BY <3>2, <3>4, <3>5 DEF Left
      <3>7. Atomic!Rebase(f)
        BY <2>1, <3>2, <3>6 DEF Atomic!Rebase, Left
      <3>8. QED  BY <3>7 DEF Atomic!Next
    <2>4. QED  BY <1>3, <2>2, <2>3 DEF Record
  <1>4. CASE Mark(w)
    <2>1. UNCHANGED <<carried, since, dbp>>  BY <1>4 DEF Mark, store, history
    <2>2. CASE UNCHANGED pending  BY <2>1, <2>2, Stutter
    <2>3. CASE pending' = Marked(w)
      <3>1. pc[w] \in Looping /\ pending = loc[w].mem /\ pending \in Pending
            /\ pending # NoPending
        BY <1>4, LoopFacts DEF Mark, Looping
      <3>2. /\ pending'.files = pending.files /\ pending'.pointer = pending.pointer
            /\ pending' # NoPending
        BY <2>3, <3>1, MarkersAssumption DEF Marked, Pending
      <3>3. Parts(pending') = Parts(pending) /\ \A g : Accounted(g)' <=> Accounted(g)
        BY <2>1, <3>2 DEF Parts, Accounted
      <3>4. QED  BY <2>1, <3>1, <3>2, <3>3 DEF Atomic!vars
    <2>4. QED  BY <1>4, <2>2, <2>3 DEF Mark
  <1>5. CASE Publish(w)
    <2>1. pc[w] \in Looping /\ pc[w] = "publish"  BY <1>5 DEF Publish, Looping
    <2>2. UNCHANGED <<pending, dbp>>  BY <1>5 DEF Publish, store
    <2>3. UNCHANGED history \/ \E f \in File : Turn(w, f) /\ Rename(f, loc[w].mem.files[f])
      BY <1>5 DEF Publish
    <2>4. \A f \in File : Turn(w, f) => f \in Parts(pending)
      BY <2>1, LoopFacts DEF Turn
    <2>5. QED  BY <2>1, <2>2, <2>3, <2>4, LoopFacts, RenameSteps, Stutter DEF history
  <1>6. CASE AbandonClear(w)
    <2>1. pending # NoPending /\ carried = {}
      BY <1>6 DEF AbandonClear, Here, AtomicInv, WriterInv, Giving, Announced
    <2>2. UNCHANGED dbp  BY <1>6 DEF AbandonClear, store
    <2>3. Forget \/ UNCHANGED <<pending, carried, since>>  BY <1>6 DEF AbandonClear
    <2>4. QED  BY <2>1, <2>2, <2>3, ForgetSteps, Stutter
  <1>7. QED  BY <1>1, <1>2, <1>3, <1>4, <1>5, <1>6 DEF Operation

LEMMA EditSteps ==
    ASSUME Here, NEW f \in File, Edit(f)
    PROVE  Atomic!Next \/ UNCHANGED Atomic!vars
  <1>1. since' = since \cup {f} /\ UNCHANGED <<pending, carried, dbp>>
    BY DEF Edit, store
  <1>2. \A g \in Parts(pending) : Accounted(g)' <=> Accounted(g) \/ g = f
    BY <1>1 DEF Accounted
  <1>3. CASE pending = NoPending  BY <1>1, <1>3 DEF Atomic!vars
  <1>4. CASE pending # NoPending
    <2>1. Atomic!ClientWrites(f)
      BY <1>1, <1>2, <1>4 DEF Atomic!ClientWrites
    <2>2. QED  BY <2>1 DEF Atomic!Next
  <1>5. QED  BY <1>3, <1>4

LEMMA AtomicStep == Here /\ Distinct /\ [Next]_vars => [Atomic!Next]_(Atomic!vars)
  <1> SUFFICES ASSUME Here, Distinct, [Next]_vars PROVE Atomic!Next \/ UNCHANGED Atomic!vars
    OBVIOUS
  <1>1. CASE UNCHANGED vars
    BY <1>1, Stutter DEF vars, disk, store, history
  <1>2. ASSUME NEW w \in Writer, Begin(w) \/ Prepare(w) \/ Adopt(w) \/ Rollback(w) \/ Restart(w)
        PROVE  UNCHANGED Atomic!vars
    BY <1>2, Stutter DEF Begin, Prepare, Adopt, Rollback, Restart, disk, store, history
  <1>3. ASSUME NEW p \in Process, Crash(p) PROVE UNCHANGED Atomic!vars
    BY <1>3, Stutter DEF Crash, disk, store, history
  <1>4. QED
    BY <1>1, <1>2, <1>3, RecoverySteps, TargetSteps, OperationSteps, EditSteps DEF Next, Step

----------------------------------------------------------------------------
LEMMA AtomicInit == Init => DownInv /\ AtomicInv
  <1> SUFFICES ASSUME Init PROVE DownInv /\ AtomicInv
    OBVIOUS
  <1>1. \A w \in Writer : pc[w] = "idle" /\ up[ProcessOf[w]] = "up"
    BY WritersAssumption DEF Init
  <1>2. PendingInv  BY DEF Init, PendingInv, CarriedInv
  <1>3. \A w \in Writer : WriterInv(w)
    BY <1>1 DEF WriterInv, Looping, Giving, Leaving, Forth, Ending
  <1>4. QED  BY <1>1, <1>2, <1>3 DEF DownInv, AtomicInv

(* Under the assumptions every reachable state is one of Here.              *)
LEMMA AlwaysHere == ASSUME Assumed PROVE Spec => []Here
  <1>1. Init => Here
    BY InitInv, AtomicInit DEF Here, Init, LockInv, Held
  <1>2. Here /\ [Next]_vars => Here'
    BY NextInv, LockInvNext, DownInvNext, AtomicInvNext DEF Here, Assumed
  <1>3. QED  BY <1>1, <1>2, PTL DEF Spec

(* Once a file has been replaced, the disk says so and its backup exists,   *)
(* whatever dies next (mark_published before the first rename in            *)
(* mode/operation.rs).  A recovery that takes the client's own writing for  *)
(* a published file goes on without saying so, hence Distinct.              *)
THEOREM RecordedFirst == ASSUME Assumed, Distinct PROVE Spec => []PublishedIsRecorded
  <1>1. Here => PublishedIsRecorded
    BY DEF Here, AtomicInv, PendingInv, CarriedInv, PublishedIsRecorded
  <1>2. QED  BY <1>1, AlwaysHere, PTL

(* An operation whose publishing began can always be completed: no file is  *)
(* ever lost to recovery unless the client took it over (roll_forward in    *)
(* mode/operation.rs).  The client may also write just what was planned,    *)
(* which the publishing loop then records as done (CheckNoop).              *)
THEOREM RollsForward == ASSUME Assumed PROVE Spec => []CanRollForward
  <1>1. Here => CanRollForward
    <2>1. SUFFICES ASSUME Here, pending # NoPending, pending.published,
                          \A w \in Writer : ~InAbandon(w)
                   PROVE  AsRead /\ Writable
      BY DEF CanRollForward, AsRead, Writable, Accounted
    <2>2. QED  BY <2>1 DEF Here, AtomicInv, PendingInv, InAbandon, Promised
  <1>2. QED  BY <1>1, AlwaysHere, PTL

(* The whole protocol is one operation that is done or not done at all: an  *)
(* abandoned one has written no file, and the pointer in the database moves *)
(* only when every file carries the new provider or belongs to the client.  *)
THEOREM DoneOrNot == ASSUME Assumed, Distinct PROVE Spec => ImplementsAtomicOperation
  <1>1. Init => Atomic!Init
    BY InitialAssumption DEF Init, Atomic!Init
  <1>2. Here /\ [Next]_vars => [Atomic!Next]_(Atomic!vars)  BY AtomicStep
  <1>3. QED
    BY <1>1, <1>2, AlwaysHere, PTL DEF Spec, ImplementsAtomicOperation, Atomic!Spec

----------------------------------------------------------------------------
(* The pointer in settings.json.  A switch sets it once more after it has   *)
(* released the lock, so another thread's operation may be under way then.  *)

Alone == \A v, w \in Writer : v = w

AdoptInv == \A w \in Writer : pc[w] = "adopt" => pending = NoPending

\* Who comes to the trailing write has cleared its intent, or had none.
LEMMA AdoptReached ==
    ASSUME Here, NEW w \in Writer, Begin(w) \/ Step(w) \/ Restart(w), pc'[w] = "adopt"
    PROVE  pending' = NoPending
  <1> USE DEF Here, Inv
  <1>0. Control  OBVIOUS
  <1>1. ASSUME NEW label, label # "adopt" PROVE ~Goto(w, label)
    BY <1>1 DEF Goto, Control
  <1>2. ~Finish(w) /\ ~Fail(w)  BY DEF Finish, Fail, Leave, Control
  <1>3. \A o : ~AfterRecover(w, o)
    BY <1>1, <1>2 DEF AfterRecover, Leave, Control
  <1>4. ~CommitError(w)  BY <1>2, <1>3 DEF CommitError
  <1>5. CASE Clear(w)  BY <1>3, <1>4, <1>5 DEF Clear, Forget
  <1>6. CASE Commit(w) \/ CommitDb(w)
    <2>1. Committed(w)  BY <1>1, <1>4, <1>6 DEF Commit, CommitDb
    <2>2. ~Recovering(w) /\ Parts(loc[w].mem) = {}  BY <1>1, <2>1 DEF Committed
    <2>3. InEnding(w)
      BY <1>6 DEF AtomicInv, WriterInv, Commit, CommitDb, Ending
    <2>4. pending = NoPending  BY <2>2, <2>3 DEF InEnding, Recovering
    <2>5. QED  BY <1>6, <2>4 DEF Commit, CommitDb, disk
  <1>7. CASE Recovery(w)
    <2>1. ~Lock(w)  BY DEF Lock, Control
    <2>2. QED
      BY <1>1, <1>3, <1>7, <2>1 DEF Recovery, RecoverNothing, RecoverDecide, Discard,
         DiscardClear, ForwardSkip, ForwardRead, ForwardPublish, ForwardDone, Tidy
  <1>8. CASE Operation(w)
    <2>1. CASE Plan(w) \/ Stage(w) \/ Intent(w) \/ CheckSame(w) \/ CheckGiveUp(w)
      BY <1>1, <1>2, <2>1 DEF Plan, Stage, Intent, CheckSame, CheckGiveUp
    <2>2. CASE CheckNoop(w) \/ CheckReplan(w) \/ CheckFails(w) \/ Record(w) \/ DropOld(w)
      BY <1>1, <1>2, <2>2 DEF CheckNoop, CheckReplan, CheckFails, Record, DropOld, Next1
    <2>3. CASE Mark(w) \/ Publish(w) \/ Abandon(w) \/ AbandonClear(w)
      BY <1>1, <1>2, <2>3 DEF Mark, Publish, Abandon, AbandonClear, Next1
    <2>4. QED  BY <1>8, <2>1, <2>2, <2>3 DEF Operation
  <1>9. CASE Begin(w) \/ Prepare(w) \/ Adopt(w) \/ Rollback(w)
    BY <1>1, <1>9 DEF Begin, Prepare, Adopt, Rollback
  <1>10. CASE Restart(w)  BY <1>10 DEF Restart, Control
  <1>11. QED  BY <1>5, <1>6, <1>7, <1>8, <1>9, <1>10 DEF Step

LEMMA AdoptInvNext ==
    ASSUME Alone
    PROVE  Here /\ AdoptInv /\ [Next]_vars => AdoptInv'
  <1> SUFFICES ASSUME Here, AdoptInv, [Next]_vars PROVE AdoptInv'
    OBVIOUS
  <1>1. CASE UNCHANGED vars  BY <1>1 DEF vars, disk, AdoptInv
  <1>2. ASSUME NEW w \in Writer, Begin(w) \/ Step(w) \/ Restart(w) PROVE AdoptInv'
    BY <1>2, AdoptReached DEF Alone, AdoptInv
  <1>3. ASSUME NEW p \in Process, Crash(p) PROVE AdoptInv'
    BY <1>3 DEF Crash, AdoptInv, disk, Here, Inv, Control
  <1>4. ASSUME NEW f \in File, Edit(f) PROVE AdoptInv'
    BY <1>4 DEF Edit, AdoptInv
  <1>5. QED  BY <1>1, <1>2, <1>3, <1>4 DEF Next

\* Two steps write settings.json: commit_target, and the end of a switch.
LEMMA PointerStep ==
    ASSUME Here, AdoptInv, [Next]_vars, settings' # settings, pending # NoPending
    PROVE  AllAccounted
  <1>1. ~UNCHANGED vars  BY DEF vars, store
  <1>2. ASSUME NEW p \in Process PROVE ~Crash(p)  BY DEF Crash, store
  <1>3. ASSUME NEW f \in File PROVE ~Edit(f)  BY DEF Edit, store
  <1>4. PICK w \in Writer : Begin(w) \/ Step(w) \/ Restart(w)
    BY <1>1, <1>2, <1>3 DEF Next
  <1>5. ~Recovery(w)
    BY DEF Recovery, Lock, RecoverNothing, RecoverDecide, Discard, DiscardClear,
       ForwardSkip, ForwardRead, ForwardPublish, ForwardDone, Tidy, store
  <1>6. ~Operation(w)
    BY DEF Operation, Plan, Stage, Intent, CheckSame, CheckGiveUp, CheckNoop, CheckReplan,
       CheckFails, Record, DropOld, Mark, Publish, Abandon, AbandonClear, store
  <1>7. ~Begin(w) /\ ~Restart(w) /\ ~Prepare(w) /\ ~Rollback(w) /\ ~CommitDb(w) /\ ~Clear(w)
    BY DEF Begin, Restart, Prepare, Rollback, CommitDb, Clear, store
  <1>8. ~Adopt(w)  BY DEF Adopt, AdoptInv
  <1>9. Commit(w)  BY <1>4, <1>5, <1>6, <1>7, <1>8 DEF Step
  <1>10. InEnding(w)
    BY <1>9 DEF Here, AtomicInv, WriterInv, Commit, Ending
  <1>11. QED  BY <1>10 DEF InEnding

(* With one thread, also the pointer in settings.json moves only when every *)
(* file carries the new provider or belongs to the client (commit_target    *)
(* comes last in mode/operation.rs, and nothing is pending when switch in   *)
(* services/provider/mod.rs sets the pointer again).                        *)
THEOREM PointerLast == ASSUME Assumed, Alone PROVE Spec => PointerMovesLast
  <1>1. Init => AdoptInv  BY DEF Init, AdoptInv
  <1>2. Here /\ AdoptInv /\ [Next]_vars
          => [settings' # settings /\ pending # NoPending
                => \A f \in Parts(pending) : Accounted(f)]_vars
    BY PointerStep DEF AllAccounted
  <1>3. QED
    BY <1>1, <1>2, AlwaysHere, AdoptInvNext, PTL DEF Spec, PointerMovesLast
=============================================================================
