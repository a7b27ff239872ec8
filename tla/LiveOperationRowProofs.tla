----------------------- MODULE LiveOperationRowProofs -----------------------
(***************************************************************************)
(* What the client files say of the stored row once nothing is under way   *)
(* (RowMatchesFiles), as long as the process has not died, for any number  *)
(* of files, providers, rows, commands, edits and failed calls.            *)
(*                                                                         *)
(* A command stores its row first and takes it back when it fails, unless  *)
(* its operation will be completed (Rollback).  So the files may lag       *)
(* behind the row, and the proof keeps the row they hold (OldRow).  Until  *)
(* a process dies, an intent that is not published and outlives its thread *)
(* has nothing left to write, for the client did all of it (Firm): when    *)
(* recovery drops one whose row was kept, every file holds that row or is  *)
(* the client's.  DiskRows is about the intent on disk, RowsInv about the  *)
(* thread.                                                                 *)
(***************************************************************************)
EXTENDS LiveOperationRestProofs

\* Every file of an intent is written for row r of provider p.
Writes(m, p, r) == \A f \in Parts(m) : Exact(f, m.files[f].planned, p, r)

\* The pending intent leads to the row that is stored.
DiskRows ==
    pending # NoPending =>
      /\ Writes(pending, Goal, row[Goal])
      /\ \A f \in File \ foreign :
           f \in carried \/ f \notin Parts(pending) => Exact(f, live[f], Goal, row[Goal])

\* The files of an intent outside S held what was planned.
Noops(m, S) == \A f \in Parts(m) \ S : m.files[f].pre = m.files[f].planned

\* Publishing has begun, or no file is to be written.
Firm == pending.published \/ (carried = {} /\ Noops(pending, {}))

\* From storing the row to the end of a command.
Stored(w) == loc[w].ret \in {"begin", "run", "op"}
Trying(w) == pc[w] # "idle" /\ loc[w].kind = "apply" /\ Stored(w)

\* The row the files held before the command under way stored another.
OldRow(w) == IF Trying(w) THEN loc[w].oldRow ELSE row[settings]

\* No file is written yet, or no longer part of an operation.
Early(w) == pending = NoPending \/ (pc[w] \in Looping \cup Giving /\ ~loc[w].any)

Holds(r) == \A f \in File \ foreign : Exact(f, live[f], settings, r)

Settled(w) == loc[w].ret = "settle" /\ pc[w] \in {"lock", "recover", "prepare"}

RowsInv(w) ==
    LET l == loc[w] IN
    /\ pending # NoPending => Firm \/ pc[w] \in Looping \cup Giving
    /\ pc[w] \in Looping => l.mem.published \/ Noops(l.mem, l.todo)
    /\ pc[w] \in Forth => pending.published \/ l.todo = {}
    /\ Early(w) => Holds(OldRow(w))
    /\ l.ret = "first" => l.kind # "apply"
    /\ l.kind = "apply" /\ (Settled(w) \/ Trying(w)) => l.provider = settings
    /\ l.kind # "sync" /\ (pc[w] = "prepare" \/ l.ret \in {"begin", "run"})
         => pending = NoPending
    /\ Stored(w) /\ l.kind # "apply" => l.oldRow = row[l.provider]
    /\ pc[w] \in {"plan", "failed"} => Stored(w)
    /\ pc[w] = "prepare" => l.ret = "settle"
    /\ pc[w] = "adopt" => l.kind # "apply"
    /\ Aiming(w) => l.key = <<l.provider, row[l.provider]>>
    /\ Acting(w) =>
         /\ Writes(l.mem, l.provider, row[l.provider])
         /\ \A f \in File \ (foreign \cup Parts(l.mem)) :
              Exact(f, live[f], l.provider, row[l.provider])

Calm == Resting /\ "loop" \notin Faults /\ DiskRows /\ \A w \in Writer : RowsInv(w)

LEMMA CalmFacts ==
    ASSUME Calm, NEW w \in Writer
    PROVE  /\ Resting /\ DiskRows /\ RowsInv(w)
           /\ Here /\ FilesInv /\ AimInv(w) /\ WriterInv(w)
           /\ loc[w] \in Local /\ loc[w].todo \subseteq Parts(loc[w].mem)
           /\ pending \in Pending \cup {NoPending} /\ live \in [File -> Content]
           /\ settings \in Provider /\ row \in [Provider -> Row] /\ foreign \subseteq File
  <1>1. Resting /\ DiskRows /\ RowsInv(w)  BY DEF Calm
  <1>2. row \in [Provider -> Row]  BY <1>1, RestingFacts DEF Here, Inv, Disk
  <1>3. QED  BY <1>1, <1>2, RestingFacts

----------------------------------------------------------------------------
(* The disk. *)

LEMMA RowsSame ==
    ASSUME DiskRows, UNCHANGED <<live, pending, carried, foreign, settings, row>>
    PROVE  DiskRows'
  BY DEF DiskRows, Writes, Goal, Parts, Exact

\* The intent is written again, or the pointer it names is set.
LEMMA RowsAmended ==
    ASSUME DiskRows, pending # NoPending, UNCHANGED <<live, carried, foreign, row>>,
           Parts(pending') = Parts(pending), Goal' = Goal,
           Writes(pending', Goal, row[Goal])
    PROVE  DiskRows'
  <1>1. Writes(pending, Goal, row[Goal])'  BY DEF Writes, Exact
  <1>2. QED  BY <1>1 DEF DiskRows, Exact

LEMMA RowsRename ==
    ASSUME Resting, DiskRows, pending # NoPending, NEW f \in Parts(pending),
           Rename(f, pending.files[f]), UNCHANGED <<pending, settings, row>>
    PROVE  DiskRows'
  <1>0. f \in File /\ live \in [File -> Content]
    BY DEF Parts, Resting, Here, Inv, Disk
  <1>1. /\ live'[f] = pending.files[f].planned
        /\ \A g \in File \ {f} : live'[g] = live[g]
        /\ carried' = carried \cup {f} /\ foreign' = foreign \ {f}
    BY <1>0 DEF Rename
  <1>2. Goal' = Goal  BY DEF Goal
  <1>3. Writes(pending, Goal, row[Goal])  BY DEF DiskRows
  <1>4. Writes(pending, Goal, row[Goal])'  BY <1>2, <1>3 DEF Writes, Exact
  <1>5. Exact(f, live'[f], Goal, row[Goal])  BY <1>1, <1>3 DEF Writes
  <1>6. ASSUME NEW g \in File \ foreign', g \in carried' \/ g \notin Parts(pending)
        PROVE  Exact(g, live'[g], Goal, row[Goal])
    <2>1. CASE g = f  BY <1>5, <2>1
    <2>2. CASE g # f
      <3>1. g \in File \ foreign /\ (g \in carried \/ g \notin Parts(pending))
        BY <1>1, <1>6, <2>2
      <3>2. QED  BY <1>1, <2>2, <3>1 DEF DiskRows
    <2>3. QED  BY <2>1, <2>2
  <1>7. QED  BY <1>2, <1>4, <1>6 DEF DiskRows, Exact

\* Every file is written, and the pointer is set.
LEMMA Completed ==
    ASSUME Calm, pending # NoPending, AllAccounted, Goal = settings
    PROVE  Holds(row[settings])
  <1>1. FilesInv /\ DiskRows  BY DEF Calm, Resting
  <1>2. ASSUME NEW f \in File \ foreign PROVE f \in carried \/ f \notin Parts(pending)
    BY <1>1, <1>2 DEF AllAccounted, Accounted, FilesInv, LeadsTo
  <1>3. QED  BY <1>1, <1>2 DEF DiskRows, Holds

\* No file is to be written: what the client left alone holds the row.
LEMMA FirmHolds ==
    ASSUME Calm, pending # NoPending, ~pending.published, Firm
    PROVE  Holds(row[settings])
  <1>1. FilesInv /\ DiskRows  BY DEF Calm, Resting
  <1>2. SUFFICES ASSUME NEW f \in File \ foreign PROVE Exact(f, live[f], settings, row[settings])
    BY DEF Holds
  <1>3. carried = {} /\ f \notin Parts(pending)
    BY <1>1, <1>2 DEF Firm, Noops, FilesInv, LeadsTo
  <1>4. Exact(f, live[f], Goal, row[Goal]) /\ BelongsTo(f, live[f], settings)
    BY <1>1, <1>3 DEF DiskRows, FilesInv
  <1>5. QED  BY <1>4 DEF Exact, BelongsTo

\* The intent and what has been written stay.
LEMMA FirmStays ==
    ASSUME Firm, UNCHANGED <<pending, carried>>
    PROVE  Firm'
  BY DEF Firm, Noops, Parts

----------------------------------------------------------------------------
(* Where a thread goes when its part is over. *)

LEMMA RowsAfterRecover ==
    ASSUME Calm, NEW w \in Writer, NEW outcome, AfterRecover(w, outcome),
           loc[w].ret # "op", pc[w] \in {"recover"} \cup Leaving \cup Forth \cup Ending,
           UNCHANGED <<live, foreign, settings, row>>,
           pending' = NoPending \/ UNCHANGED <<pending, carried>>,
           outcome = "none" => pc[w] = "recover" /\ pending' = NoPending,
           outcome = "discarded" => pc[w] = "discardClear" /\ pending' = NoPending,
           pending' = NoPending => Holds(OldRow(w))
    PROVE  RowsInv(w)'
  <1> DEFINE l == loc[w]
  <1>0. l \in Local /\ Here /\ RowsInv(w) /\ AimInv(w) /\ pc[w] \notin Looping \cup Giving
    BY CalmFacts DEF Looping, Giving, Leaving, Forth, Ending
  <1>1. pending' # NoPending => Firm'  BY <1>0, FirmStays DEF RowsInv
  <1>2. ASSUME pc'[w] \notin Looping \cup Giving, OldRow(w)' = OldRow(w)
        PROVE  Early(w)' => Holds(OldRow(w))'
    BY <1>2 DEF Early, Holds, Exact
  <1>3. l.kind # "sync" /\ l.ret \in {"begin", "run"} => pending = NoPending
    BY <1>0 DEF RowsInv
  <1>4. CASE \/ Finish(w) /\ l.ret \in {"first", "settle"}
             \/ l.ret = "startup" /\ pc' = [pc EXCEPT ![w] = "idle"] /\ Set(w, Blank)
    <2>1. pc'[w] = "idle" /\ loc'[w] = Blank  BY <1>0, <1>4, LeavesTo, CalmFacts, RestingFacts DEF Finish, Set
    <2>2. Blank.ret = "none" /\ Blank.kind = "none"  BY DEF Blank
    <2>3. OldRow(w)' = OldRow(w)  BY <1>4, <2>1 DEF OldRow, Trying, Stored
    <2>4. QED
      BY <1>1, <1>2, <2>1, <2>2, <2>3
         DEF RowsInv, Looping, Giving, Forth, Settled, Trying, Stored, Aiming, Acting
  <1>5. CASE Fail(w) /\ l.ret \in {"begin", "run"}
    <2>1. pc'[w] = "failed" /\ loc'[w] = l  BY <1>0, <1>5, LeavesTo DEF Fail
    <2>2. OldRow(w)' = OldRow(w)
      BY <1>0, <1>5, <2>1 DEF OldRow, Trying, Stored, Leaving, Forth, Ending
    <2>3. Trying(w)' => Trying(w)
      BY <2>1 DEF Trying, Stored, Leaving, Forth, Ending
    <2>4. QED
      BY <1>0, <1>1, <1>2, <1>3, <1>5, <2>1, <2>2, <2>3
         DEF RowsInv, Looping, Giving, Forth, Settled, Stored, Aiming, Acting
  <1>6. CASE l.ret = "first" /\ Leave(w, "lock", [l EXCEPT !.ret = "settle"])
    <2>1. /\ pc'[w] = "lock" /\ loc'[w].ret = "settle" /\ loc'[w].kind = l.kind
      BY <1>0, <1>6, LeavesTo DEF Local
    <2>2. OldRow(w)' = OldRow(w)  BY <1>6, <2>1 DEF OldRow, Trying, Stored
    <2>3. l.kind # "apply"  BY <1>0, <1>6 DEF RowsInv
    <2>4. QED
      BY <1>1, <1>2, <2>1, <2>2, <2>3
         DEF RowsInv, Looping, Giving, Forth, Trying, Stored, Aiming, Acting
  <1>7. CASE l.ret = "settle" /\ Leave(w, "prepare", l) /\ outcome = "none"
    <2>1. pc'[w] = "prepare" /\ loc'[w] = l /\ pc[w] = "recover" /\ pending' = NoPending
      BY <1>0, <1>7, LeavesTo
    <2>2. OldRow(w)' = OldRow(w)  BY <1>7, <2>1 DEF OldRow, Trying, Stored
    <2>3. l.kind = "apply" => l.provider = settings
      BY <1>0, <1>7, <2>1 DEF RowsInv, Settled
    <2>4. QED
      BY <1>2, <1>7, <2>1, <2>2, <2>3
         DEF RowsInv, Looping, Giving, Forth, Trying, Stored, Aiming, Acting
  <1>8. CASE /\ l.ret = "begin" /\ outcome \in {"none", "discarded"}
             /\ Goto(w, "recover") /\ Set(w, [l EXCEPT !.ret = "run"])
    <2>1. /\ pc'[w] = "recover" /\ loc'[w].ret = "run" /\ loc'[w].key = l.key
          /\ loc'[w].provider = l.provider /\ loc'[w].kind = l.kind
          /\ loc'[w].oldRow = l.oldRow
      BY <1>0, <1>8, GoesTo DEF Local
    <2>2. pc[w] \in {"recover", "discardClear"} /\ pending' = NoPending  BY <1>8
    <2>3. OldRow(w)' = OldRow(w)  BY <1>8, <2>1, <2>2 DEF OldRow, Trying, Stored
    <2>4. Trying(w)' => Trying(w)  BY <1>8, <2>1, <2>2 DEF Trying, Stored
    <2>5. l.key = <<l.provider, row[l.provider]>>  BY <1>0, <1>8, <2>2 DEF RowsInv, Aiming
    <2>6. QED
      BY <1>0, <1>2, <1>8, <2>1, <2>2, <2>3, <2>4, <2>5
         DEF RowsInv, Looping, Giving, Forth, Settled, Stored, Acting
  <1>9. CASE l.ret = "run" /\ Goto(w, "plan") /\ Set(w, l)
    <2>1. pc'[w] = "plan" /\ loc'[w] = l  BY <1>0, <1>9, GoesTo
    <2>2. pc[w] = "recover" /\ pending' = NoPending
      BY <1>0, <1>9 DEF AimInv, Started, Leaving, Forth, Ending
    <2>3. OldRow(w)' = OldRow(w)  BY <1>9, <2>1, <2>2 DEF OldRow, Trying, Stored
    <2>4. Trying(w)' => Trying(w)  BY <2>1, <2>2 DEF Trying, Stored
    <2>5. l.key = <<l.provider, row[l.provider]>>  BY <1>0, <1>9, <2>2 DEF RowsInv, Aiming
    <2>6. QED
      BY <1>0, <1>2, <1>9, <2>1, <2>2, <2>3, <2>4, <2>5
         DEF RowsInv, Looping, Giving, Forth, Settled, Stored, Acting
  <1>10. QED
    BY <1>4, <1>5, <1>6, <1>7, <1>8, <1>9 DEF AfterRecover

LEMMA RowsFail ==
    ASSUME Calm, NEW w \in Writer, Fail(w), Stored(w), pc[w] # "idle",
           UNCHANGED <<live, foreign, settings, row>>,
           loc[w].ret = "op" \/ pending' = NoPending,
           pending' # NoPending => Firm',
           pending' = NoPending => Holds(OldRow(w))
    PROVE  RowsInv(w)'
  <1>0. loc[w] \in Local /\ Here /\ RowsInv(w)  BY CalmFacts
  <1>1. pc'[w] = "failed" /\ loc'[w] = loc[w]  BY <1>0, LeavesTo DEF Fail
  <1>2. OldRow(w)' = OldRow(w)  BY <1>1 DEF OldRow, Trying, Stored
  <1>3. Early(w)' => Holds(OldRow(w))'
    BY <1>1, <1>2 DEF Early, Holds, Exact, Looping, Giving
  <1>4. QED
    BY <1>0, <1>1, <1>3
       DEF RowsInv, Looping, Giving, Forth, Settled, Trying, Stored, Aiming, Acting

LEMMA RowsReturn ==
    ASSUME Calm, NEW w \in Writer, Return(w), loc[w].ret = "op", pc[w] # "idle",
           UNCHANGED <<live, foreign, settings, row>>,
           pending' = NoPending, Holds(row[settings])
    PROVE  RowsInv(w)'
  <1>0. loc[w] \in Local /\ Here /\ RowsInv(w)  BY CalmFacts
  <1>1. \/ pc'[w] = "idle" /\ loc'[w] = Blank
        \/ pc'[w] = "adopt" /\ loc'[w] = loc[w] /\ loc[w].kind = "switch"
    BY <1>0, LeavesTo DEF Return, Finish
  <1>2. Blank.ret = "none" /\ Blank.kind = "none"  BY DEF Blank
  <1>3. OldRow(w)' = row[settings]  BY <1>1, <1>2 DEF OldRow, Trying, Stored
  <1>4. Holds(OldRow(w))'  BY <1>3 DEF Holds, Exact
  <1>5. QED
    BY <1>0, <1>1, <1>2, <1>4
       DEF RowsInv, Looping, Forth, Settled, Trying, Stored, Aiming, Acting

\* Recovery goes on with the intent it found.
LEMMA RowsForth ==
    ASSUME Calm, NEW w \in Writer, pc'[w] \in Leaving \cup Forth \cup Ending,
           pc'[w] \in Leaving => pc[w] \in {"recover", "discard"}, loc[w].ret # "op",
           loc'[w].ret = loc[w].ret, loc'[w].kind = loc[w].kind, loc'[w].key = loc[w].key,
           loc'[w].provider = loc[w].provider, loc'[w].oldRow = loc[w].oldRow,
           pending # NoPending, pending' = pending, Firm', row' = row,
           pc'[w] \in Forth => pending.published \/ loc'[w].todo = {}
    PROVE  RowsInv(w)'
  <1>1. RowsInv(w)  BY CalmFacts
  <1>2. ~Settled(w)' /\ pc'[w] \notin Looping \cup Giving /\ pc'[w] # "prepare"
    BY DEF Settled, Leaving, Forth, Ending, Looping, Giving
  <1>3. ~Acting(w)' /\ ~Early(w)'
    BY <1>2 DEF Acting, Early
  <1>4. Aiming(w)' => Aiming(w)
    BY DEF Aiming, Acting, Leaving, Forth, Ending
  <1>5. ~Trying(w)'
    BY <1>1 DEF RowsInv, Trying, Stored
  <1>6. QED
    BY <1>1, <1>2, <1>3, <1>4, <1>5 DEF RowsInv, Stored, Leaving, Forth, Ending

\* An operation goes on.
LEMMA RowsGoOn ==
    ASSUME Calm, NEW w \in Writer, loc'[w].ret = "op",
           pc'[w] \in {"stage", "intent"} \cup Looping \cup Giving \cup Ending,
           loc'[w].kind = loc[w].kind, loc'[w].provider = loc[w].provider,
           loc'[w].oldRow = loc[w].oldRow, loc'[w].key = loc[w].key, row' = row,
           pc[w] = "plan" \/ Acting(w), Stored(w),
           loc[w].kind = "apply" => settings' = settings,
           pending' # NoPending => Firm' \/ pc'[w] \in Looping \cup Giving,
           pc'[w] \in Looping => loc'[w].mem.published \/ Noops(loc'[w].mem, loc'[w].todo),
           Early(w)' => Holds(OldRow(w))',
           Writes(loc'[w].mem, loc[w].provider, row[loc[w].provider]),
           \A f \in File \ (foreign' \cup Parts(loc'[w].mem)) :
             Exact(f, live'[f], loc[w].provider, row[loc[w].provider])
    PROVE  RowsInv(w)'
  <1> DEFINE l == loc[w]
             p == l.provider
  <1>1. RowsInv(w)  BY CalmFacts
  <1>2. pc[w] # "idle" /\ Aiming(w)  BY DEF Acting, Aiming
  <1>3. l.kind = "apply" => p = settings  BY <1>1, <1>2 DEF RowsInv, Trying
  <1>4. l.key = <<p, row[p]>>  BY <1>1, <1>2 DEF RowsInv
  <1>5. Writes(l.mem, p, row[p])'  BY DEF Writes, Exact, Parts
  <1>6. pc'[w] \notin {"prepare", "plan", "failed", "adopt"} \cup Forth
    BY DEF Looping, Giving, Ending, Forth
  <1>7. Noops(l.mem, l.todo)' = Noops(loc'[w].mem, loc'[w].todo)  BY DEF Noops, Parts
  <1>8. QED
    BY <1>1, <1>3, <1>4, <1>5, <1>6, <1>7 DEF RowsInv, Settled, Stored, Exact

----------------------------------------------------------------------------
(* Recovery. *)

LEMMA RecoverRows ==
    ASSUME Calm, NEW w \in Writer,
           RecoverNothing(w) \/ RecoverDecide(w) \/ Discard(w) \/ DiscardClear(w)
    PROVE  DiskRows' /\ RowsInv(w)'
  <1> DEFINE l == loc[w]
  <1>0. /\ l \in Local /\ Here /\ RowsInv(w) /\ WriterInv(w) /\ DiskRows
        /\ pc[w] \in {"recover"} \cup Leaving
        /\ UNCHANGED <<live, foreign, settings, row>>
    BY CalmFacts DEF RecoverNothing, RecoverDecide, Discard, DiscardClear, Leaving, disk,
       store, history
  <1>1. l.ret # "op" /\ (pending # NoPending => Firm)
    BY <1>0 DEF WriterInv, RowsInv, Looping, Giving, Leaving
  <1>2. UNCHANGED <<pending, carried>> => DiskRows'  BY <1>0, RowsSame
  <1>3. CASE RecoverNothing(w)
    <2>1. pending = NoPending /\ UNCHANGED <<pending, carried>> /\ pc[w] = "recover"
      BY <1>3 DEF RecoverNothing, HasPending, disk, history
    <2>2. Holds(OldRow(w))  BY <1>0, <2>1 DEF RowsInv, Early
    <2>3. QED
      BY <1>0, <1>1, <1>2, <1>3, <2>1, <2>2, RowsAfterRecover DEF RecoverNothing
  <1>4. CASE RecoverDecide(w)
    <2>1. pending # NoPending /\ UNCHANGED <<pending, carried>> /\ pc[w] = "recover"
      BY <1>4 DEF RecoverDecide, HasPending, disk, history
    <2>2. /\ pc'[w] \in {"forward", "discard"}
          /\ loc'[w] = [l EXCEPT !.mem = pending, !.todo = {f \in Parts(pending) : AtPre(f)}]
      BY <1>0, <1>4, GoesTo DEF RecoverDecide
    <2>3. /\ loc'[w].ret = l.ret /\ loc'[w].kind = l.kind /\ loc'[w].key = l.key
          /\ loc'[w].provider = l.provider /\ loc'[w].oldRow = l.oldRow
          /\ loc'[w].todo = {f \in Parts(pending) : AtPre(f)}
      BY <1>0, <2>2 DEF Local
    <2>4. pending.published \/ loc'[w].todo = {}
      BY <1>1, <2>1, <2>3 DEF Firm, Noops, AtPre, AtPlanned
    <2>5. Firm'  BY <1>1, <2>1, FirmStays
    <2>6. QED
      BY <1>0, <1>1, <1>2, <2>1, <2>2, <2>3, <2>4, <2>5, RowsForth DEF Leaving, Forth
  <1>5. CASE Discard(w)
    <2>1. UNCHANGED <<pending, carried>> /\ pc[w] = "discard"  BY <1>5 DEF Discard, history
    <2>2. pc'[w] = "discardClear" /\ loc'[w] = l  BY <1>0, <1>5, GoesTo DEF Discard
    <2>3. pending # NoPending  BY <1>0, <2>1 DEF WriterInv, Leaving
    <2>4. Firm'  BY <1>1, <2>1, <2>3, FirmStays
    <2>5. QED
      BY <1>0, <1>1, <1>2, <2>1, <2>2, <2>3, <2>4, RowsForth DEF Leaving, Forth
  <1>6. CASE DiscardClear(w)
    <2>1. pc[w] = "discardClear" /\ pending # NoPending /\ ~pending.published
      BY <1>0, <1>6 DEF DiscardClear, WriterInv, Leaving
    <2>2. Holds(row[settings])  BY <1>1, <2>1, FirmHolds
    <2>3. ~Trying(w)  BY <1>0, <1>1, <2>1 DEF RowsInv, Trying, Stored
    <2>4. Holds(OldRow(w))  BY <2>2, <2>3 DEF OldRow
    <2>5. CASE Forget /\ AfterRecover(w, "discarded")
      <3>1. pending' = NoPending /\ DiskRows'  BY <2>5 DEF Forget, DiskRows
      <3>2. QED  BY <1>0, <1>1, <2>1, <2>4, <2>5, <3>1, RowsAfterRecover
    <2>6. CASE AfterRecover(w, "error") /\ UNCHANGED <<pending, carried, since>>
      BY <1>0, <1>1, <1>2, <2>1, <2>4, <2>6, RowsAfterRecover
    <2>7. QED  BY <1>6, <2>5, <2>6 DEF DiscardClear
  <1>7. QED  BY <1>3, <1>4, <1>5, <1>6

LEMMA ForwardRows ==
    ASSUME Calm, NEW w \in Writer,
           ForwardSkip(w) \/ ForwardRead(w) \/ ForwardPublish(w) \/ ForwardDone(w)
    PROVE  DiskRows' /\ RowsInv(w)'
  <1> DEFINE l == loc[w]
  <1>0. /\ l \in Local /\ Here /\ DiskRows /\ Resting /\ RowsInv(w) /\ pc[w] \in Forth
        /\ UNCHANGED <<pending, settings, row>>
    BY CalmFacts DEF ForwardSkip, ForwardRead, ForwardPublish, ForwardDone, Forth, disk, store
  <1>1. /\ l.ret # "op" /\ pending # NoPending /\ pending = l.mem /\ Firm
        /\ l.todo \subseteq Parts(pending) /\ (pending.published \/ l.todo = {})
    BY <1>0, ForthFacts DEF RowsInv, Forth, Looping, Giving
  <1>2. ASSUME NEW label \in {"forward", "forwardPublish", "commit"}, Goto(w, label),
               loc'[w].ret = l.ret, loc'[w].kind = l.kind, loc'[w].key = l.key,
               pending.published \/ (label = "commit" /\ carried' = carried),
               loc'[w].provider = l.provider, loc'[w].oldRow = l.oldRow
        PROVE  RowsInv(w)'
    <2>1. pc'[w] = label  BY <1>0, <1>2, GoesTo
    <2>2. Firm'
      <3>1. CASE pending.published  BY <1>0, <3>1 DEF Firm
      <3>2. CASE carried' = carried  BY <1>0, <1>1, <3>2, FirmStays
      <3>3. QED  BY <1>2, <3>1, <3>2
    <2>3. QED  BY <1>0, <1>1, <1>2, <2>1, <2>2, RowsForth DEF Leaving, Forth, Ending
  <1>3. CASE ForwardSkip(w) \/ ForwardRead(w) \/ ForwardDone(w)
    <2>1. DiskRows'
      BY <1>0, <1>3, RowsSame DEF ForwardSkip, ForwardRead, ForwardDone, disk, store, history
    <2>2. \/ \E f \in File : Set(w, [l EXCEPT !.todo = @ \ {f}])
          \/ \E f \in File : Set(w, [l EXCEPT !.seen = live[f]])
          \/ loc' = loc
      BY <1>3 DEF ForwardSkip, ForwardRead, ForwardDone
    <2>3. /\ loc'[w].ret = l.ret /\ loc'[w].kind = l.kind /\ loc'[w].key = l.key
          /\ loc'[w].provider = l.provider /\ loc'[w].oldRow = l.oldRow
      BY <1>0, <2>2, RestingFacts DEF Set, Local
    <2>4. pending.published \/ (ForwardDone(w) /\ carried' = carried)
      BY <1>1, <1>3 DEF ForwardSkip, ForwardRead, ForwardDone, Turn, history
    <2>5. QED  BY <1>2, <1>3, <2>1, <2>3, <2>4 DEF ForwardSkip, ForwardRead, ForwardDone
  <1>4. CASE ForwardPublish(w)
    <2>1. CASE \E f \in File : /\ Turn(w, f) /\ Rename(f, l.mem.files[f])
                               /\ Set(w, [l EXCEPT !.todo = @ \ {f}])
                               /\ Goto(w, "forward")
      <3>1. PICK f \in File : /\ Turn(w, f) /\ Rename(f, l.mem.files[f])
                              /\ Set(w, [l EXCEPT !.todo = @ \ {f}])
                              /\ Goto(w, "forward")
        BY <2>1
      <3>2. f \in Parts(pending)  BY <1>1, <3>1 DEF Turn
      <3>3. DiskRows'  BY <1>0, <1>1, <3>1, <3>2, RowsRename
      <3>4. /\ loc'[w].ret = l.ret /\ loc'[w].kind = l.kind /\ loc'[w].key = l.key
            /\ loc'[w].provider = l.provider /\ loc'[w].oldRow = l.oldRow
        BY <1>0, <3>1, RestingFacts DEF Set, Local
      <3>5. pending.published  BY <1>1, <3>1 DEF Turn
      <3>6. QED  BY <1>2, <3>1, <3>3, <3>4, <3>5
    <2>2. CASE AfterRecover(w, "error") /\ UNCHANGED <<live, tmp, history>>
      <3>1. DiskRows'  BY <1>0, <2>2, RowsSame DEF history
      <3>2. RowsInv(w)'  BY <1>0, <1>1, <2>2, RowsAfterRecover DEF history
      <3>3. QED  BY <3>1, <3>2
    <2>3. QED  BY <1>4, <2>1, <2>2 DEF ForwardPublish
  <1>5. QED  BY <1>3, <1>4

----------------------------------------------------------------------------
(* The target and the end. *)

\* In an operation without an intent, no file is to be written.
LEMMA EndFacts ==
    ASSUME Calm, NEW w \in Writer, pc[w] \in Ending, loc[w].ret = "op"
    PROVE  /\ Acting(w) /\ Stored(w) /\ Aimed(w) /\ Outlined(w)
           /\ loc[w].kind = "apply" => loc[w].provider = settings
           /\ Writes(loc[w].mem, loc[w].provider, row[loc[w].provider])
           /\ \A f \in File \ (foreign \cup Parts(loc[w].mem)) :
                Exact(f, live[f], loc[w].provider, row[loc[w].provider])
           /\ pending = NoPending => /\ Parts(loc[w].mem) = {} /\ Holds(OldRow(w))
                                     /\ pc[w] \in {"commit", "commitDb"}
           /\ pending # NoPending => Firm
  <1>1. Acting(w) /\ Stored(w)  BY DEF Acting, Stored, Ending
  <1>2. Trying(w) \/ loc[w].kind # "apply"  BY <1>1 DEF Trying, Acting
  <1>3. QED
    BY <1>1, <1>2, CalmFacts
       DEF RowsInv, AimInv, Aiming, WriterInv, InEnding, Early, Looping, Giving, Ending

\* commit_target of an operation goes on.
LEMMA RowsTarget ==
    ASSUME Calm, NEW w \in Writer, loc[w].ret = "op", pc[w] \in Ending,
           NEW label \in Ending, Goto(w, label),
           UNCHANGED <<loc, live, foreign, pending, carried, row>>,
           settings' \in {settings, loc[w].provider},
           pending # NoPending \/ label = "commitDb"
    PROVE  RowsInv(w)'
  <1> DEFINE l == loc[w]
  <1>0. Here /\ pc'[w] = label /\ loc'[w] = l  BY CalmFacts, GoesTo
  <1>1. /\ Acting(w) /\ Stored(w)
        /\ l.kind = "apply" => l.provider = settings
        /\ Writes(l.mem, l.provider, row[l.provider])
        /\ \A f \in File \ (foreign \cup Parts(l.mem)) :
             Exact(f, live[f], l.provider, row[l.provider])
        /\ pending = NoPending => Parts(l.mem) = {} /\ Holds(OldRow(w))
        /\ pending # NoPending => Firm
    BY EndFacts
  <1>2. ASSUME Early(w)' PROVE Holds(OldRow(w))'
    <2>1. pending = NoPending  BY <1>0, <1>2 DEF Early, Looping, Giving, Ending
    <2>2. CASE settings' = settings
      <3>1. OldRow(w)' = OldRow(w)
        BY <1>0, <1>1, <2>2 DEF OldRow, Trying, Stored, Acting, Ending
      <3>2. QED  BY <1>1, <2>1, <2>2, <3>1 DEF Holds, Exact
    <2>3. CASE settings' # settings
      <3>1. settings' = l.provider /\ l.kind # "apply"  BY <1>1, <2>3
      <3>2. OldRow(w)' = row[l.provider]  BY <1>0, <3>1 DEF OldRow, Trying
      <3>3. QED  BY <1>1, <2>1, <3>1, <3>2 DEF Holds, Exact
    <2>4. QED  BY <2>2, <2>3
  <1>3. l.kind = "apply" => settings' = settings  BY <1>1
  <1>4. label \notin Looping /\ (pending # NoPending => Firm')
    BY <1>1, FirmStays DEF Looping, Ending
  <1>5. QED  BY <1>0, <1>1, <1>2, <1>3, <1>4, RowsGoOn

LEMMA CommitRows ==
    ASSUME Calm, NEW w \in Writer, Commit(w) \/ CommitDb(w)
    PROVE  DiskRows' /\ RowsInv(w)'
  <1> DEFINE l == loc[w]
  <1>0. /\ l \in Local /\ Here /\ AimInv(w) /\ RowsInv(w) /\ DiskRows
        /\ pc[w] \in {"commit", "commitDb"} /\ InEnding(w)
        /\ UNCHANGED <<live, pending, carried, foreign, row>>
    BY CalmFacts DEF Commit, CommitDb, WriterInv, Ending, disk, history
  <1>1. pending # NoPending => pending = l.mem /\ Firm /\ Firm'
    BY <1>0, FirmStays DEF InEnding, RowsInv, Looping, Giving
  <1>2. \/ settings' = settings
        \/ /\ settings' = l.mem.pointer /\ l.mem.pointer # NoPointer
           /\ Goto(w, "commitDb") /\ UNCHANGED loc
    BY DEF Commit, CommitDb
  <1>3. DiskRows'
    <2>1. CASE settings' = settings  BY <1>0, <2>1, RowsSame
    <2>2. CASE pending = NoPending  BY <1>0, <2>2 DEF DiskRows
    <2>3. CASE pending # NoPending /\ settings' = l.mem.pointer /\ l.mem.pointer # NoPointer
      <3>1. Goal' = Goal /\ Parts(pending') = Parts(pending)
        BY <1>0, <1>1, <2>3 DEF Goal
      <3>2. Writes(pending, Goal, row[Goal])  BY <1>0, <2>3 DEF DiskRows
      <3>3. QED  BY <1>0, <2>3, <3>1, <3>2, RowsAmended
    <2>4. QED  BY <1>2, <2>1, <2>2, <2>3
  <1>4. CASE l.ret # "op"
    <2>1. pending # NoPending /\ Firm'  BY <1>0, <1>1, <1>4 DEF InEnding
    <2>2. CASE (Goto(w, "commitDb") \/ Goto(w, "tidy")) /\ UNCHANGED loc
      <3>1. pc'[w] \in {"commitDb", "tidy"} /\ loc'[w] = l  BY <1>0, <2>2, GoesTo
      <3>2. QED  BY <1>0, <1>3, <1>4, <2>1, <3>1, RowsForth DEF Leaving, Forth, Ending
    <2>3. CASE AfterRecover(w, "error") /\ settings' = settings
      BY <1>0, <1>3, <1>4, <2>1, <2>3, RowsAfterRecover DEF Ending
    <2>4. QED
      BY <1>4, <2>2, <2>3 DEF Commit, CommitDb, Committed, CommitError, Recovering
  <1>5. CASE l.ret = "op"
    <2>0. pc[w] \in Ending  BY <1>0 DEF Ending
    <2>1. Acting(w) /\ Aimed(w) /\ Outlined(w)  BY <1>5, <2>0, EndFacts
    <2>2. CASE settings' # settings \/ (Goto(w, "commitDb") /\ UNCHANGED loc)
      <3>1. settings' \in {settings, l.provider} /\ Goto(w, "commitDb") /\ UNCHANGED loc
        BY <1>2, <2>1, <2>2 DEF Aimed, Outlined
      <3>2. QED  BY <1>0, <1>3, <1>5, <2>0, <3>1, RowsTarget DEF Ending
    <2>3. CASE Fail(w) /\ settings' = settings
      BY <1>0, <1>1, <1>3, <1>5, <2>0, <2>3, RowsFail, EndFacts
    <2>4. CASE /\ Return(w) /\ Parts(l.mem) = {} /\ settings' = settings
               /\ l.mem.pointer \in {NoPointer, settings}
      <3>1. pending = NoPending  BY <1>0, <1>5, <2>4 DEF InEnding
      <3>2. settings = l.provider  BY <2>1, <2>4 DEF Aimed, Outlined
      <3>3. Holds(row[settings])
        BY <1>5, <2>0, <2>4, <3>2, EndFacts DEF Holds
      <3>4. QED  BY <1>0, <1>3, <1>5, <2>4, <3>1, <3>3, RowsReturn
    <2>5. CASE Goto(w, "clear") /\ UNCHANGED loc /\ Parts(l.mem) # {} /\ settings' = settings
      <3>1. pending # NoPending  BY <1>0, <2>5 DEF InEnding
      <3>2. QED  BY <1>0, <1>3, <1>5, <2>0, <2>5, <3>1, RowsTarget DEF Ending
    <2>6. pc[w] = "commitDb" => l.mem.pointer \in {NoPointer, settings}  BY <1>0 DEF AimInv
    <2>7. QED
      BY <1>5, <2>2, <2>3, <2>4, <2>5, <2>6
         DEF Commit, CommitDb, Committed, CommitError, Recovering
  <1>6. QED  BY <1>4, <1>5

LEMMA ClearRows ==
    ASSUME Calm, NEW w \in Writer, Tidy(w) \/ Clear(w)
    PROVE  DiskRows' /\ RowsInv(w)'
  <1> DEFINE l == loc[w]
  <1>0. /\ l \in Local /\ Here /\ AimInv(w) /\ RowsInv(w) /\ DiskRows /\ WriterInv(w)
        /\ pc[w] \in {"tidy", "clear"} /\ InEnding(w)
        /\ UNCHANGED <<live, foreign, settings, row>>
    BY CalmFacts DEF Tidy, Clear, WriterInv, Ending, store, history
  <1>1. /\ pending # NoPending /\ pending = l.mem /\ Firm /\ AllAccounted
        /\ l.mem.pointer \in {NoPointer, settings}
    BY <1>0 DEF InEnding, RowsInv, AimInv, Looping, Giving
  <1>2. Holds(row[settings])
    BY <1>1, Completed DEF Goal
  <1>3. CASE Tidy(w)
    <2>1. DiskRows'  BY <1>0, <1>3, RowsSame DEF Tidy, history
    <2>2. pc'[w] = "clear" /\ loc'[w] = l /\ pending' = pending /\ l.ret # "op"
      BY <1>0, <1>3, GoesTo DEF Tidy, WriterInv
    <2>3. Firm'  BY <1>1, <1>3, <2>2, FirmStays DEF Tidy, history
    <2>4. QED  BY <1>0, <1>1, <2>1, <2>2, <2>3, RowsForth DEF Leaving, Forth, Ending
  <1>4. CASE Clear(w)
    <2>0. pc[w] \in Ending /\ pc[w] # "idle" /\ pc[w] # "recover"
      BY <1>0 DEF Ending
    <2>1. DiskRows'
      <3>1. CASE pending' = NoPending  BY <3>1 DEF DiskRows
      <3>2. CASE UNCHANGED <<pending, carried, since>>  BY <1>0, <3>2, RowsSame
      <3>3. QED  BY <1>4, <3>1, <3>2 DEF Clear, Forget
    <2>2. pending' = NoPending \/ UNCHANGED <<pending, carried>>  BY <1>4 DEF Clear, Forget
    <2>3. CASE l.ret # "op"
      <3>1. ~Trying(w)  BY <1>0, <1>1, <2>3 DEF RowsInv, Trying, Stored
      <3>2. Holds(OldRow(w))  BY <1>2, <3>1 DEF OldRow
      <3>3. \E outcome \in {"forwarded", "error"} : AfterRecover(w, outcome)
        BY <1>4, <2>3 DEF Clear, Recovering, CommitError
      <3>4. QED  BY <1>0, <2>0, <2>1, <2>2, <2>3, <3>2, <3>3, RowsAfterRecover
    <2>4. CASE l.ret = "op" /\ Return(w) /\ pending' = NoPending
      BY <1>0, <1>2, <2>0, <2>1, <2>4, RowsReturn
    <2>5. CASE l.ret = "op" /\ Fail(w) /\ UNCHANGED <<pending, carried>>
      BY <1>0, <1>1, <2>0, <2>1, <2>5, RowsFail, FirmStays DEF Stored
    <2>6. QED
      BY <1>4, <2>3, <2>4, <2>5 DEF Clear, Forget, Recovering, CommitError
  <1>5. QED  BY <1>3, <1>4

----------------------------------------------------------------------------
(* Planning, staging, announcing. *)


LEMMA PlanRowsKept ==
    ASSUME Calm, NEW w \in Writer, Plan(w)
    PROVE  DiskRows' /\ RowsInv(w)'
  <1> DEFINE l == loc[w]
             p == l.provider
             m == Planned(w)
             todo == Parts(m)
             label == IF todo = {} THEN "commit" ELSE "stage"
  <1>0. /\ l \in Local /\ Here /\ Resting /\ RowsInv(w) /\ DiskRows /\ pc[w] = "plan"
        /\ pending = NoPending /\ live \in [File -> Content]
        /\ UNCHANGED <<live, pending, carried, foreign, settings, row>>
    BY CalmFacts DEF Plan, WriterInv, disk, store, history
  <1>1. DiskRows'  BY <1>0 DEF DiskRows
  <1>2. Stored(w) /\ Holds(OldRow(w))  BY <1>0 DEF RowsInv, Early
  <1>3. l.key = <<p, row[p]>> /\ l.key \in Key  BY <1>0 DEF RowsInv, Aiming, Local
  <1>4. CASE Fail(w)  BY <1>0, <1>1, <1>2, <1>4, RowsFail
  <1>5. CASE /\ \A f \in File : PatchOf(w, f) # Refused
             /\ Set(w, [l EXCEPT !.mem = m, !.ret = "op", !.tries = 0,
                                 !.todo = todo, !.any = FALSE])
             /\ Goto(w, label)
    <2>1. ASSUME NEW f \in File PROVE Exact(f, PatchOf(w, f), p, row[p])
      <3>1. live[f] \in Content  BY <1>0
      <3>2. Exact(f, PatchOf(w, f), l.key[1], l.key[2])
        BY <1>3, <1>5, <3>1, PatchExact DEF PatchOf
      <3>3. l.key[1] = p /\ l.key[2] = row[p]  BY <1>3
      <3>4. QED  BY <3>2, <3>3
    <2>2. Writes(m, p, row[p])
      BY <1>0, <1>3, <1>5, <2>1, PlannedFacts DEF Writes
    <2>3. \A f \in File \ todo : Exact(f, live[f], p, row[p])
      BY <1>0, <1>3, <1>5, <2>1, PlannedFacts
    <2> HIDE DEF m, todo
    <2>4. /\ pc'[w] = label
          /\ loc'[w] = [l EXCEPT !.mem = m, !.ret = "op", !.tries = 0,
                                 !.todo = todo, !.any = FALSE]
      BY <1>0, <1>5, GoesTo
    <2>5. /\ loc'[w].mem = m /\ loc'[w].ret = "op" /\ loc'[w].kind = l.kind
          /\ loc'[w].key = l.key /\ loc'[w].provider = l.provider
          /\ loc'[w].oldRow = l.oldRow
      BY <1>0, <2>4 DEF Local
    <2>6. OldRow(w)' = OldRow(w)  BY <1>0, <1>2, <2>4, <2>5 DEF OldRow, Trying, Stored
    <2>7. Holds(OldRow(w))'  BY <1>0, <1>2, <2>6 DEF Holds, Exact
    <2>8. pc'[w] \in {"stage"} \cup Ending /\ pc'[w] \notin Looping
      BY <2>4 DEF Ending, Looping
    <2>9. \A f \in File \ Parts(loc'[w].mem) : Exact(f, live'[f], p, row[p])
      BY <1>0, <2>3, <2>5 DEF todo
    <2>10. QED
      BY <1>0, <1>1, <1>2, <2>2, <2>5, <2>7, <2>8, <2>9, RowsGoOn
  <1>6. QED  BY <1>4, <1>5 DEF Plan

----------------------------------------------------------------------------
(* An operation under way. *)

LEMMA ActingFacts ==
    ASSUME Calm, NEW w \in Writer, Acting(w)
    PROVE  /\ Stored(w) /\ loc[w] \in Local /\ Here /\ Resting /\ RowsInv(w) /\ DiskRows
           /\ Writes(loc[w].mem, loc[w].provider, row[loc[w].provider])
           /\ \A f \in File \ (foreign \cup Parts(loc[w].mem)) :
                Exact(f, live[f], loc[w].provider, row[loc[w].provider])
           /\ loc[w].key = <<loc[w].provider, row[loc[w].provider]>>
           /\ Early(w) => Holds(OldRow(w))
  BY CalmFacts DEF Acting, Aiming, Stored, RowsInv

\* With the same plan, before its first file is written or after.
LEMMA RowsSamePlan ==
    ASSUME Calm, NEW w \in Writer, Acting(w), NEW label, pc'[w] = label,
           label \in {"stage", "intent"} \cup Looping \cup Giving \cup Ending,
           loc'[w].kind = loc[w].kind, loc'[w].ret = loc[w].ret,
           loc'[w].provider = loc[w].provider, loc'[w].oldRow = loc[w].oldRow,
           loc'[w].key = loc[w].key, loc'[w].mem.files = loc[w].mem.files,
           UNCHANGED <<settings, row>>,
           pending' # NoPending => Firm' \/ label \in Looping \cup Giving,
           label \in Looping => loc'[w].mem.published \/ Noops(loc'[w].mem, loc'[w].todo),
           Early(w)' => Early(w) /\ UNCHANGED <<live, foreign>>,
           \A f \in File \ Parts(loc[w].mem) : live'[f] = live[f] /\ (f \in foreign => f \in foreign')
    PROVE  RowsInv(w)'
  <1> DEFINE p == loc[w].provider
  <1>1. Parts(loc'[w].mem) = Parts(loc[w].mem)  BY DEF Parts
  <1>2. Writes(loc'[w].mem, p, row[p])  BY <1>1, ActingFacts DEF Writes
  <1>3. \A f \in File \ (foreign' \cup Parts(loc'[w].mem)) : Exact(f, live'[f], p, row[p])
    BY <1>1, ActingFacts
  <1>4. pc[w] # "idle" /\ pc'[w] # "idle"  BY DEF Acting, Looping, Giving, Ending
  <1>5. OldRow(w)' = OldRow(w)  BY <1>4 DEF OldRow, Trying, Stored
  <1>6. Early(w)' => Holds(OldRow(w))'  BY <1>5, ActingFacts DEF Holds, Exact
  <1>7. loc'[w].ret = "op" /\ Stored(w)  BY DEF Acting, Stored
  <1>8. QED  BY <1>2, <1>3, <1>6, <1>7, RowsGoOn

LEMMA StageRows ==
    ASSUME Calm, NEW w \in Writer, Stage(w) \/ Intent(w)
    PROVE  DiskRows' /\ RowsInv(w)'
  <1> DEFINE l == loc[w]
             p == l.provider
  <1>0. /\ Here /\ Resting /\ pc[w] \in {"stage", "intent"}
        /\ pending = NoPending /\ carried = {} /\ Drafted(w) /\ l.mem # NoPending
        /\ UNCHANGED <<live, foreign, settings, row>>
    BY CalmFacts, RestingFacts DEF Stage, Intent, WriterInv, store, history
  <1>1. Acting(w)  BY <1>0 DEF Acting, Drafted
  <1>2. /\ Stored(w) /\ Holds(OldRow(w)) /\ Writes(l.mem, p, row[p])
        /\ \A f \in File \ (foreign \cup Parts(l.mem)) : Exact(f, live[f], p, row[p])
    BY <1>0, <1>1, ActingFacts DEF Early
  <1>3. ASSUME NEW label \in {"intent", "check"}, Goto(w, label), UNCHANGED loc,
               label = "check" \/ pending' = NoPending
        PROVE  RowsInv(w)'
    <2>1. pc'[w] = label /\ loc'[w] = l  BY <1>0, <1>3, GoesTo
    <2>2. label = "check" => Noops(l.mem, l.todo)  BY <1>0 DEF Drafted, Noops
    <2>3. QED  BY <1>0, <1>1, <1>3, <2>1, <2>2, RowsSamePlan DEF Early, Looping
  <1>4. CASE Fail(w) /\ pending' = pending
    BY <1>0, <1>2, <1>4, RowsFail DEF DiskRows
  <1>5. CASE pending' = pending /\ Goto(w, "intent") /\ UNCHANGED loc
    BY <1>0, <1>3, <1>5 DEF DiskRows
  <1>6. CASE pending' = l.mem /\ carried' = {} /\ Goto(w, "check") /\ UNCHANGED loc
    <2>1. Goal' = p  BY <1>0, <1>1, <1>6, GoalIsProvider DEF Goal
    <2>2. Writes(pending, Goal, row[Goal])'
      BY <1>0, <1>2, <1>6, <2>1 DEF Writes, Exact
    <2>3. DiskRows'  BY <1>0, <1>2, <1>6, <2>1, <2>2 DEF DiskRows, Exact
    <2>4. QED  BY <1>3, <1>6, <2>3
  <1>7. QED  BY <1>4, <1>5, <1>6 DEF Stage, Intent

----------------------------------------------------------------------------
(* The publishing loop. *)

LEMMA LoopRowFacts ==
    ASSUME Calm, NEW w \in Writer, pc[w] \in Looping
    PROVE  /\ Acting(w) /\ Stored(w) /\ loc[w] \in Local /\ Here /\ Resting /\ DiskRows
           /\ loc[w].mem \in Pending /\ loc[w].mem # NoPending
           /\ pending # NoPending /\ Goal = loc[w].provider
           /\ Parts(pending) = Parts(loc[w].mem) /\ pending.pointer = loc[w].mem.pointer
           /\ pending.published = loc[w].mem.published
           /\ loc[w].any => pending.published
           /\ carried # {} => loc[w].any
           /\ loc[w].mem.published \/ Noops(loc[w].mem, loc[w].todo)
           /\ Writes(loc[w].mem, Goal, row[Goal])
  <1>1. Resting /\ Here  BY CalmFacts
  <1>2. Acting(w)  BY <1>1, LoopRestFacts
  <1>3. QED
    BY <1>1, <1>2, ActingFacts, LoopRestFacts, LoopFacts, MarkersAssumption
       DEF InLoop, Announced, RowsInv

\* From one place of the loop to another, or to the end of it.
LEMMA LoopRows ==
    ASSUME Calm, NEW w \in Writer, pc[w] \in Looping, NEW label, Goto(w, label),
           label \in Looping \cup {"abandon", "commit"},
           loc'[w].kind = loc[w].kind, loc'[w].ret = loc[w].ret,
           loc'[w].provider = loc[w].provider, loc'[w].oldRow = loc[w].oldRow,
           loc'[w].key = loc[w].key, loc'[w].mem.files = loc[w].mem.files,
           loc'[w].any \/ (loc'[w].any = loc[w].any /\ UNCHANGED <<live, foreign>>),
           UNCHANGED <<settings, row>>,
           pending' # NoPending, label = "commit" => Firm',
           label \in Looping => loc'[w].mem.published \/ Noops(loc'[w].mem, loc'[w].todo),
           \A f \in File \ Parts(loc[w].mem) : live'[f] = live[f] /\ (f \in foreign => f \in foreign')
    PROVE  RowsInv(w)'
  <1>1. Acting(w) /\ Here  BY LoopRowFacts
  <1>2. pc'[w] = label  BY <1>1, GoesTo
  <1>3. Early(w)' => Early(w) /\ UNCHANGED <<live, foreign>>
    BY <1>2 DEF Early
  <1>4. label \in Looping \cup Giving \cup Ending  BY DEF Giving, Ending
  <1>5. label # "commit" => label \in Looping \cup Giving  BY DEF Giving
  <1>6. QED  BY <1>1, <1>2, <1>3, <1>4, <1>5, RowsSamePlan

LEMMA CheckRows ==
    ASSUME Calm, NEW w \in Writer, CheckSame(w) \/ CheckGiveUp(w) \/ CheckFails(w)
    PROVE  DiskRows' /\ RowsInv(w)'
  <1> DEFINE l == loc[w]
  <1>0. /\ pc[w] = "check" /\ pc[w] \in Looping /\ ~CheckFails(w)
        /\ UNCHANGED <<live, pending, carried, foreign, settings, row>>
    BY DEF Calm, CheckSame, CheckGiveUp, CheckFails, Looping, disk, store, history
  <1>1. /\ DiskRows /\ Here /\ Resting /\ l \in Local /\ pending # NoPending /\ Stored(w)
        /\ l.ret = "op" /\ (l.any => pending.published)
        /\ l.mem.published \/ Noops(l.mem, l.todo)
    BY <1>0, LoopRowFacts DEF Acting
  <1>2. DiskRows'  BY <1>0, <1>1, RowsSame
  <1>3. CASE CheckSame(w)
    <2>1. PICK f \in File : Set(w, [l EXCEPT !.seen = live[f]])  BY <1>3 DEF CheckSame
    <2>2. loc'[w] = [l EXCEPT !.seen = live[f]]  BY <1>1, <2>1, RestingFacts DEF Set
    <2>3. /\ loc'[w].kind = l.kind /\ loc'[w].ret = l.ret /\ loc'[w].provider = l.provider
          /\ loc'[w].oldRow = l.oldRow /\ loc'[w].key = l.key /\ loc'[w].mem = l.mem
          /\ loc'[w].todo = l.todo /\ loc'[w].any = l.any
      BY <1>1, <2>2 DEF Local
    <2>4. \E label \in {"publish", "mark"} : Goto(w, label)  BY <1>3 DEF CheckSame
    <2>5. QED  BY <1>0, <1>1, <1>2, <2>3, <2>4, LoopRows DEF Looping
  <1>4. CASE Fail(w) /\ l.any
    <2>1. Firm' /\ pending' # NoPending  BY <1>0, <1>1, <1>4 DEF Firm
    <2>2. pc[w] # "idle"  BY <1>0
    <2>3. QED  BY <1>0, <1>1, <1>2, <1>4, <2>1, <2>2, RowsFail
  <1>5. CASE Goto(w, "abandon") /\ UNCHANGED loc
    BY <1>0, <1>1, <1>2, <1>5, LoopRows DEF Looping
  <1>6. QED  BY <1>0, <1>3, <1>4, <1>5 DEF CheckGiveUp


\* The plan for one file is made again.
LEMMA AgainRows ==
    ASSUME Calm, NEW w \in Writer, pc[w] = "check", pc'[w] \in {"record", "recordNoop"},
           UNCHANGED <<live, pending, carried, foreign, settings, row>>,
           loc'[w].kind = loc[w].kind, loc'[w].ret = loc[w].ret,
           loc'[w].key = loc[w].key, loc'[w].provider = loc[w].provider,
           loc'[w].oldRow = loc[w].oldRow, loc'[w].any = loc[w].any,
           loc'[w].todo = loc[w].todo, loc'[w].mem.published = loc[w].mem.published,
           Parts(loc'[w].mem) = Parts(loc[w].mem),
           NEW f \in loc[w].todo, PatchOf(w, f) # Refused,
           loc'[w].mem.files[f].planned = PatchOf(w, f),
           \A g \in File \ {f} : loc'[w].mem.files[g] = loc[w].mem.files[g]
    PROVE  DiskRows' /\ RowsInv(w)'
  <1> DEFINE l == loc[w]
             m == loc[w].mem
             p == l.provider
             new == loc'[w]
  <1>0. pc[w] \in Looping /\ pc'[w] \in Looping  BY DEF Looping
  <1>1. /\ Acting(w) /\ DiskRows /\ Resting /\ l \in Local /\ Stored(w) /\ l.ret = "op"
        /\ Writes(m, p, row[p]) /\ l.key = <<p, row[p]>> /\ l.todo \subseteq Parts(m)
        /\ \A g \in File \ (foreign \cup Parts(m)) : Exact(g, live[g], p, row[p])
        /\ Early(w) => Holds(OldRow(w))
        /\ live \in [File -> Content] /\ (m.published \/ Noops(m, l.todo))
    BY <1>0, LoopRowFacts, ActingFacts, CalmFacts DEF Acting
  <1>2. DiskRows'  BY <1>0, <1>1, RowsSame
  <1>3. Exact(f, PatchOf(w, f), p, row[p])
    <2>1. f \in File /\ live[f] \in Content /\ l.key \in Key  BY <1>1 DEF Parts, Local
    <2>2. Exact(f, PatchOf(w, f), l.key[1], l.key[2])
      BY <2>1, PatchExact DEF PatchOf
    <2>3. l.key[1] = p /\ l.key[2] = row[p]  BY <1>1
    <2>4. QED  BY <2>2, <2>3
  <1>4. Writes(new.mem, p, row[p])
    <2>1. SUFFICES ASSUME NEW g \in Parts(m) PROVE Exact(g, new.mem.files[g].planned, p, row[p])
      BY DEF Writes
    <2>2. CASE g = f  BY <1>3, <2>2
    <2>3. CASE g # f  BY <1>1, <2>3 DEF Writes, Parts
    <2>4. QED  BY <2>2, <2>3
  <1>5. new.mem.published \/ Noops(new.mem, new.todo)
    <2>1. \A g \in Parts(m) \ l.todo : g \in File \ {f}  BY DEF Parts
    <2>2. QED  BY <1>1, <2>1 DEF Noops
  <1>6. Early(w)' => Early(w)  BY <1>0 DEF Early
  <1>7. OldRow(w)' = OldRow(w)  BY DEF OldRow, Trying, Stored
  <1>8. Early(w)' => Holds(OldRow(w))'  BY <1>1, <1>6, <1>7 DEF Holds, Exact
  <1>9. \A g \in File \ (foreign' \cup Parts(new.mem)) : Exact(g, live'[g], p, row[p])
    BY <1>1
  <1>10. QED
    BY <1>0, <1>1, <1>2, <1>4, <1>5, <1>8, <1>9, RowsGoOn

LEMMA ReplanRows ==
    ASSUME Calm, NEW w \in Writer, CheckReplan(w) \/ CheckNoop(w)
    PROVE  DiskRows' /\ RowsInv(w)'
  <1> DEFINE l == loc[w]
             new == loc'[w]
  <1>0. Resting /\ Here /\ live \in [File -> Content]  BY CalmFacts
  <1>1. /\ pc[w] = "check" /\ pc'[w] \in {"record", "recordNoop"}
        /\ UNCHANGED <<live, pending, carried, foreign, settings, row>>
        /\ new.kind = l.kind /\ new.ret = l.ret /\ new.key = l.key
        /\ new.provider = l.provider /\ new.oldRow = l.oldRow /\ new.any = l.any
        /\ new.todo = l.todo /\ new.mem.published = l.mem.published
        /\ Parts(new.mem) = Parts(l.mem)
    <2>1. CASE CheckReplan(w)  BY <1>0, <2>1, ReplanFacts
    <2>2. CASE CheckNoop(w)  BY <1>0, <2>2, NoopFacts
    <2>3. QED  BY <2>1, <2>2
  <1>2. PICK f \in l.todo :
          /\ PatchOf(w, f) # Refused /\ new.mem.files[f].planned = PatchOf(w, f)
          /\ \A g \in File \ {f} : new.mem.files[g] = l.mem.files[g]
    <2>1. CASE CheckReplan(w)  BY <1>0, <2>1, ReplanFacts
    <2>2. CASE CheckNoop(w)
      <3>1. PICK f \in l.todo :
              /\ Turn(w, f) /\ PatchOf(w, f) = live[f] /\ new.mem.files[f].planned = live[f]
              /\ \A g \in File \ {f} : new.mem.files[g] = l.mem.files[g]
        BY <1>0, <2>2, NoopFacts
      <3>2. f \in File  BY CalmFacts DEF Parts
      <3>3. PatchOf(w, f) # Refused  BY <1>0, <3>1, <3>2, MarkersAssumption
      <3>4. QED  BY <3>1, <3>3
    <2>3. QED  BY <2>1, <2>2
  <1>3. QED  BY <1>1, <1>2, AgainRows

LEMMA RecordRows ==
    ASSUME Calm, NEW w \in Writer, Record(w) \/ DropOld(w)
    PROVE  DiskRows' /\ RowsInv(w)'
  <1> DEFINE l == loc[w]
             m == loc[w].mem
  <1>0. /\ pc[w] \in {"record", "recordNoop", "dropOld"} /\ pc[w] \in Looping
        /\ UNCHANGED <<live, carried, foreign, settings, row>>
    BY DEF Record, DropOld, Looping, store, history
  <1>1. /\ DiskRows /\ Resting /\ Here /\ l \in Local /\ m # NoPending /\ pending # NoPending
        /\ Parts(pending) = Parts(m) /\ pending.pointer = m.pointer
        /\ pending.published = m.published /\ (l.any => pending.published)
        /\ carried # {} => l.any
        /\ Writes(m, Goal, row[Goal]) /\ (m.published \/ Noops(m, l.todo))
    BY <1>0, LoopRowFacts
  <1>2. CASE Record(w)
    <2>1. PICK f \in File :
            /\ Turn(w, f) /\ pending' = m
            /\ IF pc[w] = "record" THEN Goto(w, "dropOld") /\ UNCHANGED loc
               ELSE /\ Goto(w, Next1(w, l.todo \ {f}))
                    /\ Set(w, [l EXCEPT !.todo = @ \ {f}, !.tries = 0])
      BY <1>2 DEF Calm, Record, Recorded
    <2>2. Goal' = Goal  BY <1>0, <1>1, <2>1 DEF Goal
    <2>3. DiskRows'  BY <1>0, <1>1, <2>1, <2>2, RowsAmended
    <2>4. CASE pc[w] = "record"
      BY <1>0, <1>1, <2>1, <2>3, <2>4, LoopRows DEF Looping
    <2>5. CASE pc[w] = "recordNoop"
      <3>1. loc'[w] = [l EXCEPT !.todo = @ \ {f}, !.tries = 0]
        BY <1>1, <2>1, <2>5, RestingFacts DEF Set
      <3>2. /\ loc'[w].kind = l.kind /\ loc'[w].ret = l.ret /\ loc'[w].provider = l.provider
            /\ loc'[w].oldRow = l.oldRow /\ loc'[w].key = l.key /\ loc'[w].mem = m
            /\ loc'[w].todo = l.todo \ {f} /\ loc'[w].any = l.any
        BY <1>1, <3>1 DEF Local
      <3>3. m.files[f].pre = m.files[f].planned
        BY <1>0, <2>1, <2>5, CalmFacts DEF WriterInv, InLoop
      <3>4. m.published \/ Noops(m, l.todo \ {f})  BY <1>1, <3>3 DEF Noops
      <3>5. Next1(w, l.todo \ {f}) = "commit" => Firm'
        <4>1. Next1(w, l.todo \ {f}) = "commit" => l.todo \ {f} = {}  BY DEF Next1
        <4>2. m.published \/ carried' = {}  BY <1>0, <1>1
        <4>3. QED  BY <2>1, <3>4, <4>1, <4>2 DEF Firm, Noops, Parts
      <3>6. Next1(w, l.todo \ {f}) \in {"commit", "check"}  BY DEF Next1
      <3>7. Goto(w, Next1(w, l.todo \ {f}))  BY <2>1, <2>5
      <3> HIDE DEF m
      <3>8. QED
        BY <1>0, <1>1, <2>1, <2>3, <3>2, <3>4, <3>5, <3>6, <3>7, LoopRows DEF Looping, m
    <2>6. QED  BY <1>2, <2>4, <2>5 DEF Record
  <1>3. CASE DropOld(w)
    <2>1. DiskRows' /\ pending' = pending  BY <1>0, <1>1, <1>3, RowsSame DEF DropOld
    <2>2. loc'[w] = [l EXCEPT !.old = NoTemp] /\ Goto(w, "check")
      BY <1>1, <1>3, RestingFacts DEF DropOld, Set
    <2>3. /\ loc'[w].kind = l.kind /\ loc'[w].ret = l.ret /\ loc'[w].provider = l.provider
          /\ loc'[w].oldRow = l.oldRow /\ loc'[w].key = l.key /\ loc'[w].mem = l.mem
          /\ loc'[w].todo = l.todo /\ loc'[w].any = l.any
      BY <1>1, <2>2 DEF Local
    <2>4. QED  BY <1>0, <1>1, <2>1, <2>2, <2>3, LoopRows DEF Looping
  <1>4. QED  BY <1>2, <1>3

LEMMA MarkRows ==
    ASSUME Calm, NEW w \in Writer, Mark(w)
    PROVE  DiskRows' /\ RowsInv(w)'
  <1> DEFINE l == loc[w]
             m == loc[w].mem
  <1>0. /\ pc[w] = "mark" /\ pc[w] \in Looping
        /\ UNCHANGED <<live, carried, foreign, settings, row>>
    BY DEF Mark, Looping, store, history
  <1>1. /\ DiskRows /\ Resting /\ l \in Local /\ m \in Pending /\ pending # NoPending
        /\ Parts(pending) = Parts(m) /\ pending.pointer = m.pointer
        /\ Writes(m, Goal, row[Goal])
    BY <1>0, LoopRowFacts
  <1>2. loc'[w] = [l EXCEPT !.mem.published = TRUE]  BY <1>1, RestingFacts DEF Mark, Set
  <1>3. /\ loc'[w].kind = l.kind /\ loc'[w].ret = l.ret /\ loc'[w].provider = l.provider
        /\ loc'[w].oldRow = l.oldRow /\ loc'[w].key = l.key /\ loc'[w].any = l.any
        /\ loc'[w].mem = [m EXCEPT !.published = TRUE]
    BY <1>1, <1>2 DEF Local
  <1>4. loc'[w].mem.files = m.files /\ loc'[w].mem.published  BY <1>1, <1>3 DEF Pending
  <1>5. \E label \in {"publish", "abandon"} : Goto(w, label)  BY DEF Mark
  <1>6. CASE pending' = pending
    <2>1. DiskRows'  BY <1>0, <1>1, <1>6, RowsSame
    <2>2. QED  BY <1>0, <1>1, <1>3, <1>4, <1>5, <1>6, <2>1, LoopRows DEF Looping
  <1>7. CASE pending' = [m EXCEPT !.published = TRUE]
    <2>1. pending' # NoPending
      BY <1>1, <1>7, MarkersAssumption DEF Pending
    <2>2. pending'.files = m.files /\ pending'.pointer = m.pointer
      BY <1>1, <1>7 DEF Pending
    <2>3. Parts(pending') = Parts(m) /\ Goal' = Goal  BY <1>0, <1>1, <2>2 DEF Parts, Goal
    <2>4. Writes(pending', Goal, row[Goal])  BY <1>1, <2>2, <2>3 DEF Writes
    <2>5. DiskRows'  BY <1>0, <1>1, <2>3, <2>4, RowsAmended
    <2>6. QED  BY <1>0, <1>1, <1>3, <1>4, <1>5, <2>1, <2>5, LoopRows DEF Looping
  <1>8. QED  BY <1>6, <1>7 DEF Mark, Marked

LEMMA PublishRows ==
    ASSUME Calm, NEW w \in Writer, Publish(w)
    PROVE  DiskRows' /\ RowsInv(w)'
  <1> DEFINE l == loc[w]
             m == loc[w].mem
  <1>0. pc[w] = "publish" /\ pc[w] \in Looping /\ UNCHANGED <<pending, settings, row>>
    BY DEF Publish, Looping, store
  <1>1. /\ DiskRows /\ Resting /\ Here /\ l \in Local /\ pending # NoPending /\ Stored(w)
        /\ pending = m /\ pending.published /\ l.ret = "op" /\ l.todo \subseteq Parts(m)
        /\ live \in [File -> Content]
    BY <1>0, LoopRowFacts, LoopFacts DEF InLoop, Acting
  <1>2. CASE UNCHANGED <<live, tmp, history>> /\ (Fail(w) \/ (Goto(w, "abandon") /\ UNCHANGED loc))
    <2>1. DiskRows'  BY <1>0, <1>1, <1>2, RowsSame DEF history
    <2>2. CASE Fail(w)
      BY <1>0, <1>1, <1>2, <2>1, <2>2, RowsFail DEF history, Firm
    <2>3. CASE Goto(w, "abandon") /\ UNCHANGED loc
      BY <1>0, <1>1, <1>2, <2>1, <2>3, LoopRows DEF history, Looping
    <2>4. QED  BY <1>2, <2>2, <2>3
  <1>3. CASE \E f \in File :
               /\ Turn(w, f) /\ Rename(f, m.files[f])
               /\ Set(w, [l EXCEPT !.todo = @ \ {f}, !.any = TRUE, !.tries = 0])
               /\ Goto(w, Next1(w, l.todo \ {f}))
    <2>1. PICK f \in File :
            /\ Turn(w, f) /\ Rename(f, m.files[f])
            /\ Set(w, [l EXCEPT !.todo = @ \ {f}, !.any = TRUE, !.tries = 0])
            /\ Goto(w, Next1(w, l.todo \ {f}))
      BY <1>3
    <2>2. f \in Parts(m)  BY <1>1, <2>1 DEF Turn
    <2>3. DiskRows'  BY <1>0, <1>1, <2>1, <2>2, RowsRename
    <2>4. loc'[w] = [l EXCEPT !.todo = @ \ {f}, !.any = TRUE, !.tries = 0]
      BY <1>1, <2>1, RestingFacts DEF Set
    <2>5. /\ loc'[w].kind = l.kind /\ loc'[w].ret = l.ret /\ loc'[w].provider = l.provider
          /\ loc'[w].oldRow = l.oldRow /\ loc'[w].key = l.key /\ loc'[w].mem = m
          /\ loc'[w].any = TRUE
      BY <1>1, <2>4 DEF Local
    <2>6. \A g \in File \ {f} : live'[g] = live[g] /\ (g \in foreign => g \in foreign')
      BY <1>1, <2>1 DEF Rename
    <2>7. Next1(w, l.todo \ {f}) \in {"commit", "check"}  BY DEF Next1
    <2>8. QED
      BY <1>0, <1>1, <2>1, <2>2, <2>3, <2>5, <2>6, <2>7, LoopRows DEF Looping, Firm
  <1>4. QED  BY <1>2, <1>3 DEF Publish

LEMMA AbandonRows ==
    ASSUME Calm, NEW w \in Writer, Abandon(w) \/ AbandonClear(w)
    PROVE  DiskRows' /\ RowsInv(w)'
  <1> DEFINE l == loc[w]
  <1>0. /\ DiskRows /\ Here /\ pc[w] \in Giving /\ Announced(w) /\ ~l.any
        /\ UNCHANGED <<live, foreign, settings, row>>
    BY CalmFacts DEF Abandon, AbandonClear, Giving, WriterInv, store, history
  <1>1. Acting(w)  BY <1>0 DEF Acting, Announced, Giving
  <1>2. Early(w) /\ Stored(w) /\ Holds(OldRow(w))
    BY <1>0, <1>1, ActingFacts DEF Early
  <1>3. CASE Abandon(w)
    <2>1. DiskRows' /\ pending' = pending  BY <1>0, <1>3, RowsSame DEF Abandon, history
    <2>2. pc'[w] = "abandonClear" /\ loc'[w] = l  BY <1>0, <1>3, GoesTo DEF Abandon
    <2>3. QED  BY <1>0, <1>1, <1>2, <2>1, <2>2, RowsSamePlan DEF Giving, Looping
  <1>4. CASE AbandonClear(w)
    <2>1. pending' = NoPending /\ Fail(w)
      BY <1>0, <1>4 DEF AbandonClear, Forget, Here, Assumed
    <2>2. DiskRows'  BY <2>1 DEF DiskRows
    <2>3. QED  BY <1>0, <1>2, <2>1, <2>2, RowsFail DEF Giving
  <1>5. QED  BY <1>3, <1>4

LEMMA OperationRows ==
    ASSUME Calm, NEW w \in Writer, Operation(w)
    PROVE  DiskRows' /\ RowsInv(w)'
  BY PlanRowsKept, StageRows, CheckRows, ReplanRows, RecordRows, MarkRows,
     PublishRows, AbandonRows DEF Operation

----------------------------------------------------------------------------
(* Commands, the environment, and all steps together. *)

\* At rest, with the files holding the stored row.
LEMMA RowsIdle ==
    ASSUME NEW w \in Writer, pc'[w] \in {"idle", "lock", "prepare"},
           loc'[w].ret \in {"none", "first", "settle", "startup"},
           loc'[w].ret = "first" => loc'[w].kind # "apply",
           loc'[w].kind = "apply" => loc'[w].provider = settings',
           pc'[w] = "prepare" => loc'[w].ret = "settle" /\ loc'[w].kind = "sync",
           pending' # NoPending => Firm',
           pending' = NoPending => Holds(row[settings])'
    PROVE  RowsInv(w)'
  <1>1. ~Stored(w)' /\ ~Trying(w)' /\ ~Aiming(w)' /\ ~Acting(w)'
    BY DEF Stored, Trying, Aiming, Acting
  <1>2. OldRow(w)' = row'[settings']  BY <1>1 DEF OldRow
  <1>3. Early(w)' => pending' = NoPending  BY DEF Early, Looping, Giving
  <1>4. QED  BY <1>1, <1>2, <1>3 DEF RowsInv, Settled, Looping, Forth

LEMMA PrepareRows ==
    ASSUME Calm, NEW w \in Writer, Prepare(w)
    PROVE  DiskRows' /\ RowsInv(w)'
  <1> DEFINE l == loc[w]
             q == l.provider
             old == row[q]
  <1>0. /\ l \in Local /\ Here /\ RowsInv(w) /\ DiskRows /\ pc[w] = "prepare"
        /\ q \in Provider /\ row \in [Provider -> Row] /\ settings \in Provider
        /\ UNCHANGED <<live, pending, carried, foreign, settings>>
    BY CalmFacts DEF Prepare, Local, disk, history
  <1>1. PICK r \in Row, pointer \in {NoPointer, q} :
          /\ IF l.kind = "apply" THEN r # old ELSE r = old
          /\ row' = [row EXCEPT ![q] = r]
          /\ Set(w, [l EXCEPT !.key = <<q, r>>, !.oldRow = old, !.expect = live,
                              !.pointer = pointer, !.ret = "begin"])
    BY DEF Prepare
  <1> DEFINE key == <<q, r>>
             new == [l EXCEPT !.key = key, !.oldRow = old, !.expect = live,
                              !.pointer = pointer, !.ret = "begin"]
  <1>2. pc'[w] = "lock" /\ loc'[w] = new  BY <1>0, <1>1, GoesTo DEF Prepare
  <1>3. /\ l.kind # "sync" => pending = NoPending
        /\ l.kind = "apply" => q = settings
        /\ pending = NoPending => Holds(OldRow(w))
        /\ OldRow(w) = row[settings]
        /\ pending' # NoPending => Firm'
    BY <1>0, FirmStays DEF RowsInv, Settled, Early, OldRow, Trying, Stored, Looping, Giving
  <1>4. row'[q] = r /\ (l.kind # "apply" => row' = row)  BY <1>0, <1>1
  <1>5. key = <<q, row'[q]>>  BY <1>4
  <1> HIDE DEF key, old
  <1>6. new.key = key /\ new.ret = "begin" /\ new.provider = q /\ new.kind = l.kind
        /\ new.oldRow = old
    BY <1>0 DEF Local
  <1> HIDE DEF new
  <1>7. DiskRows'
    <2>1. CASE pending = NoPending  BY <1>0, <2>1 DEF DiskRows
    <2>2. CASE row' = row  BY <1>0, <2>2, RowsSame
    <2>3. QED  BY <1>3, <1>4, <2>1, <2>2
  <1>8. OldRow(w)' = row[settings]
    BY <1>0, <1>2, <1>3, <1>4, <1>6 DEF OldRow, Trying, Stored, old
  <1>9. Early(w)' => Holds(OldRow(w))'
    BY <1>0, <1>2, <1>3, <1>8 DEF Early, Holds, Exact, Looping, Giving
  <1>10. l.kind # "apply" => old = row'[q]  BY <1>4 DEF old
  <1>11. QED
    BY <1>0, <1>2, <1>3, <1>5, <1>6, <1>7, <1>9, <1>10
       DEF RowsInv, Settled, Stored, Acting, Looping, Giving, Forth

LEMMA RollbackRows ==
    ASSUME Calm, NEW w \in Writer, Rollback(w)
    PROVE  DiskRows' /\ RowsInv(w)'
  <1> DEFINE l == loc[w]
  <1>0. /\ l \in Local /\ Here /\ RowsInv(w) /\ DiskRows /\ pc[w] = "failed"
        /\ row \in [Provider -> Row] /\ settings \in Provider /\ l.provider \in Provider
        /\ UNCHANGED <<live, pending, carried, foreign, settings>>
    BY CalmFacts DEF Rollback, Local, disk, history
  <1>1. pc'[w] = "idle" /\ loc'[w] = Blank  BY <1>0, GoesTo DEF Rollback
  <1>2. Blank.ret = "none" /\ Blank.kind = "none"  BY DEF Blank
  <1>3. /\ pending' # NoPending => Firm'
        /\ pending = NoPending => Holds(OldRow(w))
        /\ Stored(w) /\ (l.kind = "apply" => l.provider = settings)
        /\ l.kind # "apply" => l.oldRow = row[l.provider]
    BY <1>0, FirmStays DEF RowsInv, Early, Trying, Looping, Giving
  <1>4. row' = IF pending = NoPending /\ l.kind # "sync"
               THEN [row EXCEPT ![l.provider] = l.oldRow] ELSE row
    BY DEF Rollback, RolledBack, RestoredRow
  <1>5. DiskRows'
    <2>1. CASE pending = NoPending  BY <1>0, <2>1 DEF DiskRows
    <2>2. CASE pending # NoPending  BY <1>0, <1>4, <2>2, RowsSame
    <2>3. QED  BY <2>1, <2>2
  <1>6. ASSUME pending' = NoPending PROVE Holds(row[settings])'
    <2>1. pending = NoPending /\ Holds(OldRow(w))  BY <1>0, <1>3, <1>6
    <2>2. row'[settings] = OldRow(w)
      <3>1. CASE l.kind = "apply"
        BY <1>0, <1>3, <1>4, <2>1, <3>1 DEF OldRow, Trying
      <3>2. CASE l.kind # "apply"
        <4>1. row' = row  BY <1>0, <1>3, <1>4, <3>2
        <4>2. QED  BY <3>2, <4>1 DEF OldRow, Trying
      <3>3. QED  BY <3>1, <3>2
    <2>3. QED  BY <1>0, <2>1, <2>2 DEF Holds, Exact
  <1>7. QED  BY <1>0, <1>1, <1>2, <1>3, <1>5, <1>6, RowsIdle

LEMMA CommandRows ==
    ASSUME Calm, NEW w \in Writer,
           Begin(w) \/ Adopt(w) \/ Restart(w) \/ Lock(w)
    PROVE  DiskRows' /\ RowsInv(w)'
  <1> DEFINE l == loc[w]
  <1>0. /\ l \in Local /\ Here /\ AimInv(w) /\ RowsInv(w) /\ WriterInv(w) /\ DiskRows
        /\ UNCHANGED <<live, pending, carried, foreign, row>>
    BY CalmFacts DEF Begin, Adopt, Restart, Lock, disk, store, history
  <1>1. settings' = settings
    BY <1>0 DEF Begin, Adopt, Restart, Lock, store, AimInv
  <1>2. DiskRows'  BY <1>0, <1>1, RowsSame
  <1>3. pc[w] \in {"idle", "lock", "adopt"}
    BY <1>0 DEF Begin, Adopt, Restart, Lock, Here, DownInv
  <1>4. pending' # NoPending => Firm'
    BY <1>0, <1>3, FirmStays DEF RowsInv, Looping, Giving
  <1>5. pc[w] # "lock" /\ pending = NoPending => Holds(row[settings])'
    BY <1>0, <1>1, <1>3 DEF RowsInv, Early, OldRow, Trying, Holds, Exact
  <1>6. Blank \in Local /\ Blank.ret = "none" /\ Blank.kind = "none"
    BY BlankGood DEF Good, Blank
  <1>7. CASE Begin(w)
    <2>1. PICK k \in Kinds, p \in Provider :
            /\ k # "switch" => p = settings
            /\ Set(w, [Blank EXCEPT !.kind = k, !.op = ops + 1, !.provider = p,
                                    !.ret = IF k = "switch" THEN "first" ELSE "settle"])
            /\ Goto(w, IF k = "sync" THEN "prepare" ELSE "lock")
      BY <1>7 DEF Begin
    <2> DEFINE first == IF k = "switch" THEN "first" ELSE "settle"
               op == ops + 1
               new == [Blank EXCEPT !.kind = k, !.op = op, !.provider = p, !.ret = first]
    <2>2. /\ pc'[w] = (IF k = "sync" THEN "prepare" ELSE "lock") /\ loc'[w] = new
      BY <1>0, <2>1, GoesTo
    <2>3. /\ first \in {"first", "settle"}
          /\ first = "first" => k = "switch"
          /\ k = "sync" => first = "settle"
      OBVIOUS
    <2> HIDE DEF first, op
    <2>4. new.kind = k /\ new.provider = p /\ new.ret = first  BY <1>6 DEF Local
    <2> HIDE DEF new
    <2>5. pc[w] # "lock"  BY <1>7 DEF Begin
    <2>6. QED
      BY <1>0, <1>1, <1>2, <1>4, <1>5, <2>1, <2>2, <2>3, <2>4, <2>5, RowsIdle
  <1>8. CASE Adopt(w)
    <2>1. pc'[w] = "idle" /\ loc'[w] = Blank /\ pc[w] # "lock"
      BY <1>0, <1>8, GoesTo DEF Adopt
    <2>2. QED  BY <1>0, <1>2, <1>4, <1>5, <1>6, <2>1, RowsIdle
  <1>9. CASE Restart(w)
    <2>1. pc'[w] = "lock" /\ loc'[w] = [Blank EXCEPT !.ret = "startup"]
      BY <1>0, <1>9, CalmFacts, RestingFacts DEF Restart, Set
    <2>2. loc'[w].ret = "startup" /\ loc'[w].kind = "none"  BY <1>6, <2>1 DEF Local
    <2>3. pc[w] # "lock"  BY <1>0, <1>9 DEF Restart, Here, DownInv
    <2>4. QED  BY <1>0, <1>2, <1>4, <1>5, <2>1, <2>2, <2>3, RowsIdle
  <1>10. CASE Lock(w)
    <2>1. pc[w] = "lock" /\ pc'[w] = "recover" /\ loc'[w] = l
      BY <1>10, CalmFacts, RestingFacts DEF Lock
    <2>2. l.ret # "op" /\ l.ret # "run"
      BY <1>0, <2>1 DEF WriterInv, AimInv, Started
    <2>3. Aiming(w)' => Aiming(w)  BY <2>1, <2>2 DEF Aiming, Acting
    <2>4. ~Acting(w)' /\ OldRow(w)' = OldRow(w)
      BY <1>0, <1>1, <2>1, <2>2 DEF Acting, OldRow, Trying, Stored
    <2>5. Early(w)' => Holds(OldRow(w))'
      BY <1>0, <1>1, <2>1, <2>4 DEF RowsInv, Early, Holds, Exact, Looping, Giving
    <2>6. QED
      BY <1>0, <1>1, <1>2, <1>4, <2>1, <2>3, <2>4, <2>5
         DEF RowsInv, Settled, Trying, Stored, Looping, Forth
  <1>11. QED  BY <1>7, <1>8, <1>9, <1>10

\* Nobody moves, while the client may change a file.
LEMMA RowsStay ==
    ASSUME Calm, UNCHANGED <<pending, carried, settings, row, pc, loc>>,
           foreign \subseteq foreign', \A f \in File \ foreign' : live'[f] = live[f]
    PROVE  DiskRows' /\ \A w \in Writer : RowsInv(w)'
  <1>1. DiskRows  BY DEF Calm
  <1>2. Goal' = Goal  BY DEF Goal
  <1>3. DiskRows'  BY <1>1, <1>2 DEF DiskRows, Writes, Parts, Exact
  <1>4. ASSUME NEW w \in Writer PROVE RowsInv(w)'
    <2>1. RowsInv(w)  BY DEF Calm
    <2>2. Early(w)' = Early(w) /\ OldRow(w)' = OldRow(w)
      BY DEF Early, OldRow, Trying, Stored
    <2>3. Early(w)' => Holds(OldRow(w))'  BY <2>1, <2>2 DEF RowsInv, Holds, Exact
    <2>4. Aiming(w)' = Aiming(w) /\ Acting(w)' = Acting(w)  BY DEF Aiming, Acting
    <2>5. Acting(w)' =>
            /\ Writes(loc[w].mem, loc[w].provider, row[loc[w].provider])'
            /\ \A f \in File \ (foreign' \cup Parts(loc'[w].mem)) :
                 Exact(f, live'[f], loc'[w].provider, row'[loc'[w].provider])
      BY <2>1, <2>4 DEF RowsInv, Writes, Parts, Exact
    <2>6. Firm' = Firm /\ Noops(loc[w].mem, loc[w].todo)' = Noops(loc[w].mem, loc[w].todo)
      BY DEF Firm, Noops, Parts
    <2>7. QED
      BY <2>1, <2>3, <2>4, <2>5, <2>6 DEF RowsInv, Settled, Trying, Stored, Exact
  <1>5. QED  BY <1>3, <1>4

LEMMA RowsNext ==
    ASSUME Calm, [Next]_vars, crashes' = crashes
    PROVE  DiskRows' /\ \A w \in Writer : RowsInv(w)'
  <1>1. CASE UNCHANGED vars
    <2>1. UNCHANGED <<live, pending, carried, foreign, settings, row, pc, loc>>
      BY <1>1 DEF vars, disk, store, history
    <2>2. QED  BY <2>1, RowsStay
  <1>2. ASSUME NEW f \in File, Edit(f) PROVE DiskRows' /\ \A w \in Writer : RowsInv(w)'
    <2>1. live \in [File -> Content]  BY DEF Calm, Resting, Here, Inv, Disk
    <2>2. /\ \A g \in File \ {f} : live'[g] = live[g]
          /\ foreign' = foreign \cup {f}
          /\ UNCHANGED <<pending, carried, settings, row, pc, loc>>
      BY <1>2, <2>1 DEF Edit, store
    <2>3. QED  BY <2>2, RowsStay
  <1>3. ASSUME NEW w \in Writer, Begin(w) \/ Step(w) \/ Restart(w)
        PROVE  DiskRows' /\ \A v \in Writer : RowsInv(v)'
    <2>1. DiskRows' /\ RowsInv(w)'
      BY <1>3, RecoverRows, ForwardRows, ClearRows, CommitRows, OperationRows,
         PrepareRows, RollbackRows, CommandRows DEF Step, Recovery
    <2>2. \A v \in Writer : v = w  BY DEF Calm, Resting, Alone
    <2>3. QED  BY <2>1, <2>2
  <1>4. ASSUME NEW p \in Process, Crash(p) PROVE FALSE
    BY <1>4, BoundsAssumption DEF Crash, Calm, Resting, Here, Inv, Disk
  <1>5. QED  BY <1>1, <1>2, <1>3, <1>4 DEF Next

AlwaysRows == crashes = 0 => DiskRows /\ \A w \in Writer : RowsInv(w)

(* With one thread giving commands, as long as the process has not died: a  *)
(* command that failed keeps the stored row exactly when its operation will *)
(* be completed, so that at rest the files hold the stored row.             *)
THEOREM RestsOnRow ==
    ASSUME Assumed, Alone, "loop" \notin Faults, Writer # {}
    PROVE  Spec => []RowMatchesFiles
  <1> DEFINE Rest == FilesInv /\ \A w \in Writer : AimInv(w)
  <1>1. Init => Rest /\ AlwaysRows
    <2> SUFFICES ASSUME Init PROVE AlwaysRows
      BY RestInit
    <2>1. \A w \in Writer : pc[w] = "idle" /\ loc[w] = Blank  BY DEF Init
    <2>2. Blank.ret = "none" /\ Blank.kind = "none"  BY DEF Blank
    <2>3. ASSUME NEW f \in File PROVE Exact(f, live[f], settings, row[settings])
      <3> DEFINE key == <<FirstProvider, FirstRow>>
                 c == [key |-> key, user |-> 0]
      <3>1. live[f] = IF f \in Guarded /\ FirstProvider \in Deleting THEN Absent ELSE c
        BY DEF Init, Whole
      <3>2. c \in [key : Key \cup {NoKey}, user : User] /\ c.key = key
        BY InitialAssumption DEF Key
      <3>3. settings = FirstProvider /\ row[settings] = FirstRow
        BY InitialAssumption DEF Init
      <3>4. c \notin {Absent, Broken}  BY <3>2, MarkersAssumption
      <3>5. QED  BY <3>1, <3>2, <3>3, <3>4 DEF Exact
    <2>4. pending = NoPending  BY DEF Init
    <2>5. ASSUME NEW w \in Writer PROVE RowsInv(w)
      BY <2>1, <2>2, <2>3, <2>4
         DEF RowsInv, OldRow, Holds, Settled, Trying, Stored, Aiming, Acting, Looping, Forth
    <2>6. QED  BY <2>4, <2>5 DEF AlwaysRows, DiskRows
  <1>2. ASSUME Here, Rest, AlwaysRows, [Next]_vars PROVE Rest' /\ AlwaysRows'
    <2>1. Resting  BY <1>2 DEF Resting
    <2>2. Rest'  BY <1>2, <2>1, StepRests
    <2>3. ASSUME crashes' = 0 PROVE DiskRows' /\ \A w \in Writer : RowsInv(w)'
      <3>1. crashes \in Nat  BY <1>2, BoundsAssumption DEF Here, Inv, Disk
      <3>2. crashes' = crashes \/ crashes' = crashes + 1
        BY <1>2 DEF Next, vars, bounds, Begin, Step, Recovery, Operation, Restart, Crash, Edit,
           Lock, RecoverNothing, RecoverDecide, Discard, DiscardClear, ForwardSkip,
           ForwardRead, ForwardPublish, ForwardDone, Tidy, Plan, Stage, Intent, CheckSame,
           CheckGiveUp, CheckNoop, CheckReplan, CheckFails, Record, DropOld, Mark, Publish,
           Abandon, AbandonClear, Prepare, Rollback, Commit, CommitDb, Clear, Adopt
      <3>3. crashes' = crashes  BY <2>3, <3>1, <3>2
      <3>4. Calm  BY <1>2, <2>1, <2>3, <3>3 DEF Calm, AlwaysRows
      <3>5. QED  BY <1>2, <3>3, <3>4, RowsNext
    <2>4. QED  BY <2>2, <2>3 DEF AlwaysRows
  <1>3. ASSUME AlwaysRows, Here PROVE RowMatchesFiles
    <2>1. SUFFICES ASSUME Quiet, crashes = 0, NEW f \in File \ foreign
                   PROVE  Carries(f, settings, {row[settings]})
      BY DEF RowMatchesFiles
    <2>2. PICK w \in Writer : TRUE  OBVIOUS
    <2>3. RowsInv(w) /\ pending = NoPending /\ pc[w] = "idle"
      BY <1>3, <2>1 DEF AlwaysRows, Quiet
    <2>4. Holds(row[settings])  BY <2>3 DEF RowsInv, Early, OldRow, Trying
    <2>5. QED  BY <2>1, <2>4 DEF Holds, Exact, Carries
  <1>4. QED
    BY <1>1, <1>2, <1>3, AlwaysHere, PTL DEF Spec
====
