--------------------------- MODULE TakeoverProofs ---------------------------
(***************************************************************************)
(* For any number of providers and command processes: the invariants of    *)
(* Takeover.  The argument follows the two histories.  As long as no       *)
(* overlap is on record, an operation that runs is alone, so what it read  *)
(* when it began still holds at each of its steps (Knows); a disable or a  *)
(* recovery that is alone ends clean from any state, and every other       *)
(* operation keeps clean what it found clean (Keeps).                      *)
(***************************************************************************)
EXTENDS Takeover, TLAPS

\* Which actor is where, and what it carries.
Placed ==
    /\ \A a \in Actors : op[a].pc \in {"select", "refresh", "detect"} => a = Worker
    /\ op[Worker].pc \in {"idle", "select", "refresh", "detect", "base", "write"} /\ ~op[Worker].auto
    /\ \A a \in Actors : op[a].pc = "writeTaken" => op[a].content \in Content /\ op[a].content.taken

\* An operation runs alone unless an overlap is on record.
Apart ==
    /\ \A a, b \in Actors : op[a].alone => Busy(a) /\ (a # b => ~Busy(b))
    /\ "overlap" \notin upset => \A a \in Actors : Busy(a) => op[a].alone
    /\ ~drift => upset = {}

\* Row, backup and file agree; the file and the backup have the pointer's content.
Clean   == /\ live.taken = row.enabled
           /\ (backup # NoBackup) = row.enabled
           /\ row.auto => row.enabled
Follows == /\ live.of = pointer
           /\ backup # NoBackup => backup.of = pointer

AtRestOK == AtRest => (upset = {} => Clean) /\ (~drift => Follows)

\* What an operation that has run alone so far knows of the shared state.
Knows(o) ==
    /\ o.pc \in Guarded => o.row = row
    /\ o.pc \in {"saveBackup", "reconcile"} => o.has = (backup # NoBackup)
    /\ o.pc \in {"reconcile", "restore"} => o.taken = live.taken
    /\ o.pc \in {"writeTaken", "setEnabled", "detect", "base", "write"} => backup # NoBackup
    /\ o.pc = "setEnabled" => live.taken
    /\ o.pc = "delete" => /\ live.taken => o.taken
                          /\ "overlap" \notin upset => ~live.taken
    /\ o.pc \in {"direct", "clear"} => backup = NoBackup
    /\ o.pc = "clear" => ~live.taken

\* What it keeps clean, if it found the application at rest.
Keeps(a, o) ==
    upset = {} =>
        /\ o.pc \notin Enabling \cup Restoring => Clean
        /\ o.pc = "commit" => ~row.enabled
        /\ o.pc \in Switching \cup {"autoBase", "refresh", "detect"} => row.enabled
        /\ o.pc = "pointer" => o.has
        /\ o.auto => row.enabled
        /\ o.pc = "autoWrite" => o.row.enabled = row.enabled /\ (o.row.auto => o.row.enabled)
        /\ o.pc = "select" => o.has = row.enabled
        /\ a # Worker /\ o.pc \in {"backup", "base", "write"} => pointer = o.target
        /\ a # Worker /\ o.pc \in {"base", "write"} => backup.of = o.target

Tracks(a, o) ==
    /\ ~drift /\ o.pc \notin {"backup", "base", "write"} => Follows
    /\ ~drift /\ o.pc = "writeTaken" => o.content.of = pointer
    /\ a = Worker /\ o.pc \in {"refresh", "detect", "base", "write"} => drift

Informed(a) == Knows(op[a]) /\ Keeps(a, op[a]) /\ Tracks(a, op[a])

AloneOK == \A a \in Actors : op[a].alone => Informed(a)

IInv == TypeOK /\ Placed /\ Apart /\ TakenIsSaved /\ AtRestOK /\ AloneOK

----------------------------------------------------------------------------
(* Beginning an operation, and going on with one *)

LEMMA IdleType == ASSUME pointer \in Providers PROVE Idle \in Op
  BY DEF Idle, Op, Off, Row, Labels

LEMMA InitIInv == Init => IInv
  <1> SUFFICES ASSUME Init PROVE IInv  OBVIOUS
  <1>1. Idle \in Op  BY IdleType DEF Init
  <1>2. live \in Content /\ live.taken = FALSE /\ live.of = pointer /\ row.enabled = FALSE /\ row.auto = FALSE
    BY DEF Init, Direct, Content, Off
  <1>3. \A a \in Actors : op[a] = Idle  BY DEF Init
  <1>4. Idle.pc = "idle" /\ ~Idle.alone /\ ~Idle.auto  BY DEF Idle
  <1>5. TypeOK  BY <1>1, <1>2 DEF Init, TypeOK, Row, Off, Saved
  <1>6. Placed /\ Apart  BY <1>3, <1>4 DEF Init, Placed, Apart, Busy, Actors
  <1>7. TakenIsSaved /\ AtRestOK  BY <1>2 DEF Init, TakenIsSaved, AtRestOK, Clean, Follows
  <1>8. AloneOK  BY <1>3, <1>4 DEF AloneOK
  <1>9. QED  BY <1>5, <1>6, <1>7, <1>8 DEF IInv

Shared == <<pointer, row, backup, live, worker>>

\* Where a process may be, and with what.
MayBe(a, o) ==
    /\ o.pc \in {"select", "refresh", "detect"} => a = Worker
    /\ a = Worker => o.pc \in {"idle", "select", "refresh", "detect", "base", "write"} /\ ~o.auto
    /\ o.pc = "writeTaken" => o.content \in Content /\ o.content.taken

\* An operation that begins knows what it must, if it finds nothing running.
LEMMA Begins ==
    ASSUME IInv, NEW a \in Actors, NEW start \in Op, start.pc # "idle", MayBe(a, start),
           Begin(a, start), UNCHANGED Shared,
           AtRest => Knows(start) /\ Keeps(a, start) /\ Tracks(a, start)
    PROVE  IInv'
  <1>1. op' \in [Actors -> Op] /\ op'[a] = [start EXCEPT !.alone = ~Others(a)]
        /\ \A b \in Actors \ {a} : op'[b] = [op[b] EXCEPT !.alone = FALSE]
    BY DEF IInv, TypeOK, Begin, Op
  <1>2. TypeOK'  BY <1>1 DEF IInv, TypeOK, Begin, Shared
  <1>3. Placed'
    <2>1. \A b \in Actors : /\ op'[b].pc = IF b = a THEN start.pc ELSE op[b].pc
                            /\ op'[b].auto = IF b = a THEN start.auto ELSE op[b].auto
                            /\ op'[b].content = IF b = a THEN start.content ELSE op[b].content
      BY <1>1 DEF IInv, TypeOK, Op
    <2>2. QED  BY <2>1 DEF IInv, Placed, MayBe, Actors
  <1>4. Apart'  BY <1>1 DEF IInv, TypeOK, Apart, Begin, Others, Busy, Op
  <1>5. TakenIsSaved'  BY DEF IInv, TakenIsSaved, Begin, Shared
  <1>6. AtRestOK'  BY <1>1 DEF IInv, TypeOK, AtRestOK, AtRest, Busy, Op
  <1>7. ASSUME NEW b \in Actors, op'[b].alone PROVE Informed(b)'
    <2>1. b = a /\ ~Others(a)  BY <1>1, <1>7 DEF IInv, TypeOK, Op
    <2>2. AtRest /\ upset' = upset /\ drift' = drift  BY <2>1 DEF AtRest, Others, Begin,
                                        IInv, TypeOK
    <2>3. Knows(start) /\ Keeps(a, start) /\ Tracks(a, start)  BY <2>2
    <2> DEFINE o == op'[a]
    <2>4. /\ o.pc = start.pc /\ o.row = start.row /\ o.has = start.has /\ o.taken = start.taken
          /\ o.target = start.target /\ o.auto = start.auto /\ o.content = start.content
      BY <1>1 DEF Op
    <2>5. Knows(op[b])'  BY <2>1, <2>2, <2>3, <2>4 DEF Knows, Shared
    <2>6. Keeps(b, op[b])'  BY <2>1, <2>2, <2>3, <2>4 DEF Keeps, Clean, Shared
    <2>7. Tracks(b, op[b])'  BY <2>1, <2>2, <2>3, <2>4 DEF Tracks, Follows, Shared
    <2>8. QED  BY <2>5, <2>6, <2>7 DEF Informed
  <1>8. QED  BY <1>2, <1>3, <1>4, <1>5, <1>6, <1>7 DEF IInv, AloneOK

\* A step that leaves `upset' alone preserves the invariant if it does so for
\* an operation that is alone.
LEMMA Moves ==
    ASSUME IInv, NEW a \in Actors, Busy(a), NEW next \in Op, Becomes(a, next), MayBe(a, next),
           next = Idle \/ (next.pc # "idle" /\ next.alone = op[a].alone),
           (pointer \in Providers /\ row \in Row /\ backup \in Saved /\ live \in Content /\ worker \in BOOLEAN)',
           upset' = upset,
           drift' \in {drift, TRUE} \/ (drift' = FALSE /\ op[a].alone /\ upset = {}),
           TakenIsSaved',
           op[a].alone /\ next.pc # "idle" => Informed(a)',
           op[a].alone /\ next = Idle => (upset = {} => Clean)' /\ (~drift => Follows)'
    PROVE  IInv'
  <1>1. op' \in [Actors -> Op] /\ op'[a] = next /\ \A b \in Actors \ {a} : op'[b] = op[b]
    BY DEF IInv, TypeOK, Becomes
  <1>2. Idle.pc = "idle" /\ ~Idle.alone  BY DEF Idle
  <1>3. TypeOK'  BY <1>1 DEF IInv, TypeOK
  <1>4. Placed'  BY <1>1 DEF IInv, Placed, MayBe, Actors
  <1>5. Apart'  BY <1>1, <1>2 DEF IInv, TypeOK, Apart, Busy
  <1>6. ASSUME AtRest' PROVE (upset = {} => Clean)' /\ (~drift => Follows)'
    <2>1. next.pc = "idle" /\ next = Idle  BY <1>1, <1>6 DEF AtRest, Busy
    <2>2. CASE op[a].alone  BY <2>1, <2>2
    <2>3. CASE ~op[a].alone  BY <2>3 DEF IInv, TypeOK, Apart
    <2>4. QED  BY <2>2, <2>3
  <1>7. AtRestOK'  BY <1>6 DEF AtRestOK
  <1>8. AloneOK'
    <2>1. ASSUME NEW b \in Actors, op'[b].alone PROVE b = a /\ op[a].alone /\ next.pc # "idle"
      BY <1>1, <1>2, <2>1 DEF IInv, Apart
    <2>2. QED  BY <2>1 DEF AloneOK
  <1>9. QED  BY <1>3, <1>4, <1>5, <1>7, <1>8 DEF IInv

----------------------------------------------------------------------------
(* The steps of an operation *)

LEMMA SaveBackupMoves == ASSUME IInv, NEW a \in Actors, SaveBackup(a) PROVE IInv'
  <1> DEFINE next == [op[a] EXCEPT !.pc = "writeTaken", !.content = Taken(live.of)]
  <1>1. Busy(a) /\ Becomes(a, next)  BY DEF SaveBackup, GoTo, Busy
  <1>2. op[a] \in Op /\ op[a].pc = "saveBackup"  BY DEF IInv, TypeOK, SaveBackup, GoTo
  <1>3. next \in Op /\ MayBe(a, next) /\ next.pc # "idle" /\ next.alone = op[a].alone
    BY <1>2 DEF IInv, TypeOK, Placed, MayBe, Op, Labels, Guarded, Enabling, Restoring,
       Switching, Content, Taken
  <1>4. op[a].alone => Informed(a)  BY DEF IInv, AloneOK
  <1>5. "overlap" \notin upset => op[a].alone  BY <1>1 DEF IInv, Apart
  <1>6. (/\ pointer \in Providers /\ row \in Row /\ backup \in Saved
         /\ live \in Content /\ worker \in BOOLEAN)'
    BY <1>2 DEF IInv, TypeOK, SaveBackup, Saved
  <1>7. TakenIsSaved'
    BY <1>2, <1>4, <1>5, NotContentAssumption DEF IInv, TypeOK, TakenIsSaved, Informed,
       Knows, SaveBackup
  <1>8. op'[a] = next  BY <1>1 DEF Becomes, IInv, TypeOK
  <1>9. ASSUME op[a].alone PROVE Informed(a)'
    <2>1. Knows(op[a])'
      BY <1>2, <1>4, <1>5, <1>8, <1>9, NotContentAssumption DEF IInv, TypeOK, TakenIsSaved,
         Op, Informed, Knows, SaveBackup, Guarded, Enabling, Restoring, Content, Taken
    <2>2. Keeps(a, op[a])'
      BY <1>2, <1>4, <1>8, <1>9, NotContentAssumption DEF IInv, TypeOK, Op, Informed,
         Knows, Keeps, Clean, SaveBackup, Enabling, Restoring, Switching, Content, Taken
    <2>3. Tracks(a, op[a])'
      BY <1>2, <1>4, <1>8, <1>9, NotContentAssumption DEF IInv, TypeOK, Placed, Op,
         Informed, Knows, Keeps, Tracks, Follows, SaveBackup, Content, Taken
    <2>4. QED  BY <2>1, <2>2, <2>3 DEF Informed
  <1>10. upset' = upset /\ drift' = drift /\ next # Idle  BY <1>3 DEF SaveBackup, Idle
  <1> HIDE DEF next
  <1>11. QED  BY <1>1, <1>3, <1>6, <1>7, <1>9, <1>10, Moves

LEMMA WriteTakenMoves == ASSUME IInv, NEW a \in Actors, WriteTaken(a) PROVE IInv'
  <1> DEFINE next == [op[a] EXCEPT !.pc = "setEnabled"]
  <1>1. Busy(a) /\ Becomes(a, next)  BY DEF WriteTaken, GoTo, Busy
  <1>2. op[a] \in Op /\ op[a].pc = "writeTaken"  BY DEF IInv, TypeOK, WriteTaken, GoTo
  <1>3. next \in Op /\ MayBe(a, next) /\ next.pc # "idle" /\ next.alone = op[a].alone
    BY <1>2 DEF IInv, TypeOK, Placed, MayBe, Op, Labels, Guarded, Enabling, Restoring,
       Switching
  <1>4. op[a].alone => Informed(a)  BY DEF IInv, AloneOK
  <1>5. "overlap" \notin upset => op[a].alone  BY <1>1 DEF IInv, Apart
  <1>6. (/\ pointer \in Providers /\ row \in Row /\ backup \in Saved
         /\ live \in Content /\ worker \in BOOLEAN)'
    BY <1>2 DEF IInv, TypeOK, WriteTaken, Placed
  <1>7. TakenIsSaved'
    BY <1>2, <1>4, <1>5, NotContentAssumption DEF IInv, TypeOK, TakenIsSaved, Informed,
       Knows, WriteTaken, Placed
  <1>8. op'[a] = next  BY <1>1 DEF Becomes, IInv, TypeOK
  <1>9. ASSUME op[a].alone PROVE Informed(a)'
    <2>1. Knows(op[a])'
      BY <1>2, <1>4, <1>5, <1>8, <1>9, NotContentAssumption DEF IInv, TypeOK, TakenIsSaved,
         Op, Informed, Knows, WriteTaken, Guarded, Enabling, Restoring, Placed
    <2>2. Keeps(a, op[a])'
      BY <1>2, <1>4, <1>8, <1>9, NotContentAssumption DEF IInv, TypeOK, Op, Informed,
         Knows, Keeps, Clean, WriteTaken, Enabling, Restoring, Switching, Placed
    <2>3. Tracks(a, op[a])'
      BY <1>2, <1>4, <1>8, <1>9, NotContentAssumption DEF IInv, TypeOK, Placed, Op,
         Informed, Knows, Keeps, Tracks, Follows, WriteTaken, Placed
    <2>4. QED  BY <2>1, <2>2, <2>3 DEF Informed
  <1>10. upset' = upset /\ drift' = drift /\ next # Idle  BY <1>3 DEF WriteTaken, Idle
  <1> HIDE DEF next
  <1>11. QED  BY <1>1, <1>3, <1>6, <1>7, <1>9, <1>10, Moves

LEMMA SetEnabledMoves == ASSUME IInv, NEW a \in Actors, SetEnabled(a) PROVE IInv'
  <1>1. Busy(a) /\ Becomes(a, Idle)  BY DEF SetEnabled, Ends, Busy
  <1>2. op[a] \in Op /\ op[a].pc = "setEnabled"  BY DEF IInv, TypeOK, SetEnabled, Ends
  <1>3. Idle \in Op /\ MayBe(a, Idle) /\ Idle.pc = "idle"  BY IdleType DEF IInv, TypeOK,
                                        MayBe, Idle
  <1>4. op[a].alone => Informed(a)  BY DEF IInv, AloneOK
  <1>5. "overlap" \notin upset => op[a].alone  BY <1>1 DEF IInv, Apart
  <1>6. (/\ pointer \in Providers /\ row \in Row /\ backup \in Saved
         /\ live \in Content /\ worker \in BOOLEAN)'
    BY <1>2 DEF IInv, TypeOK, SetEnabled, Ends, Row, Op
  <1>7. TakenIsSaved'
    BY <1>2, <1>4, <1>5, NotContentAssumption DEF IInv, TypeOK, TakenIsSaved, Informed,
       Knows, SetEnabled
  <1>8. ASSUME op[a].alone PROVE (upset = {} => Clean)' /\ (~drift => Follows)'
    BY <1>2, <1>4, <1>8, NotContentAssumption DEF IInv, TypeOK, Informed, Knows, Keeps,
       Tracks, Clean, Follows, SetEnabled, Row, Op, Guarded, Enabling
  <1>9. QED  BY <1>1, <1>3, <1>6, <1>7, <1>8, Moves DEF SetEnabled

LEMMA ReconcileMoves == ASSUME IInv, NEW a \in Actors, Reconcile(a) PROVE IInv'
  <1>1. Busy(a) /\ Becomes(a, Idle)  BY DEF Reconcile, Ends, Busy
  <1>2. op[a] \in Op /\ op[a].pc = "reconcile"  BY DEF IInv, TypeOK, Reconcile, Ends
  <1>3. Idle \in Op /\ MayBe(a, Idle) /\ Idle.pc = "idle"  BY IdleType DEF IInv, TypeOK,
                                        MayBe, Idle
  <1>4. op[a].alone => Informed(a)  BY DEF IInv, AloneOK
  <1>5. "overlap" \notin upset => op[a].alone  BY <1>1 DEF IInv, Apart
  <1>6. (/\ pointer \in Providers /\ row \in Row /\ backup \in Saved
         /\ live \in Content /\ worker \in BOOLEAN)'
    BY <1>2 DEF IInv, TypeOK, Reconcile, Row, Op
  <1>7. TakenIsSaved'
    BY <1>2, <1>4, <1>5, NotContentAssumption DEF IInv, TypeOK, TakenIsSaved, Informed,
       Knows, Reconcile
  <1>8. ASSUME op[a].alone PROVE (upset = {} => Clean)' /\ (~drift => Follows)'
    BY <1>2, <1>4, <1>8, NotContentAssumption DEF IInv, TypeOK, Informed, Knows, Keeps,
       Tracks, Clean, Follows, Reconcile, Row, Op, Guarded, Enabling, Restoring
  <1>9. QED  BY <1>1, <1>3, <1>6, <1>7, <1>8, Moves DEF Reconcile

LEMMA RestoreMoves == ASSUME IInv, NEW a \in Actors, Restore(a) PROVE IInv'
  <1> DEFINE next == [op[a] EXCEPT !.pc = "delete", !.taken = @ /\ ~(backup # NoBackup /\ ~backup.taken)]
  <1>1. Busy(a) /\ Becomes(a, next)  BY DEF Restore, GoTo, Busy
  <1>2. op[a] \in Op /\ op[a].pc = "restore"  BY DEF IInv, TypeOK, Restore, GoTo
  <1>3. next \in Op /\ MayBe(a, next) /\ next.pc # "idle" /\ next.alone = op[a].alone
    BY <1>2 DEF IInv, TypeOK, Placed, MayBe, Op, Labels, Guarded, Enabling, Restoring,
       Switching, Saved, Content
  <1>4. op[a].alone => Informed(a)  BY DEF IInv, AloneOK
  <1>5. "overlap" \notin upset => op[a].alone  BY <1>1 DEF IInv, Apart
  <1>6. (/\ pointer \in Providers /\ row \in Row /\ backup \in Saved
         /\ live \in Content /\ worker \in BOOLEAN)'
    BY <1>2 DEF IInv, TypeOK, Restore, Saved, Content
  <1>7. TakenIsSaved'
    BY <1>2, <1>4, <1>5, NotContentAssumption DEF IInv, TypeOK, TakenIsSaved, Informed,
       Knows, Restore
  <1>8. op'[a] = next  BY <1>1 DEF Becomes, IInv, TypeOK
  <1>9. ASSUME op[a].alone PROVE Informed(a)'
    <2>1. Knows(op[a])'
      BY <1>2, <1>4, <1>5, <1>8, <1>9, NotContentAssumption DEF IInv, TypeOK, TakenIsSaved,
         Op, Informed, Knows, Restore, Guarded, Enabling, Restoring, Saved, Content
    <2>2. Keeps(a, op[a])'
      BY <1>2, <1>4, <1>8, <1>9, NotContentAssumption DEF IInv, TypeOK, Op, Informed,
         Knows, Keeps, Clean, Restore, Enabling, Restoring, Switching, Saved, Content
    <2>3. Tracks(a, op[a])'
      BY <1>2, <1>4, <1>8, <1>9, NotContentAssumption DEF IInv, TypeOK, Placed, Op,
         Informed, Knows, Keeps, Tracks, Follows, Restore, Saved, Content
    <2>4. QED  BY <2>1, <2>2, <2>3 DEF Informed
  <1>10. upset' = upset /\ drift' = drift /\ next # Idle  BY <1>3 DEF Restore, Idle
  <1> HIDE DEF next
  <1>11. QED  BY <1>1, <1>3, <1>6, <1>7, <1>9, <1>10, Moves

LEMMA DeleteMoves == ASSUME IInv, NEW a \in Actors, Delete(a) PROVE IInv'
  <1> DEFINE next == [op[a] EXCEPT !.pc = IF op[a].taken THEN "direct" ELSE "clear"]
  <1>1. Busy(a) /\ Becomes(a, next)  BY DEF Delete, GoTo, Busy
  <1>2. op[a] \in Op /\ op[a].pc = "delete"  BY DEF IInv, TypeOK, Delete, GoTo
  <1>3. next \in Op /\ MayBe(a, next) /\ next.pc # "idle" /\ next.alone = op[a].alone
    BY <1>2 DEF IInv, TypeOK, Placed, MayBe, Op, Labels, Guarded, Enabling, Restoring,
       Switching
  <1>4. op[a].alone => Informed(a)  BY DEF IInv, AloneOK
  <1>5. "overlap" \notin upset => op[a].alone  BY <1>1 DEF IInv, Apart
  <1>6. (/\ pointer \in Providers /\ row \in Row /\ backup \in Saved
         /\ live \in Content /\ worker \in BOOLEAN)'
    BY <1>2 DEF IInv, TypeOK, Delete, Saved
  <1>7. TakenIsSaved'
    BY <1>2, <1>4, <1>5, NotContentAssumption DEF IInv, TypeOK, TakenIsSaved, Informed,
       Knows, Delete
  <1>8. op'[a] = next  BY <1>1 DEF Becomes, IInv, TypeOK
  <1>9. ASSUME op[a].alone PROVE Informed(a)'
    <2>1. Knows(op[a])'
      BY <1>2, <1>4, <1>5, <1>8, <1>9, NotContentAssumption DEF IInv, TypeOK, TakenIsSaved,
         Op, Informed, Knows, Delete, Guarded, Enabling, Restoring
    <2>2. Keeps(a, op[a])'
      BY <1>2, <1>4, <1>8, <1>9, NotContentAssumption DEF IInv, TypeOK, Op, Informed,
         Knows, Keeps, Clean, Delete, Enabling, Restoring, Switching
    <2>3. Tracks(a, op[a])'
      BY <1>2, <1>4, <1>8, <1>9, NotContentAssumption DEF IInv, TypeOK, Placed, Op,
         Informed, Knows, Keeps, Tracks, Follows, Delete
    <2>4. QED  BY <2>1, <2>2, <2>3 DEF Informed
  <1>10. upset' = upset /\ drift' = drift /\ next # Idle  BY <1>3 DEF Delete, Idle
  <1> HIDE DEF next
  <1>11. QED  BY <1>1, <1>3, <1>6, <1>7, <1>9, <1>10, Moves

LEMMA WriteDirectMoves == ASSUME IInv, NEW a \in Actors, WriteDirect(a) PROVE IInv'
  <1> DEFINE next == [op[a] EXCEPT !.pc = "clear"]
  <1>1. Busy(a) /\ Becomes(a, next)  BY DEF WriteDirect, GoTo, Busy
  <1>2. op[a] \in Op /\ op[a].pc = "direct"  BY DEF IInv, TypeOK, WriteDirect, GoTo
  <1>3. next \in Op /\ MayBe(a, next) /\ next.pc # "idle" /\ next.alone = op[a].alone
    BY <1>2 DEF IInv, TypeOK, Placed, MayBe, Op, Labels, Guarded, Enabling, Restoring,
       Switching
  <1>4. op[a].alone => Informed(a)  BY DEF IInv, AloneOK
  <1>5. "overlap" \notin upset => op[a].alone  BY <1>1 DEF IInv, Apart
  <1>6. (/\ pointer \in Providers /\ row \in Row /\ backup \in Saved
         /\ live \in Content /\ worker \in BOOLEAN)'
    BY <1>2 DEF IInv, TypeOK, WriteDirect, Direct, Content
  <1>7. TakenIsSaved'
    BY <1>2, <1>4, <1>5, NotContentAssumption DEF IInv, TypeOK, TakenIsSaved, Informed,
       Knows, WriteDirect, Direct
  <1>8. op'[a] = next  BY <1>1 DEF Becomes, IInv, TypeOK
  <1>9. ASSUME op[a].alone PROVE Informed(a)'
    <2>1. Knows(op[a])'
      BY <1>2, <1>4, <1>5, <1>8, <1>9, NotContentAssumption DEF IInv, TypeOK, TakenIsSaved,
         Op, Informed, Knows, WriteDirect, Guarded, Enabling, Restoring, Direct, Content
    <2>2. Keeps(a, op[a])'
      BY <1>2, <1>4, <1>8, <1>9, NotContentAssumption DEF IInv, TypeOK, Op, Informed,
         Knows, Keeps, Clean, WriteDirect, Enabling, Restoring, Switching, Direct, Content
    <2>3. Tracks(a, op[a])'
      BY <1>2, <1>4, <1>8, <1>9, NotContentAssumption DEF IInv, TypeOK, Placed, Op,
         Informed, Knows, Keeps, Tracks, Follows, WriteDirect, Direct, Content
    <2>4. QED  BY <2>1, <2>2, <2>3 DEF Informed
  <1>10. upset' = upset /\ drift' = drift /\ next # Idle  BY <1>3 DEF WriteDirect, Idle
  <1> HIDE DEF next
  <1>11. QED  BY <1>1, <1>3, <1>6, <1>7, <1>9, <1>10, Moves

LEMMA CommitMoves == ASSUME IInv, NEW a \in Actors, Commit(a) PROVE IInv'
  <1>1. Busy(a) /\ Becomes(a, Idle)  BY DEF Commit, Ends, Busy
  <1>2. op[a] \in Op /\ op[a].pc = "commit"  BY DEF IInv, TypeOK, Commit, Ends
  <1>3. Idle \in Op /\ MayBe(a, Idle) /\ Idle.pc = "idle"  BY IdleType DEF IInv, TypeOK,
                                        MayBe, Idle
  <1>4. op[a].alone => Informed(a)  BY DEF IInv, AloneOK
  <1>5. "overlap" \notin upset => op[a].alone  BY <1>1 DEF IInv, Apart
  <1> DEFINE new == Direct(op[a].target)
  <1>a. live' = new /\ pointer' = op[a].target  BY DEF Commit
  <1>b. new \in Content /\ new.taken = FALSE /\ new.of = op[a].target
    BY <1>2 DEF Op, Content, Direct
  <1> HIDE DEF new
  <1>6. (/\ pointer \in Providers /\ row \in Row /\ backup \in Saved
         /\ live \in Content /\ worker \in BOOLEAN)'
    BY <1>2, <1>a, <1>b DEF IInv, TypeOK, Commit, Op
  <1>7. TakenIsSaved'
    BY <1>a, <1>b DEF IInv, TakenIsSaved, Commit
  <1>8. ASSUME op[a].alone PROVE (upset = {} => Clean)' /\ (~drift => Follows)'
    <2>1. upset = {} => Clean /\ row.enabled = FALSE
      BY <1>2, <1>4, <1>8 DEF IInv, TypeOK, Row, Informed, Keeps, Enabling, Restoring
    <2>2. ~drift => upset = {}  BY DEF IInv, Apart
    <2>3. ~drift' => upset = {}  BY <2>2 DEF IInv, TypeOK, Commit, Settled
    <2>4. QED  BY <2>1, <2>3, <1>a, <1>b DEF Clean, Follows, Commit
  <1>9. upset' = upset /\ (drift' \in {drift, TRUE} \/ (drift' = FALSE /\ op[a].alone /\ upset = {}))
    BY DEF IInv, TypeOK, Commit, Settled
  <1>10. QED  BY <1>1, <1>3, <1>6, <1>7, <1>8, <1>9, Moves

LEMMA HotReadMoves == ASSUME IInv, NEW a \in Actors, HotRead(a) PROVE IInv'
  <1> DEFINE next == [op[a] EXCEPT !.pc = "pointer", !.has = backup # NoBackup \/ live.taken]
  <1>1. Busy(a) /\ Becomes(a, next)  BY DEF HotRead, GoTo, Busy
  <1>2. op[a] \in Op /\ op[a].pc = "hot"  BY DEF IInv, TypeOK, HotRead, GoTo
  <1>3. next \in Op /\ MayBe(a, next) /\ next.pc # "idle" /\ next.alone = op[a].alone
    BY <1>2 DEF IInv, TypeOK, Placed, MayBe, Op, Labels, Guarded, Enabling, Restoring,
       Switching, Content
  <1>4. op[a].alone => Informed(a)  BY DEF IInv, AloneOK
  <1>5. "overlap" \notin upset => op[a].alone  BY <1>1 DEF IInv, Apart
  <1>6. (/\ pointer \in Providers /\ row \in Row /\ backup \in Saved
         /\ live \in Content /\ worker \in BOOLEAN)'
    BY <1>2 DEF IInv, TypeOK, HotRead
  <1>7. TakenIsSaved'
    BY <1>2, <1>4, <1>5, NotContentAssumption DEF IInv, TypeOK, TakenIsSaved, Informed,
       Knows, HotRead
  <1>8. op'[a] = next  BY <1>1 DEF Becomes, IInv, TypeOK
  <1>9. ASSUME op[a].alone PROVE Informed(a)'
    <2>1. Knows(op[a])'
      BY <1>2, <1>4, <1>5, <1>8, <1>9, NotContentAssumption DEF IInv, TypeOK, TakenIsSaved,
         Op, Informed, Knows, HotRead, Guarded, Enabling, Restoring
    <2>2. Keeps(a, op[a])'
      BY <1>2, <1>4, <1>8, <1>9, NotContentAssumption DEF IInv, TypeOK, Op, Informed,
         Knows, Keeps, Clean, HotRead, Enabling, Restoring, Switching
    <2>3. Tracks(a, op[a])'
      BY <1>2, <1>4, <1>8, <1>9, NotContentAssumption DEF IInv, TypeOK, Placed, Op,
         Informed, Knows, Keeps, Tracks, Follows, HotRead
    <2>4. QED  BY <2>1, <2>2, <2>3 DEF Informed
  <1>10. upset' = upset /\ drift' = drift /\ next # Idle  BY <1>3 DEF HotRead, Idle
  <1> HIDE DEF next
  <1>11. QED  BY <1>1, <1>3, <1>6, <1>7, <1>9, <1>10, Moves

LEMMA UpdateBackupMoves == ASSUME IInv, NEW a \in Actors, UpdateBackup(a) PROVE IInv'
  <1> DEFINE next == [op[a] EXCEPT !.pc = "base"]
  <1>1. Busy(a) /\ Becomes(a, next)  BY DEF UpdateBackup, GoTo, Busy
  <1>2. op[a] \in Op /\ op[a].pc = "backup"  BY DEF IInv, TypeOK, UpdateBackup, GoTo
  <1>3. next \in Op /\ MayBe(a, next) /\ next.pc # "idle" /\ next.alone = op[a].alone
    BY <1>2 DEF IInv, TypeOK, Placed, MayBe, Op, Labels, Guarded, Enabling, Restoring,
       Switching
  <1>4. op[a].alone => Informed(a)  BY DEF IInv, AloneOK
  <1>5. "overlap" \notin upset => op[a].alone  BY <1>1 DEF IInv, Apart
  <1> DEFINE new == Direct(op[a].target)
  <1>a. backup' = new  BY DEF UpdateBackup
  <1>b. new \in Content /\ new.taken = FALSE /\ new.of = op[a].target
    BY <1>2 DEF Op, Content, Direct
  <1> HIDE DEF new
  <1>c. new # NoBackup  BY <1>b, NotContentAssumption
  <1>6. (/\ pointer \in Providers /\ row \in Row /\ backup \in Saved
         /\ live \in Content /\ worker \in BOOLEAN)'
    BY <1>a, <1>b DEF IInv, TypeOK, UpdateBackup, Saved
  <1>7. TakenIsSaved'
    BY <1>a, <1>b, <1>c DEF TakenIsSaved
  <1>8. op'[a] = next  BY <1>1 DEF Becomes, IInv, TypeOK
  <1>9. ASSUME op[a].alone PROVE Informed(a)'
    <2>1. Knows(op[a])'
      BY <1>2, <1>4, <1>5, <1>8, <1>9, <1>a, <1>b, <1>c DEF IInv, TypeOK, TakenIsSaved, Op,
         Informed, Knows, UpdateBackup, Guarded, Enabling, Restoring
    <2>2. Keeps(a, op[a])'
      BY <1>2, <1>4, <1>8, <1>9, <1>a, <1>b, <1>c DEF IInv, TypeOK, Op, Informed, Knows,
         Keeps, Clean, UpdateBackup, Enabling, Restoring, Switching
    <2>3. Tracks(a, op[a])'
      BY <1>2, <1>4, <1>8, <1>9, <1>a, <1>b, <1>c DEF IInv, TypeOK, Placed, Op, Informed,
         Knows, Keeps, Tracks, Follows, UpdateBackup
    <2>4. QED  BY <2>1, <2>2, <2>3 DEF Informed
  <1>10. upset' = upset /\ drift' = drift /\ next # Idle  BY <1>3 DEF UpdateBackup, Idle
  <1> HIDE DEF next
  <1>11. QED  BY <1>1, <1>3, <1>6, <1>7, <1>9, <1>10, Moves

LEMMA TakeBaseMoves == ASSUME IInv, NEW a \in Actors, TakeBase(a) PROVE IInv'
  <1> DEFINE next == [op[a] EXCEPT !.pc = "write"]
  <1>1. Busy(a) /\ Becomes(a, next)  BY DEF TakeBase, GoTo, Busy
  <1>2. op[a] \in Op /\ op[a].pc = "base"  BY DEF IInv, TypeOK, TakeBase, GoTo
  <1>3. next \in Op /\ MayBe(a, next) /\ next.pc # "idle" /\ next.alone = op[a].alone
    BY <1>2 DEF IInv, TypeOK, Placed, MayBe, Op, Labels, Guarded, Enabling, Restoring,
       Switching
  <1>4. op[a].alone => Informed(a)  BY DEF IInv, AloneOK
  <1>5. "overlap" \notin upset => op[a].alone  BY <1>1 DEF IInv, Apart
  <1>6. (/\ pointer \in Providers /\ row \in Row /\ backup \in Saved
         /\ live \in Content /\ worker \in BOOLEAN)'
    BY <1>2 DEF IInv, TypeOK, TakeBase, Saved, SavedBase
  <1>7. TakenIsSaved'
    BY <1>2, <1>4, <1>5, NotContentAssumption DEF IInv, TypeOK, TakenIsSaved, Informed,
       Knows, TakeBase, SavedBase
  <1>8. op'[a] = next  BY <1>1 DEF Becomes, IInv, TypeOK
  <1>9. ASSUME op[a].alone PROVE Informed(a)'
    <2>1. Knows(op[a])'
      BY <1>2, <1>4, <1>5, <1>8, <1>9, NotContentAssumption DEF IInv, TypeOK, TakenIsSaved,
         Op, Informed, Knows, TakeBase, Guarded, Enabling, Restoring, SavedBase
    <2>2. Keeps(a, op[a])'
      BY <1>2, <1>4, <1>8, <1>9, NotContentAssumption DEF IInv, TypeOK, Op, Informed,
         Knows, Keeps, Clean, TakeBase, Enabling, Restoring, Switching, SavedBase
    <2>3. Tracks(a, op[a])'
      BY <1>2, <1>4, <1>8, <1>9, NotContentAssumption DEF IInv, TypeOK, Placed, Op,
         Informed, Knows, Keeps, Tracks, Follows, TakeBase, SavedBase
    <2>4. QED  BY <2>1, <2>2, <2>3 DEF Informed
  <1>10. upset' = upset /\ drift' = drift /\ next # Idle  BY <1>3 DEF TakeBase, Idle
  <1> HIDE DEF next
  <1>11. QED  BY <1>1, <1>3, <1>6, <1>7, <1>9, <1>10, Moves

LEMMA AutoBaseMoves == ASSUME IInv, NEW a \in Actors, AutoBase(a) PROVE IInv'
  <1> DEFINE next == [op[a] EXCEPT !.pc = "hot"]
  <1>1. Busy(a) /\ Becomes(a, next)  BY DEF AutoBase, GoTo, Busy
  <1>2. op[a] \in Op /\ op[a].pc = "autoBase"  BY DEF IInv, TypeOK, AutoBase, GoTo
  <1>3. next \in Op /\ MayBe(a, next) /\ next.pc # "idle" /\ next.alone = op[a].alone
    BY <1>2 DEF IInv, TypeOK, Placed, MayBe, Op, Labels, Guarded, Enabling, Restoring,
       Switching
  <1>4. op[a].alone => Informed(a)  BY DEF IInv, AloneOK
  <1>5. "overlap" \notin upset => op[a].alone  BY <1>1 DEF IInv, Apart
  <1>6. (/\ pointer \in Providers /\ row \in Row /\ backup \in Saved
         /\ live \in Content /\ worker \in BOOLEAN)'
    BY <1>2 DEF IInv, TypeOK, AutoBase, Saved, SavedBase
  <1>7. TakenIsSaved'
    BY <1>2, <1>4, <1>5, NotContentAssumption DEF IInv, TypeOK, TakenIsSaved, Informed,
       Knows, AutoBase, SavedBase
  <1>8. op'[a] = next  BY <1>1 DEF Becomes, IInv, TypeOK
  <1>9. ASSUME op[a].alone PROVE Informed(a)'
    <2>1. Knows(op[a])'
      BY <1>2, <1>4, <1>5, <1>8, <1>9, NotContentAssumption DEF IInv, TypeOK, TakenIsSaved,
         Op, Informed, Knows, AutoBase, Guarded, Enabling, Restoring, SavedBase
    <2>2. Keeps(a, op[a])'
      BY <1>2, <1>4, <1>8, <1>9, NotContentAssumption DEF IInv, TypeOK, Op, Informed,
         Knows, Keeps, Clean, AutoBase, Enabling, Restoring, Switching, SavedBase
    <2>3. Tracks(a, op[a])'
      BY <1>2, <1>4, <1>8, <1>9, NotContentAssumption DEF IInv, TypeOK, Placed, Op,
         Informed, Knows, Keeps, Tracks, Follows, AutoBase, SavedBase
    <2>4. QED  BY <2>1, <2>2, <2>3 DEF Informed
  <1>10. upset' = upset /\ drift' = drift /\ next # Idle  BY <1>3 DEF AutoBase, Idle
  <1> HIDE DEF next
  <1>11. QED  BY <1>1, <1>3, <1>6, <1>7, <1>9, <1>10, Moves

LEMMA AutoReadMoves == ASSUME IInv, NEW a \in Actors, AutoRead(a) PROVE IInv'
  <1> DEFINE next == [op[a] EXCEPT !.pc = "autoWrite", !.row = [row EXCEPT !.auto = op[a].auto]]
  <1>1. Busy(a) /\ Becomes(a, next)  BY DEF AutoRead, GoTo, Busy
  <1>2. op[a] \in Op /\ op[a].pc = "autoRead"  BY DEF IInv, TypeOK, AutoRead, GoTo
  <1>3. next \in Op /\ MayBe(a, next) /\ next.pc # "idle" /\ next.alone = op[a].alone
    BY <1>2 DEF IInv, TypeOK, Placed, MayBe, Op, Labels, Guarded, Enabling, Restoring,
       Switching, Row
  <1>4. op[a].alone => Informed(a)  BY DEF IInv, AloneOK
  <1>5. "overlap" \notin upset => op[a].alone  BY <1>1 DEF IInv, Apart
  <1>6. (/\ pointer \in Providers /\ row \in Row /\ backup \in Saved
         /\ live \in Content /\ worker \in BOOLEAN)'
    BY <1>2 DEF IInv, TypeOK, AutoRead
  <1>7. TakenIsSaved'
    BY <1>2, <1>4, <1>5, NotContentAssumption DEF IInv, TypeOK, TakenIsSaved, Informed,
       Knows, AutoRead
  <1>8. op'[a] = next  BY <1>1 DEF Becomes, IInv, TypeOK
  <1>9. ASSUME op[a].alone PROVE Informed(a)'
    <2>1. Knows(op[a])'
      BY <1>2, <1>4, <1>5, <1>8, <1>9, NotContentAssumption DEF IInv, TypeOK, TakenIsSaved,
         Op, Informed, Knows, AutoRead, Guarded, Enabling, Restoring, Row
    <2>2. Keeps(a, op[a])'
      BY <1>2, <1>4, <1>8, <1>9, NotContentAssumption DEF IInv, TypeOK, Op, Informed,
         Knows, Keeps, Clean, AutoRead, Enabling, Restoring, Switching, Row
    <2>3. Tracks(a, op[a])'
      BY <1>2, <1>4, <1>8, <1>9, NotContentAssumption DEF IInv, TypeOK, Placed, Op,
         Informed, Knows, Keeps, Tracks, Follows, AutoRead, Row
    <2>4. QED  BY <2>1, <2>2, <2>3 DEF Informed
  <1>10. upset' = upset /\ drift' = drift /\ next # Idle  BY <1>3 DEF AutoRead, Idle
  <1> HIDE DEF next
  <1>11. QED  BY <1>1, <1>3, <1>6, <1>7, <1>9, <1>10, Moves

LEMMA AutoWriteMoves == ASSUME IInv, NEW a \in Actors, AutoWrite(a) PROVE IInv'
  <1>1. Busy(a) /\ Becomes(a, Idle)  BY DEF AutoWrite, Ends, Busy
  <1>2. op[a] \in Op /\ op[a].pc = "autoWrite"  BY DEF IInv, TypeOK, AutoWrite, Ends
  <1>3. Idle \in Op /\ MayBe(a, Idle) /\ Idle.pc = "idle"  BY IdleType DEF IInv, TypeOK,
                                        MayBe, Idle
  <1>4. op[a].alone => Informed(a)  BY DEF IInv, AloneOK
  <1>5. "overlap" \notin upset => op[a].alone  BY <1>1 DEF IInv, Apart
  <1>6. (/\ pointer \in Providers /\ row \in Row /\ backup \in Saved
         /\ live \in Content /\ worker \in BOOLEAN)'
    BY <1>2 DEF IInv, TypeOK, AutoWrite, Op
  <1>7. TakenIsSaved'
    BY <1>2, <1>4, <1>5, NotContentAssumption DEF IInv, TypeOK, TakenIsSaved, Informed,
       Knows, AutoWrite
  <1>8. ASSUME op[a].alone PROVE (upset = {} => Clean)' /\ (~drift => Follows)'
    BY <1>2, <1>4, <1>8, NotContentAssumption DEF IInv, TypeOK, Informed, Knows, Keeps,
       Tracks, Clean, Follows, AutoWrite, Row, Op, Enabling, Restoring
  <1>9. QED  BY <1>1, <1>3, <1>6, <1>7, <1>8, Moves DEF AutoWrite

LEMMA RefreshMoves == ASSUME IInv, NEW a \in Actors, Refresh(a) PROVE IInv'
  <1> DEFINE next == [op[a] EXCEPT !.pc = "detect"]
  <1>1. Busy(a) /\ Becomes(a, next)  BY DEF Refresh, GoTo, Busy
  <1>2. op[a] \in Op /\ op[a].pc = "refresh"  BY DEF IInv, TypeOK, Refresh, GoTo
  <1>3. next \in Op /\ MayBe(a, next) /\ next.pc # "idle" /\ next.alone = op[a].alone
    BY <1>2 DEF IInv, TypeOK, Placed, MayBe, Op, Labels, Guarded, Enabling, Restoring,
       Switching
  <1>4. op[a].alone => Informed(a)  BY DEF IInv, AloneOK
  <1>5. "overlap" \notin upset => op[a].alone  BY <1>1 DEF IInv, Apart
  <1>6. (/\ pointer \in Providers /\ row \in Row /\ backup \in Saved
         /\ live \in Content /\ worker \in BOOLEAN)'
    BY <1>2 DEF IInv, TypeOK, Refresh, Saved, SavedBase
  <1>7. TakenIsSaved'
    BY <1>2, <1>4, <1>5, NotContentAssumption DEF IInv, TypeOK, TakenIsSaved, Informed,
       Knows, Refresh, SavedBase
  <1>8. op'[a] = next  BY <1>1 DEF Becomes, IInv, TypeOK
  <1>9. ASSUME op[a].alone PROVE Informed(a)'
    <2>1. Knows(op[a])'
      BY <1>2, <1>4, <1>5, <1>8, <1>9, NotContentAssumption DEF IInv, TypeOK, TakenIsSaved,
         Op, Informed, Knows, Refresh, Guarded, Enabling, Restoring, SavedBase
    <2>2. Keeps(a, op[a])'
      BY <1>2, <1>4, <1>8, <1>9, NotContentAssumption DEF IInv, TypeOK, Op, Informed,
         Knows, Keeps, Clean, Refresh, Enabling, Restoring, Switching, SavedBase
    <2>3. Tracks(a, op[a])'
      BY <1>2, <1>4, <1>8, <1>9, NotContentAssumption DEF IInv, TypeOK, Placed, Op,
         Informed, Knows, Keeps, Tracks, Follows, Refresh, SavedBase
    <2>4. QED  BY <2>1, <2>2, <2>3 DEF Informed
  <1>10. upset' = upset /\ drift' = drift /\ next # Idle  BY <1>3 DEF Refresh, Idle
  <1> HIDE DEF next
  <1>11. QED  BY <1>1, <1>3, <1>6, <1>7, <1>9, <1>10, Moves

LEMMA SetPointerMoves == ASSUME IInv, NEW a \in Actors, SetPointer(a) PROVE IInv'
  <1> DEFINE next == IF op[a].has THEN [op[a] EXCEPT !.pc = "backup"] ELSE After(a)
  <1>1. Busy(a) /\ Becomes(a, next)  BY DEF SetPointer, Busy
  <1>2. op[a] \in Op /\ op[a].pc = "pointer" /\ Idle \in Op  BY IdleType DEF IInv, TypeOK,
                                        SetPointer
  <1>3. next \in Op /\ MayBe(a, next)
        /\ (next = Idle \/ (next.pc # "idle" /\ next.alone = op[a].alone))
    BY <1>2 DEF IInv, Placed, MayBe, Op, Labels, Guarded, Enabling, Restoring, Switching,
       After, Idle
  <1>4. op[a].alone => Informed(a)  BY DEF IInv, AloneOK
  <1>5. ~drift => upset = {}  BY DEF IInv, Apart
  <1>6. (/\ pointer \in Providers /\ row \in Row /\ backup \in Saved
         /\ live \in Content /\ worker \in BOOLEAN)'
    BY <1>2 DEF IInv, TypeOK, SetPointer, Op
  <1>7. TakenIsSaved'  BY DEF IInv, TakenIsSaved, SetPointer
  <1>8. op'[a] = next  BY <1>1 DEF Becomes, IInv, TypeOK
  <1>9. op[a].alone /\ upset = {} => op[a].has /\ Clean /\ row.enabled
    BY <1>2, <1>4 DEF Informed, Keeps, Enabling, Restoring, Switching
  <1>10. ASSUME op[a].alone PROVE Informed(a)' \/ next = Idle
    <2>1. CASE op[a].has
      <3>1. next = [op[a] EXCEPT !.pc = "backup"]  BY <2>1
      <3>2. Knows(op[a])'
        BY <1>2, <1>8, <3>1 DEF Op, Knows, Guarded, Enabling, Restoring
      <3>3. Keeps(a, op[a])'
        BY <1>2, <1>4, <1>8, <1>9, <1>10, <3>1 DEF Op, Informed, Keeps, Clean, SetPointer
      <3>4. Tracks(a, op[a])'  BY <1>2, <1>8, <3>1 DEF Op, Tracks, IInv, Placed
      <3>5. QED  BY <3>2, <3>3, <3>4 DEF Informed
    <2>2. CASE ~op[a].has /\ op[a].auto
      <3>1. next = [op[a] EXCEPT !.pc = "autoRead"]  BY <2>2 DEF After
      <3>2. upset # {}  BY <1>9, <1>10, <2>2
      <3>3. Knows(op[a])'
        BY <1>2, <1>8, <3>1 DEF Op, Knows, Guarded, Enabling, Restoring
      <3>4. Keeps(a, op[a])'  BY <3>2 DEF Keeps, SetPointer
      <3>5. drift' = drift /\ drift  BY <1>5, <3>2 DEF SetPointer
      <3>6. Tracks(a, op[a])'  BY <1>2, <1>8, <3>1, <3>5 DEF Op, Tracks
      <3>7. QED  BY <3>3, <3>4, <3>6 DEF Informed
    <2>3. QED  BY <2>1, <2>2 DEF After
  <1>11. op[a].alone /\ next = Idle => upset # {} /\ drift
    <2>1. next = Idle => ~op[a].has  BY <1>2 DEF Idle, Op
    <2>2. QED  BY <1>5, <1>9, <2>1
  <1>12. upset' = upset /\ drift' = drift  BY DEF SetPointer
  <1>13. next = Idle => next.pc = "idle"  BY DEF Idle
  <1> HIDE DEF next
  <1>14. QED  BY <1>1, <1>3, <1>6, <1>7, <1>10, <1>11, <1>12, <1>13, Moves

LEMMA WriteSnapshotMoves == ASSUME IInv, NEW a \in Actors, WriteSnapshot(a) PROVE IInv'
  <1> DEFINE next == After(a)
           new == Taken(op[a].target)
  <1>1. Busy(a) /\ Becomes(a, next)  BY DEF WriteSnapshot, Busy
  <1>2. op[a] \in Op /\ op[a].pc = "write" /\ Idle \in Op  BY IdleType DEF IInv, TypeOK,
                                        WriteSnapshot
  <1>3. next \in Op /\ MayBe(a, next)
        /\ (next = Idle \/ (next.pc # "idle" /\ next.alone = op[a].alone))
    BY <1>2 DEF IInv, Placed, MayBe, Op, Labels, After, Idle
  <1>4. op[a].alone => Informed(a)  BY DEF IInv, AloneOK
  <1>5. "overlap" \notin upset => op[a].alone  BY <1>1 DEF IInv, Apart
  <1>6. live' = new /\ new \in Content /\ new.taken = TRUE /\ new.of = op[a].target
    BY <1>2 DEF WriteSnapshot, Op, Content, Taken
  <1> HIDE DEF new
  <1>7. (/\ pointer \in Providers /\ row \in Row /\ backup \in Saved
         /\ live \in Content /\ worker \in BOOLEAN)'
    BY <1>6 DEF IInv, TypeOK, WriteSnapshot
  <1>8. TakenIsSaved'
    BY <1>2, <1>4, <1>5, <1>6 DEF IInv, TakenIsSaved, Informed, Knows, WriteSnapshot
  <1>9. op'[a] = next  BY <1>1 DEF Becomes, IInv, TypeOK
  <1>10. upset' = upset /\ (drift' \in {drift, TRUE} \/ (drift' = FALSE /\ op[a].alone /\ upset = {}))
    BY DEF IInv, TypeOK, WriteSnapshot, Settled
  <1>11. ASSUME op[a].alone PROVE (upset = {} => Clean)' /\ (~drift => Follows)'
    <2>1. ASSUME upset = {} PROVE Clean /\ row.enabled = TRUE /\ backup # NoBackup
      <3>1. Clean /\ row.enabled /\ backup # NoBackup
        BY <1>2, <1>4, <1>11, <2>1 DEF Informed, Knows, Keeps, Enabling, Restoring,
           Switching
      <3>2. QED  BY <3>1 DEF IInv, TypeOK, Row
    <2>2. (upset = {} => Clean)'  BY <1>6, <2>1 DEF Clean, WriteSnapshot
    <2>3. ~drift' => upset = {} /\ a # Worker
      BY <1>2, <1>4, <1>11 DEF IInv, TypeOK, Apart, WriteSnapshot, Settled, Informed, Tracks
    <2>4. ASSUME upset = {}, a # Worker PROVE pointer = op[a].target /\ backup.of = op[a].target
      BY <1>2, <1>4, <1>11, <2>4 DEF Informed, Keeps
    <2>5. QED  BY <1>6, <2>2, <2>3, <2>4 DEF Follows, WriteSnapshot
  <1>12. ASSUME op[a].alone, next.pc # "idle" PROVE Informed(a)'
    <2>1. next = [op[a] EXCEPT !.pc = "autoRead"] /\ op[a].auto  BY <1>12 DEF After, Idle
    <2>2. Knows(op[a])'
      BY <1>2, <1>9, <2>1 DEF Op, Knows, Guarded, Enabling, Restoring
    <2>3. Keeps(a, op[a])'
      <3>1. upset = {} => row.enabled  BY <1>4, <1>12, <2>1 DEF Informed, Keeps
      <3>2. QED
        BY <1>2, <1>9, <1>11, <1>12, <2>1, <3>1 DEF Op, Keeps, WriteSnapshot, Switching
    <2>4. Tracks(a, op[a])'
      BY <1>2, <1>9, <1>11, <1>12, <2>1 DEF Op, Tracks
    <2>5. QED  BY <2>2, <2>3, <2>4 DEF Informed
  <1> HIDE DEF next
  <1>13. QED  BY <1>1, <1>3, <1>7, <1>8, <1>10, <1>11, <1>12, Moves

LEMMA SelectMoves == ASSUME IInv, NEW a \in Actors, Select(a) PROVE IInv'
  <1> DEFINE next == IF op[a].has THEN [op[a] EXCEPT !.pc = "refresh"] ELSE Idle
  <1>1. Busy(a) /\ Becomes(a, next)  BY DEF Select, Busy
  <1>2. op[a] \in Op /\ op[a].pc = "select" /\ Idle \in Op  BY IdleType DEF IInv, TypeOK,
                                        Select
  <1>3. next \in Op /\ MayBe(a, next)
        /\ (next = Idle \/ (next.pc # "idle" /\ next.alone = op[a].alone))
    BY <1>2 DEF IInv, Placed, MayBe, Op, Labels, Idle
  <1>4. op[a].alone => Informed(a)  BY DEF IInv, AloneOK
  <1>5. (/\ pointer \in Providers /\ row \in Row /\ backup \in Saved
         /\ live \in Content /\ worker \in BOOLEAN)'
    BY <1>2 DEF IInv, TypeOK, Select, Op
  <1>6. TakenIsSaved'  BY DEF IInv, TakenIsSaved, Select
  <1>7. op'[a] = next /\ Idle.pc = "idle"  BY <1>1 DEF Becomes, IInv, TypeOK, Idle
  <1>8. upset' = upset /\ drift' = TRUE  BY DEF Select
  <1>9. op[a].alone /\ upset = {} => Clean /\ op[a].has = row.enabled
    BY <1>2, <1>4 DEF Informed, Keeps, Enabling, Restoring
  <1>10. op[a].alone => (upset = {} => Clean)' /\ (~drift => Follows)'
    BY <1>8, <1>9 DEF Clean, Select
  <1>11. ASSUME op[a].alone, next.pc # "idle" PROVE Informed(a)'
    <2>1. op[a].has /\ next = [op[a] EXCEPT !.pc = "refresh"]  BY <1>7, <1>11
    <2>2. Knows(op[a])'
      BY <1>2, <1>7, <2>1 DEF Op, Knows, Guarded, Enabling, Restoring
    <2>3. Keeps(a, op[a])'
      BY <1>2, <1>4, <1>7, <1>9, <1>11, <2>1 DEF Op, Informed, Keeps, Clean, Select
    <2>4. Tracks(a, op[a])'  BY <1>8 DEF Tracks
    <2>5. QED  BY <2>2, <2>3, <2>4 DEF Informed
  <1> HIDE DEF next
  <1>12. QED  BY <1>1, <1>3, <1>5, <1>6, <1>8, <1>10, <1>11, Moves

LEMMA DetectMoves == ASSUME IInv, NEW a \in Actors, Detect(a) PROVE IInv'
  <1> DEFINE next == IF live.taken THEN [op[a] EXCEPT !.pc = "base"] ELSE Idle
  <1>1. Busy(a) /\ Becomes(a, next)  BY DEF Detect, Busy
  <1>2. op[a] \in Op /\ op[a].pc = "detect" /\ a = Worker /\ Idle \in Op
    BY IdleType DEF IInv, TypeOK, Placed, Detect
  <1>3. next \in Op /\ MayBe(a, next)
        /\ (next = Idle \/ (next.pc # "idle" /\ next.alone = op[a].alone))
    BY <1>2 DEF IInv, Placed, MayBe, Op, Labels, Switching, Idle
  <1>4. op[a].alone => Informed(a)  BY DEF IInv, AloneOK
  <1>5. (/\ pointer \in Providers /\ row \in Row /\ backup \in Saved
         /\ live \in Content /\ worker \in BOOLEAN)'
    BY DEF IInv, TypeOK, Detect
  <1>6. TakenIsSaved'  BY DEF IInv, TakenIsSaved, Detect
  <1>7. op'[a] = next /\ Idle.pc = "idle"  BY <1>1 DEF Becomes, IInv, TypeOK, Idle
  <1>8. upset' = upset /\ drift' = drift  BY DEF Detect
  <1>9. op[a].alone => drift /\ backup # NoBackup
    BY <1>2, <1>4 DEF Informed, Knows, Tracks
  <1>10. op[a].alone /\ upset = {} => Clean /\ row.enabled
    BY <1>2, <1>4 DEF Informed, Keeps, Enabling, Restoring
  <1>11. op[a].alone => (upset = {} => Clean)' /\ (~drift => Follows)'
    BY <1>8, <1>9, <1>10 DEF Clean, Detect
  <1>12. ASSUME op[a].alone, next.pc # "idle" PROVE Informed(a)'
    <2>1. next = [op[a] EXCEPT !.pc = "base"]  BY <1>7, <1>12
    <2>2. Knows(op[a])'
      BY <1>2, <1>7, <1>9, <1>12, <2>1 DEF Op, Knows, Guarded, Enabling, Restoring, Detect
    <2>3. Keeps(a, op[a])'
      BY <1>2, <1>4, <1>7, <1>10, <1>12, <2>1 DEF Op, Informed, Keeps, Clean, Detect
    <2>4. Tracks(a, op[a])'  BY <1>8, <1>9, <1>12 DEF Tracks
    <2>5. QED  BY <2>2, <2>3, <2>4 DEF Informed
  <1> HIDE DEF next
  <1>13. QED  BY <1>1, <1>3, <1>5, <1>6, <1>8, <1>11, <1>12, Moves

\* The end of a disable or recovery: alone, it leaves the application clean
\* whatever it found.
LEMMA ClearMoves == ASSUME IInv, NEW a \in Actors, Clear(a) PROVE IInv'
  <1>1. Busy(a) /\ Becomes(a, Idle)  BY DEF Clear, Ends, Busy
  <1>2. op[a] \in Op /\ op[a].pc = "clear" /\ Idle \in Op  BY IdleType DEF IInv, TypeOK,
                                        Clear, Ends
  <1>3. Idle.pc = "idle" /\ ~Idle.alone /\ MayBe(a, Idle)  BY DEF Idle, MayBe
  <1>4. (/\ pointer \in Providers /\ row \in Row /\ backup \in Saved
         /\ live \in Content /\ worker \in BOOLEAN)'
    BY DEF IInv, TypeOK, Clear, Row, Off
  <1>5. CASE ~op[a].alone
    <2>1. upset' = upset /\ drift' = drift /\ "overlap" \in upset
      BY <1>1, <1>5 DEF IInv, Apart, Clear
    <2>2. TakenIsSaved'  BY <2>1 DEF TakenIsSaved
    <2>3. QED  BY <1>1, <1>2, <1>3, <1>4, <1>5, <2>1, <2>2, Moves
  <1>6. CASE op[a].alone
    <2>1. /\ op' \in [Actors -> Op] /\ op'[a] = Idle
          /\ \A b \in Actors : b # a => op'[b] = op[b] /\ op[b].pc = "idle"
      BY <1>1, <1>2, <1>6 DEF IInv, TypeOK, Apart, Becomes, Busy
    <2>2. upset' = {} /\ drift' = drift  BY <1>6 DEF Clear
    <2>3. Knows(op[a]) /\ Tracks(a, op[a])  BY <1>6 DEF IInv, AloneOK, Informed
    <2>4. backup = NoBackup /\ live.taken = FALSE /\ op[a].row = row /\ (~drift => Follows)
      BY <1>2, <2>3 DEF Knows, Tracks, Guarded, Restoring, IInv, TypeOK, Content
    <2>5. row' = Off /\ backup' = backup /\ live' = live /\ pointer' = pointer  BY <2>4
                                        DEF Clear
    <2>6. Clean' /\ (~drift => Follows)' /\ TakenIsSaved'
      BY <2>2, <2>4, <2>5 DEF Clean, Follows, TakenIsSaved, Off
    <2>7. TypeOK'  BY <1>4, <2>1, <2>2 DEF IInv, TypeOK
    <2>8. Placed'  BY <1>3, <2>1 DEF IInv, Placed, MayBe, Actors
    <2>9. \A b \in Actors : op'[b].pc = "idle" /\ ~op'[b].alone
      BY <1>3, <2>1 DEF IInv, Apart, Busy
    <2>10. Apart' /\ AloneOK'  BY <2>2, <2>9 DEF Apart, AloneOK, Busy
    <2>11. QED  BY <2>6, <2>7, <2>8, <2>10 DEF IInv, AtRestOK
  <1>7. QED  BY <1>5, <1>6

LEMMA AbortMoves == ASSUME IInv, NEW a \in Actors, Abort(a) PROVE IInv'
  <1>1. Idle \in Op /\ Idle.pc = "idle" /\ ~Idle.alone /\ ~Idle.auto  BY IdleType DEF IInv,
                                        TypeOK, Idle
  <1>2. op' \in [Actors -> Op] /\ op'[a] = Idle /\ \A b \in Actors \ {a} : op'[b] = op[b]
    BY <1>1 DEF IInv, TypeOK, Abort, Becomes
  <1>3. upset' = upset \cup {"abort"} /\ drift' = TRUE /\ UNCHANGED <<pointer, row, backup, live>>
    BY DEF Abort
  <1>4. TypeOK'  BY <1>2, <1>3 DEF IInv, TypeOK, Abort
  <1>5. Placed'  BY <1>1, <1>2 DEF IInv, Placed, Actors
  <1>6. Apart'  BY <1>1, <1>2, <1>3 DEF IInv, TypeOK, Apart, Busy
  <1>7. TakenIsSaved' /\ AtRestOK'  BY <1>3 DEF IInv, TakenIsSaved, AtRestOK
  <1>8. ASSUME NEW b \in Actors, op'[b].alone PROVE FALSE
    BY <1>1, <1>2, <1>8 DEF IInv, Apart, Abort
  <1>9. QED  BY <1>4, <1>5, <1>6, <1>7, <1>8 DEF IInv, AloneOK

LEMMA WorkerMoves == ASSUME IInv, WorkerStarts \/ WorkerStops PROVE IInv'
  <1>1. worker' \in BOOLEAN /\ UNCHANGED <<pointer, row, backup, live, op, upset, drift>>
    BY DEF WorkerStarts, WorkerStops
  <1>2. TypeOK' /\ Placed' /\ Apart' /\ TakenIsSaved'
    BY <1>1 DEF IInv, TypeOK, Placed, Apart, Busy, TakenIsSaved
  <1>3. AtRestOK'  BY <1>1 DEF IInv, AtRestOK, AtRest, Busy, Clean, Follows
  <1>4. AloneOK'
    BY <1>1 DEF IInv, AloneOK, Informed, Knows, Keeps, Tracks, Clean, Follows
  <1>5. QED  BY <1>2, <1>3, <1>4 DEF IInv

----------------------------------------------------------------------------
(* Beginnings *)

\* At rest nothing overlaps, and the application is as AtRestOK says.
LEMMA AtRestFacts ==
    ASSUME IInv, AtRest
    PROVE  (upset = {} => Clean) /\ (~drift => Follows) /\ (~drift => upset = {})
  BY DEF IInv, AtRestOK, Apart

LEMMA ReadsType ==
    ASSUME IInv PROVE Reads \in Op /\ Idle \in Op /\ ~Reads.auto
  <1>1. Idle \in Op /\ ~Idle.auto  BY IdleType DEF IInv, TypeOK, Idle
  <1>2. QED  BY <1>1 DEF IInv, TypeOK, Reads, Op, Content

LEMMA EnableBegins == ASSUME IInv, NEW a \in Procs, Enable(a) PROVE IInv'
  <1> DEFINE start == [Reads EXCEPT !.pc = "saveBackup"]
  <1>1. start \in Op /\ start.pc = "saveBackup" /\ MayBe(a, start)
    BY ReadsType, NoneAssumption DEF Op, Labels, Guarded, Enabling, MayBe
  <1>2. start.row = row /\ start.has = (backup # NoBackup) /\ ~start.auto
    BY ReadsType DEF Reads, Idle, Op
  <1>3. AtRest => Knows(start) /\ Keeps(a, start) /\ Tracks(a, start)
    BY <1>1, <1>2, AtRestFacts DEF Knows, Keeps, Tracks, Enabling, Restoring, Guarded,
       Switching
  <1>4. Begin(a, start) /\ UNCHANGED Shared  BY DEF Enable, Shared
  <1> HIDE DEF start
  <1>5. QED  BY <1>1, <1>3, <1>4, Begins DEF Actors

LEMMA DisablingKnows ==
    ASSUME IInv, NEW a \in Procs
    PROVE  /\ Disabling \in Op /\ Disabling.pc \in Restoring /\ MayBe(a, Disabling)
           /\ AtRest => Knows(Disabling) /\ Keeps(a, Disabling) /\ Tracks(a, Disabling)
  <1> DEFINE label == IF backup # NoBackup THEN "restore" ELSE IF live.taken THEN "direct" ELSE "clear"
  <1>1. /\ label \in Restoring \ {"delete"}
        /\ label = "clear" => ~live.taken
        /\ label \in {"direct", "clear"} => backup = NoBackup
    BY DEF Restoring
  <1>2. Disabling = [Reads EXCEPT !.pc = label]  BY DEF Disabling
  <1> HIDE DEF label
  <1>3. Disabling \in Op /\ Disabling.pc = label /\ MayBe(a, Disabling)
    BY <1>1, <1>2, ReadsType, NoneAssumption DEF Op, Labels, Guarded, Restoring, MayBe
  <1>4. Disabling.row = row /\ Disabling.taken = live.taken /\ ~Disabling.auto
    BY <1>2, ReadsType DEF Reads, Idle, Op
  <1>5. Knows(Disabling)  BY <1>1, <1>3, <1>4 DEF Knows, Restoring
  <1>6. Keeps(a, Disabling)  BY <1>1, <1>3, <1>4 DEF Keeps, Restoring, Switching
  <1>7. AtRest => Tracks(a, Disabling)  BY <1>1, <1>3, AtRestFacts DEF Tracks, Restoring
  <1>8. QED  BY <1>1, <1>3, <1>5, <1>6, <1>7

LEMMA DisableBegins == ASSUME IInv, NEW a \in Procs, Disable(a) PROVE IInv'
  <1>1. Begin(a, Disabling) /\ UNCHANGED Shared  BY DEF Disable, Shared
  <1>2. Disabling.pc # "idle"  BY DisablingKnows DEF Restoring
  <1>3. QED  BY <1>1, <1>2, DisablingKnows, Begins DEF Actors

LEMMA RecoverBegins == ASSUME IInv, NEW a \in Procs, Recover(a) PROVE IInv'
  <1> DEFINE start == [Reads EXCEPT !.pc = "reconcile"]
  <1>1. start \in Op /\ start.pc = "reconcile" /\ MayBe(a, start)
    BY ReadsType, NoneAssumption DEF Op, Labels, Guarded, MayBe
  <1>2. start.row = row /\ start.has = (backup # NoBackup) /\ start.taken = live.taken /\ ~start.auto
    BY ReadsType DEF Reads, Idle, Op
  <1>3. AtRest => Knows(start) /\ Keeps(a, start) /\ Tracks(a, start)
    BY <1>1, <1>2, AtRestFacts DEF Knows, Keeps, Tracks, Enabling, Restoring, Guarded,
       Switching
  <1>4. Begin(a, start) \/ Begin(a, Disabling)  BY DEF Recover
  <1>5. UNCHANGED Shared  BY DEF Recover, Shared
  <1>6. Disabling.pc # "idle"  BY DisablingKnows DEF Restoring
  <1> HIDE DEF start
  <1>7. QED  BY <1>1, <1>3, <1>4, <1>5, <1>6, DisablingKnows, Begins DEF Actors

LEMMA SwitchBegins == ASSUME IInv, NEW a \in Procs, NEW p \in Providers, Switch(a, p) PROVE IInv'
  <1> DEFINE active == row.enabled \/ backup # NoBackup \/ live.taken
             start  == [Idle EXCEPT !.pc = IF active THEN "hot" ELSE "commit", !.target = p]
  <1>1. start \in Op /\ start.pc \in {"hot", "commit"} /\ MayBe(a, start) /\ ~start.auto
    BY ReadsType, NoneAssumption DEF Op, Labels, Switching, MayBe, Idle
  <1>2. (start.pc = "hot" => active) /\ (start.pc = "commit" => ~row.enabled)
    BY ReadsType DEF Op
  <1>3. active /\ Clean => row.enabled  BY DEF Clean, IInv, TypeOK, Row, Content
  <1>4. Begin(a, start) /\ UNCHANGED Shared  BY DEF Switch, Shared
  <1> HIDE DEF start
  <1>5. AtRest => Knows(start)  BY <1>1 DEF Knows, Guarded, Enabling, Restoring
  <1>6. AtRest => Keeps(a, start)
    BY <1>1, <1>2, <1>3, AtRestFacts DEF Keeps, Switching
  <1>7. AtRest => Tracks(a, start)  BY <1>1, AtRestFacts DEF Tracks
  <1>8. QED  BY <1>1, <1>4, <1>5, <1>6, <1>7, Begins DEF Actors

LEMMA SetAutoBegins ==
    ASSUME IInv, NEW a \in Procs, NEW on \in BOOLEAN, NEW p \in Providers, SetAuto(a, on, p) PROVE IInv'
  <1> DEFINE start == [Idle EXCEPT !.pc = IF on THEN "autoBase" ELSE "autoRead", !.target = p, !.auto = on]
  <1>1. start \in Op /\ start.pc \in {"autoBase", "autoRead"} /\ MayBe(a, start)
    BY ReadsType, NoneAssumption DEF Op, Labels, MayBe
  <1>2. (start.pc = "autoBase" => on) /\ start.auto = on /\ (on => row.enabled)
    BY ReadsType DEF Op, SetAuto
  <1>3. Begin(a, start) /\ UNCHANGED Shared  BY DEF SetAuto, Shared
  <1> HIDE DEF start
  <1>4. AtRest => Knows(start)  BY <1>1 DEF Knows, Guarded, Enabling, Restoring
  <1>5. AtRest => Keeps(a, start)
    BY <1>1, <1>2, AtRestFacts DEF Keeps, Switching
  <1>6. AtRest => Tracks(a, start)  BY <1>1, AtRestFacts DEF Tracks
  <1>7. QED  BY <1>1, <1>3, <1>4, <1>5, <1>6, Begins DEF Actors

LEMMA FailoverBegins == ASSUME IInv, NEW p \in Providers, Failover(p) PROVE IInv'
  <1> DEFINE start == [Reads EXCEPT !.pc = "select", !.target = p, !.has = row.enabled, !.taken = FALSE, !.row = Off]
  <1>1. start \in Op /\ start.pc = "select" /\ MayBe(Worker, start)
    BY ReadsType DEF Op, Labels, MayBe, IInv, TypeOK, Row, Off
  <1>2. start.has = row.enabled /\ ~start.auto  BY ReadsType DEF Op
  <1>3. Begin(Worker, start) /\ UNCHANGED Shared  BY DEF Failover, Shared
  <1> HIDE DEF start
  <1>4. AtRest => Knows(start)  BY <1>1 DEF Knows, Guarded, Enabling, Restoring
  <1>5. AtRest => Keeps(Worker, start)
    BY <1>1, <1>2, AtRestFacts DEF Keeps, Switching
  <1>6. AtRest => Tracks(Worker, start)  BY <1>1, AtRestFacts DEF Tracks
  <1>7. QED  BY <1>1, <1>3, <1>4, <1>5, <1>6, Begins DEF Actors

----------------------------------------------------------------------------
(* The theorems *)

LEMMA Inductive == IInv /\ [Next]_vars => IInv'
  <1> SUFFICES ASSUME IInv, [Next]_vars PROVE IInv'  OBVIOUS
  <1>1. CASE UNCHANGED vars
    BY <1>1 DEF vars, IInv, TypeOK, Placed, Apart, Busy, TakenIsSaved, AtRestOK, AtRest,
       AloneOK,
                Informed, Knows, Keeps, Tracks, Clean, Follows
  <1>2. ASSUME NEW a \in Actors, Step(a) PROVE IInv'
    BY <1>2, SaveBackupMoves, WriteTakenMoves, SetEnabledMoves, ReconcileMoves,
       RestoreMoves, DeleteMoves,
       WriteDirectMoves, ClearMoves, CommitMoves, HotReadMoves, SetPointerMoves, UpdateBackupMoves,
       TakeBaseMoves, WriteSnapshotMoves, AutoBaseMoves, AutoReadMoves, AutoWriteMoves, SelectMoves,
       RefreshMoves, DetectMoves DEF Step
  <1>3. ASSUME NEW a \in Procs, Start(a) PROVE IInv'
    BY <1>3, EnableBegins, DisableBegins, RecoverBegins, SwitchBegins, SetAutoBegins,
       pointer \in Providers
       DEF Start, IInv, TypeOK
  <1>4. QED  BY <1>1, <1>2, <1>3, AbortMoves, FailoverBegins, WorkerMoves DEF Next

THEOREM Invariance == Spec => []IInv
  BY InitIInv, Inductive, PTL DEF Spec

(* TypeOK: every variable of Takeover keeps its type, for any providers and *)
(* any number of command processes.                                         *)
THEOREM TypeCorrect == Spec => []TypeOK
  <1>1. IInv => TypeOK  BY DEF IInv
  <1>2. QED  BY <1>1, Invariance, PTL

(* TakenIsSaved: takeover is written ahead.  A file that names the proxy    *)
(* has a backup that does not, at every step of enable_takeover_for_app,    *)
(* disable_takeover_for_app and hot_switch_provider that runs alone, and    *)
(* through aborts and crashes at any of them.                               *)
THEOREM WriteAhead == Spec => []TakenIsSaved
  <1>1. IInv => TakenIsSaved  BY DEF IInv
  <1>2. QED  BY <1>1, Invariance, PTL

(* RestIsClean: the row, the backup and the file agree at rest, and a       *)
(* disable or recovery that runs alone (recover_takeovers_on_startup)       *)
(* restores that from any state.                                            *)
THEOREM RecoveryCleans == Spec => []RestIsClean
  <1>1. IInv => RestIsClean  BY DEF IInv, AtRestOK, RestIsClean, Clean
  <1>2. QED  BY <1>1, Invariance, PTL

(* FilesFollowPointer: hot_switch_provider keeps the file and the backup    *)
(* with the provider it selects, until the worker fails over.               *)
THEOREM SwitchReachesFiles == Spec => []FilesFollowPointer
  <1>1. IInv => FilesFollowPointer  BY DEF IInv, AtRestOK, FilesFollowPointer, Follows
  <1>2. QED  BY <1>1, Invariance, PTL
=============================================================================
