------------------------- MODULE LiveOperationProofs -------------------------
(***************************************************************************)
(* What LiveOperation guarantees for any number of files, providers, rows, *)
(* writers and processes, and for any bounds.                              *)
(*                                                                         *)
(* Disk types what survives a crash and the history; Control types process *)
(* memory and adds what the publishing loop and the target commit rely on: *)
(* the files still to be published take part in the operation, and a       *)
(* pointer that is being moved names a provider.  Most lemmas are about    *)
(* the control operators, so that a step's proof is about its own effect.  *)
(*                                                                         *)
(* Then come the threads: lock_app (live/engine.rs) keeps the writers of   *)
(* one process apart.  At most one of them is inside an operation or a     *)
(* recovery, so no thread renames a file that another one has checked and  *)
(* is about to replace.                                                    *)
(*                                                                         *)
(* The last part needs no lock: a patch keeps the user's part of a file    *)
(* (live/patch), also when it was planned long ago, planned again after    *)
(* the client wrote, and published by a loop that other threads, other     *)
(* processes and crashes interrupt.                                        *)
(***************************************************************************)
EXTENDS LiveOperation, TLAPS

Disk ==
    /\ live \in [File -> Content]
    /\ tmp \subseteq Temp
    /\ marker \subseteq File
    /\ pending \in Pending \cup {NoPending}
    /\ row \in [Provider -> Row]
    /\ settings \in Provider
    /\ dbp \in Provider
    /\ carried \subseteq File
    /\ since \subseteq File
    /\ foreign \subseteq File
    /\ ops \in 0..MaxOps
    /\ edits \in 0..MaxEdits
    /\ crashes \in 0..MaxCrashes

Good(l) == l \in Local /\ l.todo \subseteq Parts(l.mem)

Control ==
    /\ up \in [Process -> {"down", "starting", "up"}]
    /\ holder \in [Process -> Writer \cup {Nobody}]
    /\ pc \in [Writer -> Labels]
    /\ loc \in [Writer -> Local]
    /\ \A w \in Writer : Good(loc[w])
    /\ \A w \in Writer : pc[w] = "commitDb" => loc[w].mem.pointer # NoPointer

Inv == Disk /\ Control

LEMMA InvTypes == Inv => TypeOK
  BY DEF Inv, Disk, Control, TypeOK

LEMMA InvTypesNext == Inv' => TypeOK'
  BY DEF Inv, Disk, Control, TypeOK

----------------------------------------------------------------------------
(* The data. *)

LEMMA BlankGood == Good(Blank)
  BY InitialAssumption, BoundsAssumption DEF Good, Blank, Local, Empty, Pending, Entry,
     Content, Key, Parts

\* A file that takes part has an entry.
LEMMA PartsType ==
    ASSUME NEW p \in Pending
    PROVE  \A f \in Parts(p) : f \in File /\ p.files[f] \in Entry
  BY DEF Parts, Pending

LEMMA TempsType ==
    ASSUME NEW p \in Pending
    PROVE  TempsOf(p) \subseteq Temp
  BY PartsType DEF TempsOf, Entry

LEMMA PatchType ==
    ASSUME NEW f \in File, NEW key \in Key, NEW expected, NEW c \in Content,
           Patch(f, key, expected, c) # Refused
    PROVE  Patch(f, key, expected, c) \in Content
  BY InitialAssumption DEF Patch, Whole, Content, Key

LEMMA StagedType ==
    ASSUME NEW w \in Writer, loc[w] \in Local, NEW f \in File, NEW c \in Content,
           NEW gen \in 0..MaxReplans
    PROVE  Staged(w, f, c, gen) \in Temp \cup {NoTemp}
  BY DEF Staged, Temp, Local

----------------------------------------------------------------------------
(* The control operators preserve Control. *)

Lives == [Process -> {"down", "starting", "up"}]
Holders == [Process -> Writer \cup {Nobody}]

LEMMA ControlStep ==
    ASSUME Control, NEW w \in Writer, NEW r, Good(r), NEW label \in Labels,
           label = "commitDb" => r.mem.pointer # NoPointer,
           pc' = [pc EXCEPT ![w] = label], loc' = [loc EXCEPT ![w] = r],
           up' \in Lives, holder' \in Holders
    PROVE  Control'
  BY DEF Control, Good, Lives, Holders

\* Going on with a new local state, or with the same one.
LEMMA GotoSet ==
    ASSUME Control, NEW w \in Writer, NEW r, Good(r), NEW label \in Labels \ {"commitDb"},
           Goto(w, label), Set(w, r)
    PROVE  Control'
  BY ControlStep DEF Goto, Set, Control, Lives, Holders

LEMMA GotoSame ==
    ASSUME Control, NEW w \in Writer, NEW label \in Labels,
           label = "commitDb" => loc[w].mem.pointer # NoPointer,
           Goto(w, label), UNCHANGED loc
    PROVE  Control'
  <1>1. loc' = [loc EXCEPT ![w] = loc[w]] /\ Good(loc[w])
    BY DEF Control
  <1>2. QED  BY <1>1, ControlStep DEF Goto, Control, Lives, Holders

LEMMA LeaveControl ==
    ASSUME Control, NEW w \in Writer, NEW r, Good(r), NEW label \in Labels \ {"commitDb"},
           Leave(w, label, r)
    PROVE  Control'
  <1>1. holder' \in Holders /\ up' \in Lives
    BY DEF Leave, Control, Holders, Lives
  <1>2. QED  BY <1>1, ControlStep DEF Leave, Set

LEMMA FinishControl ==
    ASSUME Control, NEW w \in Writer, Finish(w)
    PROVE  Control'
  BY LeaveControl, BlankGood DEF Finish, Labels

LEMMA FailControl ==
    ASSUME Control, NEW w \in Writer, Fail(w)
    PROVE  Control'
  <1>1. Good(loc[w])  BY DEF Control
  <1>2. QED  BY <1>1, LeaveControl DEF Fail, Labels

LEMMA ReturnControl ==
    ASSUME Control, NEW w \in Writer, Return(w)
    PROVE  Control'
  <1>1. Good(loc[w])  BY DEF Control
  <1>2. QED  BY <1>1, LeaveControl, FinishControl DEF Return, Labels

LEMMA AfterRecoverControl ==
    ASSUME Control, NEW w \in Writer, NEW outcome, AfterRecover(w, outcome)
    PROVE  Control'
  <1> DEFINE l == loc[w]
  <1>1. Good(l) /\ l \in Local  BY DEF Control
  <1>2. CASE l.ret = "first" /\ outcome # "error" /\ Leave(w, "lock", [l EXCEPT !.ret = "settle"])
    <2>1. Good([l EXCEPT !.ret = "settle"])  BY <1>1 DEF Good, Local
    <2>2. QED  BY <1>2, <2>1, LeaveControl DEF Labels
  <1>3. CASE l.ret = "begin" /\ Goto(w, "recover") /\ Set(w, [l EXCEPT !.ret = "run"])
    <2>1. Good([l EXCEPT !.ret = "run"])  BY <1>1 DEF Good, Local
    <2>2. QED  BY <1>3, <2>1, GotoSet DEF Labels
  <1>4. CASE Goto(w, "plan") /\ Set(w, l)
    BY <1>1, <1>4, GotoSet DEF Labels
  <1>5. CASE Finish(w)  BY <1>5, FinishControl
  <1>6. CASE Fail(w)  BY <1>6, FailControl
  <1>7. CASE Leave(w, "prepare", l)  BY <1>1, <1>7, LeaveControl DEF Labels
  <1>8. CASE /\ holder' = [holder EXCEPT ![ProcessOf[w]] = Nobody]
             /\ up' = [up EXCEPT ![ProcessOf[w]] = "up"]
             /\ pc' = [pc EXCEPT ![w] = "idle"]
             /\ Set(w, Blank)
    <2>1. holder' \in Holders /\ up' \in Lives
      BY <1>8 DEF Control, Holders, Lives
    <2>2. QED  BY <1>8, <2>1, ControlStep, BlankGood DEF Set, Labels
  <1>9. QED
    BY <1>2, <1>3, <1>4, <1>5, <1>6, <1>7, <1>8 DEF AfterRecover

LEMMA CommitErrorControl ==
    ASSUME Control, NEW w \in Writer, CommitError(w)
    PROVE  Control'
  BY AfterRecoverControl, FailControl DEF CommitError

LEMMA CommittedControl ==
    ASSUME Control, NEW w \in Writer, Committed(w)
    PROVE  Control'
  BY GotoSame, ReturnControl DEF Committed, Labels

----------------------------------------------------------------------------
(* What is known of a writer's local state. *)

LEMMA LocalFacts ==
    ASSUME Control, NEW w \in Writer
    PROVE  /\ Good(loc[w]) /\ loc[w] \in Local
           /\ loc[w].mem \in Pending
           /\ TempsOf(loc[w].mem) \subseteq Temp
           /\ \A f \in loc[w].todo : f \in File /\ loc[w].mem.files[f] \in Entry
  <1>1. Good(loc[w]) /\ loc[w] \in Local  BY DEF Control
  <1>2. loc[w].mem \in Pending  BY <1>1 DEF Local
  <1>3. QED  BY <1>1, <1>2, PartsType, TempsType DEF Good

\* A file that leaves the ones still to be written.
LEMMA TodoShrinks ==
    ASSUME Control, NEW w \in Writer, NEW f
    PROVE  Good([loc[w] EXCEPT !.todo = @ \ {f}])
  BY LocalFacts DEF Good, Local

LEMMA TodoResets ==
    ASSUME Control, NEW w \in Writer, NEW f, NEW any \in BOOLEAN
    PROVE  /\ Good([loc[w] EXCEPT !.todo = @ \ {f}, !.tries = 0])
           /\ Good([loc[w] EXCEPT !.todo = @ \ {f}, !.any = any, !.tries = 0])
  <1>1. 0 \in 0..(MaxReplans + 1)  BY BoundsAssumption
  <1>2. QED  BY <1>1, LocalFacts DEF Good, Local

\* Renaming a planned file keeps the types.
LEMMA RenameDisk ==
    ASSUME Disk, NEW f \in File, NEW e \in Entry, Rename(f, e),
           UNCHANGED <<marker, pending, store, bounds>>
    PROVE  Disk'
  BY DEF Disk, Rename, Entry, store, bounds

LEMMA ForgetDisk ==
    ASSUME Disk, Forget, UNCHANGED <<live, tmp, marker, store, foreign, bounds>>
    PROVE  Disk'
  BY DEF Disk, Forget, store, bounds

LEMMA SameDisk ==
    ASSUME Disk, UNCHANGED <<disk, store, history, bounds>>
    PROVE  Disk'
  BY DEF Disk, disk, store, history, bounds

LEMMA DiscardDisk ==
    ASSUME Disk, NEW p, tmp' = DiscardStaged(p),
           UNCHANGED <<live, marker, pending, store, history, bounds>>
    PROVE  Disk'
  BY DEF Disk, DiscardStaged, store, history, bounds

----------------------------------------------------------------------------
(* The steps of recovery. *)

LEMMA RecoveryStep ==
    ASSUME Inv, NEW w \in Writer, Recovery(w)
    PROVE  Inv'
  <1> USE DEF Inv
  <1>1. CASE Lock(w)
    <2>1. Good(loc[w]) /\ loc' = [loc EXCEPT ![w] = loc[w]]
      BY <1>1 DEF Control, Lock
    <2>2. holder' \in Holders /\ up' \in Lives
      BY <1>1 DEF Lock, Control, Holders, Lives
    <2>3. Control'  BY <1>1, <2>1, <2>2, ControlStep DEF Lock, Labels
    <2>4. Disk'  BY <1>1, SameDisk DEF Lock
    <2>5. QED  BY <2>3, <2>4
  <1>2. CASE RecoverNothing(w)
    BY <1>2, AfterRecoverControl, SameDisk DEF RecoverNothing
  <1>3. CASE RecoverDecide(w)
    <2> DEFINE r == [loc[w] EXCEPT !.mem = pending, !.todo = {f \in Parts(pending) : AtPre(f)}]
    <2>1. pending \in Pending  BY <1>3 DEF RecoverDecide, HasPending, Disk
    <2>2. Good(r)  BY <2>1, LocalFacts, PartsType DEF Good, Local
    <2>3. Control'
      <3>1. Goto(w, "forward") \/ Goto(w, "discard")  BY <1>3 DEF RecoverDecide
      <3>2. QED  BY <1>3, <2>2, <3>1, GotoSet DEF RecoverDecide, Labels
    <2>4. QED  BY <1>3, <2>3, SameDisk DEF RecoverDecide
  <1>4. CASE Discard(w)
    BY <1>4, GotoSame, DiscardDisk DEF Discard, Labels
  <1>5. CASE DiscardClear(w)
    <2>1. Control'  BY <1>5, AfterRecoverControl DEF DiscardClear
    <2>2. Disk'
      <3>1. CASE Forget  BY <1>5, <3>1, ForgetDisk DEF DiscardClear
      <3>2. CASE UNCHANGED <<pending, carried, since>>
        BY <1>5, <3>2 DEF DiscardClear, Disk, store, bounds
      <3>3. QED  BY <1>5, <3>1, <3>2 DEF DiscardClear
    <2>3. QED  BY <2>1, <2>2
  <1>6. CASE ForwardSkip(w)
    <2>1. PICK f \in File : Set(w, [loc[w] EXCEPT !.todo = @ \ {f}])
      BY <1>6 DEF ForwardSkip
    <2>2. Control'  BY <1>6, <2>1, TodoShrinks, GotoSet DEF ForwardSkip, Labels
    <2>3. QED  BY <1>6, <2>2, SameDisk DEF ForwardSkip
  <1>7. CASE ForwardRead(w)
    <2>1. PICK f \in File : /\ marker' = marker \cup {f}
                            /\ Set(w, [loc[w] EXCEPT !.seen = live[f]])
      BY <1>7 DEF ForwardRead
    <2>2. Good([loc[w] EXCEPT !.seen = live[f]])  BY LocalFacts DEF Good, Local, Disk
    <2>3. Control'  BY <1>7, <2>1, <2>2, GotoSet DEF ForwardRead, Labels
    <2>4. Disk'  BY <1>7, <2>1 DEF ForwardRead, Disk, store, history, bounds
    <2>5. QED  BY <2>3, <2>4
  <1>8. CASE ForwardPublish(w)
    <2>1. CASE AfterRecover(w, "error") /\ UNCHANGED <<live, tmp, history>>
      BY <1>8, <2>1, AfterRecoverControl, SameDisk DEF ForwardPublish, disk
    <2>2. CASE \E f \in File : /\ Turn(w, f) /\ Rename(f, loc[w].mem.files[f])
                               /\ Set(w, [loc[w] EXCEPT !.todo = @ \ {f}])
                               /\ Goto(w, "forward")
      <3>1. PICK f \in File : /\ Turn(w, f) /\ Rename(f, loc[w].mem.files[f])
                              /\ Set(w, [loc[w] EXCEPT !.todo = @ \ {f}])
                              /\ Goto(w, "forward")
        BY <2>2
      <3>2. loc[w].mem.files[f] \in Entry  BY <3>1, LocalFacts DEF Turn
      <3>3. Control'  BY <3>1, TodoShrinks, GotoSet DEF Labels
      <3>4. Disk'  BY <1>8, <3>1, <3>2, RenameDisk DEF ForwardPublish
      <3>5. QED  BY <3>3, <3>4
    <2>3. QED  BY <1>8, <2>1, <2>2 DEF ForwardPublish
  <1>9. CASE ForwardDone(w)
    BY <1>9, GotoSame, SameDisk DEF ForwardDone, Labels
  <1>10. CASE Tidy(w)
    BY <1>10, GotoSame, DiscardDisk DEF Tidy, Labels
  <1>11. QED
    BY <1>1, <1>2, <1>3, <1>4, <1>5, <1>6, <1>7, <1>8, <1>9, <1>10 DEF Recovery

----------------------------------------------------------------------------
(* The target and the end of an operation. *)

LEMMA TargetStep ==
    ASSUME Inv, NEW w \in Writer, Commit(w) \/ CommitDb(w) \/ Clear(w)
    PROVE  Inv'
  <1> USE DEF Inv
  <1>0. loc[w].mem.pointer \in Provider \cup {NoPointer}
    BY LocalFacts DEF Pending
  <1>1. CASE Commit(w)
    <2>1. Control'
      <3>1. CASE loc[w].mem.pointer # NoPointer /\ Goto(w, "commitDb") /\ UNCHANGED loc
        BY <3>1, GotoSame DEF Labels
      <3>2. CASE Committed(w)  BY <3>2, CommittedControl
      <3>3. CASE CommitError(w)  BY <3>3, CommitErrorControl
      <3>4. QED  BY <1>1, <3>1, <3>2, <3>3 DEF Commit
    <2>2. Disk'  BY <1>0, <1>1 DEF Commit, Disk, disk, history, bounds
    <2>3. QED  BY <2>1, <2>2
  <1>2. CASE CommitDb(w)
    <2>1. Control'  BY <1>2, CommittedControl, CommitErrorControl DEF CommitDb
    <2>2. loc[w].mem.pointer \in Provider  BY <1>0, <1>2 DEF CommitDb, Control
    <2>3. Disk'  BY <1>2, <2>2 DEF CommitDb, Disk, disk, history, bounds
    <2>4. QED  BY <2>1, <2>3
  <1>3. CASE Clear(w)
    <2>1. Control'
      BY <1>3, AfterRecoverControl, ReturnControl, CommitErrorControl DEF Clear
    <2>2. Disk'
      <3>1. CASE Forget  BY <1>3, <3>1, ForgetDisk DEF Clear
      <3>2. CASE UNCHANGED <<pending, carried, since>>
        BY <1>3, <3>2 DEF Clear, Disk, store, bounds
      <3>3. QED  BY <1>3, <3>1, <3>2 DEF Clear
    <2>3. QED  BY <2>1, <2>2
  <1>4. QED  BY <1>1, <1>2, <1>3

----------------------------------------------------------------------------
(* The steps of an operation: plan, stage, announce, publish. *)

LEMMA PlannedType ==
    ASSUME Inv, NEW w \in Writer, \A f \in File : PatchOf(w, f) # Refused
    PROVE  Planned(w) \in Pending
  <1>1. \A f \in File : live[f] \in Content  BY DEF Inv, Disk
  <1>2. loc[w] \in Local /\ loc[w].key \in Key /\ loc[w].pointer \in Provider \cup {NoPointer}
    BY LocalFacts DEF Inv, Local
  <1>3. \A f \in File : PatchOf(w, f) \in Content
    BY <1>1, <1>2, PatchType DEF PatchOf
  <1>4. \A f \in File : Staged(w, f, PatchOf(w, f), 0) \in Temp \cup {NoTemp}
    BY <1>2, <1>3, StagedType, BoundsAssumption
  <1>5. \A f \in File :
          [pre |-> live[f], planned |-> PatchOf(w, f),
           staged |-> Staged(w, f, PatchOf(w, f), 0)] \in Entry
    BY <1>1, <1>3, <1>4 DEF Entry
  <1>6. QED  BY <1>2, <1>5 DEF Planned, Pending

LEMMA FreshPlan ==
    ASSUME NEW l \in Local, NEW p \in Pending
    PROVE  Good([l EXCEPT !.mem = p, !.ret = "op", !.tries = 0, !.todo = Parts(p),
                          !.any = FALSE])
  <1>1. Parts(p) \in SUBSET File  BY DEF Parts
  <1>2. 0 \in 0..(MaxReplans + 1)  BY BoundsAssumption
  <1> DEFINE q == Parts(p)
  <1> HIDE DEF q
  <1>3. q \in SUBSET File /\ q = Parts(p)  BY <1>1 DEF q
  <1>4. [l EXCEPT !.mem = p, !.ret = "op", !.tries = 0, !.todo = q, !.any = FALSE] \in Local
    BY <1>2, <1>3 DEF Local
  <1>5. QED  BY <1>3, <1>4 DEF Good, Local

LEMMA PlanStep ==
    ASSUME Inv, NEW w \in Writer, Plan(w) \/ Stage(w) \/ Intent(w)
    PROVE  Inv'
  <1> USE DEF Inv
  <1>1. CASE Plan(w)
    <2>1. CASE Fail(w)  BY <1>1, <2>1, FailControl, SameDisk DEF Plan
    <2>2. CASE \A f \in File : PatchOf(w, f) # Refused
      <3> DEFINE r == [loc[w] EXCEPT !.mem = Planned(w), !.ret = "op", !.tries = 0,
                                     !.todo = Parts(Planned(w)), !.any = FALSE]
      <3>1. Planned(w) \in Pending  BY <2>2, PlannedType
      <3>3. Good(r)  BY <3>1, FreshPlan, LocalFacts
      <3>4. CASE Set(w, r) /\ (Goto(w, "commit") \/ Goto(w, "stage"))
        BY <1>1, <3>3, <3>4, GotoSet, SameDisk DEF Plan, Labels
      <3>5. QED  BY <1>1, <2>1, <3>4 DEF Plan
    <2>3. QED  BY <1>1, <2>1, <2>2 DEF Plan
  <1>2. CASE Stage(w)
    <2>1. Control'  BY <1>2, GotoSame, FailControl DEF Stage, Labels
    <2>2. Disk'
      BY <1>2, LocalFacts DEF Stage, Disk, store, history, bounds
    <2>3. QED  BY <2>1, <2>2
  <1>3. CASE Intent(w)
    <2>1. Control'  BY <1>3, GotoSame, FailControl DEF Intent, Labels
    <2>2. Disk'
      BY <1>3, LocalFacts DEF Intent, Disk, DiscardStaged, store, bounds
    <2>3. QED  BY <2>1, <2>2
  <1>4. QED  BY <1>1, <1>2, <1>3

\* A file's plan is replaced by another one.
LEMMA EntryReplaced ==
    ASSUME Control, NEW w \in Writer, NEW f \in loc[w].todo, NEW e \in Entry
    PROVE  /\ [loc[w].mem EXCEPT !.files[f] = e] \in Pending
           /\ Parts([loc[w].mem EXCEPT !.files[f] = e]) = Parts(loc[w].mem)
  BY LocalFacts, NotPartAssumption DEF Pending, Parts, Good

LEMMA EntryGood ==
    ASSUME NEW l, Good(l), NEW p \in Pending, Parts(p) = Parts(l.mem), NEW c \in Content
    PROVE  Good([l EXCEPT !.mem = p, !.seen = c])
  BY DEF Good, Local

LEMMA EntryRetried ==
    ASSUME NEW l, Good(l), NEW p \in Pending, Parts(p) = Parts(l.mem), NEW c \in Content,
           NEW t \in Temp \cup {NoTemp}, NEW n \in 0..(MaxReplans + 1)
    PROVE  Good([l EXCEPT !.mem = p, !.old = t, !.tries = n, !.seen = c])
  BY DEF Good, Local

LEMMA CheckStep ==
    ASSUME Inv, NEW w \in Writer,
           CheckSame(w) \/ CheckGiveUp(w) \/ CheckNoop(w) \/ CheckReplan(w) \/ CheckFails(w)
    PROVE  Inv'
  <1> USE DEF Inv
  <1>0. \A f \in File : live[f] \in Content  BY DEF Disk
  <1>1. CASE CheckSame(w)
    <2>1. PICK f \in File : /\ marker' = marker \cup {f}
                            /\ Set(w, [loc[w] EXCEPT !.seen = live[f]])
      BY <1>1 DEF CheckSame
    <2>2. Good([loc[w] EXCEPT !.seen = live[f]])  BY <1>0, LocalFacts DEF Good, Local
    <2>3. Goto(w, "publish") \/ Goto(w, "mark")  BY <1>1 DEF CheckSame
    <2>4. Control'  BY <2>1, <2>2, <2>3, GotoSet DEF Labels
    <2>5. Disk'  BY <1>1, <2>1 DEF CheckSame, Disk, store, history, bounds
    <2>6. QED  BY <2>4, <2>5
  <1>2. CASE CheckGiveUp(w)
    BY <1>2, FailControl, GotoSame, SameDisk DEF CheckGiveUp, Labels
  <1>3. CASE CheckNoop(w)
    <2>1. PICK f \in File :
            /\ Turn(w, f)
            /\ tmp' = tmp \ {loc[w].mem.files[f].staged}
            /\ Set(w, [loc[w] EXCEPT
                 !.mem.files[f] = [pre |-> live[f], planned |-> live[f], staged |-> NoTemp],
                 !.seen = live[f]])
      BY <1>3 DEF CheckNoop
    <2> DEFINE e == [pre |-> live[f], planned |-> live[f], staged |-> NoTemp]
               r == [loc[w] EXCEPT !.mem.files[f] = e, !.seen = live[f]]
    <2>2. e \in Entry /\ f \in loc[w].todo  BY <1>0, <2>1 DEF Entry, Turn
    <2>3. /\ [loc[w].mem EXCEPT !.files[f] = e] \in Pending
          /\ Parts([loc[w].mem EXCEPT !.files[f] = e]) = Parts(loc[w].mem)
      BY <2>2, EntryReplaced
    <2>4. Good(r)  BY <1>0, <2>3, EntryGood, LocalFacts
    <2>5. Control'  BY <1>3, <2>1, <2>4, GotoSet DEF CheckNoop, Labels
    <2>6. Disk'  BY <1>3, <2>1 DEF CheckNoop, Disk, store, history, bounds
    <2>7. QED  BY <2>5, <2>6
  <1>4. CASE CheckReplan(w)
    <2>1. PICK f \in File :
            /\ Turn(w, f) /\ PatchOf(w, f) # Refused
            /\ LET t == Staged(w, f, PatchOf(w, f), loc[w].tries + 1) IN
               /\ tmp' = (tmp \cup {t}) \ {NoTemp}
               /\ Set(w, [loc[w] EXCEPT
                    !.mem.files[f] = [pre |-> live[f], planned |-> PatchOf(w, f), staged |-> t],
                    !.old = loc[w].mem.files[f].staged, !.tries = Counted(@), !.seen = live[f]])
      BY <1>4 DEF CheckReplan
    <2> DEFINE t == Staged(w, f, PatchOf(w, f), loc[w].tries + 1)
               e == [pre |-> live[f], planned |-> PatchOf(w, f), staged |-> t]
               r == [loc[w] EXCEPT !.mem.files[f] = e, !.old = loc[w].mem.files[f].staged,
                                   !.tries = Counted(@), !.seen = live[f]]
    <2>2. loc[w] \in Local /\ loc[w].key \in Key /\ loc[w].tries \in 0..(MaxReplans + 1)
      BY LocalFacts DEF Local
    <2>0. loc[w].tries < MaxReplans  BY <1>4 DEF CheckReplan, MayReplan
    <2>3. loc[w].tries + 1 \in 0..MaxReplans  BY <2>0, <2>2, BoundsAssumption
    <2>4. PatchOf(w, f) \in Content  BY <1>0, <2>1, <2>2, PatchType DEF PatchOf
    <2>5. t \in Temp \cup {NoTemp}  BY <2>2, <2>3, <2>4, StagedType
    <2>6. e \in Entry /\ f \in loc[w].todo  BY <1>0, <2>1, <2>4, <2>5 DEF Entry, Turn
    <2>7. loc[w].mem.files[f].staged \in Temp \cup {NoTemp}
      BY <2>6, LocalFacts DEF Entry
    <2>8. /\ [loc[w].mem EXCEPT !.files[f] = e] \in Pending
          /\ Parts([loc[w].mem EXCEPT !.files[f] = e]) = Parts(loc[w].mem)
      BY <2>6, EntryReplaced
    <2>9. Counted(loc[w].tries) \in 0..(MaxReplans + 1)
      BY <2>3, BoundsAssumption DEF Counted
    <2>10. Good(r)
      BY <1>0, <2>7, <2>8, <2>9, EntryRetried, LocalFacts
    <2>11. Control'  BY <1>4, <2>1, <2>10, GotoSet DEF CheckReplan, Labels
    <2>12. Disk'  BY <1>4, <2>1, <2>5 DEF CheckReplan, Disk, store, history, bounds
    <2>13. QED  BY <2>11, <2>12
  <1>5. CASE CheckFails(w)
    BY <1>5, FailControl, SameDisk DEF CheckFails
  <1>6. QED  BY <1>1, <1>2, <1>3, <1>4, <1>5

LEMMA RecordStep ==
    ASSUME Inv, NEW w \in Writer, Record(w) \/ DropOld(w) \/ Mark(w)
    PROVE  Inv'
  <1> USE DEF Inv
  <1>1. CASE Record(w)
    <2>1. CASE Fail(w) /\ UNCHANGED <<pending, since>>
      BY <1>1, <2>1, FailControl DEF Record, Disk, store, bounds
    <2>2. CASE \E f \in File :
                 /\ pending' = Recorded(w)
                 /\ since' = IF live[f] = loc[w].mem.files[f].pre
                             THEN since \ {f} ELSE since \cup {f}
                 /\ \/ Goto(w, "dropOld") /\ UNCHANGED loc
                    \/ /\ Goto(w, Next1(w, loc[w].todo \ {f}))
                       /\ Set(w, [loc[w] EXCEPT !.todo = @ \ {f}, !.tries = 0])
      <3>1. PICK f \in File :
              /\ pending' = Recorded(w)
              /\ since' = IF live[f] = loc[w].mem.files[f].pre
                          THEN since \ {f} ELSE since \cup {f}
              /\ \/ Goto(w, "dropOld") /\ UNCHANGED loc
                 \/ /\ Goto(w, Next1(w, loc[w].todo \ {f}))
                    /\ Set(w, [loc[w] EXCEPT !.todo = @ \ {f}, !.tries = 0])
        BY <2>2
      <3>2. Good([loc[w] EXCEPT !.todo = @ \ {f}, !.tries = 0])  BY TodoResets
      <3>3. Next1(w, loc[w].todo \ {f}) \in Labels \ {"commitDb"}  BY DEF Next1, Labels
      <3>4. Control'  BY <3>1, <3>2, <3>3, GotoSet, GotoSame DEF Labels
      <3>5. pending' \in Pending  BY <3>1, LocalFacts DEF Recorded
      <3>6. since' \subseteq File  BY <3>1 DEF Disk
      <3>7. UNCHANGED <<live, tmp, marker, store, carried, foreign, bounds>>
        BY <1>1 DEF Record
      <3>8. Disk'  BY <3>5, <3>6, <3>7 DEF Disk, store, bounds
      <3>9. QED  BY <3>4, <3>8
    <2>3. QED  BY <1>1, <2>1, <2>2 DEF Record
  <1>2. CASE DropOld(w)
    <2>1. Good([loc[w] EXCEPT !.old = NoTemp])  BY LocalFacts DEF Good, Local
    <2>2. Control'  BY <1>2, <2>1, GotoSet DEF DropOld, Labels
    <2>3. Disk'  BY <1>2 DEF DropOld, Disk, store, history, bounds
    <2>4. QED  BY <2>2, <2>3
  <1>3. CASE Mark(w)
    <2>1. /\ Marked(w) \in Pending
          /\ Parts(Marked(w)) = Parts(loc[w].mem)
      BY LocalFacts DEF Marked, Pending, Parts
    <2>2. Good([loc[w] EXCEPT !.mem.published = TRUE])
      BY <2>1, LocalFacts DEF Marked, Good, Local
    <2>3. Goto(w, "publish") \/ Goto(w, "abandon")  BY <1>3 DEF Mark
    <2>4. Control'  BY <1>3, <2>2, <2>3, GotoSet DEF Mark, Labels
    <2>5. Disk'  BY <1>3, <2>1 DEF Mark, Disk, store, history, bounds
    <2>6. QED  BY <2>4, <2>5
  <1>4. QED  BY <1>1, <1>2, <1>3

LEMMA PublishStep ==
    ASSUME Inv, NEW w \in Writer, Publish(w) \/ Abandon(w) \/ AbandonClear(w)
    PROVE  Inv'
  <1> USE DEF Inv
  <1>1. CASE Publish(w)
    <2>1. CASE /\ Fail(w) \/ (Goto(w, "abandon") /\ UNCHANGED loc)
               /\ UNCHANGED <<live, tmp, history>>
      BY <1>1, <2>1, FailControl, GotoSame, SameDisk DEF Publish, disk, Labels
    <2>2. CASE \E f \in File :
                 /\ Turn(w, f) /\ Rename(f, loc[w].mem.files[f])
                 /\ Set(w, [loc[w] EXCEPT !.todo = @ \ {f}, !.any = TRUE, !.tries = 0])
                 /\ Goto(w, Next1(w, loc[w].todo \ {f}))
      <3>1. PICK f \in File :
              /\ Turn(w, f) /\ Rename(f, loc[w].mem.files[f])
              /\ Set(w, [loc[w] EXCEPT !.todo = @ \ {f}, !.any = TRUE, !.tries = 0])
              /\ Goto(w, Next1(w, loc[w].todo \ {f}))
        BY <2>2
      <3>2. loc[w].mem.files[f] \in Entry  BY <3>1, LocalFacts DEF Turn
      <3>3. Good([loc[w] EXCEPT !.todo = @ \ {f}, !.any = TRUE, !.tries = 0])
        BY TodoResets
      <3>4. Next1(w, loc[w].todo \ {f}) \in Labels \ {"commitDb"}  BY DEF Next1, Labels
      <3>5. Control'  BY <3>1, <3>3, <3>4, GotoSet
      <3>6. Disk'  BY <1>1, <3>1, <3>2, RenameDisk DEF Publish
      <3>7. QED  BY <3>5, <3>6
    <2>3. PICK f \in File :
            \/ /\ Turn(w, f) /\ Rename(f, loc[w].mem.files[f])
               /\ Set(w, [loc[w] EXCEPT !.todo = @ \ {f}, !.any = TRUE, !.tries = 0])
               /\ Goto(w, Next1(w, loc[w].todo \ {f}))
            \/ /\ Fail(w) \/ (Goto(w, "abandon") /\ UNCHANGED loc)
               /\ UNCHANGED <<live, tmp, history>>
      BY <1>1, Zenon DEF Publish
    <2>4. QED  BY <2>1, <2>2, <2>3
  <1>2. CASE Abandon(w)
    BY <1>2, GotoSame, DiscardDisk DEF Abandon, Labels
  <1>3. CASE AbandonClear(w)
    <2>1. Control'  BY <1>3, FailControl DEF AbandonClear
    <2>2. Disk'
      <3>1. CASE Forget  BY <1>3, <3>1, ForgetDisk DEF AbandonClear
      <3>2. CASE UNCHANGED <<pending, carried, since>>
        BY <1>3, <3>2 DEF AbandonClear, Disk, store, bounds
      <3>3. QED  BY <1>3, <3>1, <3>2 DEF AbandonClear
    <2>3. QED  BY <2>1, <2>2
  <1>4. QED  BY <1>1, <1>2, <1>3

----------------------------------------------------------------------------
(* Commands, and what happens around them. *)

LEMMA CommandStep ==
    ASSUME Inv, NEW w \in Writer, Begin(w) \/ Prepare(w) \/ Adopt(w) \/ Rollback(w)
    PROVE  Inv'
  <1> USE DEF Inv
  <1>1. CASE Begin(w)
    <2>1. PICK k \in Kinds, p \in Provider :
            /\ Set(w, [Blank EXCEPT !.kind = k, !.op = ops + 1, !.provider = p,
                                    !.ret = IF k = "switch" THEN "first" ELSE "settle"])
            /\ Goto(w, IF k = "sync" THEN "prepare" ELSE "lock")
      BY <1>1 DEF Begin
    <2> DEFINE r == [Blank EXCEPT !.kind = k, !.op = ops + 1, !.provider = p,
                                  !.ret = IF k = "switch" THEN "first" ELSE "settle"]
    <2>9. ops \in 0..MaxOps /\ ops < MaxOps  BY <1>1 DEF Begin, Disk
    <2>2. ops + 1 \in 1..MaxOps /\ ops + 1 \in 0..MaxOps  BY <2>9, BoundsAssumption
    <2> DEFINE first == IF k = "switch" THEN "first" ELSE "settle"
               op == ops + 1
    <2>8. k \in {"switch", "apply", "sync"} /\ first \in {"first", "settle"} /\ op \in 1..MaxOps
      BY <2>2, KindsAssumption
    <2>3. Good(r)
      <3> HIDE DEF first, op
      <3>1. [Blank EXCEPT !.kind = k, !.op = op, !.provider = p, !.ret = first] \in Local
        BY <2>8, BlankGood DEF Good, Local
      <3>2. Good([Blank EXCEPT !.kind = k, !.op = op, !.provider = p, !.ret = first])
        BY <3>1, BlankGood DEF Good, Local
      <3>3. QED  BY <3>2 DEF first, op
    <2>4. Goto(w, "prepare") \/ Goto(w, "lock")  BY <2>1
    <2>5. Control'  BY <2>1, <2>3, <2>4, GotoSet DEF Labels
    <2>6. Disk'  BY <1>1, <2>2 DEF Begin, Disk, disk, store, history
    <2>7. QED  BY <2>5, <2>6
  <1>2. CASE Prepare(w)
    <2>1. PICK r \in Row, pointer \in {NoPointer, loc[w].provider} :
            /\ row' = [row EXCEPT ![loc[w].provider] = r]
            /\ Set(w, [loc[w] EXCEPT !.key = <<loc[w].provider, r>>,
                         !.oldRow = row[loc[w].provider], !.expect = live,
                         !.pointer = pointer, !.ret = "begin"])
      BY <1>2 DEF Prepare
    <2>2. loc[w].provider \in Provider /\ live \in [File -> Content]
          /\ row \in [Provider -> Row]
      BY LocalFacts DEF Local, Disk
    <2>3. Good([loc[w] EXCEPT !.key = <<loc[w].provider, r>>,
                  !.oldRow = row[loc[w].provider], !.expect = live,
                  !.pointer = pointer, !.ret = "begin"])
      <3> DEFINE key == <<loc[w].provider, r>>
                 old == row[loc[w].provider]
      <3>1. key \in Key /\ old \in Row /\ pointer \in Provider \cup {NoPointer}
        BY <2>2 DEF Key
      <3> HIDE DEF key, old
      <3>2. [loc[w] EXCEPT !.key = key, !.oldRow = old, !.expect = live,
                           !.pointer = pointer, !.ret = "begin"] \in Local
        BY <2>2, <3>1, LocalFacts DEF Local
      <3>3. Good([loc[w] EXCEPT !.key = key, !.oldRow = old, !.expect = live,
                                !.pointer = pointer, !.ret = "begin"])
        BY <3>2, LocalFacts DEF Good, Local
      <3>4. QED  BY <3>3 DEF key, old
    <2>4. Control'  BY <1>2, <2>1, <2>3, GotoSet DEF Prepare, Labels
    <2>5. Disk'  BY <1>2, <2>1, <2>2 DEF Prepare, Disk, disk, history, bounds
    <2>6. QED  BY <2>4, <2>5
  <1>3. CASE Adopt(w)
    <2>1. Control'  BY <1>3, GotoSet, BlankGood DEF Adopt, Labels
    <2>2. loc[w].provider \in Provider  BY LocalFacts DEF Local
    <2>3. Disk'  BY <1>3, <2>2 DEF Adopt, Disk, disk, history, bounds
    <2>4. QED  BY <2>1, <2>3
  <1>4. CASE Rollback(w)
    <2>1. Control'  BY <1>4, GotoSet, BlankGood DEF Rollback, Labels
    <2>2. loc[w].oldRow \in Row  BY LocalFacts DEF Local
    <2>3. Disk'
      BY <1>4, <2>2 DEF Rollback, RolledBack, RestoredRow, Disk, disk, history, bounds
    <2>4. QED  BY <2>1, <2>3
  <1>5. QED  BY <1>1, <1>2, <1>3, <1>4

LEMMA RewrittenType ==
    ASSUME NEW c \in Content
    PROVE  Rewritten(c) \subseteq Content
  BY DEF Rewritten, Content

LEMMA PlannedForType ==
    ASSUME Inv, NEW f \in File
    PROVE  PlannedFor(f) \subseteq Content
  <1>1. \A p \in UnderWay(f) : p \in Pending /\ f \in Parts(p)
    BY LocalFacts DEF UnderWay, Inv, Disk
  <1>2. QED  BY <1>1, PartsType DEF PlannedFor, Entry

LEMMA EnvironmentStep ==
    ASSUME Inv,
           \/ \E w \in Writer : Restart(w)
           \/ \E p \in Process : Crash(p)
           \/ \E f \in File : Edit(f)
    PROVE  Inv'
  <1> USE DEF Inv
  <1>1. CASE \E w \in Writer : Restart(w)
    <2>1. PICK w \in Writer : Restart(w)  BY <1>1
    <2>2. Good([Blank EXCEPT !.ret = "startup"])  BY BlankGood DEF Good, Local
    <2>3. holder' \in Holders /\ up' \in Lives
      BY <2>1 DEF Restart, Control, Holders, Lives
    <2>4. Control'  BY <2>1, <2>2, <2>3, ControlStep DEF Restart, Set, Labels
    <2>5. QED  BY <2>1, <2>4, SameDisk DEF Restart
  <1>2. CASE \E p \in Process : Crash(p)
    <2>1. PICK p \in Process : Crash(p)  BY <1>2
    <2>2. Control'  BY <2>1, BlankGood DEF Crash, Control, Good, Labels
    <2>3. Disk'  BY <2>1, BoundsAssumption DEF Crash, Disk, disk, store, history
    <2>4. QED  BY <2>2, <2>3
  <1>3. CASE \E f \in File : Edit(f)
    <2>1. PICK f \in File : Edit(f)  BY <1>3
    <2>2. PICK c \in ClientContent(f) : live' = [live EXCEPT ![f] = c]
      BY <2>1 DEF Edit
    <2>3. c \in Content
      BY <2>2, CoincideAssumption, RewrittenType, PlannedForType DEF ClientContent, Disk
    <2>4. edits' \in 0..MaxEdits  BY <2>1, BoundsAssumption DEF Edit, Disk
    <2>5. Control'  BY <2>1 DEF Edit, Control
    <2>6. Disk'  BY <2>1, <2>2, <2>3, <2>4 DEF Edit, Disk, store
    <2>7. QED  BY <2>5, <2>6
  <1>4. QED  BY <1>1, <1>2, <1>3

----------------------------------------------------------------------------
LEMMA InitInv == Init => Inv
  <1> SUFFICES ASSUME Init PROVE Inv
    OBVIOUS
  <1>1. \A f \in File : live[f] \in Content
    BY InitialAssumption DEF Init, Whole, Content, Key
  <1>2. Disk
    BY <1>1, InitialAssumption, BoundsAssumption DEF Init, Disk
  <1>3. Control  BY BlankGood DEF Init, Control, Good, Labels
  <1>4. QED  BY <1>2, <1>3 DEF Inv

LEMMA NextInv == Inv /\ [Next]_vars => Inv'
  <1> SUFFICES ASSUME Inv, [Next]_vars PROVE Inv'
    OBVIOUS
  <1>1. CASE UNCHANGED vars
    BY <1>1 DEF vars, Inv, Disk, Control, disk, store, history, bounds
  <1>2. CASE Next
    <2>1. CASE \E w \in Writer : Begin(w) \/ Step(w)
      <3>1. PICK w \in Writer : Begin(w) \/ Step(w)  BY <2>1
      <3>2. \/ Recovery(w) \/ Operation(w)
            \/ Begin(w) \/ Prepare(w) \/ Adopt(w) \/ Rollback(w)
            \/ Commit(w) \/ CommitDb(w) \/ Clear(w)
        BY <3>1 DEF Step
      <3>3. CASE Operation(w)
        BY <3>3, PlanStep, CheckStep, RecordStep, PublishStep DEF Operation
      <3>4. QED  BY <3>2, <3>3, RecoveryStep, CommandStep, TargetStep
    <2>2. CASE \/ \E w \in Writer : Restart(w)
               \/ \E p \in Process : Crash(p)
               \/ \E f \in File : Edit(f)
      BY <2>2, EnvironmentStep
    <2>3. QED  BY <1>2, <2>1, <2>2 DEF Next
  <1>3. QED  BY <1>1, <1>2

(* Every variable keeps its type, in every behaviour and for every bound;   *)
(* in particular a replanned file is never numbered past the limit, every   *)
(* file that is published has an entry in the intent, and neither pointer   *)
(* is ever moved to anything but a provider (mode/operation.rs).            *)
THEOREM TypeCorrect == Spec => []TypeOK
  <1>1. Spec => []Inv  BY InitInv, NextInv, PTL DEF Spec
  <1>2. QED  BY <1>1, InvTypes, PTL

----------------------------------------------------------------------------
(* The lock. *)

\* Where a thread is when it holds the guard.
Held == Labels \ {"idle", "lock", "prepare", "adopt", "failed"}

LockInv == \A w \in Writer : pc[w] \in Held => holder[ProcessOf[w]] = w

(* Two threads of one process are never both between taking and dropping    *)
(* the guard (lock_app, AppWriteGuard::drop).                               *)
OneInside ==
    \A v, w \in Writer :
        ProcessOf[v] = ProcessOf[w] /\ pc[v] \in Held /\ pc[w] \in Held => v = w

\* What a thread read last is still there when it is about to rename.
Fresh(w) ==
    \A f \in File : Turn(w, f) /\ f \notin foreign => live[f] = loc[w].seen

SeenInv == \A w \in Writer : pc[w] \in {"mark", "publish"} => Fresh(w)

----------------------------------------------------------------------------
(* The control operators. *)

\* The other threads stay where they are, and w is not about to rename.
Moves(w) ==
    /\ \A v \in Writer \ {w} : pc'[v] = pc[v] /\ loc'[v] = loc[v]
    /\ pc'[w] \notin {"mark", "publish"}

\* What w does to the guard is right for where it goes.
Guards(w) ==
    \/ pc'[w] \notin Held /\ holder' = holder
    \/ pc[w] \in Held /\ holder' = holder
    \/ pc[w] \in Held /\ pc'[w] \notin Held /\ holder' = [holder EXCEPT ![ProcessOf[w]] = Nobody]

LEMMA GuardsLock ==
    ASSUME Control, LockInv, NEW w \in Writer, Guards(w),
           \A v \in Writer \ {w} : pc'[v] = pc[v]
    PROVE  LockInv'
  BY WritersAssumption DEF Control, LockInv, Guards

LEMMA MovesSeen ==
    ASSUME SeenInv, NEW w \in Writer, Moves(w), UNCHANGED <<live, foreign>>
    PROVE  SeenInv'
  BY DEF SeenInv, Moves, Fresh, Turn

\* No thread of the process but w can be about to rename when w renames.
LEMMA RenameSeen ==
    ASSUME LockInv, NEW w \in Writer, pc[w] \in Held, Moves(w),
           \A v \in Writer : ProcessOf[v] = ProcessOf[w]
    PROVE  SeenInv'
  BY DEF LockInv, SeenInv, Moves, Held, Labels

LEMMA GotoMoves ==
    ASSUME Control, NEW w \in Writer, NEW r, NEW label \in Labels \ {"mark", "publish"},
           Goto(w, label), Set(w, r) \/ UNCHANGED loc,
           pc[w] \in Held \/ label \notin Held
    PROVE  Moves(w) /\ Guards(w)
  BY DEF Control, Goto, Set, Moves, Guards

LEMMA LeaveMoves ==
    ASSUME Control, NEW w \in Writer, NEW r, NEW label \in Labels \ Held,
           Leave(w, label, r), pc[w] \in Held
    PROVE  Moves(w) /\ Guards(w)
  BY DEF Control, Leave, Set, Moves, Guards, Held, Labels

LEMMA EndMoves ==
    ASSUME Control, NEW w \in Writer, pc[w] \in Held, Finish(w) \/ Fail(w) \/ Return(w)
    PROVE  Moves(w) /\ Guards(w)
  BY LeaveMoves DEF Finish, Fail, Return, Labels, Held

LEMMA AfterRecoverMoves ==
    ASSUME Control, NEW w \in Writer, pc[w] \in Held, NEW outcome, AfterRecover(w, outcome)
    PROVE  Moves(w) /\ Guards(w)
  <1>1. CASE Finish(w) \/ Fail(w)  BY <1>1, EndMoves
  <1>2. CASE \E r : Leave(w, "lock", r) \/ Leave(w, "prepare", r)
    BY <1>2, LeaveMoves DEF Labels, Held
  <1>3. CASE \E r : (Goto(w, "recover") \/ Goto(w, "plan")) /\ Set(w, r)
    BY <1>3, GotoMoves DEF Labels
  <1>4. CASE /\ holder' = [holder EXCEPT ![ProcessOf[w]] = Nobody]
             /\ pc' = [pc EXCEPT ![w] = "idle"]
             /\ Set(w, Blank)
    BY <1>4 DEF Control, Set, Moves, Guards, Held
  <1>5. QED  BY <1>1, <1>2, <1>3, <1>4 DEF AfterRecover

LEMMA CommitMoves ==
    ASSUME Control, NEW w \in Writer, pc[w] \in Held, CommitError(w) \/ Committed(w)
    PROVE  Moves(w) /\ Guards(w)
  BY AfterRecoverMoves, EndMoves, GotoMoves DEF CommitError, Committed, Labels

----------------------------------------------------------------------------
(* The steps that leave every file and every other thread alone. *)

LEMMA QuietRecovery ==
    ASSUME Control, NEW w \in Writer, ~Lock(w), ~ForwardPublish(w), Recovery(w)
    PROVE  Moves(w) /\ Guards(w) /\ UNCHANGED <<live, foreign>>
  <1>0. CASE RecoverNothing(w)
    BY <1>0, AfterRecoverMoves DEF RecoverNothing, Held, Labels, disk, history
  <1>1. CASE RecoverDecide(w)
    <2>1. Goto(w, "forward") \/ Goto(w, "discard")  BY <1>1 DEF RecoverDecide
    <2>2. QED  BY <1>1, <2>1, GotoMoves DEF RecoverDecide, Held, Labels, disk, history
  <1>2. CASE Discard(w)
    BY <1>2, GotoMoves DEF Discard, Held, Labels, history
  <1>3. CASE DiscardClear(w)
    BY <1>3, AfterRecoverMoves DEF DiscardClear, Held, Labels
  <1>4. CASE ForwardSkip(w)
    <2>1. PICK r : Set(w, r)  BY <1>4 DEF ForwardSkip
    <2>2. QED  BY <1>4, <2>1, GotoMoves DEF ForwardSkip, Held, Labels, disk, history
  <1>5. CASE ForwardRead(w)
    <2>1. PICK r : Set(w, r)  BY <1>5 DEF ForwardRead
    <2>2. QED  BY <1>5, <2>1, GotoMoves DEF ForwardRead, Held, Labels, history
  <1>6. CASE ForwardDone(w)
    BY <1>6, GotoMoves DEF ForwardDone, Held, Labels, disk, history
  <1>7. CASE Tidy(w)
    BY <1>7, GotoMoves DEF Tidy, Held, Labels, history
  <1>8. QED
    BY <1>0, <1>1, <1>2, <1>3, <1>4, <1>5, <1>6, <1>7 DEF Recovery

LEMMA QuietTarget ==
    ASSUME Control, NEW w \in Writer, Commit(w) \/ CommitDb(w) \/ Clear(w)
    PROVE  Moves(w) /\ Guards(w) /\ UNCHANGED <<live, foreign>>
  <1>1. CASE Commit(w)
    <2>1. pc[w] \in Held  BY <1>1 DEF Commit, Held, Labels
    <2>2. Committed(w) \/ CommitError(w) \/ (Goto(w, "commitDb") /\ UNCHANGED loc)
      BY <1>1 DEF Commit
    <2>3. QED  BY <1>1, <2>1, <2>2, CommitMoves, GotoMoves DEF Commit, Labels, disk, history
  <1>2. CASE CommitDb(w)
    BY <1>2, CommitMoves DEF CommitDb, Held, Labels, disk, history
  <1>3. CASE Clear(w)
    <2>1. pc[w] \in Held  BY <1>3 DEF Clear, Held, Labels
    <2>2. AfterRecover(w, "forwarded") \/ Return(w) \/ CommitError(w)  BY <1>3 DEF Clear
    <2>3. QED  BY <1>3, <2>1, <2>2, CommitMoves, AfterRecoverMoves, EndMoves DEF Clear
  <1>4. QED  BY <1>1, <1>2, <1>3

LEMMA QuietOperation ==
    ASSUME Control, NEW w \in Writer,
           \/ Plan(w) \/ Stage(w) \/ Intent(w) \/ CheckGiveUp(w) \/ CheckNoop(w)
           \/ CheckReplan(w) \/ CheckFails(w) \/ Record(w) \/ DropOld(w)
           \/ Abandon(w) \/ AbandonClear(w)
    PROVE  Moves(w) /\ Guards(w) /\ UNCHANGED <<live, foreign>>
  <1>1. CASE Plan(w)
    <2>1. Fail(w) \/ \E r : Set(w, r) /\ (Goto(w, "commit") \/ Goto(w, "stage"))
      BY <1>1 DEF Plan
    <2>2. QED  BY <1>1, <2>1, EndMoves, GotoMoves DEF Plan, Held, Labels, disk, history
  <1>2. CASE Stage(w)
    BY <1>2, EndMoves, GotoMoves DEF Stage, Held, Labels, history
  <1>3. CASE Intent(w)
    BY <1>3, EndMoves, GotoMoves DEF Intent, Held, Labels
  <1>4. CASE CheckGiveUp(w)
    BY <1>4, EndMoves, GotoMoves DEF CheckGiveUp, Held, Labels, disk, history
  <1>5. CASE CheckNoop(w)
    <2>1. PICK r : Set(w, r)  BY <1>5 DEF CheckNoop
    <2>2. QED  BY <1>5, <2>1, GotoMoves DEF CheckNoop, Held, Labels, history
  <1>6. CASE CheckReplan(w)
    <2>1. PICK r : Set(w, r)  BY <1>6 DEF CheckReplan
    <2>2. QED  BY <1>6, <2>1, GotoMoves DEF CheckReplan, Held, Labels, history
  <1>7. CASE CheckFails(w)
    BY <1>7, EndMoves DEF CheckFails, Held, Labels, disk, history
  <1>8. CASE Record(w)
    <2>1. pc[w] \in Held  BY <1>8 DEF Record, Held, Labels
    <2>2. \/ Fail(w) \/ (Goto(w, "dropOld") /\ UNCHANGED loc)
          \/ \E r, todo : Goto(w, Next1(w, todo)) /\ Set(w, r)
      BY <1>8 DEF Record
    <2>3. \A todo : Next1(w, todo) \in Labels \ {"mark", "publish"}  BY DEF Next1, Labels
    <2>4. QED  BY <1>8, <2>1, <2>2, <2>3, EndMoves, GotoMoves DEF Record, Labels
  <1>9. CASE DropOld(w)
    BY <1>9, GotoMoves DEF DropOld, Held, Labels, history
  <1>10. CASE Abandon(w)
    BY <1>10, GotoMoves DEF Abandon, Held, Labels, history
  <1>11. CASE AbandonClear(w)
    BY <1>11, EndMoves DEF AbandonClear, Held, Labels
  <1>12. QED
    BY <1>1, <1>2, <1>3, <1>4, <1>5, <1>6, <1>7, <1>8, <1>9, <1>10, <1>11

LEMMA QuietCommand ==
    ASSUME Control, NEW w \in Writer, Begin(w) \/ Prepare(w) \/ Adopt(w) \/ Rollback(w)
    PROVE  Moves(w) /\ Guards(w) /\ UNCHANGED <<live, foreign>>
  <1>1. CASE Begin(w)
    <2>1. \E r : Set(w, r) /\ (Goto(w, "prepare") \/ Goto(w, "lock"))  BY <1>1 DEF Begin
    <2>2. QED  BY <1>1, <2>1, GotoMoves DEF Begin, Held, Labels, disk, history
  <1>2. CASE Prepare(w)
    <2>1. PICK r : Set(w, r)  BY <1>2 DEF Prepare
    <2>2. QED  BY <1>2, <2>1, GotoMoves DEF Prepare, Held, Labels, disk, history
  <1>3. CASE Adopt(w)
    BY <1>3, GotoMoves DEF Adopt, Held, Labels, disk, history
  <1>4. CASE Rollback(w)
    BY <1>4, GotoMoves DEF Rollback, Held, Labels, disk, history
  <1>5. QED  BY <1>1, <1>2, <1>3, <1>4

----------------------------------------------------------------------------
(* The guard. *)

\* A thread that renames stays inside, or leaves as recovery does.
LEMMA PublishMoves ==
    ASSUME Control, NEW w \in Writer, ForwardPublish(w) \/ Publish(w)
    PROVE  pc[w] \in Held /\ Moves(w) /\ Guards(w)
  <1>1. CASE ForwardPublish(w)
    <2>1. pc[w] \in Held  BY <1>1 DEF ForwardPublish, Held, Labels
    <2>2. AfterRecover(w, "error") \/ \E r : Goto(w, "forward") /\ Set(w, r)
      BY <1>1 DEF ForwardPublish
    <2>3. QED  BY <2>1, <2>2, AfterRecoverMoves, GotoMoves DEF Labels
  <1>2. CASE Publish(w)
    <2>1. pc[w] \in Held  BY <1>2 DEF Publish, Held, Labels
    <2>2. \/ Fail(w) \/ (Goto(w, "abandon") /\ UNCHANGED loc)
          \/ \E r, todo : Goto(w, Next1(w, todo)) /\ Set(w, r)
      BY <1>2 DEF Publish
    <2>3. \A todo : Next1(w, todo) \in Labels \ {"mark", "publish"}  BY DEF Next1, Labels
    <2>4. QED  BY <2>1, <2>2, <2>3, EndMoves, GotoMoves DEF Labels
  <1>3. QED  BY <1>1, <1>2

\* The steps that bring a thread to a rename: it holds the guard already.
LEMMA ApproachGuards ==
    ASSUME Control, NEW w \in Writer, CheckSame(w) \/ Mark(w)
    PROVE  /\ Guards(w) /\ UNCHANGED <<live, foreign>>
           /\ \A v \in Writer \ {w} : pc'[v] = pc[v] /\ loc'[v] = loc[v]
  BY DEF CheckSame, Mark, Goto, Set, Guards, Held, Labels, history, Control

LEMMA LockInvNext == Inv /\ LockInv /\ [Next]_vars => LockInv'
  <1> SUFFICES ASSUME Inv, LockInv, [Next]_vars PROVE LockInv'
    OBVIOUS
  <1> USE DEF Inv
  <1>1. CASE UNCHANGED vars  BY <1>1 DEF vars, LockInv
  <1>2. ASSUME NEW w \in Writer, Lock(w) PROVE LockInv'
    BY <1>2, WritersAssumption DEF Lock, LockFree, LockInv, Control
  <1>3. ASSUME NEW w \in Writer, Guards(w), \A v \in Writer \ {w} : pc'[v] = pc[v]
        PROVE  LockInv'
    BY <1>3, GuardsLock
  <1>4. ASSUME NEW w \in Writer, Begin(w) \/ Step(w) PROVE LockInv'
    <2>1. CASE ForwardPublish(w) \/ Publish(w)
      BY <1>3, <2>1, PublishMoves DEF Moves
    <2>2. CASE CheckSame(w) \/ Mark(w)  BY <1>3, <2>2, ApproachGuards
    <2>3. CASE Recovery(w)
      BY <1>2, <1>3, <2>1, <2>3, QuietRecovery DEF Moves
    <2>4. CASE Operation(w)
      BY <1>3, <2>1, <2>2, <2>4, QuietOperation DEF Moves, Operation
    <2>5. CASE Commit(w) \/ CommitDb(w) \/ Clear(w)
      BY <1>3, <2>5, QuietTarget DEF Moves
    <2>6. CASE Begin(w) \/ Prepare(w) \/ Adopt(w) \/ Rollback(w)
      BY <1>3, <2>6, QuietCommand DEF Moves
    <2>7. QED  BY <1>4, <2>3, <2>4, <2>5, <2>6 DEF Step
  <1>5. ASSUME NEW w \in Writer, Restart(w) PROVE LockInv'
    BY <1>5 DEF Restart, LockInv, Control, Held
  <1>6. ASSUME NEW p \in Process, Crash(p) PROVE LockInv'
    BY <1>6, WritersAssumption DEF Crash, LockInv, Control, Held
  <1>7. ASSUME NEW f \in File, Edit(f) PROVE LockInv'
    BY <1>7 DEF Edit, LockInv
  <1>8. QED  BY <1>1, <1>4, <1>5, <1>6, <1>7 DEF Next

(* At most one thread of a process is between taking and dropping the guard *)
(* of lock_app, whatever fails and whenever the process dies.               *)
THEOREM MutualExclusion == Spec => []OneInside
  <1>1. Init => LockInv  BY DEF Init, LockInv, Held
  <1>2. Inv /\ LockInv => OneInside  BY DEF LockInv, OneInside
  <1>3. QED  BY <1>1, <1>2, InitInv, NextInv, LockInvNext, PTL DEF Spec

----------------------------------------------------------------------------
(* What a thread is about to replace. *)

LEMMA SeenInvNext ==
    ASSUME \A v, w \in Writer : ProcessOf[v] = ProcessOf[w]
    PROVE  Inv /\ LockInv /\ SeenInv /\ [Next]_vars => SeenInv'
  <1> SUFFICES ASSUME Inv, LockInv, SeenInv, [Next]_vars PROVE SeenInv'
    OBVIOUS
  <1> USE DEF Inv
  <1>1. CASE UNCHANGED vars
    BY <1>1 DEF vars, disk, history, SeenInv, Fresh, Turn
  <1>2. ASSUME NEW w \in Writer, Moves(w), UNCHANGED <<live, foreign>> PROVE SeenInv'
    BY <1>2, MovesSeen
  <1>3. ASSUME NEW w \in Writer, ForwardPublish(w) \/ Publish(w) PROVE SeenInv'
    BY <1>3, PublishMoves, RenameSeen
  <1>4. ASSUME NEW w \in Writer, Lock(w) PROVE SeenInv'
    BY <1>4, <1>2 DEF Lock, Moves, Control, disk, history
  <1>5. ASSUME NEW w \in Writer, CheckSame(w) PROVE SeenInv'
    <2>1. PICK f \in File : Turn(w, f) /\ Set(w, [loc[w] EXCEPT !.seen = live[f]])
      BY <1>5 DEF CheckSame
    <2>2. loc'[w] = [loc[w] EXCEPT !.seen = live[f]] /\ loc[w] \in Local
      BY <2>1 DEF Set, Control
    <2>3. loc'[w].seen = live[f] /\ loc'[w].todo = loc[w].todo  BY <2>2 DEF Local
    <2>4. \A g \in File : Turn(w, g) => g = f  BY <2>1, FilesAssumption DEF Turn
    <2>5. Fresh(w)'  BY <1>5, <2>3, <2>4, ApproachGuards DEF Fresh, Turn
    <2>6. QED  BY <1>5, <2>5, ApproachGuards DEF SeenInv, Fresh, Turn
  <1>6. ASSUME NEW w \in Writer, Mark(w) PROVE SeenInv'
    <2>1. loc'[w] = [loc[w] EXCEPT !.mem.published = TRUE] /\ loc[w] \in Local
      BY <1>6 DEF Mark, Set, Control
    <2>2. loc'[w].seen = loc[w].seen /\ loc'[w].todo = loc[w].todo  BY <2>1 DEF Local
    <2>3. Fresh(w)  BY <1>6 DEF Mark, SeenInv
    <2>4. Fresh(w)'  BY <1>6, <2>2, <2>3, ApproachGuards DEF Fresh, Turn
    <2>5. QED  BY <1>6, <2>4, ApproachGuards DEF SeenInv, Fresh, Turn
  <1>7. ASSUME NEW w \in Writer, Begin(w) \/ Step(w) PROVE SeenInv'
    <2>1. CASE Recovery(w)
      BY <1>2, <1>3, <1>4, <2>1, QuietRecovery
    <2>2. CASE Operation(w)
      BY <1>2, <1>3, <1>5, <1>6, <2>2, QuietOperation DEF Operation
    <2>3. CASE Commit(w) \/ CommitDb(w) \/ Clear(w)  BY <1>2, <2>3, QuietTarget
    <2>4. CASE Begin(w) \/ Prepare(w) \/ Adopt(w) \/ Rollback(w)
      BY <1>2, <2>4, QuietCommand
    <2>5. QED  BY <1>7, <2>1, <2>2, <2>3, <2>4 DEF Step
  <1>8. ASSUME NEW w \in Writer, Restart(w) PROVE SeenInv'
    BY <1>8, <1>2 DEF Restart, Set, Moves, Control, disk, history
  <1>9. ASSUME NEW p \in Process, Crash(p) PROVE SeenInv'
    BY <1>9 DEF Crash, SeenInv, Fresh, Turn, Control, disk, history
  <1>10. ASSUME NEW f \in File, Edit(f) PROVE SeenInv'
    BY <1>10 DEF Edit, SeenInv, Fresh, Turn, Disk
  <1>11. QED  BY <1>1, <1>7, <1>8, <1>9, <1>10 DEF Next

(* Two writers of one process never overwrite each other: a file that is    *)
(* about to be replaced holds what its writer read, unless the client has   *)
(* changed it meanwhile (lock_app in live/engine.rs).  The assumption is    *)
(* needed: the lock is one process's, and with two processes TLC finds the  *)
(* property violated.                                                       *)
THEOREM WritersApart ==
    ASSUME \A v, w \in Writer : ProcessOf[v] = ProcessOf[w]
    PROVE  Spec => []WritersNeverOverwriteEachOther
  <1>1. Init => LockInv /\ SeenInv  BY DEF Init, LockInv, SeenInv, Held
  <1>2. Inv /\ LockInv /\ SeenInv /\ [Next]_vars => SeenInv'  BY SeenInvNext
  <1>3. SeenInv => WritersNeverOverwriteEachOther
    BY DEF SeenInv, Fresh, WritersNeverOverwriteEachOther
  <1>4. QED  BY <1>1, <1>2, <1>3, InitInv, NextInv, LockInvNext, PTL DEF Spec
----------------------------------------------------------------------------
(* What a rename replaces.  What a thread is about to publish was computed *)
(* from what it expects to find (Kept), and that is what it read last      *)
(* (ReadLast).  Both are about the thread's own memory, so nothing is      *)
(* assumed of the constants.                                               *)

Draft == {"stage", "intent", "check", "mark", "publish", "record", "recordNoop", "dropOld"}

KeepsUser(e) == e.pre \notin {Absent, Broken} => e.planned.user = e.pre.user

Kept(l)     == \A f \in l.todo \ Guarded : KeepsUser(l.mem.files[f])
ReadLast(w) == \A f \in File : Turn(w, f) => loc[w].seen = loc[w].mem.files[f].pre

Keeper(w) ==
    /\ pc[w] \in Draft => Kept(loc[w])
    /\ pc[w] \in {"mark", "publish"} => ReadLast(w)

KeepInv == \A w \in Writer : Keeper(w)

----------------------------------------------------------------------------
LEMMA PatchKeepsUser ==
    ASSUME NEW f \in File \ Guarded, NEW key, NEW expected, NEW c \in Content
    PROVE  c \notin {Absent, Broken} => Patch(f, key, expected, c).user = c.user
  BY DEF Patch, Content

\* The other threads remember what they did; w has what it needs.
LEMMA KeepOther ==
    ASSUME KeepInv, NEW w \in Writer, Keeper(w)',
           \A v \in Writer \ {w} : pc'[v] = pc[v] /\ loc'[v] = loc[v]
    PROVE  KeepInv'
  BY DEF KeepInv, Keeper, ReadLast, Turn

----------------------------------------------------------------------------
(* The steps of an operation. *)

LEMMA PlanDrafts ==
    ASSUME Inv, NEW w \in Writer, Plan(w), ~Fail(w)
    PROVE  Kept(loc'[w])
  <1>1. loc'[w] = [loc[w] EXCEPT !.mem = Planned(w), !.ret = "op", !.tries = 0,
                                 !.todo = Parts(Planned(w)), !.any = FALSE]
    BY DEF Plan, Set, Inv, Control
  <1>2. loc[w] \in Local  BY DEF Inv, Control
  <1>3. loc'[w].mem = Planned(w) /\ loc'[w].todo = Parts(Planned(w))
    BY <1>1, <1>2 DEF Local
  <1>4. ASSUME NEW f \in Parts(Planned(w)) \ Guarded PROVE KeepsUser(Planned(w).files[f])
    <2>1. f \in File \ Guarded /\ Planned(w).files[f] # NotPart  BY DEF Parts
    <2>2. Planned(w).files[f] = [pre |-> live[f], planned |-> PatchOf(w, f),
                                 staged |-> Staged(w, f, PatchOf(w, f), 0)]
      BY <2>1 DEF Planned
    <2>3. live[f] \in Content  BY <2>1 DEF Inv, Disk
    <2>4. QED  BY <2>1, <2>2, <2>3, PatchKeepsUser DEF KeepsUser, PatchOf
  <1>5. QED  BY <1>3, <1>4 DEF Kept

LEMMA CheckDrafts ==
    ASSUME Inv, KeepInv, NEW w \in Writer, CheckSame(w) \/ CheckNoop(w) \/ CheckReplan(w)
    PROVE  Keeper(w)'
  <1> DEFINE l == loc[w]
  <1>1. l \in Local /\ Kept(l)  BY DEF Inv, Control, KeepInv, Keeper, Draft,
                                       CheckSame, CheckNoop, CheckReplan
  <1>2. CASE CheckSame(w)
    <2>1. PICK f \in File : /\ Turn(w, f) /\ Unchanged(w, f)
                            /\ Set(w, [l EXCEPT !.seen = live[f]])
      BY <1>2 DEF CheckSame
    <2>2. loc'[w] = [l EXCEPT !.seen = live[f]]  BY <2>1 DEF Set, Inv, Control
    <2>3. loc'[w].seen = live[f] /\ loc'[w].todo = l.todo /\ loc'[w].mem = l.mem
      BY <1>1, <2>2 DEF Local
    <2>4. Kept(loc'[w])  BY <1>1, <2>3 DEF Kept
    <2>5. \A g \in File : Turn(w, g) => g = f  BY <2>1, FilesAssumption DEF Turn
    <2>6. ReadLast(w)'  BY <2>1, <2>3, <2>5 DEF ReadLast, Turn, Unchanged
    <2>7. QED  BY <2>4, <2>6 DEF Keeper
  <1>3. ASSUME CheckNoop(w) \/ CheckReplan(w),
               NEW f \in File, NEW e, Turn(w, f), f \notin Guarded => KeepsUser(e),
               NEW r, r.mem.files = [l.mem.files EXCEPT ![f] = e], r.todo = l.todo,
               loc'[w] = r
        PROVE  Keeper(w)'
    <2>1. f \in Parts(l.mem) /\ l.mem \in Pending
      BY <1>1, <1>3 DEF Inv, Control, Good, Turn, Local
    <2>2. l.mem.files \in [File -> Entry \cup {NotPart}]  BY <2>1 DEF Pending
    <2>3. r.mem.files[f] = e /\ \A g \in r.todo \ {f} : r.mem.files[g] = l.mem.files[g]
      BY <1>1, <1>3, <2>2 DEF Local
    <2>4. Kept(loc'[w])  BY <1>1, <1>3, <2>3 DEF Kept
    <2>5. pc'[w] \notin {"mark", "publish"}
      BY <1>3 DEF CheckNoop, CheckReplan, Goto, Inv, Control
    <2>6. QED  BY <2>4, <2>5 DEF Keeper
  <1>4. CASE CheckNoop(w)
    <2> DEFINE e(f) == [pre |-> live[f], planned |-> live[f], staged |-> NoTemp]
    <2>1. PICK f \in File :
             /\ Turn(w, f)
             /\ Set(w, [l EXCEPT !.mem.files[f] = e(f), !.seen = live[f]])
      BY <1>4 DEF CheckNoop
    <2>2. loc'[w] = [l EXCEPT !.mem.files[f] = e(f), !.seen = live[f]]
      BY <2>1 DEF Set, Inv, Control
    <2>3. l.mem \in Pending  BY <1>1 DEF Local
    <2>4. /\ loc'[w].todo = l.todo
          /\ loc'[w].mem.files = [l.mem.files EXCEPT ![f] = e(f)]
      BY <1>1, <2>2, <2>3 DEF Local, Pending
    <2>5. KeepsUser(e(f))  BY DEF KeepsUser
    <2>6. QED  BY <1>3, <1>4, <2>1, <2>4, <2>5
  <1>5. CASE CheckReplan(w)
    <2> DEFINE e(f) == [pre |-> live[f], planned |-> PatchOf(w, f),
                        staged |-> Staged(w, f, PatchOf(w, f), l.tries + 1)]
    <2>1. PICK f \in File :
             /\ Turn(w, f)
             /\ Set(w, [l EXCEPT !.mem.files[f] = e(f), !.old = l.mem.files[f].staged,
                                 !.tries = Counted(@), !.seen = live[f]])
      BY <1>5 DEF CheckReplan
    <2>2. loc'[w] = [l EXCEPT !.mem.files[f] = e(f), !.old = l.mem.files[f].staged,
                              !.tries = Counted(@), !.seen = live[f]]
      BY <2>1 DEF Set, Inv, Control
    <2>3. l.mem \in Pending  BY <1>1 DEF Local
    <2>4. /\ loc'[w].todo = l.todo
          /\ loc'[w].mem.files = [l.mem.files EXCEPT ![f] = e(f)]
      BY <1>1, <2>2, <2>3 DEF Local, Pending
    <2>5. f \notin Guarded => KeepsUser(e(f))
      BY PatchKeepsUser DEF KeepsUser, PatchOf, Inv, Disk
    <2>6. QED  BY <1>3, <1>5, <2>1, <2>4, <2>5
  <1>6. QED  BY <1>2, <1>4, <1>5

\* The other steps of the loop shorten the list at most.
LEMMA LoopDrafts ==
    ASSUME Inv, KeepInv, NEW w \in Writer,
           Stage(w) \/ Intent(w) \/ Record(w) \/ DropOld(w) \/ Publish(w)
    PROVE  Keeper(w)'
  <1> DEFINE l == loc[w]
  <1>1. l \in Local /\ Kept(l)
    BY DEF Inv, Control, KeepInv, Keeper, Draft, Stage, Intent, Record, DropOld, Publish
  <1>2. pc'[w] \notin {"mark", "publish"}
    BY PublishMoves, QuietOperation DEF Inv, Moves
  <1>3. loc'[w].todo \subseteq l.todo /\ loc'[w].mem = l.mem
    <2>1. ASSUME NEW f, NEW tries, NEW any,
                 loc'[w] = [l EXCEPT !.todo = @ \ {f}, !.any = any, !.tries = tries]
          PROVE  <1>3
      BY <1>1, <2>1 DEF Local
    <2>2. CASE Stage(w) \/ Intent(w)
      BY <2>2 DEF Stage, Intent, Fail, Leave, Set, Inv, Control
    <2>3. CASE Record(w)
      <3>1. loc'[w] = l \/ \E f : loc'[w] = [l EXCEPT !.todo = @ \ {f}, !.tries = 0]
        BY <2>3 DEF Record, Fail, Leave, Set, Inv, Control
      <3>2. QED  BY <1>1, <3>1 DEF Local
    <2>4. CASE DropOld(w)
      <3>1. loc'[w] = [l EXCEPT !.old = NoTemp]  BY <2>4 DEF DropOld, Set, Inv, Control
      <3>2. QED  BY <1>1, <3>1 DEF Local
    <2>5. CASE Publish(w)
      <3>1. \/ loc'[w] = l
            \/ \E f : loc'[w] = [l EXCEPT !.todo = @ \ {f}, !.any = TRUE, !.tries = 0]
        BY <2>5 DEF Publish, Fail, Leave, Set, Inv, Control
      <3>2. QED  BY <2>1, <3>1
    <2>6. QED  BY <2>2, <2>3, <2>4, <2>5
  <1>4. Kept(loc'[w])  BY <1>1, <1>3 DEF Kept
  <1>5. QED  BY <1>2, <1>4 DEF Keeper

LEMMA MarkDrafts ==
    ASSUME Inv, KeepInv, NEW w \in Writer, Mark(w)
    PROVE  Keeper(w)'
  <1>1. loc[w] \in Local /\ Kept(loc[w]) /\ ReadLast(w)
    BY DEF Inv, Control, KeepInv, Keeper, Draft, Mark
  <1>2. loc'[w] = [loc[w] EXCEPT !.mem.published = TRUE]
    BY DEF Mark, Set, Inv, Control
  <1>3. loc[w].mem \in Pending  BY <1>1 DEF Local
  <1>4. /\ loc'[w].todo = loc[w].todo /\ loc'[w].seen = loc[w].seen
        /\ loc'[w].mem.files = loc[w].mem.files
    BY <1>1, <1>2, <1>3 DEF Local, Pending
  <1>5. QED  BY <1>1, <1>4 DEF Keeper, Kept, ReadLast, Turn

----------------------------------------------------------------------------
(* The steps outside it leave what is planned behind. *)


LEMMA EndForgets ==
    ASSUME Control, NEW w \in Writer, Finish(w) \/ Fail(w) \/ Return(w)
    PROVE  pc'[w] \notin Draft
  BY DEF Finish, Fail, Return, Leave, Control, Draft

LEMMA AfterRecoverForgets ==
    ASSUME Control, NEW w \in Writer, NEW outcome, AfterRecover(w, outcome)
    PROVE  pc'[w] \notin Draft
  BY EndForgets DEF AfterRecover, Leave, Goto, Control, Draft

LEMMA CommitForgets ==
    ASSUME Control, NEW w \in Writer, CommitError(w) \/ Committed(w)
    PROVE  pc'[w] \notin Draft
  BY EndForgets, AfterRecoverForgets DEF CommitError, Committed, Goto, Control, Draft

LEMMA RestForgets ==
    ASSUME Control, NEW w \in Writer,
           \/ Recovery(w) \/ Commit(w) \/ CommitDb(w) \/ Clear(w)
           \/ Begin(w) \/ Prepare(w) \/ Adopt(w) \/ Rollback(w) \/ Restart(w)
           \/ CheckGiveUp(w) \/ CheckFails(w) \/ Abandon(w) \/ AbandonClear(w)
    PROVE  pc'[w] \notin Draft
  <1>1. ASSUME NEW label, label \notin Draft, Goto(w, label) PROVE pc'[w] \notin Draft
    BY <1>1 DEF Goto, Control
  <1>2. CASE Recovery(w)
    <2>1. CASE Lock(w)  BY <2>1 DEF Lock, Control, Draft
    <2>2. CASE \/ RecoverNothing(w) \/ RecoverDecide(w) \/ Discard(w) \/ DiscardClear(w)
               \/ ForwardSkip(w)
      BY <1>1, <2>2, AfterRecoverForgets
         DEF RecoverNothing, RecoverDecide, Discard, DiscardClear, ForwardSkip, Draft
    <2>3. CASE ForwardRead(w) \/ ForwardPublish(w) \/ ForwardDone(w) \/ Tidy(w)
      BY <1>1, <2>3, AfterRecoverForgets
         DEF ForwardRead, ForwardPublish, ForwardDone, Tidy, Draft
    <2>4. QED  BY <1>2, <2>1, <2>2, <2>3 DEF Recovery
  <1>3. CASE Commit(w) \/ CommitDb(w)
    BY <1>1, <1>3, CommitForgets DEF Commit, CommitDb, Draft
  <1>4. CASE Clear(w)
    BY <1>4, CommitForgets, EndForgets, AfterRecoverForgets DEF Clear
  <1>5. CASE Begin(w) \/ Prepare(w) \/ Adopt(w) \/ Rollback(w)
    BY <1>1, <1>5 DEF Begin, Prepare, Adopt, Rollback, Draft
  <1>6. CASE Restart(w)  BY <1>6 DEF Restart, Control, Draft
  <1>7. CASE CheckGiveUp(w) \/ CheckFails(w) \/ Abandon(w) \/ AbandonClear(w)
    BY <1>1, <1>7, EndForgets DEF CheckGiveUp, CheckFails, Abandon, AbandonClear, Draft
  <1>8. QED  BY <1>2, <1>3, <1>4, <1>5, <1>6, <1>7

\* No thread touches another one's memory.
LEMMA OthersApart ==
    ASSUME Control, NEW w \in Writer, Begin(w) \/ Step(w) \/ Restart(w)
    PROVE  \A v \in Writer \ {w} : pc'[v] = pc[v] /\ loc'[v] = loc[v]
  <1> USE DEF Moves
  <1>1. CASE Lock(w)  BY <1>1 DEF Lock, Control
  <1>2. CASE Restart(w)  BY <1>2 DEF Restart, Set, Control
  <1>3. CASE Recovery(w) /\ ~Lock(w)  BY <1>3, QuietRecovery, PublishMoves
  <1>4. CASE Operation(w)
    BY <1>4, QuietOperation, PublishMoves, ApproachGuards DEF Operation
  <1>5. CASE Commit(w) \/ CommitDb(w) \/ Clear(w)  BY <1>5, QuietTarget
  <1>6. CASE Begin(w) \/ Prepare(w) \/ Adopt(w) \/ Rollback(w)  BY <1>6, QuietCommand
  <1>7. QED  BY <1>1, <1>2, <1>3, <1>4, <1>5, <1>6 DEF Step

LEMMA KeepInvNext == Inv /\ KeepInv /\ [Next]_vars => KeepInv'
  <1> SUFFICES ASSUME Inv, KeepInv, [Next]_vars PROVE KeepInv'
    OBVIOUS
  <1>0. Control  BY DEF Inv
  <1>1. CASE UNCHANGED vars
    BY <1>1 DEF vars, KeepInv, Keeper, ReadLast, Turn
  <1>2. ASSUME NEW w \in Writer, Begin(w) \/ Step(w) \/ Restart(w) PROVE KeepInv'
    <2>1. CASE pc'[w] \notin Draft
      <3>1. Keeper(w)'  BY <2>1 DEF Keeper, Draft
      <3>2. QED  BY <1>0, <1>2, <3>1, OthersApart, KeepOther
    <2>2. CASE Plan(w)
      <3>1. CASE Fail(w)  BY <1>0, <2>1, <3>1, EndForgets
      <3>2. CASE ~Fail(w)
        <4>1. pc'[w] \notin {"mark", "publish"}
          BY <1>0, <2>2, QuietOperation DEF Moves
        <4>2. Keeper(w)'  BY <2>2, <3>2, <4>1, PlanDrafts DEF Keeper
        <4>3. QED  BY <1>0, <1>2, <4>2, OthersApart, KeepOther
      <3>3. QED  BY <3>1, <3>2
    <2>3. CASE \/ CheckSame(w) \/ CheckNoop(w) \/ CheckReplan(w) \/ Mark(w)
               \/ Stage(w) \/ Intent(w) \/ Record(w) \/ DropOld(w) \/ Publish(w)
      <3>1. Keeper(w)'  BY <2>3, CheckDrafts, MarkDrafts, LoopDrafts
      <3>2. QED  BY <1>0, <1>2, <3>1, OthersApart, KeepOther
    <2>4. CASE Operation(w)
      BY <1>0, <2>1, <2>2, <2>3, <2>4, RestForgets DEF Operation
    <2>5. QED  BY <1>0, <1>2, <2>1, <2>4, RestForgets DEF Step
  <1>3. ASSUME NEW p \in Process, Crash(p) PROVE KeepInv'
    BY <1>0, <1>3 DEF Crash, KeepInv, Keeper, ReadLast, Turn, Control, Draft
  <1>4. ASSUME NEW f \in File, Edit(f) PROVE KeepInv'
    BY <1>4 DEF Edit, KeepInv, Keeper, ReadLast, Turn
  <1>5. QED  BY <1>1, <1>2, <1>3, <1>4 DEF Next

----------------------------------------------------------------------------
\* The only step that leaves "publish" for another label and writes a file
\* is the thread's own rename.
LEMMA RenamesPlan ==
    ASSUME Inv, [Next]_vars, NEW w \in Writer, NEW f \in File, Turn(w, f),
           pc[w] = "publish", pc'[w] \notin {"publish", "idle"}, live'[f] # live[f]
    PROVE  live'[f] = loc[w].mem.files[f].planned
  <1>0. Control  BY DEF Inv
  <1>1. ~UNCHANGED vars  BY DEF vars
  <1>2. \A p \in Process : ~Crash(p)  BY DEF Crash, disk
  <1>3. \A g \in File : ~Edit(g)  BY DEF Edit
  <1>4. PICK v \in Writer : Begin(v) \/ Step(v) \/ Restart(v)
    BY <1>1, <1>2, <1>3 DEF Next
  <1>5. v = w  BY <1>0, <1>4, OthersApart
  <1>6. ~Begin(w) /\ ~Restart(w)  BY DEF Begin, Restart, disk
  <1>7. ~Recovery(w)
    BY DEF Recovery, Lock, RecoverNothing, RecoverDecide, Discard, DiscardClear,
       ForwardSkip, ForwardRead, ForwardPublish, ForwardDone, Tidy
  <1>8. /\ ~Prepare(w) /\ ~Rollback(w) /\ ~Commit(w) /\ ~CommitDb(w) /\ ~Clear(w)
        /\ ~Adopt(w)
    BY DEF Prepare, Rollback, Commit, CommitDb, Clear, Adopt
  <1>9. Publish(w)
    <2>1. Operation(w)  BY <1>4, <1>5, <1>6, <1>7, <1>8 DEF Step
    <2>2. QED
      BY <2>1 DEF Operation, Plan, Stage, Intent, CheckSame, CheckGiveUp, CheckNoop,
         CheckReplan, CheckFails, Record, DropOld, Mark, Abandon, AbandonClear
  <1>10. PICK g \in File : Turn(w, g) /\ live' = [live EXCEPT ![g] = loc[w].mem.files[g].planned]
    BY <1>9 DEF Publish, Rename
  <1>11. g = f  BY <1>10, FilesAssumption DEF Turn
  <1>12. QED  BY <1>10, <1>11 DEF Inv, Disk

(* Whatever fails, dies or interferes, with any number of processes: a      *)
(* rename keeps the user's part of the file as it was last read, before or  *)
(* after being planned again (the loop of mode/operation.rs, live/patch).   *)
THEOREM EditsKept == Spec => OperationKeepsEdits
  <1>1. Init => KeepInv  BY DEF Init, KeepInv, Keeper, Draft
  <1>2. Inv /\ KeepInv /\ [Next]_vars => [EditsSurvive("publish")]_vars
    <2> SUFFICES ASSUME Inv, KeepInv, [Next]_vars PROVE EditsSurvive("publish")
      OBVIOUS
    <2>1. ASSUME NEW w \in Writer, NEW f \in File \ Guarded,
                 pc[w] = "publish", Turn(w, f), live'[f] # live[f],
                 pc'[w] \notin {"publish", "idle"}, loc[w].seen \notin {Absent, Broken}
          PROVE  live'[f].user = loc[w].seen.user
      <3>1. live'[f] = loc[w].mem.files[f].planned  BY <2>1, RenamesPlan
      <3>2. KeepsUser(loc[w].mem.files[f]) /\ loc[w].seen = loc[w].mem.files[f].pre
        BY <2>1 DEF KeepInv, Keeper, Kept, ReadLast, Draft, Turn
      <3>3. QED  BY <2>1, <3>1, <3>2 DEF KeepsUser
    <2>2. QED  BY <2>1 DEF EditsSurvive
  <1>3. QED
    BY <1>1, <1>2, InitInv, NextInv, KeepInvNext, PTL DEF Spec, OperationKeepsEdits
=============================================================================
