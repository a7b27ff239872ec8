-------------------------- MODULE ProxyFailoverProofs --------------------------
(***************************************************************************)
(* What the breakers of one application guarantee for any number of        *)
(* requests and providers, any thresholds, arrivals and resets, as long as *)
(* the calls of one breaker's methods do not overlap (~Interleaved).       *)
(*                                                                         *)
(* A call owns its breaker from its first access to its last one (Apart),  *)
(* so that what it has read stays true (Knows), and whoever finds a        *)
(* breaker between two calls finds it in order (Rested, Waited, Vacant,    *)
(* Balanced).                                                              *)
(*                                                                         *)
(* The last part asks for none of this: the types hold also when calls     *)
(* overlap (TypeCorrect).                                                  *)
(***************************************************************************)
EXTENDS ProxyFailover, TLAPS, FiniteSetTheorems

Counts == [state : States, opened : {"never", "recent", "elapsed"}, failures : Nat,
           successes : Nat, total : Nat, failed : Nat, probes : Nat]

Memory == [examine : SUBSET Provider, todo : SUBSET Provider, tried : Nat, at : Provider,
           permit : BOOLEAN, result : {"none", "success", "failure", "fatal", "reset"},
           seen : States, count : Nat]

Types ==
    /\ breaker \in [Provider -> Counts]
    /\ waited \in [Provider -> BOOLEAN]
    /\ pc \in [Request -> Labels]
    /\ loc \in [Request -> Memory]

In(r, p)      == pc[r] \in Inside /\ loc[r].at = p
AtOpened(r, p) == pc[r] = "opened" /\ loc[r].at = p

Apart == \A q, r \in Request, p \in Provider : In(q, p) /\ In(r, p) => q = r

\* A closed breaker has not reached its threshold.
Healthy(p) == breaker[p].state = "Closed" => breaker[p].failures < FailureThreshold

Rested == \A p \in Provider : (\A r \in Request : ~In(r, p)) => Healthy(p)

\* An open breaker whose timeout is over, and not because it opened before.
TimeIsUp(p) ==
    /\ breaker[p].state = "Open" /\ breaker[p].opened = "elapsed"
    /\ \A r \in Request : ~AtOpened(r, p)

Waited == \A p \in Provider : TimeIsUp(p) => waited[p]

\* What a call that is under way relies on.
Knows(r) ==
    LET b == breaker[loc[r].at]  l == loc[r] IN
    /\ pc[r] \in {"selectHalf", "half"} => b.state = "Open" /\ b.opened = "elapsed"
    /\ pc[r] \in {"again", "probe", "unprobe", "streak"} => b.state = "HalfOpen"
    /\ pc[r] \in {"release", "success", "failure"} => l.seen = b.state
    /\ pc[r] = "tally" => l.seen = b.state /\ l.count = b.failures
    /\ pc[r] = "rate" => b.failures < FailureThreshold
    /\ pc[r] \in {"opened", "openReset"} => b.state = "Open"

CallInv == Types /\ Apart /\ Rested /\ Waited /\ \A r \in Request : Knows(r)

----------------------------------------------------------------------------
(* What every step of a request has in common. *)

\* r has the breaker of p for itself.
Owns(r, p) == \A q \in Request \ {r} : ~In(q, p)

Others(r) == \A q \in Request \ {r} : pc'[q] = pc[q] /\ loc'[q] = loc[q]

Frame(r) ==
    /\ Others(r)
    /\ \A p \in Provider : p # loc[r].at => breaker'[p] = breaker[p]
    /\ breaker' = breaker \/ Owns(r, loc[r].at)
    /\ pc'[r] \in Inside => Owns(r, loc'[r].at)

\* r leaves a call in order, or does not change what the call is about.
LeavesHealthy(r) ==
    \/ pc'[r] \in Inside /\ pc[r] \in Inside /\ loc'[r].at = loc[r].at
    \/ \E p \in Provider : p = loc[r].at /\ Healthy(p)'
    \/ pc[r] \notin Inside /\ breaker' = breaker

LEMMA OwnerInside ==
    ASSUME Types, Apart, NEW r \in Request, pc[r] \in Inside
    PROVE  Owns(r, loc[r].at)
  BY DEF Types, Memory, Apart, Owns, In

LEMMA AloneOwns ==
    ASSUME ~Interleaved, NEW r \in Request, NEW p, Alone(p)
    PROVE  Owns(r, p)
  BY DEF Alone, Owns, In

LEMMA FrameApart ==
    ASSUME Types, Apart, NEW r \in Request, Frame(r)
    PROVE  Apart'
  BY DEF Apart, Frame, Others, Owns, In

LEMMA FrameKnows ==
    ASSUME Types, Apart, NEW r \in Request, Frame(r), NEW q \in Request \ {r}, Knows(q)
    PROVE  Knows(q)'
  <1>1. pc'[q] = pc[q] /\ loc'[q] = loc[q] /\ loc[q].at \in Provider
    BY DEF Frame, Others, Types, Memory
  <1>2. CASE pc[q] \notin Inside  BY <1>1, <1>2 DEF Knows, Inside
  <1>3. CASE pc[q] \in Inside
    <2>1. breaker'[loc[q].at] = breaker[loc[q].at]
      BY <1>1, <1>3 DEF Frame, Owns, In
    <2>2. QED  BY <1>1, <2>1 DEF Knows
  <1>4. QED  BY <1>2, <1>3

LEMMA FrameRested ==
    ASSUME Types, Rested, NEW r \in Request, Frame(r), LeavesHealthy(r)
    PROVE  Rested'
  <1> SUFFICES ASSUME NEW p \in Provider, \A q \in Request : ~In(q, p)' PROVE Healthy(p)'
    BY DEF Rested
  <1>1. \A q \in Request \ {r} : ~In(q, p)  BY DEF Frame, Others, In
  <1>2. CASE p # loc[r].at
    <2>1. \A q \in Request : ~In(q, p)  BY <1>1, <1>2 DEF In
    <2>2. breaker'[p] = breaker[p]  BY <1>2 DEF Frame
    <2>3. QED  BY <2>1, <2>2 DEF Rested, Healthy
  <1>3. CASE p = loc[r].at
    <2>1. CASE pc[r] \notin Inside /\ breaker' = breaker
      BY <1>1, <2>1 DEF Rested, Healthy, In
    <2>2. QED  BY <1>3, <2>1 DEF LeavesHealthy, In
  <1>4. QED  BY <1>2, <1>3

\* The breaker is not opened, and stays at "opened" only by name.
LEMMA FrameWaited ==
    ASSUME Types, Waited, NEW r \in Request, Frame(r), waited' = waited,
           pc[r] = "opened" => breaker'[loc[r].at].opened = "recent",
           LET b == breaker[loc[r].at]  c == breaker'[loc[r].at] IN
             c.state = "Open" /\ c.opened = "elapsed" => b.state = "Open" /\ b.opened = "elapsed"
    PROVE  Waited'
  <1> SUFFICES ASSUME NEW p \in Provider, TimeIsUp(p)' PROVE waited[p]
    BY DEF Waited
  <1>1. \A q \in Request \ {r} : ~AtOpened(q, p)
    BY DEF TimeIsUp, AtOpened, Frame, Others
  <1>2. breaker[p].state = "Open" /\ breaker[p].opened = "elapsed" /\ ~AtOpened(r, p)
    BY DEF TimeIsUp, Frame, AtOpened
  <1>3. QED  BY <1>1, <1>2 DEF Waited, TimeIsUp

----------------------------------------------------------------------------
(* Where a request goes. *)

Goes(r, label, l) ==
    /\ pc' = [pc EXCEPT ![r] = label] /\ loc' = [loc EXCEPT ![r] = l]

LEMMA GoesFacts ==
    ASSUME Types, NEW r \in Request, NEW label \in Labels, NEW l \in Memory, Goes(r, label, l)
    PROVE  /\ pc' \in [Request -> Labels] /\ loc' \in [Request -> Memory]
           /\ pc'[r] = label /\ loc'[r] = l /\ Others(r)
  BY DEF Types, Goes, Others

LEMMA BlankType == Blank \in Memory /\ Fresh \in Counts
  <1>1. Nowhere \in Provider  BY ProviderAssumption DEF Nowhere
  <1>2. QED  BY <1>1 DEF Blank, Memory, States, Fresh, Counts

LEMMA StayGoes ==
    ASSUME Types, NEW r \in Request, NEW label, Goto(r, label), UNCHANGED loc
    PROVE  Goes(r, label, loc[r])
  BY DEF Types, Goto, Goes

\* Moving on, ending, and what follows a recorded outcome.
LEMMA Ends ==
    ASSUME Types, NEW r \in Request, NEW l \in Memory, Move(r, l) \/ Finish(r)
    PROVE  \E label \in {"loop", "idle"}, m \in Memory : Goes(r, label, m) /\ ~m.permit
  <1>1. CASE Move(r, l)
    <2> DEFINE m == [l EXCEPT !.todo = @ \ {l.at}, !.permit = FALSE, !.result = "none",
                              !.seen = "Closed", !.count = 0]
    <2>1. m \in Memory /\ ~m.permit  BY DEF Memory, States
    <2>2. Goes(r, "loop", m)  BY <1>1 DEF Move, Goto, Set, Goes
    <2>3. QED  BY <2>1, <2>2
  <1>2. CASE Finish(r)
    <2>1. Goes(r, "idle", Blank) /\ ~Blank.permit
      BY <1>2 DEF Finish, Goto, Set, Goes, Blank
    <2>2. QED  BY <2>1, BlankType
  <1>3. QED  BY <1>1, <1>2

LEMMA RecordedEnds ==
    ASSUME Types, NEW r \in Request, Recorded(r)
    PROVE  \E label \in {"loop", "idle"}, m \in Memory : Goes(r, label, m) /\ ~m.permit
  <1>1. loc[r] \in Memory  BY DEF Types
  <1>2. QED  BY <1>1, Ends DEF Recorded

----------------------------------------------------------------------------
(* The steps that read. *)

Same == breaker' = breaker /\ waited' = waited

\* A step that changes no breaker and enters or goes on with a call it owns.
LEMMA ReadsKeep ==
    ASSUME CallInv, NEW r \in Request, Same,
           NEW label \in Labels, NEW l \in Memory, Goes(r, label, l),
           label \in Inside => Owns(r, l.at),
           pc[r] \in Inside => Healthy(loc[r].at) \/ (label \in Inside /\ l.at = loc[r].at),
           pc[r] # "opened",
           Knows(r)'
    PROVE  CallInv'
  <1> USE DEF CallInv
  <1>1. /\ pc' \in [Request -> Labels] /\ loc' \in [Request -> Memory]
        /\ pc'[r] = label /\ loc'[r] = l /\ Others(r)
    BY GoesFacts
  <1>2. loc[r].at \in Provider  BY DEF Types, Memory
  <1>3. Types'  BY <1>1 DEF Types, Same
  <1>4. Frame(r)  BY <1>1 DEF Frame, Same
  <1>5. LeavesHealthy(r)  BY <1>1, <1>2 DEF LeavesHealthy, Same, Healthy
  <1>6. Waited'  BY <1>4, FrameWaited DEF Same
  <1>7. QED  BY <1>3, <1>4, <1>5, <1>6, FrameApart, FrameRested, FrameKnows

\* Outside a call there is nothing to know.
LEMMA KnowsNothing ==
    ASSUME NEW r \in Request, pc'[r] \notin Inside
    PROVE  Knows(r)'
  BY DEF Knows, Inside

LEMMA LeavesCall ==
    ASSUME CallInv, NEW r \in Request, Same, pc[r] # "opened",
           pc[r] \in Inside => Healthy(loc[r].at),
           NEW label \in Labels \ Inside, NEW l \in Memory, Goes(r, label, l)
    PROVE  CallInv'
  <1>1. pc'[r] = label  BY DEF CallInv, Types, Goes
  <1>2. QED  BY <1>1, KnowsNothing, ReadsKeep

LEMMA SelectKeeps ==
    ASSUME CallInv, ~Interleaved, NEW r \in Request,
           Arrive(r) \/ SelectRead(r) \/ SelectDone(r)
    PROVE  CallInv'
  <1>0. loc[r] \in Memory /\ Types  BY DEF CallInv, Types
  <1>1. CASE Arrive(r)
    <2> DEFINE l == [Blank EXCEPT !.examine = Provider]
    <2>1. l \in Memory  BY BlankType DEF Memory, Blank
    <2>2. Goes(r, "select", l)  BY <1>1 DEF Arrive, Goto, Set, Goes
    <2> HIDE DEF l
    <2>3. QED
      BY <1>1, <2>1, <2>2, LeavesCall DEF Arrive, Same, Labels, Inside
  <1>2. CASE SelectRead(r)
    <2>1. PICK p \in Provider :
             /\ Alone(p)
             /\ LET b == breaker[p]
                    l == [loc[r] EXCEPT !.examine = @ \ {p}, !.at = p] IN
                IF b.state # "Open"
                THEN Goto(r, "select") /\ Set(r, [l EXCEPT !.todo = @ \cup {p}])
                ELSE IF TimedOut(b) THEN Goto(r, "selectHalf") /\ Set(r, l)
                ELSE Goto(r, "select") /\ Set(r, l)
      BY <1>2 DEF SelectRead
    <2> DEFINE l == [loc[r] EXCEPT !.examine = @ \ {p}, !.at = p]
               m == [l EXCEPT !.todo = @ \cup {p}]
    <2>2. l \in Memory /\ m \in Memory /\ l.at = p  BY <1>0 DEF Memory
    <2> HIDE DEF l, m
    <2>3. CASE Goes(r, "select", l) \/ Goes(r, "select", m)
      BY <1>2, <2>2, <2>3, LeavesCall DEF SelectRead, Same, Labels, Inside
    <2>4. CASE /\ breaker[p].state = "Open" /\ breaker[p].opened = "elapsed"
               /\ Goes(r, "selectHalf", l)
      <3>1. pc'[r] = "selectHalf" /\ loc'[r] = l
        BY <1>0, <2>2, <2>4, GoesFacts DEF Labels
      <3>2. Knows(r)'  BY <1>2, <2>2, <2>4, <3>1 DEF Knows, SelectRead
      <3>3. QED
        BY <1>2, <2>1, <2>2, <2>4, <3>2, ReadsKeep, AloneOwns
           DEF SelectRead, Same, Labels, Inside
    <2>5. QED  BY <2>1, <2>3, <2>4 DEF Goto, Set, Goes, TimedOut, l, m
  <1>3. CASE SelectDone(r)
    <2>1. CASE Finish(r)
      <3>1. PICK label \in {"loop", "idle"}, m \in Memory : Goes(r, label, m)
        BY <1>0, <2>1, Ends
      <3>2. QED  BY <1>3, <3>1, LeavesCall DEF SelectDone, Same, Labels, Inside
    <2>2. CASE Goto(r, "loop") /\ UNCHANGED loc
      BY <1>0, <1>3, <2>2, StayGoes, LeavesCall DEF SelectDone, Same, Labels, Inside
    <2>3. QED  BY <1>3, <2>1, <2>2 DEF SelectDone
  <1>4. QED  BY <1>1, <1>2, <1>3

LEMMA AllowKeeps ==
    ASSUME CallInv, ~Interleaved, NEW r \in Request,
           LoopDone(r) \/ AllowRead(r) \/ AllowAgain(r)
    PROVE  CallInv'
  <1>0. loc[r] \in Memory /\ Types  BY DEF CallInv, Types
  <1>1. ASSUME NEW l \in Memory, Move(r, l) \/ Finish(r),
               Same, pc[r] # "opened", pc[r] \in Inside => Healthy(loc[r].at)
        PROVE  CallInv'
    <2>1. PICK label \in {"loop", "idle"}, m \in Memory : Goes(r, label, m)
      BY <1>0, <1>1, Ends
    <2>2. QED  BY <1>1, <2>1, LeavesCall DEF Labels, Inside
  <1>2. ASSUME NEW l \in Memory, Admit(r, l),
               Same, pc[r] # "opened", pc[r] \in Inside => Healthy(loc[r].at)
        PROVE  CallInv'
    <2> DEFINE m == [l EXCEPT !.tried = @ + 1]
    <2>1. m \in Memory  BY <1>2 DEF Memory
    <2>2. Goes(r, "send", m)  BY <1>2 DEF Admit, Goto, Set, Goes
    <2> HIDE DEF m
    <2>3. QED  BY <1>2, <2>1, <2>2, LeavesCall DEF Labels, Inside
  <1>3. CASE LoopDone(r)
    BY <1>0, <1>1, <1>3 DEF LoopDone, Same, Inside
  <1>4. CASE AllowRead(r)
    <2>1. PICK p \in Provider :
             /\ Alone(p)
             /\ LET b == breaker[p]  l == [loc[r] EXCEPT !.at = p] IN
                CASE b.state = "Closed"   -> Admit(r, l)
                  [] b.state = "HalfOpen" -> Goto(r, "probe") /\ Set(r, l)
                  [] b.state = "Open"     ->
                       IF TimedOut(b) THEN Goto(r, "half") /\ Set(r, l) ELSE Move(r, l)
      BY <1>4 DEF AllowRead
    <2> DEFINE l == [loc[r] EXCEPT !.at = p]
    <2>2. l \in Memory /\ l.at = p  BY <1>0 DEF Memory
    <2>3. breaker[p].state \in States  BY <1>0 DEF Types, Counts
    <2>4. \/ Admit(r, l) \/ Move(r, l)
          \/ breaker[p].state = "HalfOpen" /\ Goes(r, "probe", l)
          \/ /\ breaker[p].state = "Open" /\ breaker[p].opened = "elapsed"
             /\ Goes(r, "half", l)
      BY <2>1, <2>3 DEF Goto, Set, Goes, TimedOut, States
    <2> HIDE DEF l
    <2>5. Same /\ pc[r] = "loop"  BY <1>4 DEF AllowRead, Same
    <2>6. CASE Admit(r, l) \/ Move(r, l)
      BY <1>1, <1>2, <2>2, <2>5, <2>6 DEF Inside
    <2>7. CASE breaker[p].state = "HalfOpen" /\ Goes(r, "probe", l)
      <3>1. pc'[r] = "probe" /\ loc'[r] = l
        BY <1>0, <2>2, <2>7, GoesFacts DEF Labels
      <3>2. Knows(r)'  BY <2>2, <2>5, <2>7, <3>1 DEF Knows, Same
      <3>3. QED
        BY <2>1, <2>2, <2>5, <2>7, <3>2, ReadsKeep, AloneOwns DEF Labels, Inside
    <2>8. CASE /\ breaker[p].state = "Open" /\ breaker[p].opened = "elapsed"
               /\ Goes(r, "half", l)
      <3>1. pc'[r] = "half" /\ loc'[r] = l
        BY <1>0, <2>2, <2>8, GoesFacts DEF Labels
      <3>2. Knows(r)'  BY <2>2, <2>5, <2>8, <3>1 DEF Knows, Same
      <3>3. QED
        BY <2>1, <2>2, <2>5, <2>8, <3>2, ReadsKeep, AloneOwns DEF Labels, Inside
    <2>9. QED  BY <2>4, <2>6, <2>7, <2>8
  <1>5. CASE AllowAgain(r)
    <2>1. breaker[loc[r].at].state = "HalfOpen"  BY <1>5 DEF AllowAgain, CallInv, Knows
    <2>2. Goes(r, "probe", loc[r])  BY <1>0, <1>5, <2>1, StayGoes DEF AllowAgain, At
    <2>3. pc'[r] = "probe" /\ loc'[r] = loc[r]
      BY <1>0, <2>2, GoesFacts DEF Labels
    <2>4. Knows(r)'  BY <1>5, <2>1, <2>3 DEF Knows, AllowAgain
    <2>5. QED
      BY <1>0, <1>5, <2>2, <2>4, ReadsKeep, OwnerInside
         DEF AllowAgain, Same, Labels, Inside, CallInv
  <1>6. QED  BY <1>3, <1>4, <1>5

LEMMA SendKeeps ==
    ASSUME CallInv, ~Interleaved, NEW r \in Request,
           Send(r) \/ SendNeutral(r) \/ Cancel(r) \/ RecordRead(r) \/ Reset(r)
    PROVE  CallInv'
  <1>0. loc[r] \in Memory /\ Types  BY DEF CallInv, Types
  <1>1. CASE Send(r)
    <2>1. PICK result \in {"success", "failure", "fatal"} :
            Goes(r, "record", [loc[r] EXCEPT !.result = result])
      BY <1>1 DEF Send, Goto, Set, Goes
    <2>2. [loc[r] EXCEPT !.result = result] \in Memory  BY <1>0 DEF Memory
    <2>3. QED  BY <1>1, <2>1, <2>2, LeavesCall DEF Send, Same, Labels, Inside
  <1>2. CASE SendNeutral(r) \/ Cancel(r)
    <2>1. CASE Finish(r)
      <3>1. PICK label \in {"loop", "idle"}, m \in Memory : Goes(r, label, m)
        BY <1>0, <2>1, Ends
      <3>2. QED  BY <1>2, <3>1, LeavesCall DEF SendNeutral, Cancel, Same, Labels, Inside
    <2>2. CASE Goto(r, "neutral") /\ UNCHANGED loc
      BY <1>0, <1>2, <2>2, StayGoes, LeavesCall
         DEF SendNeutral, Cancel, Same, Labels, Inside
    <2>3. QED  BY <1>2, <2>1, <2>2 DEF SendNeutral, Cancel
  <1>3. CASE RecordRead(r)
    <2> DEFINE l == [loc[r] EXCEPT !.seen = At(r).state]
               label == IF loc[r].permit THEN "release" ELSE Verdict(loc[r].result)
    <2>1. breaker[loc[r].at].state \in States  BY <1>0 DEF Types, Counts, Memory
    <2>2. l \in Memory /\ l.seen = breaker[loc[r].at].state /\ l.at = loc[r].at
      BY <1>0, <2>1 DEF Memory, At
    <2>3. Goes(r, label, l)  BY <1>3 DEF RecordRead, Goto, Set, Goes
    <2>4. label \in {"release", "success", "failure"}  BY DEF Verdict
    <2> HIDE DEF l, label
    <2>5. pc'[r] = label /\ loc'[r] = l
      BY <1>0, <2>2, <2>3, <2>4, GoesFacts DEF Labels
    <2>6. Knows(r)'  BY <1>3, <2>2, <2>4, <2>5 DEF Knows, RecordRead
    <2>7. Same /\ Owns(r, l.at) /\ pc[r] \notin Inside /\ pc[r] # "opened" /\ label \in Labels
      BY <1>3, <2>2, <2>4, AloneOwns DEF RecordRead, Same, Inside, Labels
    <2>8. QED  BY <2>2, <2>3, <2>6, <2>7, ReadsKeep
  <1>4. CASE Reset(r)
    <2>1. PICK p \in Provider :
            Alone(p) /\ Goes(r, "close", [Blank EXCEPT !.at = p, !.result = "reset"])
      BY <1>4 DEF Reset, Goto, Set, Goes
    <2> DEFINE l == [Blank EXCEPT !.at = p, !.result = "reset"]
    <2>2. l \in Memory /\ l.at = p  BY BlankType DEF Memory, Blank
    <2> HIDE DEF l
    <2>3. Goes(r, "close", l)  BY <2>1 DEF l
    <2>4. pc'[r] = "close"  BY <1>0, <2>2, <2>3, GoesFacts DEF Labels
    <2>5. Knows(r)'  BY <2>4 DEF Knows
    <2>6. QED
      BY <1>4, <2>1, <2>2, <2>3, <2>5, ReadsKeep, AloneOwns DEF Reset, Same, Labels, Inside
  <1>5. QED  BY <1>1, <1>2, <1>3, <1>4

LEMMA RateKeeps ==
    ASSUME CallInv, NEW r \in Request, Rate(r)
    PROVE  CallInv'
  <1>0. loc[r] \in Memory /\ Types  BY DEF CallInv, Types
  <1>1. Same /\ pc[r] = "rate"  BY DEF Rate, Same
  <1>2. Healthy(loc[r].at)  BY <1>1 DEF CallInv, Knows, Healthy
  <1>3. CASE Goto(r, "open") /\ UNCHANGED loc
    <2>1. Goes(r, "open", loc[r])  BY <1>0, <1>3, StayGoes
    <2>2. pc'[r] = "open"  BY <1>0, <2>1, GoesFacts DEF Labels
    <2>3. Knows(r)'  BY <2>2 DEF Knows
    <2>4. QED
      BY <1>0, <1>1, <2>1, <2>3, ReadsKeep, OwnerInside DEF Labels, Inside, CallInv
  <1>4. CASE Recorded(r)
    <2>1. PICK label \in {"loop", "idle"}, m \in Memory : Goes(r, label, m)
      BY <1>0, <1>4, RecordedEnds
    <2>2. QED  BY <1>1, <1>2, <2>1, LeavesCall DEF Labels, Inside
  <1>5. QED  BY <1>3, <1>4 DEF Rate

----------------------------------------------------------------------------
(* The steps that write. *)

LEMMA ChangesKeep ==
    ASSUME CallInv, NEW r \in Request, NEW b \in Counts, Change(r, b), waited' = waited,
           Owns(r, loc[r].at),
           NEW label \in Labels, NEW l \in Memory, Goes(r, label, l),
           \/ pc[r] \in Inside /\ label \in Inside /\ l.at = loc[r].at
           \/ label \notin Inside /\ (b.state = "Closed" => b.failures < FailureThreshold),
           pc[r] = "opened" => b.opened = "recent",
           b.state = "Open" /\ b.opened = "elapsed"
             => breaker[loc[r].at].state = "Open" /\ breaker[loc[r].at].opened = "elapsed",
           Knows(r)'
    PROVE  CallInv'
  <1> USE DEF CallInv
  <1>1. /\ pc' \in [Request -> Labels] /\ loc' \in [Request -> Memory]
        /\ pc'[r] = label /\ loc'[r] = l /\ Others(r)
    BY GoesFacts
  <1>2. loc[r].at \in Provider  BY DEF Types, Memory
  <1>3. breaker' = [breaker EXCEPT ![loc[r].at] = b]  BY DEF Change
  <1>4. breaker' \in [Provider -> Counts] /\ breaker'[loc[r].at] = b
    BY <1>2, <1>3 DEF Types
  <1>5. Types'  BY <1>1, <1>4 DEF Types
  <1>6. \A p \in Provider : p # loc[r].at => breaker'[p] = breaker[p]
    BY <1>3 DEF Types
  <1>7. Frame(r)  BY <1>1, <1>6 DEF Frame
  <1>8. LeavesHealthy(r)  BY <1>1, <1>2, <1>4 DEF LeavesHealthy, Healthy
  <1>9. Waited'  BY <1>4, <1>7, FrameWaited
  <1>10. QED  BY <1>5, <1>7, <1>8, <1>9, FrameApart, FrameRested, FrameKnows

\* The fields of a breaker that each write changes.
LEMMA BreakerFacts ==
    ASSUME Types, NEW r \in Request
    PROVE  At(r) \in Counts /\ loc[r] \in Memory /\ loc[r].at \in Provider
  BY DEF Types, Memory, At

\* A write that stays inside the call, or that hands the request on.
LEMMA GoesOn ==
    ASSUME CallInv, NEW r \in Request, NEW b \in Counts, Change(r, b), waited' = waited,
           NEW label \in Inside, NEW l \in Memory, Goes(r, label, l),
           l.at = loc[r].at, pc[r] \in Inside \ {"opened"},
           b.state = "Open" /\ b.opened = "elapsed"
             => At(r).state = "Open" /\ At(r).opened = "elapsed",
           /\ label \in {"again", "unprobe", "streak"} => b.state = "HalfOpen"
           /\ label \in {"success", "failure"} => l.seen = b.state
           /\ label = "tally" => l.seen = b.state /\ l.count = b.failures
           /\ label = "rate" => b.failures < FailureThreshold
           /\ label = "openReset" => b.state = "Open"
           /\ label \notin {"selectHalf", "half", "probe", "release", "opened"}
    PROVE  CallInv'
  <1>0. Types /\ loc[r].at \in Provider /\ label \in Labels
    BY BreakerFacts DEF CallInv, Inside, Labels
  <1>1. pc'[r] = label /\ loc'[r] = l  BY <1>0, GoesFacts
  <1>2. breaker'[l.at] = b  BY <1>0 DEF Change, Types
  <1>3. Knows(r)'  BY <1>1, <1>2 DEF Knows
  <1>4. Owns(r, loc[r].at)  BY OwnerInside DEF CallInv
  <1>5. QED  BY <1>0, <1>3, <1>4, ChangesKeep DEF At

LEMMA GoesOut ==
    ASSUME CallInv, NEW r \in Request, NEW b \in Counts, Change(r, b), waited' = waited,
           NEW label \in Labels \ Inside, NEW l \in Memory, Goes(r, label, l),
           pc[r] \in Inside \/ Owns(r, loc[r].at), pc[r] # "opened",
           b.state = "Closed" => b.failures < FailureThreshold,
           b.state = "Open" /\ b.opened = "elapsed"
             => At(r).state = "Open" /\ At(r).opened = "elapsed"
    PROVE  CallInv'
  <1>1. pc'[r] = label  BY GoesFacts DEF CallInv
  <1>2. Knows(r)'  BY <1>1, KnowsNothing
  <1>3. Owns(r, loc[r].at)  BY OwnerInside DEF CallInv
  <1>4. QED  BY <1>2, <1>3, ChangesKeep DEF At

LEMMA HalfOpenKeeps ==
    ASSUME CallInv, NEW r \in Request, SelectHalf(r) \/ AllowHalf(r)
    PROVE  CallInv'
  <1> DEFINE b == HalfOpened(At(r))
  <1>0. Types /\ At(r) \in Counts /\ loc[r] \in Memory /\ loc[r].at \in Provider
    BY BreakerFacts DEF CallInv
  <1>1. At(r).state = "Open"  BY DEF SelectHalf, AllowHalf, CallInv, Knows, At
  <1>2. b \in Counts /\ b.state = "HalfOpen"
    BY <1>0, <1>1 DEF HalfOpened, Counts, States
  <1>3. CASE SelectHalf(r)
    <2> DEFINE l == [loc[r] EXCEPT !.todo = @ \cup {loc[r].at}]
    <2>1. l \in Memory  BY <1>0 DEF Memory
    <2>2. Goes(r, "select", l) /\ Change(r, b) /\ waited' = waited
      BY <1>3 DEF SelectHalf, Goto, Set, Goes
    <2> HIDE DEF l, b
    <2>3. QED  BY <1>2, <1>3, <2>1, <2>2, GoesOut DEF SelectHalf, Labels, Inside
  <1>4. CASE AllowHalf(r)
    <2>1. Goes(r, "again", loc[r]) /\ Change(r, b) /\ waited' = waited
      BY <1>0, <1>4, StayGoes DEF AllowHalf
    <2> HIDE DEF b
    <2>2. QED  BY <1>0, <1>2, <1>4, <2>1, GoesOn DEF AllowHalf, Inside
  <1>5. QED  BY <1>3, <1>4

LEMMA Wraps ==
    ASSUME NEW n \in Nat
    PROVE  /\ (n + 1) % Width \in Nat /\ (n + Width - 1) % Width \in Nat
           /\ n + 1 < Width => (n + 1) % Width = n + 1
           /\ n > 0 /\ n < Width => (n + Width - 1) % Width = n - 1
  BY WidthAssumption

LEMMA ProbeKeeps ==
    ASSUME CallInv, ~Interleaved, NEW r \in Request,
           Probe(r) \/ Unprobe(r) \/ Neutral(r) \/ Release(r)
    PROVE  CallInv'
  <1>0. Types /\ At(r) \in Counts /\ loc[r] \in Memory /\ loc[r].at \in Provider
    BY BreakerFacts DEF CallInv
  <1>1. ASSUME NEW n \in Nat
        PROVE  LET b == [At(r) EXCEPT !.probes = n] IN
               b \in Counts /\ b.state = At(r).state /\ b.opened = At(r).opened
               /\ b.failures = At(r).failures
    BY <1>0, <1>1 DEF Counts
  <1>2. At(r).probes \in Nat  BY <1>0 DEF Counts
  <1>3. CASE Probe(r)
    <2> DEFINE b == [At(r) EXCEPT !.probes = (@ + 1) % Width]
               l == [loc[r] EXCEPT !.permit = TRUE]
               m == [l EXCEPT !.tried = @ + 1]
    <2>1. b \in Counts /\ b.state = At(r).state /\ b.opened = At(r).opened
      BY <1>1, <1>2, Wraps
    <2>2. At(r).state = "HalfOpen"  BY <1>3 DEF Probe, CallInv, Knows, At
    <2>3. Change(r, b) /\ waited' = waited /\ pc[r] = "probe"  BY <1>3 DEF Probe
    <2>4. m \in Memory
      <3>1. l \in Memory  BY <1>0 DEF Memory
      <3> HIDE DEF l
      <3>2. QED  BY <3>1 DEF Memory
    <2>5. Goes(r, "send", m) \/ Goes(r, "unprobe", loc[r])
      BY <1>0, <1>3, StayGoes DEF Probe, Admit, Goto, Set, Goes
    <2> HIDE DEF b, l, m
    <2>6. CASE Goes(r, "send", m)
      BY <2>1, <2>2, <2>3, <2>4, <2>6, GoesOut DEF Labels, Inside
    <2>7. CASE Goes(r, "unprobe", loc[r])
      BY <1>0, <2>1, <2>2, <2>3, <2>7, GoesOn DEF Inside
    <2>8. QED  BY <2>5, <2>6, <2>7
  <1>4. CASE Unprobe(r)
    <2> DEFINE b == [At(r) EXCEPT !.probes = (@ + Width - 1) % Width]
    <2>1. b \in Counts /\ b.state = At(r).state  BY <1>1, <1>2, Wraps
    <2>2. At(r).state = "HalfOpen"  BY <1>4 DEF Unprobe, CallInv, Knows, At
    <2>3. Change(r, b) /\ waited' = waited /\ pc[r] = "unprobe"  BY <1>4 DEF Unprobe
    <2> HIDE DEF b
    <2>4. PICK label \in {"loop", "idle"}, m \in Memory : Goes(r, label, m)
      BY <1>0, <1>4, Ends DEF Unprobe
    <2>5. QED  BY <2>1, <2>2, <2>3, <2>4, GoesOut DEF Labels, Inside
  <1>5. ASSUME Neutral(r) \/ Release(r)
        PROVE  /\ Released(At(r)) \in Counts /\ Released(At(r)).state = At(r).state
               /\ Released(At(r)).opened = At(r).opened
               /\ Released(At(r)).failures = At(r).failures
    <2>1. (IF At(r).probes = 0 THEN 0 ELSE At(r).probes - 1) \in Nat  BY <1>2
    <2>2. QED  BY <1>1, <2>1 DEF Released
  <1>6. CASE Neutral(r)
    <2>1. Change(r, Released(At(r))) /\ waited' = waited /\ pc[r] = "neutral"
      BY <1>6 DEF Neutral
    <2>2. Owns(r, loc[r].at)  BY <1>6, AloneOwns DEF Neutral
    <2>3. \A q \in Request : ~In(q, loc[r].at)  BY <2>1, <2>2 DEF Owns, In, Inside
    <2>4. Healthy(loc[r].at)  BY <1>0, <2>3 DEF CallInv, Rested
    <2>5. PICK label \in {"loop", "idle"}, m \in Memory : Goes(r, label, m)
      BY <1>0, <1>6, Ends DEF Neutral
    <2>6. QED
      BY <1>5, <1>6, <2>1, <2>2, <2>4, <2>5, GoesOut DEF Healthy, At, Labels, Inside
  <1>7. CASE Release(r)
    <2> DEFINE l == [loc[r] EXCEPT !.permit = FALSE]
               label == Verdict(loc[r].result)
    <2>1. Change(r, Released(At(r))) /\ waited' = waited /\ pc[r] = "release"
      BY <1>7 DEF Release
    <2>2. loc[r].seen = At(r).state  BY <2>1 DEF CallInv, Knows, At
    <2>3. l \in Memory /\ l.at = loc[r].at /\ l.seen = loc[r].seen  BY <1>0 DEF Memory
    <2>4. Goes(r, label, l)  BY <1>7 DEF Release, Goto, Set, Goes
    <2>5. label \in {"success", "failure"}  BY DEF Verdict
    <2> HIDE DEF l, label
    <2>6. QED  BY <1>5, <1>7, <2>1, <2>2, <2>3, <2>4, <2>5, GoesOn DEF Inside
  <1>8. QED  BY <1>3, <1>4, <1>6, <1>7

\* The outcome is recorded and the request goes on or ends.
LEMMA RecordedOut ==
    ASSUME CallInv, NEW r \in Request, NEW b \in Counts, Change(r, b), waited' = waited,
           Recorded(r), pc[r] \in Inside \ {"opened"},
           b.state = "Closed" => b.failures < FailureThreshold,
           b.state = "Open" /\ b.opened = "elapsed"
             => At(r).state = "Open" /\ At(r).opened = "elapsed"
    PROVE  CallInv'
  <1>1. PICK label \in {"loop", "idle"}, m \in Memory : Goes(r, label, m)
    BY RecordedEnds DEF CallInv
  <1>2. QED  BY <1>1, GoesOut DEF Labels, Inside

\* What counting an outcome leaves of a breaker.
LEMMA OutcomeCounted ==
    ASSUME NEW a \in Counts
    PROVE  /\ [a EXCEPT !.failures = 0, !.total = @ + 1] \in Counts
           /\ [a EXCEPT !.total = @ + 1, !.failed = @ + 1, !.successes = 0] \in Counts
  <1>1. a.total + 1 \in Nat /\ a.failed + 1 \in Nat  BY DEF Counts
  <1>2. \A n \in Nat : [a EXCEPT !.failures = 0, !.total = n] \in Counts  BY DEF Counts
  <1>3. \A m, n \in Nat : [a EXCEPT !.total = m, !.failed = n, !.successes = 0] \in Counts
    BY DEF Counts
  <1>4. QED  BY <1>1, <1>2, <1>3

LEMMA SuccessKeeps ==
    ASSUME CallInv, NEW r \in Request,
           CountSuccess(r) \/ Streak(r) \/ Close(r) \/ CloseReset(r)
    PROVE  CallInv'
  <1>0. Types /\ At(r) \in Counts /\ loc[r] \in Memory /\ loc[r].at \in Provider
    BY BreakerFacts DEF CallInv
  <1>1. FailureThreshold \in Nat \ {0}  BY ThresholdAssumption
  <1>2. CASE CountSuccess(r)
    <2> DEFINE b == [At(r) EXCEPT !.failures = 0, !.total = @ + 1]
    <2>1. b \in Counts /\ b.failures = 0 /\ b.state = At(r).state /\ b.opened = At(r).opened
      <3>1. b \in Counts  BY <1>0, OutcomeCounted
      <3>2. QED  BY <1>0, <3>1 DEF Counts
    <2>2. Change(r, b) /\ waited' = waited /\ pc[r] = "success"  BY <1>2 DEF CountSuccess
    <2>3. loc[r].seen = At(r).state  BY <2>2 DEF CallInv, Knows, At
    <2> HIDE DEF b
    <2>4. CASE loc[r].seen = "HalfOpen" /\ Goes(r, "streak", loc[r])
      BY <1>0, <2>1, <2>2, <2>3, <2>4, GoesOn DEF Inside
    <2>5. CASE Recorded(r)
      BY <1>1, <2>1, <2>2, <2>5, RecordedOut DEF Inside
    <2>6. QED  BY <1>0, <1>2, <2>4, <2>5, StayGoes DEF CountSuccess
  <1>3. CASE Streak(r)
    <2> DEFINE b == [At(r) EXCEPT !.successes = @ + 1]
    <2>1. b \in Counts /\ b.state = At(r).state  BY <1>0 DEF Counts
    <2>2. Change(r, b) /\ waited' = waited /\ pc[r] = "streak"  BY <1>3 DEF Streak
    <2>3. At(r).state = "HalfOpen"  BY <2>2 DEF CallInv, Knows, At
    <2> HIDE DEF b
    <2>4. CASE Goes(r, "close", loc[r])
      BY <1>0, <2>1, <2>2, <2>3, <2>4, GoesOn DEF Inside
    <2>5. CASE Recorded(r)
      BY <2>1, <2>2, <2>3, <2>5, RecordedOut DEF Inside
    <2>6. QED  BY <1>0, <1>3, <2>4, <2>5, StayGoes DEF Streak
  <1>4. CASE Close(r)
    <2> DEFINE b == [At(r) EXCEPT !.state = "Closed"]
    <2>1. b \in Counts /\ b.state = "Closed"  BY <1>0 DEF Counts, States
    <2>2. Change(r, b) /\ waited' = waited /\ pc[r] = "close" /\ Goes(r, "closeReset", loc[r])
      BY <1>0, <1>4, StayGoes DEF Close
    <2> HIDE DEF b
    <2>3. QED  BY <1>0, <2>1, <2>2, GoesOn DEF Inside
  <1>5. CASE CloseReset(r)
    <2> DEFINE b == [At(r) EXCEPT !.failures = 0, !.successes = 0, !.total = 0, !.failed = 0]
    <2>1. b \in Counts /\ b.failures = 0 /\ b.state = At(r).state /\ b.opened = At(r).opened
      BY <1>0 DEF Counts
    <2>2. Change(r, b) /\ waited' = waited /\ pc[r] = "closeReset" /\ Recorded(r)
      BY <1>5 DEF CloseReset
    <2> HIDE DEF b
    <2>3. QED  BY <1>1, <2>1, <2>2, RecordedOut DEF Inside
  <1>6. QED  BY <1>2, <1>3, <1>4, <1>5

LEMMA FailureKeeps ==
    ASSUME CallInv, NEW r \in Request, CountFailure(r) \/ Tally(r) \/ OpenReset(r)
    PROVE  CallInv'
  <1>0. Types /\ At(r) \in Counts /\ loc[r] \in Memory /\ loc[r].at \in Provider
    BY BreakerFacts DEF CallInv
  <1>1. CASE CountFailure(r)
    <2> DEFINE b == [At(r) EXCEPT !.failures = @ + 1]
               l == [loc[r] EXCEPT !.count = At(r).failures + 1]
    <2>1. /\ b \in Counts /\ b.failures = At(r).failures + 1
          /\ b.state = At(r).state /\ b.opened = At(r).opened
      BY <1>0 DEF Counts
    <2>2. /\ l \in Memory /\ l.count = At(r).failures + 1
          /\ l.seen = loc[r].seen /\ l.at = loc[r].at
      BY <1>0 DEF Counts, Memory
    <2>3. Change(r, b) /\ waited' = waited /\ pc[r] = "failure" /\ Goes(r, "tally", l)
      BY <1>1 DEF CountFailure, Goto, Set, Goes
    <2>4. loc[r].seen = At(r).state  BY <2>3 DEF CallInv, Knows, At
    <2> HIDE DEF b, l
    <2>5. QED  BY <2>1, <2>2, <2>3, <2>4, GoesOn DEF Inside
  <1>2. CASE Tally(r)
    <2> DEFINE b == [At(r) EXCEPT !.total = @ + 1, !.failed = @ + 1, !.successes = 0]
    <2>1. /\ b \in Counts /\ b.failures = At(r).failures
          /\ b.state = At(r).state /\ b.opened = At(r).opened
      <3>1. b \in Counts  BY <1>0, OutcomeCounted
      <3>2. QED  BY <1>0, <3>1 DEF Counts
    <2>2. Change(r, b) /\ waited' = waited /\ pc[r] = "tally"  BY <1>2 DEF Tally
    <2>3. loc[r].seen = At(r).state /\ loc[r].count = At(r).failures
      BY <2>2 DEF CallInv, Knows, At
    <2>4. loc[r].seen \in States  BY <1>0 DEF Memory
    <2>5. \/ loc[r].seen = "Open" /\ Recorded(r)
          \/ Goes(r, "open", loc[r])
          \/ loc[r].count < FailureThreshold /\ Goes(r, "rate", loc[r])
      <3>1. CASE loc[r].seen = "Open"  BY <1>2, <3>1 DEF Tally
      <3>2. CASE loc[r].seen = "HalfOpen"  BY <1>0, <1>2, <3>2, StayGoes DEF Tally
      <3>3. CASE loc[r].seen = "Closed"
        <4>1. Goto(r, IF Reached(loc[r].count) THEN "open" ELSE "rate") /\ UNCHANGED loc
          BY <1>2, <3>3 DEF Tally
        <4>2. loc[r].count \in Nat /\ FailureThreshold \in Nat
          BY <1>0, ThresholdAssumption DEF Memory
        <4>3. ~Reached(loc[r].count) => loc[r].count < FailureThreshold
          BY <4>2 DEF Reached
        <4>4. QED  BY <1>0, <4>1, <4>3, StayGoes
      <3>4. QED  BY <2>4, <3>1, <3>2, <3>3 DEF States
    <2> HIDE DEF b
    <2>6. CASE loc[r].seen = "Open" /\ Recorded(r)
      BY <2>1, <2>2, <2>3, <2>6, RecordedOut DEF Inside
    <2>7. CASE Goes(r, "open", loc[r])
      BY <1>0, <2>1, <2>2, <2>7, GoesOn DEF Inside
    <2>8. CASE loc[r].count < FailureThreshold /\ Goes(r, "rate", loc[r])
      BY <1>0, <2>1, <2>2, <2>3, <2>8, GoesOn DEF Inside
    <2>9. QED  BY <2>5, <2>6, <2>7, <2>8
  <1>3. CASE OpenReset(r)
    <2> DEFINE b == [At(r) EXCEPT !.failures = 0, !.successes = 0]
    <2>1. b \in Counts /\ b.state = At(r).state /\ b.opened = At(r).opened
      BY <1>0 DEF Counts
    <2>2. Change(r, b) /\ waited' = waited /\ pc[r] = "openReset" /\ Recorded(r)
      BY <1>3 DEF OpenReset
    <2>3. At(r).state = "Open"  BY <2>2 DEF CallInv, Knows, At
    <2> HIDE DEF b
    <2>4. QED  BY <2>1, <2>2, <2>3, RecordedOut DEF Inside
  <1>4. QED  BY <1>1, <1>2, <1>3

\* transition_to_open forgets that the timeout once ran out.
LEMMA OpenKeeps ==
    ASSUME CallInv, NEW r \in Request, Open(r) \/ Opened(r)
    PROVE  CallInv'
  <1>0. Types /\ At(r) \in Counts /\ loc[r] \in Memory /\ loc[r].at \in Provider
    BY BreakerFacts DEF CallInv
  <1>1. Owns(r, loc[r].at)
    BY OwnerInside DEF CallInv, Open, Opened, Inside
  <1>2. CASE Open(r)
    <2> DEFINE b == [At(r) EXCEPT !.state = "Open"]
    <2>1. b \in Counts /\ b.state = "Open"  BY <1>0 DEF Counts, States
    <2>2. Goes(r, "opened", loc[r]) /\ Change(r, b) /\ pc[r] = "open"
      BY <1>0, <1>2, StayGoes DEF Open
    <2>3. waited' = [waited EXCEPT ![loc[r].at] = FALSE]  BY <1>2 DEF Open
    <2> HIDE DEF b
    <2>4. /\ pc' \in [Request -> Labels] /\ loc' \in [Request -> Memory]
          /\ pc'[r] = "opened" /\ loc'[r] = loc[r] /\ Others(r)
      BY <1>0, <2>2, GoesFacts DEF Labels
    <2>5. breaker' = [breaker EXCEPT ![loc[r].at] = b]  BY <2>2 DEF Change
    <2>6. breaker' \in [Provider -> Counts] /\ breaker'[loc[r].at] = b
      BY <1>0, <2>1, <2>5 DEF Types
    <2>7. Types'  BY <1>0, <2>3, <2>4, <2>6 DEF Types
    <2>8. \A p \in Provider : p # loc[r].at => breaker'[p] = breaker[p]
      BY <1>0, <2>5 DEF Types
    <2>9. Frame(r)  BY <1>1, <2>4, <2>8 DEF Frame
    <2>10. LeavesHealthy(r)  BY <2>2, <2>4 DEF LeavesHealthy, Inside
    <2>11. Knows(r)'  BY <2>1, <2>4, <2>6 DEF Knows
    <2>12. Waited'
      <3> SUFFICES ASSUME NEW p \in Provider, TimeIsUp(p)' PROVE waited'[p]
        BY DEF Waited
      <3>1. p # loc[r].at  BY <2>4 DEF TimeIsUp, AtOpened
      <3>2. breaker'[p] = breaker[p] /\ waited'[p] = waited[p]
        BY <1>0, <2>3, <2>8, <3>1 DEF Types
      <3>3. \A q \in Request : ~AtOpened(q, p)
        BY <2>2, <2>4 DEF TimeIsUp, AtOpened, Others
      <3>4. QED  BY <3>2, <3>3 DEF CallInv, Waited, TimeIsUp
    <2>13. QED
      BY <2>7, <2>9, <2>10, <2>11, <2>12, FrameApart, FrameRested, FrameKnows DEF CallInv
  <1>3. CASE Opened(r)
    <2> DEFINE b == [At(r) EXCEPT !.opened = "recent"]
    <2>1. b \in Counts /\ b.state = At(r).state /\ b.opened = "recent"  BY <1>0 DEF Counts
    <2>2. /\ Goes(r, "openReset", loc[r]) /\ Change(r, b) /\ waited' = waited
          /\ pc[r] = "opened"
      BY <1>0, <1>3, StayGoes DEF Opened
    <2>3. At(r).state = "Open"  BY <2>2 DEF CallInv, Knows, At
    <2> HIDE DEF b
    <2>4. pc'[r] = "openReset" /\ loc'[r] = loc[r]
      BY <1>0, <2>2, GoesFacts DEF Labels
    <2>5. breaker'[loc[r].at] = b  BY <1>0, <2>2 DEF Change, Types
    <2>6. Knows(r)'  BY <2>1, <2>3, <2>4, <2>5 DEF Knows
    <2>7. QED
      BY <1>0, <1>1, <2>1, <2>2, <2>6, ChangesKeep DEF Inside, Labels
  <1>4. QED  BY <1>2, <1>3

LEMMA ElapseKeeps ==
    ASSUME CallInv, NEW p \in Provider, Elapse(p)
    PROVE  CallInv'
  <1> DEFINE b == [breaker[p] EXCEPT !.opened = "elapsed"]
  <1>0. Types /\ breaker[p] \in Counts  BY DEF CallInv, Types
  <1>1. b \in Counts /\ b.state = breaker[p].state /\ b.failures = breaker[p].failures
        /\ b.opened = "elapsed"
    BY <1>0 DEF Counts
  <1>2. /\ breaker' = [breaker EXCEPT ![p] = b]
        /\ waited' = [waited EXCEPT ![p] = TRUE] /\ UNCHANGED <<pc, loc>>
    BY DEF Elapse
  <1> HIDE DEF b
  <1>3. \A q \in Provider : breaker'[q] = IF q = p THEN b ELSE breaker[q]
    BY <1>0, <1>2 DEF Types
  <1>4. \A q \in Provider :
          /\ breaker'[q].state = breaker[q].state /\ breaker'[q].failures = breaker[q].failures
          /\ q # p => breaker'[q].opened = breaker[q].opened
          /\ breaker[q].opened = "elapsed" => breaker'[q].opened = "elapsed"
    BY <1>1, <1>3
  <1>5. Types'  BY <1>0, <1>1, <1>2 DEF Types
  <1>6. Apart' /\ Rested'
    BY <1>2, <1>4 DEF CallInv, Apart, Rested, In, Healthy
  <1>7. Waited'
    BY <1>0, <1>2, <1>4 DEF CallInv, Types, Waited, TimeIsUp, AtOpened
  <1>8. \A r \in Request : loc[r].at \in Provider  BY <1>0 DEF Types, Memory
  <1>9. \A r \in Request : Knows(r)'
    BY <1>2, <1>4, <1>8 DEF CallInv, Knows
  <1>10. QED  BY <1>5, <1>6, <1>7, <1>9 DEF CallInv

LEMMA CallInvInit == Init => CallInv
  <1> SUFFICES ASSUME Init PROVE CallInv
    OBVIOUS
  <1>1. Types  BY BlankType DEF Init, Types, Labels
  <1>2. \A r \in Request : pc[r] = "idle"  BY DEF Init
  <1>3. Apart /\ \A r \in Request : Knows(r)  BY <1>2 DEF Apart, In, Inside, Knows
  <1>4. Rested /\ Waited
    BY ThresholdAssumption DEF Init, Fresh, Rested, Healthy, Waited, TimeIsUp
  <1>5. QED  BY <1>1, <1>3, <1>4 DEF CallInv

LEMMA CallInvNext ==
    ASSUME ~Interleaved
    PROVE  CallInv /\ [Next]_vars => CallInv'
  <1> SUFFICES ASSUME CallInv, [Next]_vars PROVE CallInv'
    OBVIOUS
  <1>1. CASE UNCHANGED vars
    BY <1>1 DEF vars, CallInv, Types, Apart, In, Rested, Healthy, Waited, TimeIsUp,
       AtOpened, Knows
  <1>2. ASSUME NEW r \in Request, Step(r) PROVE CallInv'
    BY <1>2, SelectKeeps, AllowKeeps, SendKeeps, RateKeeps, HalfOpenKeeps, ProbeKeeps,
       SuccessKeeps, FailureKeeps, OpenKeeps DEF Step
  <1>3. ASSUME NEW r \in Request, Arrive(r) \/ Reset(r) \/ Cancel(r) PROVE CallInv'
    BY <1>3, SelectKeeps, SendKeeps
  <1>4. QED  BY <1>1, <1>2, <1>3, ElapseKeeps DEF Next

----------------------------------------------------------------------------
(* A breaker at rest that is closed has seen fewer failures in a row than   *)
(* would have opened it, whatever requests came back late or were given up  *)
(* (record_success, record_failure and their transitions).                  *)
THEOREM ClosedHealthy == ASSUME ~Interleaved PROVE Spec => []ClosedIsHealthy
  <1>1. CallInv => ClosedIsHealthy
    BY DEF CallInv, Rested, Healthy, In, Inside, ClosedIsHealthy
  <1>2. QED  BY <1>1, CallInvInit, CallInvNext, PTL DEF Spec

\* Only a call that found the breaker open, its timeout over, half-opens it.
LEMMA HalfOpensLate ==
    ASSUME CallInv, [Next]_vars, NEW p \in Provider,
           breaker[p].state = "Open", breaker'[p].state = "HalfOpen"
    PROVE  waited[p]
  <1> DEFINE Changed(r) == \E b : Change(r, b) /\ (b.state # "HalfOpen" \/ b.state = At(r).state)
  <1>0. Types /\ Apart /\ Waited /\ \A r \in Request : Knows(r)  BY DEF CallInv
  <1>1. ASSUME NEW r \in Request, Changed(r) PROVE FALSE
    <2>1. PICK b : Change(r, b) /\ (b.state # "HalfOpen" \/ b.state = At(r).state)
      BY <1>1
    <2>2. breaker'[p] = IF p = loc[r].at THEN b ELSE breaker[p]
      BY <1>0, <2>1 DEF Change, Types
    <2>3. QED  BY <2>1, <2>2 DEF At
  <1>2. ASSUME breaker' = breaker PROVE FALSE
    BY <1>2
  <1>3. ASSUME NEW r \in Request, SelectHalf(r) \/ AllowHalf(r) PROVE waited[p]
    <2>1. Change(r, HalfOpened(At(r)))  BY <1>3 DEF SelectHalf, AllowHalf
    <2>2. loc[r].at = p  BY <1>0, <2>1 DEF Change, Types
    <2>3. In(r, p) /\ ~AtOpened(r, p) /\ breaker[p].opened = "elapsed"
      BY <1>0, <1>3, <2>2 DEF In, AtOpened, Inside, SelectHalf, AllowHalf, Knows
    <2>4. \A q \in Request : ~AtOpened(q, p)
      BY <1>0, <2>3 DEF Apart, In, AtOpened, Inside
    <2>5. QED  BY <1>0, <2>3, <2>4 DEF Waited, TimeIsUp
  <1>4. ASSUME NEW q \in Provider PROVE ~Elapse(q)
    <2> SUFFICES ASSUME Elapse(q) PROVE FALSE
      OBVIOUS
    <2>1. breaker' = [breaker EXCEPT ![q].opened = "elapsed"] /\ breaker[q] \in Counts
      BY <1>0 DEF Elapse, Types
    <2>2. breaker'[p].state = breaker[p].state  BY <1>0, <2>1 DEF Types, Counts
    <2>3. QED  BY <2>2
  <1>5. ASSUME NEW r \in Request
        PROVE  /\ ~Arrive(r) /\ ~Reset(r) /\ ~Cancel(r) /\ ~SelectRead(r) /\ ~SelectDone(r)
               /\ ~LoopDone(r) /\ ~AllowRead(r) /\ ~AllowAgain(r) /\ ~Send(r)
               /\ ~SendNeutral(r) /\ ~RecordRead(r) /\ ~Rate(r)
    BY <1>2 DEF Arrive, Reset, Cancel, SelectRead, SelectDone, LoopDone, AllowRead,
       AllowAgain, Send, SendNeutral, RecordRead, Rate
  <1>6. ASSUME NEW r \in Request
        PROVE  /\ ~Probe(r) /\ ~Unprobe(r) /\ ~Neutral(r) /\ ~Release(r)
               /\ ~CountSuccess(r) /\ ~Streak(r) /\ ~Close(r) /\ ~CloseReset(r)
               /\ ~CountFailure(r) /\ ~Tally(r) /\ ~Open(r) /\ ~Opened(r) /\ ~OpenReset(r)
    <2>1. At(r) \in Counts  BY <1>0, BreakerFacts
    <2>2. ASSUME NEW b, Change(r, b), b.state = At(r).state PROVE FALSE
      BY <1>1, <2>2
    <2>3. ~Probe(r) /\ ~Unprobe(r) /\ ~Neutral(r) /\ ~Release(r)
      BY <2>1, <2>2 DEF Probe, Unprobe, Neutral, Release, Released, Counts
    <2>4. ~CountSuccess(r) /\ ~Streak(r) /\ ~CloseReset(r)
      BY <2>1, <2>2 DEF CountSuccess, Streak, CloseReset, Counts
    <2>5. ~CountFailure(r) /\ ~Tally(r) /\ ~Opened(r) /\ ~OpenReset(r)
      BY <2>1, <2>2 DEF CountFailure, Tally, Opened, OpenReset, Counts
    <2>6. ~Close(r) /\ ~Open(r)
      <3>1. /\ [At(r) EXCEPT !.state = "Open"].state = "Open"
            /\ [At(r) EXCEPT !.state = "Closed"].state = "Closed"
        BY <2>1 DEF Counts
      <3>2. QED  BY <1>1, <3>1 DEF Close, Open
    <2>7. QED  BY <2>3, <2>4, <2>5, <2>6
  <1>7. QED
    BY <1>2, <1>3, <1>4, <1>5, <1>6 DEF Next, Step, vars

(* A breaker that opens again keeps everyone out until its timeout has run  *)
(* out anew, also when requests last longer than the timeout or are given   *)
(* up (last_opened_at in transition_to_open).                               *)
THEOREM OpeningWaits == ASSUME ~Interleaved PROVE Spec => OpeningRestartsTimeout
  <1>1. CallInv /\ [Next]_vars
          => [\A p \in Provider : breaker[p].state = "Open" /\ breaker'[p].state = "HalfOpen"
                => waited[p]]_vars
    BY HalfOpensLate
  <1>2. QED
    BY <1>1, CallInvInit, CallInvNext, PTL DEF Spec, OpeningRestartsTimeout

----------------------------------------------------------------------------
(* Permits.  Here an answer comes before the open timeout is over, and the  *)
(* counter can tell two from none.  A handler may be dropped with a permit, *)
(* which then stays in the counter (Balanced).                              *)

Prompt == ~Interleaved /\ ~SlowRequests /\ Width > 2

Holding == {"send", "record", "neutral", "release"}

Carries(r) ==
    /\ loc[r].permit => pc[r] \in Holding
    /\ pc[r] \in {"neutral", "release"} => loc[r].permit

OneHolder == \A q, r \in Request, p \in Provider : Probing(q, p) /\ Probing(r, p) => q = r

\* Who held a permit has given it back before the breaker half-opens again.
Vacant == \A p \in Provider : TimeIsUp(p) => \A r \in Request : ~Probing(r, p)

\* What the refused request has still to take back.
Excess(p) == IF \E r \in Request : ReturnsIt(r, p) THEN 1 ELSE 0

Balanced(p) ==
    \/ breaker[p].probes = (IF \E r \in Request : Probing(r, p) THEN 1 ELSE 0) + Excess(p)
    \/ MayCancel /\ breaker[p].probes = 1 + Excess(p)

PermitInv ==
    /\ \A r \in Request : Carries(r)
    /\ OneHolder /\ Vacant /\ \A p \in Provider : Balanced(p)

\* No counter changes, unless it is one that counts nobody, and no timeout ends.
Unhurried ==
    \A p \in Provider :
        /\ \/ breaker'[p].probes = breaker[p].probes
           \/ /\ breaker'[p].probes = 0
              /\ \A r \in Request : ~Probing(r, p) /\ ~ReturnsIt(r, p)
        /\ TimeIsUp(p)' => TimeIsUp(p)

LEMMA ReadUnhurried ==
    ASSUME Types, NEW r \in Request, Others(r), breaker' = breaker, pc[r] # "opened"
    PROVE  Unhurried
  BY DEF Unhurried, TimeIsUp, AtOpened, Others

LEMMA WriteUnhurried ==
    ASSUME Types, NEW r \in Request, Others(r), NEW b, Change(r, b), b.probes = At(r).probes,
           b.state = "Open" /\ b.opened = "elapsed"
             => At(r).state = "Open" /\ At(r).opened = "elapsed",
           pc[r] # "opened"
    PROVE  Unhurried
  <1>1. \A p \in Provider : breaker'[p] = IF p = loc[r].at THEN b ELSE breaker[p]
    BY DEF Change, Types
  <1>2. QED  BY <1>1 DEF Unhurried, TimeIsUp, AtOpened, Others, At

\* Whoever holds no permit, neither before nor after, changes nothing.
LEMMA WithoutPermit ==
    ASSUME PermitInv, NEW r \in Request, Others(r), Unhurried,
           pc[r] \notin Holding \cup {"unprobe"}, ~loc'[r].permit,
           pc'[r] \notin {"unprobe", "neutral", "release"}
    PROVE  PermitInv'
  <1>1. ~loc[r].permit  BY DEF PermitInv, Carries
  <1>2. \A q \in Request, p \in Provider :
          /\ Probing(q, p)' <=> Probing(q, p)
          /\ ReturnsIt(q, p)' <=> ReturnsIt(q, p)
    BY <1>1 DEF Probing, ReturnsIt, Others
  <1>3. \A q \in Request : Carries(q)'  BY DEF PermitInv, Carries, Others
  <1>4. OneHolder' /\ Vacant'
    BY <1>2 DEF PermitInv, OneHolder, Vacant, Unhurried
  <1>5. ASSUME NEW p \in Provider PROVE Balanced(p)'
    BY <1>2 DEF PermitInv, Balanced, Excess, Unhurried
  <1>6. QED  BY <1>3, <1>4, <1>5 DEF PermitInv

\* A permit that is carried on to the next label.
LEMMA WithPermit ==
    ASSUME PermitInv, NEW r \in Request, Others(r), Unhurried, Carries(r)',
           pc[r] # "unprobe", pc'[r] # "unprobe",
           loc'[r].permit = loc[r].permit, loc'[r].at = loc[r].at \/ ~loc[r].permit
    PROVE  PermitInv'
  <1>1. \A q \in Request, p \in Provider :
          /\ Probing(q, p)' <=> Probing(q, p)
          /\ ReturnsIt(q, p)' <=> ReturnsIt(q, p)
    BY DEF Probing, ReturnsIt, Others
  <1>2. \A q \in Request : Carries(q)'  BY DEF PermitInv, Carries, Others
  <1>3. OneHolder' /\ Vacant'
    BY <1>1 DEF PermitInv, OneHolder, Vacant, Unhurried
  <1>4. ASSUME NEW p \in Provider PROVE Balanced(p)'
    BY <1>1 DEF PermitInv, Balanced, Excess, Unhurried
  <1>5. QED  BY <1>2, <1>3, <1>4 DEF PermitInv

LEMMA EndsWithout ==
    ASSUME Types, NEW r \in Request, NEW l \in Memory, Move(r, l) \/ Finish(r) \/ Recorded(r)
    PROVE  Others(r) /\ ~loc'[r].permit /\ pc'[r] \in {"loop", "idle"}
  <1>1. PICK label \in {"loop", "idle"}, m \in Memory : Goes(r, label, m) /\ ~m.permit
    BY Ends, RecordedEnds
  <1>2. QED  BY <1>1, GoesFacts DEF Labels

LEMMA GotoWithout ==
    ASSUME Types, NEW r \in Request, ~loc[r].permit, NEW label, Goto(r, label), UNCHANGED loc
    PROVE  Others(r) /\ ~loc'[r].permit /\ pc'[r] = label
  BY DEF Types, Goto, Others

LEMMA SetWithout ==
    ASSUME Types, NEW r \in Request, NEW label, Goto(r, label), NEW l, Set(r, l), ~l.permit
    PROVE  Others(r) /\ ~loc'[r].permit /\ pc'[r] = label
  BY DEF Types, Goto, Set, Others

Here == CallInv /\ PermitInv

\* Where no permit is held.
LEMMA Free ==
    ASSUME Here, NEW r \in Request, pc[r] \notin Holding
    PROVE  ~loc[r].permit /\ Types /\ loc[r] \in Memory /\ At(r) \in Counts
  BY BreakerFacts DEF Here, PermitInv, Carries, CallInv

LEMMA SelectBalances ==
    ASSUME Here, NEW r \in Request,
           \/ Arrive(r) \/ Reset(r) \/ SelectRead(r) \/ SelectDone(r) \/ LoopDone(r)
           \/ AllowRead(r) \/ AllowAgain(r) \/ Rate(r)
    PROVE  PermitInv'
  <1>1. pc[r] \notin Holding \cup {"unprobe", "opened"} /\ breaker' = breaker
    BY DEF Arrive, Reset, SelectRead, SelectDone, LoopDone, AllowRead, AllowAgain, Rate, Holding
  <1>2. ~loc[r].permit /\ Types /\ loc[r] \in Memory  BY <1>1, Free
  <1>3. ASSUME Others(r), ~loc'[r].permit, pc'[r] \notin {"unprobe", "neutral", "release"}
        PROVE  PermitInv'
    BY <1>1, <1>2, <1>3, ReadUnhurried, WithoutPermit DEF Here
  <1>4. ASSUME NEW l \in Memory, Move(r, l) \/ Finish(r) \/ Recorded(r) PROVE PermitInv'
    BY <1>2, <1>3, <1>4, EndsWithout
  <1>5. ASSUME NEW label \in {"select", "selectHalf", "loop", "half", "probe", "open", "close"},
               Goto(r, label), UNCHANGED loc \/ \E l : Set(r, l) /\ ~l.permit
        PROVE  PermitInv'
    BY <1>2, <1>3, <1>5, GotoWithout, SetWithout
  <1>6. ASSUME NEW l \in Memory, ~l.permit, Admit(r, l) PROVE PermitInv'
    <2> DEFINE m == [l EXCEPT !.tried = @ + 1]
    <2>1. ~m.permit  BY <1>6 DEF Memory
    <2>2. Goto(r, "send") /\ Set(r, m)  BY <1>6 DEF Admit
    <2> HIDE DEF m
    <2>3. QED  BY <1>2, <1>3, <2>1, <2>2, SetWithout
  <1>7. CASE Arrive(r) \/ Reset(r)
    <2>1. CASE Arrive(r)
      <3> DEFINE l == [Blank EXCEPT !.examine = Provider]
      <3>1. ~l.permit  BY DEF Blank
      <3>2. Goto(r, "select") /\ Set(r, l)  BY <2>1 DEF Arrive
      <3>3. QED  BY <1>5, <3>1, <3>2
    <2>2. CASE Reset(r)
      <3>1. PICK p \in Provider : Set(r, [Blank EXCEPT !.at = p, !.result = "reset"])
        BY <2>2 DEF Reset
      <3>2. ~[Blank EXCEPT !.at = p, !.result = "reset"].permit  BY DEF Blank
      <3>3. Goto(r, "close")  BY <2>2 DEF Reset
      <3>4. QED  BY <1>5, <3>1, <3>2, <3>3
    <2>3. QED  BY <1>7, <2>1, <2>2
  <1>8. CASE SelectRead(r)
    <2>1. PICK p \in Provider :
             LET b == breaker[p]
                 l == [loc[r] EXCEPT !.examine = @ \ {p}, !.at = p] IN
             IF b.state # "Open"
             THEN Goto(r, "select") /\ Set(r, [l EXCEPT !.todo = @ \cup {p}])
             ELSE IF TimedOut(b) THEN Goto(r, "selectHalf") /\ Set(r, l)
             ELSE Goto(r, "select") /\ Set(r, l)
      BY <1>8 DEF SelectRead
    <2> DEFINE l == [loc[r] EXCEPT !.examine = @ \ {p}, !.at = p]
               m == [l EXCEPT !.todo = @ \cup {p}]
    <2>2. ~l.permit /\ ~m.permit  BY <1>2 DEF Memory
    <2> HIDE DEF l, m
    <2>3. (Goto(r, "select") \/ Goto(r, "selectHalf")) /\ (Set(r, l) \/ Set(r, m))
      BY <2>1 DEF l, m
    <2>4. QED  BY <1>5, <2>2, <2>3
  <1>9. CASE SelectDone(r) \/ LoopDone(r)
    BY <1>2, <1>4, <1>5, <1>9 DEF SelectDone, LoopDone
  <1>10. CASE AllowRead(r)
    <2>1. PICK p \in Provider :
             LET b == breaker[p]  l == [loc[r] EXCEPT !.at = p] IN
             CASE b.state = "Closed"   -> Admit(r, l)
               [] b.state = "HalfOpen" -> Goto(r, "probe") /\ Set(r, l)
               [] b.state = "Open"     ->
                    IF TimedOut(b) THEN Goto(r, "half") /\ Set(r, l) ELSE Move(r, l)
      BY <1>10 DEF AllowRead
    <2> DEFINE l == [loc[r] EXCEPT !.at = p]
    <2>2. l \in Memory /\ ~l.permit  BY <1>2 DEF Memory
    <2>3. breaker[p].state \in States  BY <1>2 DEF Types, Counts
    <2>4. \/ Admit(r, l) \/ Move(r, l)
          \/ (Goto(r, "probe") \/ Goto(r, "half")) /\ Set(r, l)
      BY <2>1, <2>3 DEF States
    <2> HIDE DEF l
    <2>5. QED  BY <1>4, <1>5, <1>6, <2>2, <2>4
  <1>11. CASE AllowAgain(r)
    <2>1. At(r).state \in States  BY <1>2, BreakerFacts DEF Counts
    <2>2. Admit(r, loc[r]) \/ (Goto(r, "probe") /\ UNCHANGED loc) \/ Move(r, loc[r])
      BY <1>11, <2>1 DEF AllowAgain, States
    <2>3. QED  BY <1>2, <1>4, <1>5, <1>6, <2>2
  <1>12. CASE Rate(r)  BY <1>2, <1>4, <1>5, <1>12 DEF Rate
  <1>13. QED  BY <1>7, <1>8, <1>9, <1>10, <1>11, <1>12

\* What b spares of a: the counter, and the time of an opening.
Spares(a, b) ==
    /\ b.probes = a.probes
    /\ b.state = "Open" /\ b.opened = "elapsed" => a.state = "Open" /\ a.opened = "elapsed"

LEMMA WritesSpare ==
    ASSUME NEW a \in Counts
    PROVE  /\ Spares(a, [a EXCEPT !.failures = 0, !.total = @ + 1])
           /\ Spares(a, [a EXCEPT !.successes = @ + 1])
           /\ Spares(a, [a EXCEPT !.state = "Closed"])
           /\ Spares(a, [a EXCEPT !.failures = 0, !.successes = 0, !.total = 0, !.failed = 0])
           /\ Spares(a, [a EXCEPT !.failures = @ + 1])
           /\ Spares(a, [a EXCEPT !.total = @ + 1, !.failed = @ + 1, !.successes = 0])
           /\ Spares(a, [a EXCEPT !.failures = 0, !.successes = 0])
  BY DEF Spares, Counts

\* The steps between a permit's return and the next one leave the counter.
LEMMA RecordBalances ==
    ASSUME Here, NEW r \in Request,
           \/ CountSuccess(r) \/ Streak(r) \/ Close(r) \/ CloseReset(r)
           \/ CountFailure(r) \/ Tally(r) \/ OpenReset(r)
    PROVE  PermitInv'
  <1>1. pc[r] \notin Holding \cup {"unprobe", "opened"}
    BY DEF CountSuccess, Streak, Close, CloseReset, CountFailure, Tally, OpenReset, Holding
  <1>2. ~loc[r].permit /\ Types /\ loc[r] \in Memory /\ At(r) \in Counts  BY <1>1, Free
  <1>3. PICK b : Change(r, b) /\ Spares(At(r), b)
    BY <1>2, WritesSpare
       DEF CountSuccess, Streak, Close, CloseReset, CountFailure, Tally, OpenReset
  <1>4. Others(r) /\ ~loc'[r].permit /\ pc'[r] \notin {"unprobe", "neutral", "release"}
    <2>1. CASE CountFailure(r)
      <3> DEFINE l == [loc[r] EXCEPT !.count = At(r).failures + 1]
      <3>1. ~l.permit  BY <1>2 DEF Memory
      <3>2. Goto(r, "tally") /\ Set(r, l)  BY <2>1 DEF CountFailure
      <3> HIDE DEF l
      <3>3. QED  BY <1>2, <3>1, <3>2, SetWithout
    <2>2. ASSUME Recorded(r) PROVE <1>4  BY <1>2, <2>2, EndsWithout
    <2>3. ASSUME NEW label \in {"streak", "close", "closeReset", "open", "rate"},
                 Goto(r, label), UNCHANGED loc
          PROVE  <1>4
      BY <1>2, <2>3, GotoWithout
    <2>4. CASE CountSuccess(r) \/ Streak(r) \/ Close(r) \/ CloseReset(r) \/ OpenReset(r)
      BY <2>2, <2>3, <2>4 DEF CountSuccess, Streak, Close, CloseReset, OpenReset
    <2>5. CASE Tally(r)
      <3>1. loc[r].seen \in States  BY <1>2 DEF Memory
      <3>2. Recorded(r) \/ ((Goto(r, "open") \/ Goto(r, "rate")) /\ UNCHANGED loc)
        <4>1. CASE loc[r].seen = "Open"
          <5>1. Recorded(r)  BY <2>5, <4>1 DEF Tally
          <5>2. QED  BY <5>1
        <4>2. CASE loc[r].seen = "HalfOpen"  BY <2>5, <4>2 DEF Tally
        <4>3. CASE loc[r].seen = "Closed"
          <5>1. Goto(r, IF Reached(loc[r].count) THEN "open" ELSE "rate") /\ UNCHANGED loc
            BY <2>5, <4>3 DEF Tally
          <5>2. QED  BY <5>1
        <4>4. QED  BY <3>1, <4>1, <4>2, <4>3 DEF States
      <3>3. QED  BY <2>2, <2>3, <3>2
    <2>6. QED  BY <2>1, <2>4, <2>5
  <1>5. QED
    BY <1>1, <1>2, <1>3, <1>4, WriteUnhurried, WithoutPermit DEF Here, Spares

\* Half-opening resets a counter that counts nobody any more.
LEMMA HalfOpenBalances ==
    ASSUME Here, NEW r \in Request, SelectHalf(r) \/ AllowHalf(r)
    PROVE  PermitInv'
  <1> DEFINE p == loc[r].at
  <1>1. pc[r] \in {"selectHalf", "half"} /\ Change(r, HalfOpened(At(r)))
    BY DEF SelectHalf, AllowHalf
  <1>2. ~loc[r].permit /\ Types /\ loc[r] \in Memory /\ At(r) \in Counts /\ p \in Provider
    BY <1>1, Free, BreakerFacts DEF Holding
  <1>3. At(r).state = "Open" /\ At(r).opened = "elapsed"
    BY <1>1 DEF Here, CallInv, Knows, At
  <1>4. \A q \in Request : In(q, p) => q = r
    BY <1>1, <1>2 DEF Here, CallInv, Apart, In, Inside
  <1>5. \A q \in Request : ~AtOpened(q, p) /\ ~ReturnsIt(q, p)
    BY <1>1, <1>4 DEF AtOpened, ReturnsIt, In, Inside
  <1>6. \A q \in Request : ~Probing(q, p)
    BY <1>2, <1>3, <1>5 DEF Here, PermitInv, Vacant, TimeIsUp, At
  <1>7. HalfOpened(At(r)).probes = 0 /\ HalfOpened(At(r)).state = "HalfOpen"
    BY <1>2, <1>3 DEF HalfOpened, Counts
  <1>8. \A q \in Provider :
          breaker'[q] = IF q = loc[r].at THEN HalfOpened(At(r)) ELSE breaker[q]
    BY <1>1, <1>2 DEF Change, Types
  <1>9. Others(r) /\ ~loc'[r].permit /\ pc'[r] \in {"select", "again"}
    <2>1. CASE SelectHalf(r)
      <3> DEFINE l == [loc[r] EXCEPT !.todo = @ \cup {loc[r].at}]
      <3>1. ~l.permit  BY <1>2 DEF Memory
      <3>2. Goto(r, "select") /\ Set(r, l)  BY <2>1 DEF SelectHalf
      <3> HIDE DEF l
      <3>3. QED  BY <1>2, <3>1, <3>2, SetWithout
    <2>2. CASE AllowHalf(r)  BY <1>2, <2>2, GotoWithout DEF AllowHalf
    <2>3. QED  BY <2>1, <2>2
  <1>10. Unhurried
    BY <1>1, <1>5, <1>6, <1>7, <1>8, <1>9 DEF Unhurried, TimeIsUp, AtOpened, Others
  <1>11. QED  BY <1>1, <1>9, <1>10, WithoutPermit DEF Here, Holding

LEMMA OpenBalances ==
    ASSUME Here, NEW r \in Request, Open(r) \/ Opened(r)
    PROVE  PermitInv'
  <1>1. pc[r] \in {"open", "opened"} /\ UNCHANGED loc  BY DEF Open, Opened
  <1>2. ~loc[r].permit /\ Types /\ loc[r] \in Memory /\ At(r) \in Counts
        /\ loc[r].at \in Provider
    BY <1>1, Free, BreakerFacts DEF Holding
  <1>3. Others(r) /\ ~loc'[r].permit /\ pc'[r] \in {"opened", "openReset"}
        /\ (Open(r) => pc'[r] = "opened")
    BY <1>1, <1>2, GotoWithout DEF Open, Opened
  <1>4. PICK b : /\ Change(r, b) /\ b.probes = At(r).probes
                 /\ Opened(r) => b.opened = "recent"
    <2>1. CASE Open(r)
      <3>1. [At(r) EXCEPT !.state = "Open"].probes = At(r).probes  BY <1>2 DEF Counts
      <3>2. ~Opened(r)  BY <2>1 DEF Open, Opened
      <3>3. QED  BY <2>1, <3>1, <3>2 DEF Open
    <2>2. CASE Opened(r)
      <3>1. /\ [At(r) EXCEPT !.opened = "recent"].probes = At(r).probes
            /\ [At(r) EXCEPT !.opened = "recent"].opened = "recent"
        BY <1>2 DEF Counts
      <3>2. QED  BY <2>2, <3>1 DEF Opened
    <2>3. QED  BY <2>1, <2>2
  <1>5. \A p \in Provider : breaker'[p] = IF p = loc[r].at THEN b ELSE breaker[p]
    BY <1>2, <1>4 DEF Change, Types
  <1>6. Unhurried
    <2> SUFFICES ASSUME NEW p \in Provider
                 PROVE  breaker'[p].probes = breaker[p].probes /\ (TimeIsUp(p)' => TimeIsUp(p))
      BY DEF Unhurried
    <2>1. CASE p = loc[r].at
      <3>1. ~TimeIsUp(p)'  BY <1>1, <1>3, <1>4, <1>5, <2>1 DEF TimeIsUp, AtOpened
      <3>2. QED  BY <1>4, <1>5, <2>1, <3>1 DEF At
    <2>2. CASE p # loc[r].at
      <3>1. breaker'[p] = breaker[p]  BY <1>5, <2>2
      <3>2. TimeIsUp(p)' => TimeIsUp(p)
        BY <1>1, <1>3, <2>2, <3>1 DEF TimeIsUp, AtOpened, Others
      <3>3. QED  BY <3>1, <3>2
    <2>3. QED  BY <2>1, <2>2
  <1>7. QED  BY <1>1, <1>3, <1>6, WithoutPermit DEF Here, Holding

----------------------------------------------------------------------------
(* The steps that take a permit, carry it and give it back. *)

\* Of the threads only r changes what it holds of p, and it has p for itself.
LEMMA PermitChanges ==
    ASSUME Here, NEW r \in Request, Others(r), Carries(r)',
           NEW p \in Provider, p = loc[r].at,
           \A q \in Provider \ {p} :
              /\ breaker'[q] = breaker[q]
              /\ ~Probing(r, q) /\ ~Probing(r, q)' /\ ~ReturnsIt(r, q) /\ ~ReturnsIt(r, q)',
           pc[r] # "opened",
           Probing(r, p)' => \A q \in Request \ {r} : ~Probing(q, p),
           ~TimeIsUp(p)' \/ (TimeIsUp(p) /\ ~Probing(r, p)'),
           Balanced(p)'
    PROVE  PermitInv'
  <1>1. \A q \in Request \ {r}, x \in Provider :
          (Probing(q, x)' <=> Probing(q, x)) /\ (ReturnsIt(q, x)' <=> ReturnsIt(q, x))
    BY DEF Probing, ReturnsIt, Others
  <1>2. \A q \in Request : Carries(q)'  BY DEF Here, PermitInv, Carries, Others
  <1>3. OneHolder'  BY <1>1 DEF Here, PermitInv, OneHolder
  <1>4. Vacant'
    <2> SUFFICES ASSUME NEW x \in Provider, TimeIsUp(x)', NEW q \in Request
                 PROVE  ~Probing(q, x)'
      BY DEF Vacant
    <2>1. TimeIsUp(x)
      BY DEF TimeIsUp, AtOpened, Others
    <2>2. QED  BY <1>1, <2>1 DEF Here, PermitInv, Vacant
  <1>5. ASSUME NEW x \in Provider PROVE Balanced(x)'
    <2>1. CASE x = p  BY <2>1
    <2>2. CASE x # p
      <3>1. \A q \in Request : (Probing(q, x)' <=> Probing(q, x))
                               /\ (ReturnsIt(q, x)' <=> ReturnsIt(q, x))
        BY <1>1, <2>2
      <3>2. QED  BY <2>2, <3>1 DEF Here, PermitInv, Balanced, Excess
    <2>3. QED  BY <2>1, <2>2
  <1>6. QED  BY <1>2, <1>3, <1>4, <1>5 DEF PermitInv

LEMMA SendBalances ==
    ASSUME Here, NEW r \in Request,
           Send(r) \/ SendNeutral(r) \/ Cancel(r) \/ RecordRead(r)
    PROVE  PermitInv'
  <1>1. breaker' = breaker /\ pc[r] \in {"send", "record"}
    BY DEF Send, SendNeutral, Cancel, RecordRead
  <1>2. Types /\ loc[r] \in Memory /\ At(r) \in Counts
    BY BreakerFacts DEF Here, CallInv
  <1>3. ASSUME Others(r), Carries(r)', pc'[r] # "unprobe",
               loc'[r].permit = loc[r].permit, loc'[r].at = loc[r].at \/ ~loc[r].permit
        PROVE  PermitInv'
    BY <1>1, <1>2, <1>3, ReadUnhurried, WithPermit DEF Here
  <1>4. CASE Send(r)
    <2>1. PICK result \in {"success", "failure", "fatal"} :
            Goto(r, "record") /\ Set(r, [loc[r] EXCEPT !.result = result])
      BY <1>4 DEF Send
    <2> DEFINE l == [loc[r] EXCEPT !.result = result]
    <2>2. l.permit = loc[r].permit /\ l.at = loc[r].at  BY <1>2 DEF Memory
    <2> HIDE DEF l
    <2>3. Others(r) /\ pc'[r] = "record" /\ loc'[r] = l
      BY <1>2, <2>1 DEF Types, Goto, Set, Others, l
    <2>4. Carries(r)'  BY <2>3 DEF Carries, Holding
    <2>5. QED  BY <1>3, <2>2, <2>3, <2>4
  <1>5. CASE SendNeutral(r)
    <2>1. CASE loc[r].permit
      <3>1. Others(r) /\ pc'[r] = "neutral" /\ loc' = loc
        BY <1>2, <1>5, <2>1 DEF SendNeutral, Types, Goto, Others
      <3>2. Carries(r)'  BY <2>1, <3>1 DEF Carries, Holding
      <3>3. QED  BY <1>3, <3>1, <3>2
    <2>2. CASE ~loc[r].permit
      <3>1. Others(r) /\ pc'[r] = "idle" /\ loc'[r] = Blank
        BY <1>2, <1>5, <2>2 DEF SendNeutral, Finish, Types, Goto, Set, Others
      <3>2. loc'[r].permit = FALSE /\ loc[r].permit = FALSE
        BY <1>2, <2>2, <3>1 DEF Blank, Memory
      <3>3. Carries(r)'  BY <3>1, <3>2 DEF Carries
      <3>4. QED  BY <1>3, <2>2, <3>1, <3>2, <3>3
    <2>3. QED  BY <2>1, <2>2
  <1>6. CASE RecordRead(r)
    <2> DEFINE l == [loc[r] EXCEPT !.seen = At(r).state]
               label == IF loc[r].permit THEN "release" ELSE Verdict(loc[r].result)
    <2>1. l.permit = loc[r].permit /\ l.at = loc[r].at  BY <1>2 DEF Memory
    <2>2. Goto(r, label) /\ Set(r, l)  BY <1>6 DEF RecordRead
    <2>3. /\ label \in {"release", "success", "failure"}
          /\ label = "release" <=> loc[r].permit
      BY DEF Verdict
    <2> HIDE DEF l, label
    <2>4. Others(r) /\ pc'[r] = label /\ loc'[r] = l
      BY <1>2, <2>2 DEF Types, Goto, Set, Others
    <2>5. Carries(r)'  BY <2>1, <2>3, <2>4 DEF Carries, Holding
    <2>6. QED  BY <1>3, <2>1, <2>3, <2>4, <2>5
  <1>7. CASE Cancel(r)
    <2>1. /\ Others(r) /\ ~loc'[r].permit /\ pc'[r] = "idle" /\ MayCancel
      <3>1. pc'[r] = "idle"  BY <1>2, <1>7 DEF Cancel, Finish, Goto, Types
      <3>2. QED  BY <1>2, <1>7, <3>1, EndsWithout DEF Cancel
    <2>2. /\ \A q \in Request, p \in Provider : ReturnsIt(q, p)' <=> ReturnsIt(q, p)
          /\ \A q \in Request, p \in Provider : Probing(q, p)' => Probing(q, p)
      BY <1>1, <2>1 DEF ReturnsIt, Probing, Others
    <2>3. \A p \in Provider : TimeIsUp(p)' => TimeIsUp(p)
      BY <1>1, <1>2, <2>1, ReadUnhurried DEF Unhurried
    <2>4. \A q \in Request : Carries(q)'
      BY <2>1 DEF Here, PermitInv, Carries, Others
    <2>5. OneHolder' /\ Vacant'
      BY <2>2, <2>3 DEF Here, PermitInv, OneHolder, Vacant
    <2>6. ASSUME NEW p \in Provider PROVE Balanced(p)'
      <3>1. CASE \E q \in Request : Probing(q, p)
        BY <1>1, <2>1, <2>2, <3>1 DEF Here, PermitInv, Balanced, Excess
      <3>2. CASE \A q \in Request : ~Probing(q, p)
        BY <1>1, <2>2, <3>2 DEF Here, PermitInv, Balanced, Excess
      <3>3. QED  BY <3>1, <3>2
    <2>7. QED  BY <2>4, <2>5, <2>6 DEF PermitInv
  <1>8. QED  BY <1>4, <1>5, <1>6, <1>7

\* Nothing of what r does concerns another provider than its own.
LEMMA Elsewhere ==
    ASSUME Types, NEW r \in Request, NEW b, Change(r, b),
           loc'[r].at = loc[r].at \/ (~loc'[r].permit /\ pc'[r] # "unprobe")
    PROVE  /\ \A q \in Provider \ {loc[r].at} :
                /\ breaker'[q] = breaker[q]
                /\ ~Probing(r, q) /\ ~Probing(r, q)' /\ ~ReturnsIt(r, q) /\ ~ReturnsIt(r, q)'
           /\ loc[r].at \in Provider /\ breaker'[loc[r].at] = b
  BY BreakerFacts DEF Types, Change, Probing, ReturnsIt

LEMMA ProbeBalances ==
    ASSUME Here, Width > 2, NEW r \in Request, Probe(r)
    PROVE  PermitInv'
  <1>0. PICK p \in Provider : p = loc[r].at
    BY BreakerFacts DEF Here, CallInv
  <1> USE <1>0
  <1> DEFINE b == [At(r) EXCEPT !.probes = (@ + 1) % Width]
             m == [[loc[r] EXCEPT !.permit = TRUE] EXCEPT !.tried = @ + 1]
  <1>1. pc[r] = "probe" /\ Change(r, b)  BY DEF Probe
  <1>2. /\ ~loc[r].permit /\ Types /\ loc[r] \in Memory /\ At(r) \in Counts
        /\ At(r).state = "HalfOpen"
    BY <1>1, Free DEF Holding, Here, CallInv, Knows, At
  <1>3. \A q \in Request : ~ReturnsIt(q, p)
    BY <1>1, OwnerInside, <1>2 DEF Here, CallInv, Owns, In, Inside, ReturnsIt
  <1>4. \/ At(r).probes = IF \E q \in Request : Probing(q, p) THEN 1 ELSE 0
        \/ MayCancel /\ At(r).probes = 1
    BY <1>2, <1>3, BreakerFacts DEF Here, PermitInv, Balanced, Excess, At
  <1>5. b.probes = At(r).probes + 1 /\ b.state = "HalfOpen"
    <2>1. b.probes = (At(r).probes + 1) % Width /\ b.state = "HalfOpen"
      BY <1>2 DEF Counts
    <2>2. At(r).probes \in Nat /\ At(r).probes + 1 < Width  BY <1>4, WidthAssumption
    <2>3. QED  BY <2>1, <2>2, Wraps
  <1>6. m.permit /\ m.at = p  BY <1>2 DEF Memory
  <1>7. \/ HasPermit(At(r)) /\ Goto(r, "send") /\ Set(r, m)
        \/ ~HasPermit(At(r)) /\ Goto(r, "unprobe") /\ UNCHANGED loc
    BY DEF Probe, Admit
  <1> HIDE DEF b, m
  <1>8. CASE HasPermit(At(r)) /\ Goto(r, "send") /\ Set(r, m)
    <2>1. Others(r) /\ pc'[r] = "send" /\ loc'[r] = m
      BY <1>2, <1>8 DEF Types, Goto, Set, Others
    <2>2. At(r).probes = 0 /\ \A q \in Request : ~Probing(q, p)
      BY <1>4, <1>8 DEF HasPermit
    <2>3. Carries(r)'  BY <2>1 DEF Carries, Holding
    <2>4. p \in Provider /\ breaker'[p] = b  BY <1>1, <1>2, <1>6, <2>1, Elsewhere
    <2>5. ~TimeIsUp(p)'  BY <1>5, <2>4 DEF TimeIsUp
    <2>6. Probing(r, p)' /\ \A q \in Request : ~ReturnsIt(q, p)'
      BY <1>3, <1>6, <2>1 DEF Probing, ReturnsIt, Others
    <2>7. Balanced(p)'
      BY <1>5, <2>2, <2>4, <2>6 DEF Balanced, Excess
    <2>8. QED
      BY <1>1, <1>2, <1>6, <2>1, <2>2, <2>3, <2>4, <2>5, <2>7, Elsewhere, PermitChanges
  <1>9. CASE ~HasPermit(At(r)) /\ Goto(r, "unprobe") /\ UNCHANGED loc
    <2>1. Others(r) /\ pc'[r] = "unprobe" /\ loc' = loc
      BY <1>2, <1>9 DEF Types, Goto, Others
    <2>2. At(r).probes = 1 /\ (MayCancel \/ \E q \in Request : Probing(q, p))
      BY <1>4, <1>9 DEF HasPermit
    <2>3. Carries(r)'  BY <1>2, <2>1 DEF Carries
    <2>4. p \in Provider /\ breaker'[p] = b  BY <1>1, <1>2, <2>1, Elsewhere
    <2>5. ~TimeIsUp(p)'  BY <1>5, <2>4 DEF TimeIsUp
    <2>6. /\ ReturnsIt(r, p)' /\ ~Probing(r, p)'
          /\ MayCancel \/ \E q \in Request : Probing(q, p)'
      BY <1>2, <2>1, <2>2 DEF Probing, ReturnsIt
    <2>7. Balanced(p)'
      BY <1>5, <2>2, <2>4, <2>6 DEF Balanced, Excess
    <2>8. QED
      BY <1>1, <1>2, <2>1, <2>3, <2>4, <2>5, <2>6, <2>7, Elsewhere, PermitChanges
  <1>10. QED  BY <1>7, <1>8, <1>9

LEMMA UnprobeBalances ==
    ASSUME Here, Width > 2, NEW r \in Request, Unprobe(r)
    PROVE  PermitInv'
  <1>0. PICK p \in Provider : p = loc[r].at
    BY BreakerFacts DEF Here, CallInv
  <1> USE <1>0
  <1> DEFINE b == [At(r) EXCEPT !.probes = (@ + Width - 1) % Width]
  <1>1. pc[r] = "unprobe" /\ Change(r, b)  BY DEF Unprobe
  <1>2. /\ ~loc[r].permit /\ Types /\ loc[r] \in Memory /\ At(r) \in Counts
        /\ At(r).state = "HalfOpen" /\ p \in Provider
    BY <1>1, Free, BreakerFacts DEF Holding, Here, CallInv, Knows, At
  <1>3. \A q \in Request \ {r} : ~ReturnsIt(q, p)
    BY <1>1, OwnerInside, <1>2 DEF Here, CallInv, Owns, In, Inside, ReturnsIt
  <1>4. ReturnsIt(r, p)  BY <1>1 DEF ReturnsIt
  <1>5. \/ At(r).probes = (IF \E q \in Request : Probing(q, p) THEN 1 ELSE 0) + 1
        \/ MayCancel /\ At(r).probes = 2
    BY <1>2, <1>4 DEF Here, PermitInv, Balanced, Excess, At
  <1>6. b.probes = At(r).probes - 1 /\ b.state = "HalfOpen"
    <2>1. b.probes = (At(r).probes + Width - 1) % Width /\ b.state = "HalfOpen"
      BY <1>2 DEF Counts
    <2>2. At(r).probes \in Nat /\ At(r).probes > 0 /\ At(r).probes < Width
      BY <1>5, WidthAssumption
    <2>3. QED  BY <2>1, <2>2, Wraps
  <1> HIDE DEF b
  <1>7. Others(r) /\ ~loc'[r].permit /\ pc'[r] \in {"loop", "idle"}
    BY <1>2, EndsWithout DEF Unprobe
  <1>8. Carries(r)'  BY <1>7 DEF Carries
  <1>9. breaker'[p] = b  BY <1>1, <1>2, <1>7, Elsewhere
  <1>10. ~TimeIsUp(p)'  BY <1>6, <1>9 DEF TimeIsUp
  <1>11. /\ \A q \in Request : ~ReturnsIt(q, p)'
         /\ \A q \in Request : Probing(q, p)' <=> Probing(q, p)
    BY <1>2, <1>3, <1>7 DEF Probing, ReturnsIt, Others
  <1>12. Balanced(p)'  BY <1>5, <1>6, <1>9, <1>11 DEF Balanced, Excess
  <1>13. ~Probing(r, p)'  BY <1>7 DEF Probing
  <1>14. QED
    BY <1>1, <1>2, <1>7, <1>8, <1>10, <1>12, <1>13, Elsewhere, PermitChanges

LEMMA ReleaseBalances ==
    ASSUME Here, ~Interleaved, NEW r \in Request, Neutral(r) \/ Release(r)
    PROVE  PermitInv'
  <1>0. PICK p \in Provider : p = loc[r].at
    BY BreakerFacts DEF Here, CallInv
  <1> USE <1>0
  <1> DEFINE b == Released(At(r))
  <1>1. pc[r] \in {"neutral", "release"} /\ Change(r, b)  BY DEF Neutral, Release
  <1>2. /\ loc[r].permit /\ Types /\ loc[r] \in Memory /\ At(r) \in Counts
        /\ p \in Provider
    BY <1>1, BreakerFacts DEF Here, CallInv, PermitInv, Carries
  <1>3. \A q \in Request : ~ReturnsIt(q, p)
    <2>1. Owns(r, p)
      BY <1>1, <1>2, OwnerInside, AloneOwns DEF Here, CallInv, Neutral, Release, Inside
    <2>2. QED  BY <1>1, <2>1 DEF Owns, In, Inside, ReturnsIt
  <1>4. \A q \in Request : Probing(q, p) <=> q = r
    BY <1>2 DEF Probing, Here, PermitInv, OneHolder
  <1>5. At(r).probes = 1
    BY <1>2, <1>3, <1>4 DEF Here, PermitInv, Balanced, Excess, At
  <1>6. b.probes = 0 /\ b.state = At(r).state /\ b.opened = At(r).opened
    BY <1>2, <1>5 DEF Released, Counts
  <1> HIDE DEF b
  <1>7. Others(r) /\ ~loc'[r].permit /\ pc'[r] \in {"idle", "success", "failure"}
    <2>1. CASE Neutral(r)
      <3>1. pc'[r] = "idle"  BY <1>2, <2>1 DEF Neutral, Finish, Goto, Types
      <3>2. QED  BY <1>2, <2>1, <3>1, EndsWithout DEF Neutral
    <2>2. CASE Release(r)
      <3> DEFINE l == [loc[r] EXCEPT !.permit = FALSE]
                 label == Verdict(loc[r].result)
      <3>1. ~l.permit  BY <1>2 DEF Memory
      <3>2. Goto(r, label) /\ Set(r, l)  BY <2>2 DEF Release
      <3>3. label \in {"success", "failure"}  BY DEF Verdict
      <3> HIDE DEF l, label
      <3>4. QED  BY <1>2, <3>1, <3>2, <3>3, SetWithout
    <2>3. QED  BY <2>1, <2>2
  <1>8. Carries(r)'  BY <1>7 DEF Carries
  <1>9. breaker'[p] = b  BY <1>1, <1>2, <1>7, Elsewhere
  <1>10. ~Probing(r, p)'  BY <1>7 DEF Probing
  <1>11. ~TimeIsUp(p)'
    <2>1. ~TimeIsUp(p)  BY <1>2, <1>4 DEF Here, PermitInv, Vacant
    <2>2. QED
      BY <1>1, <1>6, <1>7, <1>9, <2>1 DEF TimeIsUp, AtOpened, Others, At
  <1>12. \A q \in Request : ~ReturnsIt(q, p)' /\ ~Probing(q, p)'
    BY <1>3, <1>4, <1>7, <1>10 DEF Probing, ReturnsIt, Others
  <1>13. Balanced(p)'  BY <1>6, <1>9, <1>12 DEF Balanced, Excess
  <1>14. QED
    BY <1>1, <1>2, <1>7, <1>8, <1>10, <1>11, <1>13, Elsewhere, PermitChanges

\* A timeout ends only where no permit is held.
LEMMA ElapseBalances ==
    ASSUME Here, ~SlowRequests, NEW p \in Provider, Elapse(p)
    PROVE  PermitInv'
  <1>1. Types /\ UNCHANGED <<pc, loc>>  BY DEF Here, CallInv, Elapse
  <1>2. breaker' = [breaker EXCEPT ![p].opened = "elapsed"] /\ breaker[p] \in Counts
    BY <1>1 DEF Elapse, Types
  <1>3. \A q \in Provider :
          breaker'[q].probes = breaker[q].probes /\ (q # p => breaker'[q] = breaker[q])
    BY <1>1, <1>2 DEF Types, Counts
  <1>4. \A r \in Request : ~Probing(r, p)
    BY DEF Elapse, InFlight, Probing, Here, PermitInv, Carries, Holding
  <1>5. Vacant'
    BY <1>1, <1>3, <1>4 DEF Here, PermitInv, Vacant, TimeIsUp, AtOpened, Probing
  <1>6. (\A r \in Request : Carries(r))' /\ OneHolder'
    BY <1>1 DEF Here, PermitInv, Carries, OneHolder, Probing
  <1>7. (\A q \in Provider : Balanced(q))'
    BY <1>1, <1>3 DEF Here, PermitInv, Balanced, Excess, Probing, ReturnsIt
  <1>8. QED  BY <1>5, <1>6, <1>7 DEF PermitInv

LEMMA PermitInvInit == Init => PermitInv
  <1> SUFFICES ASSUME Init PROVE PermitInv
    OBVIOUS
  <1>1. \A r \in Request : pc[r] = "idle" /\ ~loc[r].permit  BY DEF Init, Blank
  <1>2. \A p \in Provider : breaker[p].probes = 0  BY DEF Init, Fresh
  <1>3. QED
    BY <1>1, <1>2 DEF PermitInv, Carries, OneHolder, Vacant, Balanced, Excess, Probing, ReturnsIt

LEMMA PermitInvNext ==
    ASSUME Prompt
    PROVE  Here /\ [Next]_vars => PermitInv'
  <1> SUFFICES ASSUME Here, [Next]_vars PROVE PermitInv'
    OBVIOUS
  <1>0. ~Interleaved /\ ~SlowRequests /\ Width > 2  BY DEF Prompt
  <1>1. CASE UNCHANGED vars
    BY <1>1 DEF vars, Here, PermitInv, Carries, OneHolder, Vacant, TimeIsUp, AtOpened,
       Balanced, Excess, Probing, ReturnsIt
  <1>2. ASSUME NEW r \in Request, Step(r) PROVE PermitInv'
    BY <1>0, <1>2, SelectBalances, RecordBalances, HalfOpenBalances, OpenBalances,
       SendBalances, ProbeBalances, UnprobeBalances, ReleaseBalances DEF Step
  <1>3. ASSUME NEW r \in Request, Arrive(r) \/ Reset(r) \/ Cancel(r) PROVE PermitInv'
    BY <1>0, <1>3, SelectBalances, SendBalances
  <1>4. QED  BY <1>0, <1>1, <1>2, <1>3, ElapseBalances DEF Next

LEMMA HereAlways == ASSUME Prompt PROVE Spec => []Here
  <1>1. ~Interleaved  BY DEF Prompt
  <1>2. Init => Here  BY CallInvInit, PermitInvInit DEF Here
  <1>3. Here /\ [Next]_vars => Here'
    BY <1>1, CallInvNext, PermitInvNext DEF Here
  <1>4. QED  BY <1>2, <1>3, PTL DEF Spec

\* What the set of those who owe a permit looks like.
LEMMA Owing ==
    ASSUME Here, NEW p \in Provider
    PROVE  LET P == {r \in Request : Probing(r, p)}
               T == {r \in Request : ReturnsIt(r, p)} IN
           /\ {r \in Request : Probing(r, p) \/ ReturnsIt(r, p)} = P \cup T
           /\ P = {} \/ \E x : P = {x}
           /\ T = {} \/ \E y : T = {y}
           /\ P \cap T = {}
           /\ ~MayCancel =>
                breaker[p].probes = (IF P = {} THEN 0 ELSE 1) + (IF T = {} THEN 0 ELSE 1)
  <1> DEFINE P == {r \in Request : Probing(r, p)}
             T == {r \in Request : ReturnsIt(r, p)}
  <1>1. P = {} \/ \E x : P = {x}  BY DEF Here, PermitInv, OneHolder
  <1>2. T = {} \/ \E y : T = {y}
    BY DEF Here, CallInv, Apart, In, Inside, ReturnsIt
  <1>3. P \cap T = {}
    BY DEF Here, PermitInv, Carries, Holding, Probing, ReturnsIt
  <1>4. /\ (P # {}) <=> \E r \in Request : Probing(r, p)
        /\ (T # {}) <=> \E r \in Request : ReturnsIt(r, p)
    OBVIOUS
  <1>5. ~MayCancel =>
          breaker[p].probes = (IF P = {} THEN 0 ELSE 1) + (IF T = {} THEN 0 ELSE 1)
    BY <1>4 DEF Here, PermitInv, Balanced, Excess
  <1>6. QED  BY <1>1, <1>2, <1>3, <1>5

(* A half-open breaker lets one request through at a time, whatever other   *)
(* requests fail, succeed, hang up or reset it meanwhile                    *)
(* (allow_half_open_probe).                                                 *)
THEOREM OneProbeAtATime == ASSUME Prompt PROVE Spec => []OneProbe
  <1>1. Here => OneProbe
    <2> SUFFICES ASSUME Here, NEW p \in Provider
                 PROVE  Cardinality({r \in Request : Probing(r, p)}) <= 1
      BY DEF OneProbe
    <2> DEFINE P == {r \in Request : Probing(r, p)}
    <2>1. P = {} \/ \E x : P = {x}  BY Owing
    <2> HIDE DEF P
    <2>2. Cardinality(P) = 0 \/ Cardinality(P) = 1  BY <2>1, FS_EmptySet, FS_Singleton
    <2>3. QED  BY <2>2 DEF P
  <1>2. QED  BY <1>1, HereAlways, PTL

(* No path through the forwarder loses a permit of a half-open breaker or   *)
(* gives one back twice: the counter is at all times what the requests      *)
(* under way will give back (release_half_open_permit, allow_half_open_probe *)
(* and the half-opening that resets the counter).  A dropped handler would  *)
(* lose one.                                                                *)
THEOREM PermitsReturned == ASSUME Prompt, ~MayCancel PROVE Spec => []PermitsBalance
  <1>1. Here => PermitsBalance
    <2> SUFFICES ASSUME Here, NEW p \in Provider
                 PROVE  breaker[p].probes
                          = Cardinality({r \in Request : Probing(r, p) \/ ReturnsIt(r, p)})
      BY DEF PermitsBalance
    <2> DEFINE P == {r \in Request : Probing(r, p)}
               T == {r \in Request : ReturnsIt(r, p)}
    <2>1. /\ {r \in Request : Probing(r, p) \/ ReturnsIt(r, p)} = P \cup T
          /\ P = {} \/ \E x : P = {x}
          /\ T = {} \/ \E y : T = {y}
          /\ P \cap T = {}
          /\ breaker[p].probes = (IF P = {} THEN 0 ELSE 1) + (IF T = {} THEN 0 ELSE 1)
      BY Owing
    <2> HIDE DEF P, T
    <2>2. Cardinality(P \cup T) = (IF P = {} THEN 0 ELSE 1) + (IF T = {} THEN 0 ELSE 1)
      <3>1. CASE P = {} /\ T = {}
        <4>1. P \cup T = {}  BY <3>1
        <4>2. QED  BY <3>1, <4>1, FS_EmptySet
      <3>2. ASSUME NEW x, P = {x}, T = {} PROVE <2>2
        <4>1. P \cup T = {x} /\ P # {}  BY <3>2
        <4>2. Cardinality({x}) = 1  BY FS_Singleton
        <4>3. QED  BY <3>2, <4>1, <4>2
      <3>3. ASSUME NEW y, P = {}, T = {y} PROVE <2>2
        <4>1. P \cup T = {y} /\ T # {}  BY <3>3
        <4>2. Cardinality({y}) = 1  BY FS_Singleton
        <4>3. QED  BY <3>3, <4>1, <4>2
      <3>4. ASSUME NEW x, NEW y, P = {x}, T = {y} PROVE <2>2
        <4>1. y \notin P /\ P # {} /\ T # {}  BY <2>1, <3>4
        <4>2. IsFiniteSet(P) /\ Cardinality(P) = 1  BY <3>4, FS_Singleton
        <4>3. Cardinality(P \cup {y})
                = IF y \in P THEN Cardinality(P) ELSE Cardinality(P) + 1
          BY <4>2, FS_AddElement
        <4>4. Cardinality(P \cup {y}) = 2  BY <4>1, <4>2, <4>3
        <4>5. QED  BY <3>4, <4>1, <4>4
      <3>5. QED  BY <2>1, <3>1, <3>2, <3>3, <3>4
    <2>3. QED  BY <2>1, <2>2
  <1>2. QED  BY <1>1, HereAlways, PTL
----------------------------------------------------------------------------
(* The promise of CircuitBreaker.  What its mapping needs to know besides:  *)
(* nobody who was let through before is left when an open breaker's time is *)
(* up, whoever a half-open one let through has its permit, and a call that  *)
(* opens or closes a breaker has reason to.                                 *)

Cleared == \A p \in Provider : TimeIsUp(p) => AdmittedTo[p] = {}

Probed(r) ==
    At(r).state = "HalfOpen" /\ pc[r] \in {"send", "neutral", "record"} => loc[r].permit

Earned(r) ==
    /\ pc[r] \in {"record", "release", "success", "streak"} => loc[r].result # "reset"
    /\ pc[r] = "rate" => At(r).state = "Closed"
    /\ pc[r] = "open" => At(r).state # "Open"
    /\ pc[r] = "close" =>
         \/ Resetting(r)
         \/ At(r).state = "HalfOpen" /\ At(r).successes >= SuccessThreshold
    /\ pc[r] = "closeReset" => At(r).state = "Closed"

ServeInv == Cleared /\ \A r \in Request : Probed(r) /\ Earned(r)

Served == Here /\ ServeInv

PromiseStep == [Promise!Next]_(Promise!vars)

\* Where the promise of each breaker is the same after the step.
Unmoved ==
    /\ waited' = waited
    /\ \A p \in Provider : /\ breaker'[p].state = breaker[p].state
                           /\ breaker[p].state = "HalfOpen"
                                => breaker'[p].successes = breaker[p].successes

LEMMA UnmovedPromise ==
    ASSUME Unmoved
    PROVE  State' = State /\ Merit' = Merit /\ waited' = waited
  BY DEF Unmoved, State, Merit

LEMMA StaysOut ==
    ASSUME NEW r \in Request, Others(r), ~Resetting(r), ~Resetting(r)',
           \/ pc[r] \notin Admitted /\ pc'[r] \notin Admitted
           \/ pc[r] \in Admitted /\ pc'[r] \in Admitted /\ loc'[r].at = loc[r].at
    PROVE  AdmittedTo' = AdmittedTo /\ Asked' = Asked
  <1>1. \A p \in Provider : AdmittedTo'[p] = AdmittedTo[p] /\ Asked'[p] = Asked[p]
    BY DEF AdmittedTo, Asked, Others, Resetting
  <1>2. QED  BY <1>1 DEF AdmittedTo, Asked

\* Steps that the promise does not see.
LEMMA Unseen ==
    ASSUME NEW r \in Request, Others(r), ~Resetting(r), ~Resetting(r)', Unmoved,
           \/ pc[r] \notin Admitted /\ pc'[r] \notin Admitted
           \/ pc[r] \in Admitted /\ pc'[r] \in Admitted /\ loc'[r].at = loc[r].at
    PROVE  PromiseStep
  BY StaysOut, UnmovedPromise DEF PromiseStep, Promise!vars

LEMMA Departs ==
    ASSUME Types, NEW r \in Request, Others(r), ~Resetting(r), ~Resetting(r)',
           pc[r] \in Admitted, pc'[r] \notin Admitted
    PROVE  /\ loc[r].at \in Provider /\ Promise!Leaves(loc[r].at, r) /\ Asked' = Asked
  <1> DEFINE p == loc[r].at
  <1>1. p \in Provider  BY BreakerFacts
  <1>2. r \in AdmittedTo[p]  BY <1>1 DEF AdmittedTo
  <1>3. \A q \in Provider : AdmittedTo'[q] = IF q = p THEN AdmittedTo[p] \ {r} ELSE AdmittedTo[q]
    BY <1>1 DEF AdmittedTo, Others
  <1>4. AdmittedTo' = [AdmittedTo EXCEPT ![p] = @ \ {r}]
    BY <1>1, <1>3 DEF AdmittedTo
  <1>5. \A q \in Provider : Asked'[q] = Asked[q]
    BY DEF Asked, Others, Resetting
  <1>6. Asked' = Asked  BY <1>5 DEF Asked
  <1>7. QED  BY <1>1, <1>2, <1>4, <1>6 DEF Promise!Leaves

LEMMA LeavesUnmoved ==
    ASSUME Types, NEW r \in Request, Others(r), ~Resetting(r), ~Resetting(r)', Unmoved,
           pc[r] \in Admitted, pc'[r] \notin Admitted
    PROVE  PromiseStep
  <1>1. loc[r].at \in Provider /\ Promise!Leave(loc[r].at, r)
    BY Departs, UnmovedPromise DEF Promise!Leave
  <1>2. QED  BY <1>1 DEF PromiseStep, Promise!Next

LEMMA AdmitsPromise ==
    ASSUME Types, NEW r \in Request, Others(r), ~Resetting(r), ~Resetting(r)', Unmoved,
           pc[r] \notin Admitted, pc'[r] \in Admitted,
           NEW p \in Provider, loc'[r].at = p,
           breaker[p].state = "Closed" \/ (breaker[p].state = "HalfOpen" /\ AdmittedTo[p] = {})
    PROVE  PromiseStep
  <1>1. \A q \in Provider : r \notin AdmittedTo[q]  BY DEF AdmittedTo
  <1>2. \A q \in Provider :
          AdmittedTo'[q] = IF q = p THEN AdmittedTo[p] \cup {r} ELSE AdmittedTo[q]
    BY DEF AdmittedTo, Others
  <1>3. AdmittedTo' = [AdmittedTo EXCEPT ![p] = @ \cup {r}] /\ Asked' = Asked
    <2>1. AdmittedTo' = [AdmittedTo EXCEPT ![p] = @ \cup {r}]
      <3>1. /\ AdmittedTo = [q \in Provider |-> AdmittedTo[q]]
            /\ AdmittedTo' = [q \in Provider |-> AdmittedTo'[q]]
        BY DEF AdmittedTo
      <3>2. QED  BY <1>2, <3>1
    <2>2. \A q \in Provider : Asked'[q] = Asked[q]  BY DEF Asked, Others, Resetting
    <2>3. Asked' = Asked  BY <2>2 DEF Asked
    <2>4. QED  BY <2>1, <2>3
  <1>4. State[p] = breaker[p].state  BY DEF State
  <1>5. Promise!Admit(p, r)  BY <1>1, <1>2, <1>3, <1>4, UnmovedPromise DEF Promise!Admit
  <1>6. QED  BY <1>5 DEF PromiseStep, Promise!Next

\* A breaker that changes its state has no merit yet.
LEMMA EntersState ==
    ASSUME Types, NEW p \in Provider, NEW s \in States,
           breaker'[p].state = s, s = "HalfOpen" => breaker'[p].successes = 0,
           \A q \in Provider \ {p} : breaker'[q] = breaker[q]
    PROVE  Promise!Enters(p, s)
  <1>1. \A q \in Provider : /\ State'[q] = IF q = p THEN s ELSE State[q]
                            /\ Merit'[q] = IF q = p THEN 0 ELSE Merit[q]
    BY DEF State, Merit
  <1>2. QED  BY <1>1 DEF Promise!Enters, State, Merit

\* What each step of a request has to show.
Serves(r) == Others(r) /\ Probed(r)' /\ Earned(r)' /\ PromiseStep

LEMMA GotoFacts ==
    ASSUME Types, NEW r \in Request, NEW label, Goto(r, label), UNCHANGED loc \/ \E l : Set(r, l)
    PROVE  Others(r) /\ pc'[r] = label
  BY DEF Types, Goto, Set, Others

LEMMA SetFacts ==
    ASSUME Types, NEW r \in Request, NEW l, Set(r, l)
    PROVE  loc'[r] = l
  BY DEF Types, Set

LEMMA ChangeFacts ==
    ASSUME Types, NEW r \in Request, NEW b, Change(r, b)
    PROVE  /\ loc[r].at \in Provider /\ breaker'[loc[r].at] = b
           /\ \A p \in Provider \ {loc[r].at} : breaker'[p] = breaker[p]
  BY BreakerFacts DEF Types, Change

\* Before a request is let through and after its outcome is counted.
LEMMA Outside ==
    ASSUME NEW r \in Request, pc'[r] \notin Admitted \cup {"close", "closeReset"}
    PROVE  Probed(r)' /\ Earned(r)' /\ ~Resetting(r)'
  BY DEF Probed, Earned, Resetting, Admitted

LEMMA EndsOutside ==
    ASSUME Types, NEW r \in Request, NEW l \in Memory, Move(r, l) \/ Finish(r) \/ Recorded(r)
    PROVE  /\ Others(r) /\ pc'[r] \notin Admitted \cup {"close", "closeReset"}
           /\ Probed(r)' /\ Earned(r)' /\ ~Resetting(r)'
  <1>1. Others(r) /\ pc'[r] \in {"loop", "idle"}  BY EndsWithout
  <1>2. QED  BY <1>1, Outside DEF Admitted

LEMMA OutsideServes ==
    ASSUME NEW r \in Request, Others(r), Unmoved,
           pc[r] \notin Admitted \cup {"close"},
           pc'[r] \notin Admitted \cup {"close", "closeReset"}
    PROVE  Serves(r)
  <1>1. ~Resetting(r) /\ pc[r] \notin Admitted /\ pc'[r] \notin Admitted
    BY DEF Resetting
  <1>2. PromiseStep  BY <1>1, Outside, Unseen
  <1>3. QED  BY <1>2, Outside DEF Serves

\* A request that stays where its outcome is still to be counted.
LEMMA WithinServes ==
    ASSUME NEW r \in Request, Others(r), Unmoved,
           pc[r] \in Admitted, pc'[r] \in Admitted, loc'[r].at = loc[r].at,
           Probed(r)', Earned(r)'
    PROVE  Serves(r)
  <1>1. ~Resetting(r) /\ ~Resetting(r)'  BY DEF Resetting, Admitted
  <1>2. QED  BY <1>1, Unseen DEF Serves

\* One that goes with nothing decided.
LEMMA GoneServes ==
    ASSUME Types, NEW r \in Request, Unmoved, pc[r] \in Admitted,
           NEW l \in Memory, Move(r, l) \/ Finish(r) \/ Recorded(r)
    PROVE  Serves(r)
  <1>1. ~Resetting(r)  BY DEF Resetting, Admitted
  <1>2. QED  BY <1>1, EndsOutside, LeavesUnmoved DEF Serves

LEMMA SelectServes ==
    ASSUME Served, NEW r \in Request,
           Arrive(r) \/ SelectRead(r) \/ SelectDone(r) \/ LoopDone(r)
    PROVE  Serves(r)
  <1>1. Types /\ loc[r] \in Memory  BY BreakerFacts DEF Served, Here, CallInv
  <1>2. Unmoved /\ pc[r] \notin Admitted \cup {"close"}
    BY DEF Arrive, SelectRead, SelectDone, LoopDone, Unmoved, Admitted
  <1>3. Others(r) /\ pc'[r] \notin Admitted \cup {"close", "closeReset"}
    <2>1. ASSUME Finish(r) PROVE <1>3  BY <1>1, <2>1, EndsOutside
    <2>2. ASSUME NEW label \in {"select", "selectHalf", "loop"}, Goto(r, label),
                 UNCHANGED loc \/ \E l : Set(r, l)
          PROVE  <1>3
      BY <1>1, <2>2, GotoFacts DEF Admitted
    <2>3. CASE Arrive(r)  BY <2>2, <2>3 DEF Arrive
    <2>4. CASE SelectRead(r)
      <3>1. (Goto(r, "select") \/ Goto(r, "selectHalf")) /\ \E l : Set(r, l)
        BY <2>4 DEF SelectRead
      <3>2. QED  BY <2>2, <3>1
    <2>5. CASE SelectDone(r) \/ LoopDone(r)
      BY <2>1, <2>2, <2>5 DEF SelectDone, LoopDone
    <2>6. QED  BY <2>3, <2>4, <2>5
  <1>4. QED  BY <1>2, <1>3, OutsideServes

LEMMA HalfOpenServes ==
    ASSUME Served, NEW r \in Request, SelectHalf(r) \/ AllowHalf(r)
    PROVE  Serves(r)
  <1> DEFINE p == loc[r].at
             b == HalfOpened(At(r))
  <1>1. /\ Types /\ p \in Provider /\ At(r) \in Counts /\ Apart
        /\ At(r).state = "Open" /\ At(r).opened = "elapsed"
    BY BreakerFacts DEF Served, Here, CallInv, Knows, SelectHalf, AllowHalf, At
  <1>2. pc[r] \in {"selectHalf", "half"} /\ Change(r, b) /\ waited' = waited
    BY DEF SelectHalf, AllowHalf
  <1>3. Others(r) /\ pc'[r] \in {"select", "again"}
    BY <1>1, GotoFacts DEF SelectHalf, AllowHalf
  <1>4. b.state = "HalfOpen" /\ b.successes = 0
    BY <1>1 DEF HalfOpened, Counts
  <1>5. TimeIsUp(p)
    <2>1. \A q \in Request : ~AtOpened(q, p)
      BY <1>1, <1>2 DEF Apart, In, AtOpened, Inside
    <2>2. QED  BY <1>1, <2>1 DEF TimeIsUp, At
  <1>6. waited[p] /\ AdmittedTo[p] = {}
    BY <1>1, <1>5 DEF Served, Here, CallInv, Waited, ServeInv, Cleared
  <1>7. Probed(r)' /\ Earned(r)' /\ ~Resetting(r) /\ ~Resetting(r)'
    BY <1>2, <1>3, Outside DEF Admitted, Resetting
  <1>8. AdmittedTo' = AdmittedTo /\ Asked' = Asked
    <2>1. pc[r] \notin Admitted /\ pc'[r] \notin Admitted  BY <1>2, <1>3 DEF Admitted
    <2>2. QED  BY <1>3, <1>7, <2>1, StaysOut
  <1>9. Promise!Enters(p, "HalfOpen")
    BY <1>1, <1>2, <1>4, ChangeFacts, EntersState DEF States
  <1>10. State[p] = "Open"  BY <1>1 DEF State, At
  <1>11. Promise!HalfOpen(p)  BY <1>2, <1>6, <1>8, <1>9, <1>10 DEF Promise!HalfOpen
  <1>12. QED  BY <1>1, <1>3, <1>7, <1>11 DEF Serves, PromiseStep, Promise!Next

LEMMA ChangeUnmoved ==
    ASSUME Types, NEW r \in Request, NEW b, Change(r, b), waited' = waited,
           b.state = At(r).state, At(r).state = "HalfOpen" => b.successes = At(r).successes
    PROVE  Unmoved
  <1>1. \A p \in Provider : breaker'[p] = IF p = loc[r].at THEN b ELSE breaker[p]
    BY ChangeFacts
  <1>2. QED  BY <1>1 DEF Unmoved, At

\* The writes that the promise does not see.
LEMMA WritesUnmoved ==
    ASSUME NEW a \in Counts, NEW n
    PROVE  /\ [a EXCEPT !.probes = n].state = a.state
           /\ [a EXCEPT !.probes = n].successes = a.successes
           /\ [a EXCEPT !.failures = 0, !.total = @ + 1].state = a.state
           /\ [a EXCEPT !.failures = 0, !.total = @ + 1].successes = a.successes
           /\ [a EXCEPT !.failures = n].state = a.state
           /\ [a EXCEPT !.failures = n].successes = a.successes
           /\ [a EXCEPT !.opened = n].state = a.state
           /\ [a EXCEPT !.opened = n].successes = a.successes
  BY DEF Counts

LEMMA AllowServes ==
    ASSUME Served, NEW r \in Request, AllowRead(r) \/ AllowAgain(r)
    PROVE  Serves(r)
  <1>1. Types /\ loc[r] \in Memory /\ At(r) \in Counts
    BY BreakerFacts DEF Served, Here, CallInv
  <1>2. Unmoved /\ pc[r] \in {"loop", "again"} /\ breaker' = breaker
    BY DEF AllowRead, AllowAgain, Unmoved
  <1>3. ASSUME NEW label \in {"probe", "half"}, Goto(r, label),
               UNCHANGED loc \/ \E l : Set(r, l)
        PROVE  Serves(r)
    <2>1. Others(r) /\ pc'[r] = label  BY <1>1, <1>3, GotoFacts
    <2>2. QED  BY <1>2, <2>1, OutsideServes DEF Admitted
  <1>4. CASE AllowRead(r)
    <2>1. PICK p \in Provider :
             LET b == breaker[p]  l == [loc[r] EXCEPT !.at = p] IN
             CASE b.state = "Closed"   -> Admit(r, l)
               [] b.state = "HalfOpen" -> Goto(r, "probe") /\ Set(r, l)
               [] b.state = "Open"     ->
                    IF TimedOut(b) THEN Goto(r, "half") /\ Set(r, l) ELSE Move(r, l)
      BY <1>4 DEF AllowRead
    <2> DEFINE l == [loc[r] EXCEPT !.at = p]
               m == [l EXCEPT !.tried = @ + 1]
    <2>2. l \in Memory /\ m.at = p  BY <1>1 DEF Memory
    <2>3. breaker[p].state \in States  BY <1>1 DEF Types, Counts
    <2>4. \/ breaker[p].state = "Closed" /\ Admit(r, l)
          \/ Move(r, l)
          \/ (Goto(r, "probe") \/ Goto(r, "half")) /\ Set(r, l)
      BY <2>1, <2>3 DEF States
    <2>5. CASE breaker[p].state = "Closed" /\ Admit(r, l)
      <3>1. Goto(r, "send") /\ Set(r, m)  BY <2>5 DEF Admit
      <3> HIDE DEF l, m
      <3>2. Others(r) /\ pc'[r] = "send" /\ loc'[r] = m  BY <1>1, <3>1, GotoFacts, SetFacts
      <3>3. Probed(r)' /\ Earned(r)' /\ ~Resetting(r) /\ ~Resetting(r)'
        BY <1>2, <2>2, <2>5, <3>2 DEF Probed, Earned, Resetting, At
      <3>4. pc[r] \notin Admitted /\ pc'[r] \in Admitted  BY <1>2, <3>2 DEF Admitted
      <3>5. PromiseStep
        BY <1>1, <1>2, <2>2, <2>5, <3>2, <3>3, <3>4, AdmitsPromise
      <3>6. QED  BY <3>2, <3>3, <3>5 DEF Serves
    <2> HIDE DEF l, m
    <2>6. CASE Move(r, l)
      BY <1>1, <1>2, <2>2, <2>6, EndsOutside, OutsideServes DEF Admitted
    <2>7. CASE (Goto(r, "probe") \/ Goto(r, "half")) /\ Set(r, l)
      BY <1>3, <2>7
    <2>8. QED  BY <2>4, <2>5, <2>6, <2>7
  <1>5. CASE AllowAgain(r)
    <2>1. At(r).state = "HalfOpen"
      BY <1>5 DEF AllowAgain, Served, Here, CallInv, Knows, At
    <2>2. QED  BY <1>3, <1>5, <2>1 DEF AllowAgain
  <1>6. QED  BY <1>4, <1>5

\* Where the counter is nought and a call asks for a permit nobody is let through.
LEMMA NobodyAdmitted ==
    ASSUME Served, NEW r \in Request, pc[r] = "probe", HasPermit(At(r))
    PROVE  AdmittedTo[loc[r].at] = {}
  <1> DEFINE p == loc[r].at
  <1>1. /\ Types /\ p \in Provider /\ At(r) \in Counts /\ At(r).state = "HalfOpen"
        /\ In(r, p)
    BY BreakerFacts DEF Served, Here, CallInv, Knows, At, In, Inside
  <1>2. At(r).probes = 0  BY <1>1 DEF HasPermit, Counts
  <1>3. ASSUME NEW q \in Request, pc[q] \in Admitted, loc[q].at = p PROVE FALSE
    <2>1. CASE pc[q] \in {"send", "neutral", "record"}
      <3>1. Probing(q, p)
        BY <1>1, <1>3, <2>1 DEF Served, ServeInv, Probed, Probing, At
      <3>2. At(r).probes >= 1
        BY <1>1, <3>1 DEF Served, Here, PermitInv, Balanced, Excess, At
      <3>3. QED  BY <1>2, <3>2
    <2>2. CASE pc[q] \in {"release", "success", "streak", "failure", "tally", "rate", "open"}
      <3>1. In(q, p)  BY <1>3, <2>2 DEF In, Inside
      <3>2. q = r  BY <1>1, <3>1 DEF Served, Here, CallInv, Apart
      <3>3. QED  BY <2>2, <3>2
    <2>3. QED  BY <1>3, <2>1, <2>2 DEF Admitted
  <1>4. QED  BY <1>1, <1>3 DEF AdmittedTo

LEMMA ProbeServes ==
    ASSUME Served, NEW r \in Request, Probe(r) \/ Unprobe(r)
    PROVE  Serves(r)
  <1>1. Types /\ loc[r] \in Memory /\ At(r) \in Counts /\ loc[r].at \in Provider
    BY BreakerFacts DEF Served, Here, CallInv
  <1>2. Unmoved /\ pc[r] \in {"probe", "unprobe"}
    BY <1>1, WritesUnmoved, ChangeUnmoved DEF Probe, Unprobe
  <1>3. CASE Probe(r) /\ HasPermit(At(r))
    <2> DEFINE m == [[loc[r] EXCEPT !.permit = TRUE] EXCEPT !.tried = @ + 1]
    <2>1. m.permit /\ m.at = loc[r].at  BY <1>1 DEF Memory
    <2>2. Goto(r, "send") /\ Set(r, m)  BY <1>3 DEF Probe, Admit
    <2> HIDE DEF m
    <2>3. Others(r) /\ pc'[r] = "send" /\ loc'[r] = m  BY <1>1, <2>2, GotoFacts, SetFacts
    <2>4. Probed(r)' /\ Earned(r)' /\ ~Resetting(r) /\ ~Resetting(r)'
      BY <1>2, <2>1, <2>3 DEF Probed, Earned, Resetting
    <2>5. pc[r] \notin Admitted /\ pc'[r] \in Admitted  BY <1>2, <2>3 DEF Admitted
    <2>6. breaker[loc[r].at].state = "HalfOpen" /\ AdmittedTo[loc[r].at] = {}
      BY <1>3, NobodyAdmitted DEF Probe, Served, Here, CallInv, Knows
    <2>7. PromiseStep
      BY <1>1, <1>2, <2>1, <2>3, <2>4, <2>5, <2>6, AdmitsPromise
    <2>8. QED  BY <2>3, <2>4, <2>7 DEF Serves
  <1>4. CASE Probe(r) /\ ~HasPermit(At(r))
    <2>1. Others(r) /\ pc'[r] = "unprobe"  BY <1>1, <1>4, GotoFacts DEF Probe
    <2>2. QED  BY <1>2, <2>1, OutsideServes DEF Admitted
  <1>5. CASE Unprobe(r)
    BY <1>1, <1>2, <1>5, EndsOutside, OutsideServes DEF Unprobe, Admitted
  <1>6. QED  BY <1>3, <1>4, <1>5

LEMMA ReleasedUnmoved ==
    ASSUME NEW a \in Counts
    PROVE  Released(a).state = a.state /\ Released(a).successes = a.successes
  BY DEF Released, Counts

LEMMA SendServes ==
    ASSUME Served, NEW r \in Request,
           Send(r) \/ SendNeutral(r) \/ Cancel(r) \/ Neutral(r)
    PROVE  Serves(r)
  <1>1. Types /\ loc[r] \in Memory /\ At(r) \in Counts
    BY BreakerFacts DEF Served, Here, CallInv
  <1>2. pc[r] \in {"send", "neutral"} /\ pc[r] \in Admitted
    BY DEF Send, SendNeutral, Cancel, Neutral, Admitted
  <1>3. Unmoved
    <2>1. CASE Neutral(r)
      BY <1>1, <2>1, ReleasedUnmoved, ChangeUnmoved DEF Neutral
    <2>2. CASE Send(r) \/ SendNeutral(r) \/ Cancel(r)
      BY <2>2 DEF Send, SendNeutral, Cancel, Unmoved
    <2>3. QED  BY <2>1, <2>2
  <1>4. ASSUME Finish(r) PROVE Serves(r)  BY <1>1, <1>2, <1>3, <1>4, GoneServes
  <1>5. CASE Send(r)
    <2>1. PICK result \in {"success", "failure", "fatal"} :
            Goto(r, "record") /\ Set(r, [loc[r] EXCEPT !.result = result])
      BY <1>5 DEF Send
    <2> DEFINE l == [loc[r] EXCEPT !.result = result]
    <2>2. l.permit = loc[r].permit /\ l.at = loc[r].at /\ l.result # "reset"
      BY <1>1 DEF Memory
    <2>3. Set(r, l)  BY <2>1
    <2> HIDE DEF l
    <2>4. Others(r) /\ pc'[r] = "record" /\ loc'[r] = l
      BY <1>1, <2>1, <2>3, GotoFacts, SetFacts
    <2>5. breaker' = breaker /\ pc[r] = "send"  BY <1>5 DEF Send
    <2>6. Probed(r)'
      BY <2>2, <2>4, <2>5 DEF Served, ServeInv, Probed, At
    <2>7. Earned(r)'  BY <2>2, <2>4 DEF Earned
    <2>8. QED
      BY <1>2, <1>3, <2>2, <2>4, <2>6, <2>7, WithinServes DEF Admitted
  <1>6. CASE SendNeutral(r) /\ loc[r].permit
    <2>1. Others(r) /\ pc'[r] = "neutral" /\ loc' = loc
      BY <1>1, <1>6, GotoFacts DEF SendNeutral
    <2>2. Probed(r)' /\ Earned(r)'  BY <1>6, <2>1 DEF Probed, Earned
    <2>3. QED  BY <1>2, <1>3, <2>1, <2>2, WithinServes DEF Admitted
  <1>7. CASE Cancel(r) \/ Neutral(r) \/ (SendNeutral(r) /\ ~loc[r].permit)
    BY <1>4, <1>7 DEF Cancel, Neutral, SendNeutral
  <1>8. QED  BY <1>5, <1>6, <1>7

LEMMA RecordServes ==
    ASSUME Served, NEW r \in Request, RecordRead(r) \/ Release(r)
    PROVE  Serves(r)
  <1>1. Types /\ loc[r] \in Memory /\ At(r) \in Counts
    BY BreakerFacts DEF Served, Here, CallInv
  <1>2. pc[r] \in {"record", "release"} /\ loc[r].result # "reset"
    BY DEF RecordRead, Release, Served, ServeInv, Earned
  <1>3. Unmoved
    <2>1. CASE Release(r)
      BY <1>1, <2>1, ReleasedUnmoved, ChangeUnmoved DEF Release
    <2>2. CASE RecordRead(r)  BY <2>2 DEF RecordRead, Unmoved
    <2>3. QED  BY <2>1, <2>2
  <1>4. PICK label \in {"release", "success", "failure"}, l \in Memory :
          Goto(r, label) /\ Set(r, l) /\ l.at = loc[r].at /\ l.result = loc[r].result
    <2>1. CASE RecordRead(r)
      <3> DEFINE l == [loc[r] EXCEPT !.seen = At(r).state]
      <3>1. l \in Memory /\ l.at = loc[r].at /\ l.result = loc[r].result
        BY <1>1 DEF Memory, Counts
      <3>2. Set(r, l)  BY <2>1 DEF RecordRead
      <3> HIDE DEF l
      <3>3. QED  BY <2>1, <3>1, <3>2 DEF RecordRead, Verdict
    <2>2. CASE Release(r)
      <3> DEFINE l == [loc[r] EXCEPT !.permit = FALSE]
      <3>1. l \in Memory /\ l.at = loc[r].at /\ l.result = loc[r].result
        BY <1>1 DEF Memory
      <3>2. Set(r, l)  BY <2>2 DEF Release
      <3> HIDE DEF l
      <3>3. QED  BY <2>2, <3>1, <3>2 DEF Release, Verdict
    <2>3. QED  BY <2>1, <2>2
  <1>5. Others(r) /\ pc'[r] = label /\ loc'[r] = l  BY <1>1, <1>4, GotoFacts, SetFacts
  <1>6. Probed(r)' /\ Earned(r)'  BY <1>2, <1>4, <1>5 DEF Probed, Earned
  <1>7. QED  BY <1>2, <1>3, <1>4, <1>5, <1>6, WithinServes DEF Admitted

\* Counting a success, and the half-open breaker's merit.
LEMMA CountServes ==
    ASSUME Served, NEW r \in Request, CountSuccess(r)
    PROVE  Serves(r)
  <1>1. Types /\ loc[r] \in Memory /\ At(r) \in Counts
    BY BreakerFacts DEF Served, Here, CallInv
  <1>2. pc[r] = "success" /\ pc[r] \in Admitted /\ loc[r].result # "reset"
    BY DEF CountSuccess, Served, ServeInv, Earned, Admitted
  <1>3. Unmoved  BY <1>1, WritesUnmoved, ChangeUnmoved DEF CountSuccess
  <1>4. CASE Recorded(r)  BY <1>1, <1>2, <1>3, <1>4, GoneServes
  <1>5. CASE Goto(r, "streak") /\ UNCHANGED loc
    <2>1. Others(r) /\ pc'[r] = "streak" /\ loc' = loc  BY <1>1, <1>5, GotoFacts
    <2>2. Probed(r)' /\ Earned(r)'  BY <1>2, <2>1 DEF Probed, Earned
    <2>3. QED  BY <1>2, <1>3, <2>1, <2>2, WithinServes DEF Admitted
  <1>6. QED  BY <1>4, <1>5 DEF CountSuccess

LEMMA StreakServes ==
    ASSUME Served, NEW r \in Request, Streak(r)
    PROVE  Serves(r)
  <1> DEFINE p == loc[r].at
             b == [At(r) EXCEPT !.successes = @ + 1]
  <1>1. Types /\ loc[r] \in Memory /\ At(r) \in Counts /\ p \in Provider
    BY BreakerFacts DEF Served, Here, CallInv
  <1>2. /\ pc[r] = "streak" /\ pc[r] \in Admitted /\ loc[r].result # "reset"
        /\ At(r).state = "HalfOpen"
    BY DEF Streak, Served, ServeInv, Earned, Admitted, Here, CallInv, Knows, At
  <1>3. Change(r, b) /\ waited' = waited  BY DEF Streak
  <1>4. b.state = "HalfOpen" /\ b.successes = At(r).successes + 1
    BY <1>1, <1>2 DEF Counts
  <1> HIDE DEF b
  <1>5. /\ Others(r) /\ pc'[r] \notin Admitted /\ ~Resetting(r) /\ ~Resetting(r)'
        /\ Probed(r)' /\ Earned(r)'
    <2>1. CASE Recorded(r)
      BY <1>1, <1>2, <2>1, EndsOutside DEF Resetting
    <2>2. CASE Deserves(At(r)) /\ Goto(r, "close") /\ UNCHANGED loc
      <3>1. Others(r) /\ pc'[r] = "close" /\ loc' = loc  BY <1>1, <2>2, GotoFacts
      <3>2. breaker'[p] = b  BY <1>1, <1>3, ChangeFacts
      <3>3. Earned(r)'
        BY <1>4, <2>2, <3>1, <3>2 DEF Earned, At, Deserves
      <3>4. QED  BY <1>2, <3>1, <3>3 DEF Probed, Resetting, Admitted
    <2>3. QED  BY <2>1, <2>2 DEF Streak
  <1>6. Promise!Leaves(p, r) /\ Asked' = Asked  BY <1>1, <1>2, <1>5, Departs
  <1>7. \A q \in Provider :
          /\ breaker'[q].state = breaker[q].state
          /\ Merit'[q] = IF q = p THEN Merit[p] + 1 ELSE Merit[q]
    BY <1>1, <1>2, <1>3, <1>4, ChangeFacts DEF Merit, At
  <1>8. State' = State /\ State[p] = "HalfOpen"  BY <1>1, <1>2, <1>7 DEF State, At
  <1>9. Merit' = [Merit EXCEPT ![p] = @ + 1]
    <2>1. Merit = [q \in Provider |-> Merit[q]] /\ Merit' = [q \in Provider |-> Merit'[q]]
      BY DEF Merit
    <2>2. QED  BY <1>7, <2>1
  <1>10. Promise!Succeed(p, r)  BY <1>3, <1>6, <1>8, <1>9 DEF Promise!Succeed
  <1>11. QED  BY <1>1, <1>5, <1>10 DEF Serves, PromiseStep, Promise!Next

LEMMA CloseServes ==
    ASSUME Served, NEW r \in Request, Close(r)
    PROVE  Serves(r)
  <1> DEFINE p == loc[r].at
             b == [At(r) EXCEPT !.state = "Closed"]
  <1>1. Types /\ At(r) \in Counts /\ p \in Provider
    BY BreakerFacts DEF Served, Here, CallInv
  <1>2. Change(r, b) /\ waited' = waited /\ pc[r] = "close"  BY DEF Close
  <1>3. Others(r) /\ pc'[r] = "closeReset" /\ loc' = loc  BY <1>1, GotoFacts DEF Close
  <1>4. b.state = "Closed"  BY <1>1 DEF Counts
  <1> HIDE DEF b
  <1>5. breaker'[p] = b /\ \A q \in Provider \ {p} : breaker'[q] = breaker[q]
    BY <1>1, <1>2, ChangeFacts
  <1>6. Probed(r)' /\ Earned(r)' /\ ~Resetting(r)'
    BY <1>3, <1>4, <1>5 DEF Probed, Earned, Resetting, At
  <1>7. Promise!Enters(p, "Closed")  BY <1>1, <1>4, <1>5, EntersState DEF States
  <1>8. \A q \in Provider : AdmittedTo'[q] = AdmittedTo[q]
    BY <1>2, <1>3 DEF AdmittedTo, Others, Admitted
  <1>9. AdmittedTo' = AdmittedTo  BY <1>8 DEF AdmittedTo
  <1>10. CASE Resetting(r)
    <2>1. r \in Asked[p]  BY <1>1, <1>10 DEF Asked
    <2>2. \A q \in Provider : Asked'[q] = IF q = p THEN Asked[p] \ {r} ELSE Asked[q]
      BY <1>3, <1>6 DEF Asked, Others, Resetting
    <2>3. Asked' = [Asked EXCEPT ![p] = @ \ {r}]
      <3>1. Asked = [q \in Provider |-> Asked[q]] /\ Asked' = [q \in Provider |-> Asked'[q]]
        BY DEF Asked
      <3>2. QED  BY <2>2, <3>1
    <2>4. Promise!Reset(p, r)  BY <1>2, <1>7, <1>9, <2>1, <2>3 DEF Promise!Reset
    <2>5. QED  BY <1>1, <1>3, <1>6, <2>4 DEF Serves, PromiseStep, Promise!Next
  <1>11. CASE ~Resetting(r)
    <2>1. At(r).state = "HalfOpen" /\ At(r).successes >= SuccessThreshold
      BY <1>2, <1>11 DEF Served, ServeInv, Earned
    <2>2. State[p] = "HalfOpen" /\ Merit[p] >= SuccessThreshold
      BY <1>1, <2>1 DEF State, Merit, At
    <2>3. \A q \in Provider : Asked'[q] = Asked[q]
      BY <1>3, <1>6, <1>11 DEF Asked, Others, Resetting
    <2>4. Asked' = Asked  BY <2>3 DEF Asked
    <2>5. Promise!Close(p)  BY <1>2, <1>7, <1>9, <2>2, <2>4 DEF Promise!Close
    <2>6. QED  BY <1>1, <1>3, <1>6, <2>5 DEF Serves, PromiseStep, Promise!Next
  <1>12. QED  BY <1>10, <1>11

\* What follows a transition: counters of a breaker that is not half open.
LEMMA TransitionServes ==
    ASSUME Served, NEW r \in Request, CloseReset(r) \/ Opened(r) \/ OpenReset(r)
    PROVE  Serves(r)
  <1>1. Types /\ loc[r] \in Memory /\ At(r) \in Counts
    BY BreakerFacts DEF Served, Here, CallInv
  <1>2. pc[r] \in {"closeReset", "opened", "openReset"}
    BY DEF CloseReset, Opened, OpenReset
  <1>3. At(r).state # "HalfOpen"
    BY <1>2 DEF Served, ServeInv, Earned, Here, CallInv, Knows, At
  <1>4. PICK b : Change(r, b) /\ b.state = At(r).state
    <2>1. /\ [At(r) EXCEPT !.failures = 0, !.successes = 0, !.total = 0, !.failed = 0].state
               = At(r).state
          /\ [At(r) EXCEPT !.opened = "recent"].state = At(r).state
          /\ [At(r) EXCEPT !.failures = 0, !.successes = 0].state = At(r).state
      BY <1>1 DEF Counts
    <2>2. QED  BY <2>1 DEF CloseReset, Opened, OpenReset
  <1>5. Unmoved
    <2>1. waited' = waited  BY DEF CloseReset, Opened, OpenReset
    <2>2. QED  BY <1>1, <1>3, <1>4, <2>1, ChangeUnmoved
  <1>6. Others(r) /\ pc'[r] \notin Admitted \cup {"close", "closeReset"}
    <2>1. CASE Recorded(r)  BY <1>1, <2>1, EndsOutside
    <2>2. CASE Opened(r)  BY <1>1, <2>2, GotoFacts DEF Opened, Admitted
    <2>3. QED  BY <2>1, <2>2 DEF CloseReset, OpenReset
  <1>7. QED  BY <1>2, <1>5, <1>6, OutsideServes DEF Admitted

LEMMA CountFailureServes ==
    ASSUME Served, NEW r \in Request, CountFailure(r)
    PROVE  Serves(r)
  <1> DEFINE l == [loc[r] EXCEPT !.count = At(r).failures + 1]
  <1>1. Types /\ loc[r] \in Memory /\ At(r) \in Counts
    BY BreakerFacts DEF Served, Here, CallInv
  <1>2. l.at = loc[r].at  BY <1>1 DEF Memory
  <1>3. Goto(r, "tally") /\ Set(r, l) /\ pc[r] = "failure"  BY DEF CountFailure
  <1> HIDE DEF l
  <1>4. Others(r) /\ pc'[r] = "tally" /\ loc'[r] = l  BY <1>1, <1>3, GotoFacts, SetFacts
  <1>5. Unmoved  BY <1>1, WritesUnmoved, ChangeUnmoved DEF CountFailure
  <1>6. Probed(r)' /\ Earned(r)'  BY <1>4 DEF Probed, Earned
  <1>7. QED  BY <1>2, <1>3, <1>4, <1>5, <1>6, WithinServes DEF Admitted

LEMMA TallyServes ==
    ASSUME Served, NEW r \in Request, Tally(r)
    PROVE  Serves(r)
  <1> DEFINE p == loc[r].at
             b == [At(r) EXCEPT !.total = @ + 1, !.failed = @ + 1, !.successes = 0]
  <1>1. Types /\ loc[r] \in Memory /\ At(r) \in Counts /\ p \in Provider
    BY BreakerFacts DEF Served, Here, CallInv
  <1>2. Change(r, b) /\ waited' = waited /\ pc[r] = "tally"  BY DEF Tally
  <1>3. loc[r].seen = At(r).state /\ loc[r].seen \in States
    BY <1>1, <1>2 DEF Served, Here, CallInv, Knows, At, Memory
  <1>4. b.state = At(r).state /\ b.successes = 0  BY <1>1 DEF Counts
  <1> HIDE DEF b
  <1>5. breaker'[p] = b /\ \A q \in Provider \ {p} : breaker'[q] = breaker[q]
    BY <1>1, <1>2, ChangeFacts
  <1>6. CASE loc[r].seen = "Open"
    <2>1. Recorded(r)  BY <1>6 DEF Tally
    <2>2. Unmoved  BY <1>1, <1>2, <1>3, <1>4, <1>6, ChangeUnmoved
    <2>3. QED  BY <1>1, <1>2, <2>1, <2>2, GoneServes DEF Admitted
  <1>7. CASE loc[r].seen = "Closed"
    <2>1. PICK label \in {"open", "rate"} : Goto(r, label) /\ UNCHANGED loc
      BY <1>7 DEF Tally
    <2>2. Unmoved  BY <1>1, <1>2, <1>3, <1>4, <1>7, ChangeUnmoved
    <2>3. Others(r) /\ pc'[r] = label /\ loc' = loc  BY <1>1, <2>1, GotoFacts
    <2>4. Probed(r)' /\ Earned(r)'
      BY <1>3, <1>4, <1>5, <1>7, <2>3 DEF Probed, Earned, At
    <2>5. QED  BY <1>2, <2>2, <2>3, <2>4, WithinServes DEF Admitted
  <1>8. CASE loc[r].seen = "HalfOpen"
    <2>1. Goto(r, "open") /\ UNCHANGED loc  BY <1>8 DEF Tally
    <2>2. Others(r) /\ pc'[r] = "open" /\ loc' = loc  BY <1>1, <2>1, GotoFacts
    <2>3. Probed(r)' /\ Earned(r)' /\ ~Resetting(r) /\ ~Resetting(r)'
      BY <1>2, <1>3, <1>4, <1>5, <1>8, <2>2 DEF Probed, Earned, Resetting, At
    <2>4. AdmittedTo' = AdmittedTo /\ Asked' = Asked
      BY <1>2, <2>2, <2>3, StaysOut DEF Admitted
    <2>5. \A q \in Provider : /\ breaker'[q].state = breaker[q].state
                              /\ Merit'[q] = IF q = p THEN 0 ELSE Merit[q]
      BY <1>4, <1>5 DEF Merit, At
    <2>6. State' = State /\ State[p] = "HalfOpen"
      BY <1>1, <1>3, <1>8, <2>5 DEF State, At
    <2>7. Merit' = [Merit EXCEPT ![p] = 0]
      <3>1. Merit = [q \in Provider |-> Merit[q]] /\ Merit' = [q \in Provider |-> Merit'[q]]
        BY DEF Merit
      <3>2. QED  BY <2>5, <3>1
    <2>8. r \in AdmittedTo[p]  BY <1>1, <1>2 DEF AdmittedTo, Admitted
    <2>9. Promise!Fail(p, r)  BY <1>2, <2>4, <2>6, <2>7, <2>8 DEF Promise!Fail
    <2>10. QED  BY <1>1, <2>2, <2>3, <2>9 DEF Serves, PromiseStep, Promise!Next
  <1>9. QED  BY <1>3, <1>6, <1>7, <1>8 DEF States

LEMMA RateServes ==
    ASSUME Served, NEW r \in Request, Rate(r)
    PROVE  Serves(r)
  <1>1. Types /\ loc[r] \in Memory  BY BreakerFacts DEF Served, Here, CallInv
  <1>2. Unmoved /\ pc[r] = "rate" /\ breaker' = breaker  BY DEF Rate, Unmoved
  <1>3. At(r).state = "Closed"  BY <1>2 DEF Served, ServeInv, Earned
  <1>4. CASE Recorded(r)  BY <1>1, <1>2, <1>4, GoneServes DEF Admitted
  <1>5. CASE Goto(r, "open") /\ UNCHANGED loc
    <2>1. Others(r) /\ pc'[r] = "open" /\ loc' = loc  BY <1>1, <1>5, GotoFacts
    <2>2. Probed(r)' /\ Earned(r)'  BY <1>2, <1>3, <2>1 DEF Probed, Earned, At
    <2>3. QED  BY <1>2, <2>1, <2>2, WithinServes DEF Admitted
  <1>6. QED  BY <1>4, <1>5 DEF Rate

LEMMA OpenServes ==
    ASSUME Served, NEW r \in Request, Open(r)
    PROVE  Serves(r)
  <1> DEFINE p == loc[r].at
             b == [At(r) EXCEPT !.state = "Open"]
  <1>1. Types /\ At(r) \in Counts /\ p \in Provider
    BY BreakerFacts DEF Served, Here, CallInv
  <1>2. /\ Change(r, b) /\ pc[r] = "open" /\ waited' = [waited EXCEPT ![p] = FALSE]
        /\ At(r).state # "Open"
    BY DEF Open, Served, ServeInv, Earned
  <1>3. Others(r) /\ pc'[r] = "opened" /\ loc' = loc  BY <1>1, GotoFacts DEF Open
  <1>4. b.state = "Open"  BY <1>1 DEF Counts
  <1> HIDE DEF b
  <1>5. Promise!Enters(p, "Open")
    BY <1>1, <1>2, <1>4, ChangeFacts, EntersState DEF States
  <1>6. /\ Probed(r)' /\ Earned(r)' /\ ~Resetting(r) /\ ~Resetting(r)'
        /\ pc[r] \in Admitted /\ pc'[r] \notin Admitted
    BY <1>2, <1>3, Outside DEF Admitted, Resetting
  <1>7. Promise!Leaves(p, r) /\ Asked' = Asked  BY <1>1, <1>3, <1>6, Departs
  <1>8. State[p] # "Open"  BY <1>1, <1>2 DEF State, At
  <1>9. Promise!Trip(p, r)  BY <1>2, <1>5, <1>7, <1>8 DEF Promise!Trip
  <1>10. QED  BY <1>1, <1>3, <1>6, <1>9 DEF Serves, PromiseStep, Promise!Next

LEMMA ResetServes ==
    ASSUME Served, NEW r \in Request, Reset(r)
    PROVE  Serves(r)
  <1>1. Types /\ Unmoved /\ pc[r] = "idle"
    BY DEF Served, Here, CallInv, Reset, Unmoved
  <1>2. PICK p \in Provider : Set(r, [Blank EXCEPT !.at = p, !.result = "reset"])
    BY DEF Reset
  <1> DEFINE l == [Blank EXCEPT !.at = p, !.result = "reset"]
  <1>3. l.at = p /\ l.result = "reset"  BY DEF Blank
  <1>4. Goto(r, "close") /\ Set(r, l)  BY <1>2 DEF Reset
  <1> HIDE DEF l
  <1>5. Others(r) /\ pc'[r] = "close" /\ loc'[r] = l  BY <1>1, <1>4, GotoFacts, SetFacts
  <1>6. Probed(r)' /\ Earned(r)' /\ Resetting(r)'
    BY <1>3, <1>5 DEF Probed, Earned, Resetting
  <1>7. \A q \in Provider : AdmittedTo'[q] = AdmittedTo[q]
    BY <1>1, <1>5 DEF AdmittedTo, Others, Admitted
  <1>8. AdmittedTo' = AdmittedTo  BY <1>7 DEF AdmittedTo
  <1>9. \A q \in Provider : Asked'[q] = IF q = p THEN Asked[p] \cup {r} ELSE Asked[q]
    BY <1>1, <1>3, <1>5, <1>6 DEF Asked, Others, Resetting
  <1>10. Asked' = [Asked EXCEPT ![p] = @ \cup {r}]
    <2>1. Asked = [q \in Provider |-> Asked[q]] /\ Asked' = [q \in Provider |-> Asked'[q]]
      BY DEF Asked
    <2>2. QED  BY <1>9, <2>1
  <1>11. Promise!Ask(p, r)  BY <1>1, <1>8, <1>10, UnmovedPromise DEF Promise!Ask
  <1>12. QED  BY <1>5, <1>6, <1>11 DEF Serves, PromiseStep, Promise!Next

----------------------------------------------------------------------------
Acts(r) == Arrive(r) \/ Reset(r) \/ Step(r) \/ Cancel(r)

LEMMA ActServes ==
    ASSUME Served, NEW r \in Request, Acts(r)
    PROVE  Serves(r)
  BY SelectServes, HalfOpenServes, AllowServes, ProbeServes, SendServes, RecordServes,
     CountServes, StreakServes, CloseServes, TransitionServes, CountFailureServes,
     TallyServes, RateServes, OpenServes, ResetServes DEF Acts, Step

\* Whoever writes a breaker has it for itself, and ends no timeout.
LEMMA ActWrites ==
    ASSUME Served, ~Interleaved, NEW r \in Request, Acts(r)
    PROVE  \/ breaker' = breaker /\ pc[r] # "opened"
           \/ /\ Owns(r, loc[r].at)
              /\ \E b : /\ Change(r, b)
                        /\ b.state = "Open" /\ b.opened = "elapsed"
                             => \/ pc'[r] = "opened" /\ loc' = loc
                                \/ /\ pc[r] # "opened"
                                   /\ At(r).state = "Open" /\ At(r).opened = "elapsed"
  <1>1. Types /\ Apart /\ At(r) \in Counts
    BY BreakerFacts DEF Served, Here, CallInv
  <1>2. CASE \/ Arrive(r) \/ Reset(r) \/ Cancel(r) \/ SelectRead(r) \/ SelectDone(r)
             \/ LoopDone(r) \/ AllowRead(r) \/ AllowAgain(r) \/ Send(r) \/ SendNeutral(r)
             \/ RecordRead(r) \/ Rate(r)
    BY <1>2 DEF Arrive, Reset, Cancel, SelectRead, SelectDone, LoopDone, AllowRead,
       AllowAgain, Send, SendNeutral, RecordRead, Rate
  <1>3. CASE SelectHalf(r) \/ AllowHalf(r)
    <2>1. At(r).state = "Open" /\ pc[r] \in Inside
      BY <1>3 DEF SelectHalf, AllowHalf, Served, Here, CallInv, Knows, At, Inside
    <2>2. HalfOpened(At(r)).state = "HalfOpen"  BY <1>1, <2>1 DEF HalfOpened, Counts
    <2>3. QED  BY <1>1, <1>3, <2>1, <2>2, OwnerInside DEF SelectHalf, AllowHalf
  <1>4. CASE Probe(r) \/ Unprobe(r) \/ Neutral(r) \/ Release(r)
    <2>1. Owns(r, loc[r].at)
      BY <1>1, <1>4, OwnerInside, AloneOwns DEF Probe, Unprobe, Neutral, Release, Inside
    <2>2. /\ \A n : /\ [At(r) EXCEPT !.probes = n].state = At(r).state
                    /\ [At(r) EXCEPT !.probes = n].opened = At(r).opened
          /\ Released(At(r)).state = At(r).state /\ Released(At(r)).opened = At(r).opened
      BY <1>1 DEF Released, Counts
    <2>3. PICK b : Change(r, b) /\ b.state = At(r).state /\ b.opened = At(r).opened
      BY <1>4, <2>2 DEF Probe, Unprobe, Neutral, Release
    <2>4. pc[r] # "opened"  BY <1>4 DEF Probe, Unprobe, Neutral, Release
    <2>5. QED  BY <2>1, <2>3, <2>4
  <1>5. CASE \/ CountSuccess(r) \/ Streak(r) \/ Close(r) \/ CloseReset(r)
             \/ CountFailure(r) \/ Tally(r) \/ OpenReset(r)
    <2>1. pc[r] \in Inside \ {"opened"}
      BY <1>5 DEF CountSuccess, Streak, Close, CloseReset, CountFailure, Tally, OpenReset,
         Inside
    <2>2. PICK b : Change(r, b) /\ Spares(At(r), b)
      BY <1>1, <1>5, WritesSpare
         DEF CountSuccess, Streak, Close, CloseReset, CountFailure, Tally, OpenReset
    <2>3. QED  BY <1>1, <2>1, <2>2, OwnerInside DEF Spares
  <1>6. CASE Open(r)
    <2>1. pc'[r] = "opened" /\ loc' = loc /\ pc[r] \in Inside
      BY <1>1, <1>6, GotoFacts DEF Open, Inside
    <2>2. QED  BY <1>1, <1>6, <2>1, OwnerInside DEF Open
  <1>7. CASE Opened(r)
    <2>1. [At(r) EXCEPT !.opened = "recent"].opened = "recent" /\ pc[r] \in Inside
      BY <1>1, <1>7 DEF Counts, Opened, Inside
    <2>2. QED  BY <1>1, <1>7, <2>1, OwnerInside DEF Opened
  <1>8. QED
    BY <1>2, <1>3, <1>4, <1>5, <1>6, <1>7 DEF Acts, Step

\* What the promise itself says of a step.
LEMMA PromiseFacts ==
    ASSUME PromiseStep, NEW p \in Provider
    PROVE  /\ State'[p] = "HalfOpen" => State[p] = "HalfOpen" \/ AdmittedTo[p] = {}
           /\ State'[p] = "Open" => AdmittedTo'[p] \subseteq AdmittedTo[p]
  <1>1. CASE UNCHANGED Promise!vars  BY <1>1 DEF Promise!vars
  <1>2. ASSUME NEW q \in Provider, Promise!HalfOpen(q)
        PROVE  (State'[p] = "HalfOpen" => State[p] = "HalfOpen" \/ AdmittedTo[p] = {})
               /\ AdmittedTo' = AdmittedTo
    BY <1>2 DEF Promise!HalfOpen, Promise!Enters, State
  <1>3. ASSUME NEW q \in Provider, Promise!Enters(q, "Closed") \/ Promise!Enters(q, "Open")
        PROVE  State'[p] = "HalfOpen" => State[p] = "HalfOpen"
    BY <1>3 DEF Promise!Enters, State
  <1>4. ASSUME NEW q \in Provider, NEW r \in Request, Promise!Leaves(q, r)
        PROVE  AdmittedTo'[p] \subseteq AdmittedTo[p]
    BY <1>4 DEF Promise!Leaves, AdmittedTo
  <1>5. ASSUME NEW q \in Provider, NEW r \in Request, Promise!Admit(q, r)
        PROVE  State' = State /\ (State[p] = "Open" => AdmittedTo'[p] = AdmittedTo[p])
    BY <1>5 DEF Promise!Admit, AdmittedTo
  <1>6. ASSUME NEW q \in Provider, Promise!Close(q) \/ Promise!Elapse(q)
        PROVE  AdmittedTo' = AdmittedTo /\ (State' = State \/ Promise!Enters(q, "Closed"))
    BY <1>6 DEF Promise!Close, Promise!Elapse
  <1>7. ASSUME NEW q \in Provider, NEW r \in Request,
               Promise!Leave(q, r) \/ Promise!Succeed(q, r) \/ Promise!Trip(q, r)
        PROVE  Promise!Leaves(q, r) /\ (State' = State \/ Promise!Enters(q, "Open"))
    BY <1>7 DEF Promise!Leave, Promise!Succeed, Promise!Trip
  <1>8. ASSUME NEW q \in Provider, NEW r \in Request,
               Promise!Fail(q, r) \/ Promise!Ask(q, r) \/ Promise!Reset(q, r)
        PROVE  AdmittedTo' = AdmittedTo /\ (State' = State \/ Promise!Enters(q, "Closed"))
    BY <1>8 DEF Promise!Fail, Promise!Ask, Promise!Reset
  <1>9. QED
    BY <1>1, <1>2, <1>3, <1>4, <1>5, <1>6, <1>7, <1>8 DEF PromiseStep, Promise!Next

LEMMA ActUnhurried ==
    ASSUME Served, ~Interleaved, NEW r \in Request, Acts(r), NEW p \in Provider, TimeIsUp(p)'
    PROVE  TimeIsUp(p)
  <1>1. Types /\ Others(r)  BY ActServes DEF Serves, Served, Here, CallInv
  <1>2. breaker'[p].state = "Open" /\ breaker'[p].opened = "elapsed"  BY DEF TimeIsUp
  <1>3. CASE breaker' = breaker /\ pc[r] # "opened"
    BY <1>1, <1>3 DEF TimeIsUp, AtOpened, Others
  <1>4. CASE ~(breaker' = breaker /\ pc[r] # "opened")
    <2>1. PICK b : /\ Change(r, b)
                   /\ b.state = "Open" /\ b.opened = "elapsed"
                        => \/ pc'[r] = "opened" /\ loc' = loc
                           \/ /\ pc[r] # "opened"
                              /\ At(r).state = "Open" /\ At(r).opened = "elapsed"
      BY <1>4, ActWrites
    <2>2. /\ breaker'[loc[r].at] = b
          /\ \A q \in Provider \ {loc[r].at} : breaker'[q] = breaker[q]
      BY <1>1, <2>1, ChangeFacts
    <2>3. CASE p = loc[r].at
      <3>1. ~(pc'[r] = "opened" /\ loc' = loc)  BY <2>3 DEF TimeIsUp, AtOpened
      <3>2. pc[r] # "opened" /\ breaker[p].state = "Open" /\ breaker[p].opened = "elapsed"
        BY <1>2, <2>1, <2>2, <2>3, <3>1 DEF At
      <3>3. QED  BY <1>1, <3>2 DEF TimeIsUp, AtOpened, Others
    <2>4. CASE p # loc[r].at
      BY <1>1, <1>2, <2>2, <2>4 DEF TimeIsUp, AtOpened, Others
    <2>5. QED  BY <2>3, <2>4
  <1>5. QED  BY <1>3, <1>4

LEMMA ActServed ==
    ASSUME Served, ~Interleaved, NEW r \in Request, Acts(r)
    PROVE  ServeInv' /\ PromiseStep
  <1>1. /\ Types /\ Others(r) /\ Probed(r)' /\ Earned(r)' /\ PromiseStep
    BY ActServes DEF Serves, Served, Here, CallInv
  <1>2. Cleared'
    <2> SUFFICES ASSUME NEW p \in Provider, TimeIsUp(p)' PROVE AdmittedTo'[p] = {}
      BY DEF Cleared
    <2>1. AdmittedTo[p] = {}  BY ActUnhurried DEF Served, ServeInv, Cleared
    <2>2. State'[p] = "Open"  BY DEF State, TimeIsUp
    <2>3. QED  BY <1>1, <2>1, <2>2, PromiseFacts
  <1>3. ASSUME NEW q \in Request \ {r} PROVE Probed(q)' /\ Earned(q)'
    <2> DEFINE p == loc[q].at
    <2>1. p \in Provider /\ Probed(q) /\ Earned(q)
      BY <1>1, BreakerFacts DEF Served, ServeInv
    <2>2. pc'[q] = pc[q] /\ loc'[q] = loc[q]  BY <1>1 DEF Others
    <2>3. Probed(q)'
      <3>1. ASSUME pc[q] \in {"send", "neutral", "record"}, breaker'[p].state = "HalfOpen"
            PROVE  breaker[p].state = "HalfOpen"
        <4>1. q \in AdmittedTo[p]  BY <2>1, <3>1 DEF AdmittedTo, Admitted
        <4>2. State'[p] = "HalfOpen"  BY <2>1, <3>1 DEF State
        <4>3. State[p] = "HalfOpen"  BY <1>1, <2>1, <4>1, <4>2, PromiseFacts
        <4>4. QED  BY <2>1, <4>3 DEF State
      <3>2. QED  BY <2>1, <2>2, <3>1 DEF Probed, At
    <2>4. Earned(q)'
      <3>1. ASSUME pc[q] \in {"rate", "open", "close", "closeReset"}
            PROVE  breaker'[p] = breaker[p]
        <4>1. In(q, p)  BY <3>1 DEF In, Inside
        <4>2. CASE p = loc[r].at
          <5>1. ~Owns(r, p)  BY <4>1 DEF Owns
          <5>2. QED  BY <4>2, <5>1, ActWrites
        <4>3. CASE p # loc[r].at
          BY <1>1, <2>1, <4>3, ActWrites, ChangeFacts
        <4>4. QED  BY <4>2, <4>3
      <3>2. QED  BY <2>1, <2>2, <3>1 DEF Earned, At, Resetting
    <2>5. QED  BY <2>3, <2>4
  <1>4. QED  BY <1>1, <1>2, <1>3 DEF ServeInv

LEMMA ElapseServed ==
    ASSUME Served, ~SlowRequests, NEW p \in Provider, Elapse(p)
    PROVE  ServeInv' /\ PromiseStep
  <1>1. Types /\ UNCHANGED <<pc, loc>>  BY DEF Served, Here, CallInv, Elapse
  <1>2. breaker' = [breaker EXCEPT ![p].opened = "elapsed"] /\ breaker[p] \in Counts
    BY <1>1 DEF Elapse, Types
  <1>3. \A q \in Provider :
          /\ breaker'[q].state = breaker[q].state
          /\ breaker'[q].successes = breaker[q].successes
          /\ q # p => breaker'[q] = breaker[q]
    BY <1>1, <1>2 DEF Types, Counts
  <1>4. AdmittedTo' = AdmittedTo /\ Asked' = Asked
    BY <1>1 DEF AdmittedTo, Asked, Resetting
  <1>5. State' = State /\ Merit' = Merit  BY <1>3 DEF State, Merit
  <1>6. PromiseStep
    <2>1. Promise!Elapse(p)  BY <1>4, <1>5 DEF Elapse, Promise!Elapse
    <2>2. QED  BY <2>1 DEF PromiseStep, Promise!Next
  <1>7. AdmittedTo[p] = {}
    BY DEF AdmittedTo, Admitted, Elapse, InFlight
  <1>8. Cleared'
    BY <1>1, <1>3, <1>4, <1>7 DEF Served, ServeInv, Cleared, TimeIsUp, AtOpened
  <1>9. \A r \in Request : Probed(r)' /\ Earned(r)'
    <2>1. \A r \in Request : loc[r].at \in Provider  BY <1>1, BreakerFacts
    <2>2. QED  BY <1>1, <1>3, <2>1 DEF Served, ServeInv, Probed, Earned, At, Resetting
  <1>10. QED  BY <1>6, <1>8, <1>9 DEF ServeInv

LEMMA ServedInit == Init => ServeInv /\ Promise!Init
  <1> SUFFICES ASSUME Init PROVE ServeInv /\ Promise!Init
    OBVIOUS
  <1>1. \A r \in Request : pc[r] = "idle"  BY DEF Init
  <1>2. \A p \in Provider : breaker[p].state = "Closed" /\ waited[p] = FALSE
    BY DEF Init, Fresh
  <1>3. ServeInv
    BY <1>1, <1>2 DEF ServeInv, Cleared, TimeIsUp, Probed, Earned
  <1>4. Promise!Init
    BY <1>1, <1>2 DEF Promise!Init, State, AdmittedTo, Merit, Asked, Resetting, Admitted, Init
  <1>5. QED  BY <1>3, <1>4

LEMMA ServedNext ==
    ASSUME Prompt
    PROVE  Served /\ [Next]_vars => ServeInv' /\ PromiseStep
  <1> SUFFICES ASSUME Served, [Next]_vars PROVE ServeInv' /\ PromiseStep
    OBVIOUS
  <1>1. CASE UNCHANGED vars
    <2>1. ServeInv'
      BY <1>1 DEF vars, Served, ServeInv, Cleared, TimeIsUp, AtOpened, AdmittedTo, Probed,
         Earned, At, Resetting
    <2>2. UNCHANGED Promise!vars
      BY <1>1 DEF vars, Promise!vars, State, AdmittedTo, Merit, Asked, Resetting
    <2>3. QED  BY <2>1, <2>2 DEF PromiseStep
  <1>2. ASSUME NEW r \in Request, Acts(r) PROVE ServeInv' /\ PromiseStep
    BY <1>2, ActServed DEF Prompt
  <1>3. ASSUME NEW p \in Provider, Elapse(p) PROVE ServeInv' /\ PromiseStep
    BY <1>3, ElapseServed DEF Prompt
  <1>4. QED  BY <1>1, <1>2, <1>3 DEF Next, Acts

(* Whatever the thresholds, the queue and the number of requests, the       *)
(* breakers with their counters, permits and steps keep the promise of      *)
(* CircuitBreaker (allow_request, record_success, record_failure and their  *)
(* transitions), also where clients hang up, as long as an answer comes     *)
(* before the open timeout is over.                                         *)
THEOREM BreakerPromise == ASSUME Prompt PROVE Spec => ImplementsBreaker
  <1>1. Init => Promise!Init /\ Served
    BY ServedInit, CallInvInit, PermitInvInit DEF Served, Here
  <1>2. Served /\ [Next]_vars => Served'
    BY ServedNext, CallInvNext, PermitInvNext DEF Served, Here, Prompt
  <1>3. Served /\ [Next]_vars => [Promise!Next]_(Promise!vars)
    BY ServedNext DEF PromiseStep
  <1>4. QED  BY <1>1, <1>2, <1>3, PTL DEF Spec, ImplementsBreaker, Promise!Spec

----------------------------------------------------------------------------
(* Types, also where the calls of one breaker's methods overlap.           *)

\* Who is about to be admitted has an attempt left.
TriesLeft(label, l) == label \in {"half", "again", "probe"} => l.tried < MaxAttempts

ThreadTypes ==
    /\ pc \in [Request -> Labels]
    /\ loc \in [Request -> Forward]
    /\ \A r \in Request : TriesLeft(pc[r], loc[r])

TypeInv == TypeOK /\ \A r \in Request : TriesLeft(pc[r], loc[r])

LEMMA GoesTypes ==
    ASSUME ThreadTypes, NEW r \in Request, NEW label \in Labels, NEW l \in Forward,
           TriesLeft(label, l), Goto(r, label), Set(r, l)
    PROVE  ThreadTypes'
  BY DEF ThreadTypes, Goto, Set

LEMMA StayTypes ==
    ASSUME ThreadTypes, NEW r \in Request, NEW label \in Labels,
           TriesLeft(label, loc[r]), Goto(r, label), UNCHANGED loc
    PROVE  ThreadTypes'
  BY DEF ThreadTypes, Goto

LEMMA ChangeTypes ==
    ASSUME breaker \in [Provider -> Breaker], NEW r \in Request, NEW b \in Breaker, Change(r, b)
    PROVE  breaker' \in [Provider -> Breaker]
  BY DEF Change

LEMMA KeepTypes ==
    ASSUME TypeInv, ThreadTypes', breaker' = breaker \/ breaker' \in [Provider -> Breaker],
           UNCHANGED <<waited, arrivals, resets>>
    PROVE  TypeInv'
  BY DEF TypeInv, TypeOK, ThreadTypes

LEMMA BlankForward == Blank \in Forward /\ Fresh \in Breaker
  <1>1. Nowhere \in Provider  BY ProviderAssumption DEF Nowhere
  <1>2. QED
    BY <1>1, LimitAssumption, WidthAssumption DEF Blank, Forward, States, Fresh, Breaker

LEMMA MoveTypes ==
    ASSUME ThreadTypes, NEW r \in Request, NEW l \in Forward, Move(r, l) \/ Finish(r)
    PROVE  ThreadTypes'
  <1>1. CASE Move(r, l)
    <2> DEFINE m == [l EXCEPT !.todo = @ \ {l.at}, !.permit = FALSE, !.result = "none",
                              !.seen = "Closed", !.count = 0]
    <2>1. m \in Forward  BY DEF Forward, States
    <2>2. Goto(r, "loop") /\ Set(r, m)  BY <1>1 DEF Move
    <2> HIDE DEF m
    <2>3. QED  BY <2>1, <2>2, GoesTypes DEF Labels, TriesLeft
  <1>2. CASE Finish(r)
    BY <1>2, BlankForward, GoesTypes DEF Finish, Labels, TriesLeft
  <1>3. QED  BY <1>1, <1>2

LEMMA RecordedTypes ==
    ASSUME ThreadTypes, NEW r \in Request, Recorded(r)
    PROVE  ThreadTypes'
  <1>1. loc[r] \in Forward  BY DEF ThreadTypes
  <1>2. QED  BY <1>1, MoveTypes DEF Recorded

LEMMA AdmitTypes ==
    ASSUME ThreadTypes, NEW r \in Request, NEW l \in Forward, Admit(r, l), l.tried < MaxAttempts
    PROVE  ThreadTypes'
  <1> DEFINE m == [l EXCEPT !.tried = @ + 1]
  <1>1. m \in Forward  BY LimitAssumption DEF Forward
  <1>2. Goto(r, "send") /\ Set(r, m)  BY DEF Admit
  <1> HIDE DEF m
  <1>3. QED  BY <1>1, <1>2, GoesTypes DEF Labels, TriesLeft

\* What a step does to a breaker keeps its fields in range.
LEMMA PermitTypes ==
    ASSUME NEW b \in Breaker
    PROVE  /\ HalfOpened(b) \in Breaker
           /\ Released(b) \in Breaker
           /\ [b EXCEPT !.probes = (@ + 1) % Width] \in Breaker
           /\ [b EXCEPT !.probes = (@ + Width - 1) % Width] \in Breaker
  <1>1. ASSUME NEW n \in 0..(Width - 1) PROVE [b EXCEPT !.probes = n] \in Breaker
    BY DEF Breaker
  <1>2. b.probes \in 0..(Width - 1)  BY DEF Breaker
  <1>3. (b.probes + 1) % Width \in 0..(Width - 1)
        /\ (b.probes + Width - 1) % Width \in 0..(Width - 1)
    BY <1>2, WidthAssumption
  <1>4. 0 \in 0..(Width - 1)  BY WidthAssumption
  <1>5. (IF b.probes = 0 THEN 0 ELSE b.probes - 1) \in 0..(Width - 1)
    BY <1>2, WidthAssumption
  <1>6. HalfOpened(b) \in Breaker
    <2>1. [b EXCEPT !.state = "HalfOpen", !.successes = 0, !.probes = 0] \in Breaker
      BY <1>4 DEF Breaker, States
    <2>2. QED  BY <2>1 DEF HalfOpened
  <1>7. QED  BY <1>1, <1>3, <1>5, <1>6 DEF Released

LEMMA CounterTypes ==
    ASSUME NEW b \in Breaker
    PROVE  /\ [b EXCEPT !.failures = 0, !.total = @ + 1] \in Breaker
           /\ [b EXCEPT !.successes = @ + 1] \in Breaker
           /\ [b EXCEPT !.failures = @ + 1] \in Breaker
           /\ [b EXCEPT !.total = @ + 1, !.failed = @ + 1, !.successes = 0] \in Breaker
  <1>1. ASSUME NEW m \in Nat, NEW n \in Nat, NEW k \in Nat
        PROVE  /\ [b EXCEPT !.failures = m, !.total = n] \in Breaker
               /\ [b EXCEPT !.successes = m] \in Breaker
               /\ [b EXCEPT !.failures = m] \in Breaker
               /\ [b EXCEPT !.total = m, !.failed = n, !.successes = k] \in Breaker
    BY DEF Breaker
  <1>2. b.failures + 1 \in Nat /\ b.successes + 1 \in Nat /\ b.total + 1 \in Nat
        /\ b.failed + 1 \in Nat
    BY DEF Breaker
  <1>3. QED  BY <1>1, <1>2

LEMMA ResetTypes ==
    ASSUME NEW b \in Breaker
    PROVE  /\ [b EXCEPT !.failures = 0, !.successes = 0, !.total = 0, !.failed = 0] \in Breaker
           /\ [b EXCEPT !.failures = 0, !.successes = 0] \in Breaker
  BY DEF Breaker

LEMMA StateTypes ==
    ASSUME NEW b \in Breaker
    PROVE  /\ [b EXCEPT !.state = "Closed"] \in Breaker
           /\ [b EXCEPT !.state = "Open"] \in Breaker
           /\ [b EXCEPT !.opened = "recent"] \in Breaker
           /\ [b EXCEPT !.opened = "elapsed"] \in Breaker
  BY DEF Breaker, States

LEMMA SelectTypes ==
    ASSUME TypeInv, NEW r \in Request,
           Arrive(r) \/ SelectRead(r) \/ SelectHalf(r) \/ SelectDone(r)
    PROVE  TypeInv'
  <1>0. /\ ThreadTypes /\ loc[r] \in Forward /\ At(r) \in Breaker
        /\ breaker \in [Provider -> Breaker]
    BY DEF TypeInv, TypeOK, ThreadTypes, Forward, At
  <1>1. CASE Arrive(r)
    <2> DEFINE l == [Blank EXCEPT !.examine = Provider]
    <2>1. l \in Forward  BY BlankForward DEF Forward
    <2>2. Goto(r, "select") /\ Set(r, l)  BY <1>1 DEF Arrive
    <2> HIDE DEF l
    <2>3. ThreadTypes'  BY <1>0, <2>1, <2>2, GoesTypes DEF Labels, TriesLeft
    <2>4. arrivals' \in 0..MaxArrivals  BY <1>1, LimitAssumption DEF Arrive, TypeInv, TypeOK
    <2>5. QED  BY <1>1, <2>3, <2>4 DEF Arrive, ThreadTypes, TypeInv, TypeOK
  <1>2. CASE SelectRead(r)
    <2>1. PICK p \in Provider :
             LET b == breaker[p]
                 l == [loc[r] EXCEPT !.examine = @ \ {p}, !.at = p] IN
             IF b.state # "Open"
             THEN Goto(r, "select") /\ Set(r, [l EXCEPT !.todo = @ \cup {p}])
             ELSE IF TimedOut(b) THEN Goto(r, "selectHalf") /\ Set(r, l)
             ELSE Goto(r, "select") /\ Set(r, l)
      BY <1>2 DEF SelectRead
    <2> DEFINE l == [loc[r] EXCEPT !.examine = @ \ {p}, !.at = p]
               m == [l EXCEPT !.todo = @ \cup {p}]
    <2>2. l \in Forward /\ m \in Forward  BY <1>0 DEF Forward
    <2>3. \/ Goto(r, "select") /\ Set(r, m)
          \/ Goto(r, "selectHalf") /\ Set(r, l)
          \/ Goto(r, "select") /\ Set(r, l)
      BY <2>1
    <2> HIDE DEF l, m
    <2>4. ThreadTypes'  BY <1>0, <2>2, <2>3, GoesTypes DEF Labels, TriesLeft
    <2>5. QED  BY <1>2, <2>4, KeepTypes DEF SelectRead, Keep
  <1>3. CASE SelectHalf(r)
    <2> DEFINE l == [loc[r] EXCEPT !.todo = @ \cup {loc[r].at}]
    <2>1. l \in Forward  BY <1>0 DEF Forward
    <2>2. Goto(r, "select") /\ Set(r, l)  BY <1>3 DEF SelectHalf
    <2> HIDE DEF l
    <2>3. ThreadTypes'  BY <1>0, <2>1, <2>2, GoesTypes DEF Labels, TriesLeft
    <2>4. breaker' \in [Provider -> Breaker]
      <3> DEFINE b == HalfOpened(At(r))
      <3>1. b \in Breaker  BY <1>0, PermitTypes
      <3>2. Change(r, b)  BY <1>3 DEF SelectHalf
      <3> HIDE DEF b
      <3>3. QED  BY <1>0, <3>1, <3>2, ChangeTypes
    <2>5. QED  BY <1>3, <2>3, <2>4, KeepTypes DEF SelectHalf, Keep
  <1>4. CASE SelectDone(r)
    <2>1. Finish(r) \/ (Goto(r, "loop") /\ UNCHANGED loc)  BY <1>4 DEF SelectDone
    <2>2. ThreadTypes'
      BY <1>0, <2>1, MoveTypes, StayTypes DEF Labels, TriesLeft
    <2>3. QED  BY <1>4, <2>2, KeepTypes DEF SelectDone, Keep
  <1>5. QED  BY <1>1, <1>2, <1>3, <1>4

LEMMA AllowTypes ==
    ASSUME TypeInv, NEW r \in Request,
           \/ LoopDone(r) \/ AllowRead(r) \/ AllowHalf(r) \/ AllowAgain(r)
           \/ Probe(r) \/ Unprobe(r)
    PROVE  TypeInv'
  <1>0. /\ ThreadTypes /\ loc[r] \in Forward /\ At(r) \in Breaker
        /\ breaker \in [Provider -> Breaker] /\ TriesLeft(pc[r], loc[r])
    BY DEF TypeInv, TypeOK, ThreadTypes, Forward, At
  <1>1. CASE LoopDone(r)
    BY <1>0, <1>1, MoveTypes, KeepTypes DEF LoopDone, Keep
  <1>2. CASE AllowRead(r)
    <2>1. PICK p \in Provider :
             LET b == breaker[p]  l == [loc[r] EXCEPT !.at = p] IN
             CASE b.state = "Closed"   -> Admit(r, l)
               [] b.state = "HalfOpen" -> Goto(r, "probe") /\ Set(r, l)
               [] b.state = "Open"     ->
                    IF TimedOut(b) THEN Goto(r, "half") /\ Set(r, l) ELSE Move(r, l)
      BY <1>2 DEF AllowRead
    <2> DEFINE l == [loc[r] EXCEPT !.at = p]
    <2>2. l \in Forward /\ l.tried < MaxAttempts  BY <1>0, <1>2 DEF Forward, AllowRead
    <2>3. breaker[p].state \in States  BY DEF TypeInv, TypeOK, Breaker
    <2>4. \/ Admit(r, l) \/ Move(r, l)
          \/ Goto(r, "probe") /\ Set(r, l)
          \/ Goto(r, "half") /\ Set(r, l)
      BY <2>1, <2>3 DEF States
    <2> HIDE DEF l
    <2>5. ThreadTypes'
      BY <1>0, <2>2, <2>4, AdmitTypes, MoveTypes, GoesTypes DEF Labels, TriesLeft
    <2>6. QED  BY <1>2, <2>5, KeepTypes DEF AllowRead, Keep
  <1>3. CASE AllowHalf(r)
    <2>1. ThreadTypes'  BY <1>0, <1>3, StayTypes DEF AllowHalf, Labels, TriesLeft
    <2>2. breaker' \in [Provider -> Breaker]
      <3> DEFINE b == HalfOpened(At(r))
      <3>1. b \in Breaker  BY <1>0, PermitTypes
      <3>2. Change(r, b)  BY <1>3 DEF AllowHalf
      <3> HIDE DEF b
      <3>3. QED  BY <1>0, <3>1, <3>2, ChangeTypes
    <2>3. QED  BY <1>3, <2>1, <2>2, KeepTypes DEF AllowHalf, Keep
  <1>4. CASE AllowAgain(r)
    <2>1. At(r).state \in States  BY <1>0 DEF Breaker
    <2>2. \/ Admit(r, loc[r]) \/ Move(r, loc[r])
          \/ Goto(r, "probe") /\ UNCHANGED loc
      BY <1>4, <2>1 DEF AllowAgain, States
    <2>3. loc[r].tried < MaxAttempts  BY <1>0, <1>4 DEF AllowAgain, TriesLeft
    <2>4. ThreadTypes'
      BY <1>0, <2>2, <2>3, AdmitTypes, MoveTypes, StayTypes DEF Labels, TriesLeft
    <2>5. QED  BY <1>4, <2>4, KeepTypes DEF AllowAgain, Keep
  <1>5. CASE Probe(r)
    <2> DEFINE l == [loc[r] EXCEPT !.permit = TRUE]
    <2>1. l \in Forward /\ l.tried < MaxAttempts
      BY <1>0, <1>5 DEF Forward, Probe, TriesLeft
    <2>2. Admit(r, l) \/ (Goto(r, "unprobe") /\ UNCHANGED loc)  BY <1>5 DEF Probe
    <2> HIDE DEF l
    <2>3. ThreadTypes'
      BY <1>0, <2>1, <2>2, AdmitTypes, StayTypes DEF Labels, TriesLeft
    <2>4. breaker' \in [Provider -> Breaker]
      <3> DEFINE b == [At(r) EXCEPT !.probes = (@ + 1) % Width]
      <3>1. b \in Breaker  BY <1>0, PermitTypes
      <3>2. Change(r, b)  BY <1>5 DEF Probe
      <3> HIDE DEF b
      <3>3. QED  BY <1>0, <3>1, <3>2, ChangeTypes
    <2>5. QED  BY <1>5, <2>3, <2>4, KeepTypes DEF Probe, Keep
  <1>6. CASE Unprobe(r)
    <2>1. ThreadTypes'  BY <1>0, <1>6, MoveTypes DEF Unprobe
    <2>2. breaker' \in [Provider -> Breaker]
      <3> DEFINE b == [At(r) EXCEPT !.probes = (@ + Width - 1) % Width]
      <3>1. b \in Breaker  BY <1>0, PermitTypes
      <3>2. Change(r, b)  BY <1>6 DEF Unprobe
      <3> HIDE DEF b
      <3>3. QED  BY <1>0, <3>1, <3>2, ChangeTypes
    <2>3. QED  BY <1>6, <2>1, <2>2, KeepTypes DEF Unprobe, Keep
  <1>7. QED  BY <1>1, <1>2, <1>3, <1>4, <1>5, <1>6

LEMMA SendTypes ==
    ASSUME TypeInv, NEW r \in Request,
           Send(r) \/ SendNeutral(r) \/ Cancel(r) \/ Neutral(r) \/ RecordRead(r) \/ Release(r)
    PROVE  TypeInv'
  <1>0. /\ ThreadTypes /\ loc[r] \in Forward /\ At(r) \in Breaker
        /\ breaker \in [Provider -> Breaker]
    BY DEF TypeInv, TypeOK, ThreadTypes, Forward, At
  <1>1. CASE Send(r)
    <2>1. PICK result \in {"success", "failure", "fatal"} :
            Goto(r, "record") /\ Set(r, [loc[r] EXCEPT !.result = result])
      BY <1>1 DEF Send
    <2> DEFINE l == [loc[r] EXCEPT !.result = result]
    <2>2. l \in Forward  BY <1>0 DEF Forward
    <2>3. Goto(r, "record") /\ Set(r, l)  BY <2>1
    <2> HIDE DEF l
    <2>4. ThreadTypes'  BY <1>0, <2>2, <2>3, GoesTypes DEF Labels, TriesLeft
    <2>5. QED  BY <1>1, <2>4, KeepTypes DEF Send, Keep
  <1>2. CASE SendNeutral(r)
    <2>1. Finish(r) \/ (Goto(r, "neutral") /\ UNCHANGED loc)  BY <1>2 DEF SendNeutral
    <2>2. ThreadTypes'
      BY <1>0, <2>1, MoveTypes, StayTypes DEF Labels, TriesLeft
    <2>3. QED  BY <1>2, <2>2, KeepTypes DEF SendNeutral, Keep
  <1>3. CASE Cancel(r)
    BY <1>0, <1>3, BlankForward, MoveTypes, KeepTypes DEF Cancel, Keep
  <1>4. CASE Neutral(r)
    <2>1. ThreadTypes'  BY <1>0, <1>4, MoveTypes DEF Neutral
    <2>2. breaker' \in [Provider -> Breaker]
      <3> DEFINE b == Released(At(r))
      <3>1. b \in Breaker  BY <1>0, PermitTypes
      <3>2. Change(r, b)  BY <1>4 DEF Neutral
      <3> HIDE DEF b
      <3>3. QED  BY <1>0, <3>1, <3>2, ChangeTypes
    <2>3. QED  BY <1>4, <2>1, <2>2, KeepTypes DEF Neutral, Keep
  <1>5. CASE RecordRead(r)
    <2> DEFINE l == [loc[r] EXCEPT !.seen = At(r).state]
               label == IF loc[r].permit THEN "release" ELSE Verdict(loc[r].result)
    <2>1. l \in Forward  BY <1>0 DEF Forward, Breaker
    <2>2. Goto(r, label) /\ Set(r, l)  BY <1>5 DEF RecordRead
    <2>3. label \in {"release", "success", "failure"}  BY DEF Verdict
    <2> HIDE DEF l, label
    <2>4. ThreadTypes'  BY <1>0, <2>1, <2>2, <2>3, GoesTypes DEF Labels, TriesLeft
    <2>5. QED  BY <1>5, <2>4, KeepTypes DEF RecordRead, Keep
  <1>6. CASE Release(r)
    <2> DEFINE l == [loc[r] EXCEPT !.permit = FALSE]
               label == Verdict(loc[r].result)
    <2>1. l \in Forward  BY <1>0 DEF Forward
    <2>2. Goto(r, label) /\ Set(r, l)  BY <1>6 DEF Release
    <2>3. label \in {"success", "failure"}  BY DEF Verdict
    <2> HIDE DEF l, label
    <2>4. ThreadTypes'  BY <1>0, <2>1, <2>2, <2>3, GoesTypes DEF Labels, TriesLeft
    <2>5. breaker' \in [Provider -> Breaker]
      <3> DEFINE b == Released(At(r))
      <3>1. b \in Breaker  BY <1>0, PermitTypes
      <3>2. Change(r, b)  BY <1>6 DEF Release
      <3> HIDE DEF b
      <3>3. QED  BY <1>0, <3>1, <3>2, ChangeTypes
    <2>6. QED  BY <1>6, <2>4, <2>5, KeepTypes DEF Release, Keep
  <1>7. QED  BY <1>1, <1>2, <1>3, <1>4, <1>5, <1>6

LEMMA CountTypes ==
    ASSUME TypeInv, NEW r \in Request,
           CountSuccess(r) \/ Streak(r) \/ CountFailure(r) \/ Tally(r) \/ Rate(r)
    PROVE  TypeInv'
  <1>0. /\ ThreadTypes /\ loc[r] \in Forward /\ At(r) \in Breaker
        /\ breaker \in [Provider -> Breaker]
    BY DEF TypeInv, TypeOK, ThreadTypes, Forward, At
  <1>1. ASSUME NEW label \in Labels, label \notin {"half", "again", "probe"},
               Recorded(r) \/ (Goto(r, label) /\ UNCHANGED loc)
        PROVE  ThreadTypes'
    BY <1>0, <1>1, RecordedTypes, StayTypes DEF TriesLeft
  <1>2. CASE CountSuccess(r)
    <2>1. ThreadTypes'
      <3>1. Recorded(r) \/ (Goto(r, "streak") /\ UNCHANGED loc)  BY <1>2 DEF CountSuccess
      <3>2. QED  BY <1>1, <3>1 DEF Labels
    <2>2. breaker' \in [Provider -> Breaker]
      <3> DEFINE b == [At(r) EXCEPT !.failures = 0, !.total = @ + 1]
      <3>1. b \in Breaker  BY <1>0, CounterTypes
      <3>2. Change(r, b)  BY <1>2 DEF CountSuccess
      <3> HIDE DEF b
      <3>3. QED  BY <1>0, <3>1, <3>2, ChangeTypes
    <2>3. QED  BY <1>2, <2>1, <2>2, KeepTypes DEF CountSuccess, Keep
  <1>3. CASE Streak(r)
    <2>1. ThreadTypes'
      <3>1. Recorded(r) \/ (Goto(r, "close") /\ UNCHANGED loc)  BY <1>3 DEF Streak
      <3>2. QED  BY <1>1, <3>1 DEF Labels
    <2>2. breaker' \in [Provider -> Breaker]
      <3> DEFINE b == [At(r) EXCEPT !.successes = @ + 1]
      <3>1. b \in Breaker  BY <1>0, CounterTypes
      <3>2. Change(r, b)  BY <1>3 DEF Streak
      <3> HIDE DEF b
      <3>3. QED  BY <1>0, <3>1, <3>2, ChangeTypes
    <2>3. QED  BY <1>3, <2>1, <2>2, KeepTypes DEF Streak, Keep
  <1>4. CASE CountFailure(r)
    <2> DEFINE l == [loc[r] EXCEPT !.count = At(r).failures + 1]
    <2>1. l \in Forward  BY <1>0 DEF Forward, Breaker
    <2>2. Goto(r, "tally") /\ Set(r, l)  BY <1>4 DEF CountFailure
    <2> HIDE DEF l
    <2>3. ThreadTypes'  BY <1>0, <2>1, <2>2, GoesTypes DEF Labels, TriesLeft
    <2>4. breaker' \in [Provider -> Breaker]
      <3> DEFINE b == [At(r) EXCEPT !.failures = @ + 1]
      <3>1. b \in Breaker  BY <1>0, CounterTypes
      <3>2. Change(r, b)  BY <1>4 DEF CountFailure
      <3> HIDE DEF b
      <3>3. QED  BY <1>0, <3>1, <3>2, ChangeTypes
    <2>5. QED  BY <1>4, <2>3, <2>4, KeepTypes DEF CountFailure, Keep
  <1>5. CASE Tally(r)
    <2>1. loc[r].seen \in States  BY <1>0 DEF Forward
    <2>2. \/ Recorded(r)
          \/ Goto(r, "open") /\ UNCHANGED loc
          \/ Goto(r, "rate") /\ UNCHANGED loc
      BY <1>5, <2>1 DEF Tally, States
    <2>3. ThreadTypes'
      BY <1>1, <2>2 DEF Labels
    <2>4. breaker' \in [Provider -> Breaker]
      <3> DEFINE b == [At(r) EXCEPT !.total = @ + 1, !.failed = @ + 1, !.successes = 0]
      <3>1. b \in Breaker  BY <1>0, CounterTypes
      <3>2. Change(r, b)  BY <1>5 DEF Tally
      <3> HIDE DEF b
      <3>3. QED  BY <1>0, <3>1, <3>2, ChangeTypes
    <2>5. QED  BY <1>5, <2>3, <2>4, KeepTypes DEF Tally, Keep
  <1>6. CASE Rate(r)
    <2>1. Recorded(r) \/ (Goto(r, "open") /\ UNCHANGED loc)  BY <1>6 DEF Rate
    <2>2. ThreadTypes'  BY <1>1, <2>1 DEF Labels
    <2>3. QED  BY <1>6, <2>2, KeepTypes DEF Rate, Keep
  <1>7. QED  BY <1>2, <1>3, <1>4, <1>5, <1>6

LEMMA TransitionTypes ==
    ASSUME TypeInv, NEW r \in Request,
           \/ Close(r) \/ CloseReset(r) \/ Open(r) \/ Opened(r) \/ OpenReset(r) \/ Reset(r)
    PROVE  TypeInv'
  <1>0. /\ ThreadTypes /\ loc[r] \in Forward /\ At(r) \in Breaker
        /\ breaker \in [Provider -> Breaker]
    BY DEF TypeInv, TypeOK, ThreadTypes, Forward, At
  <1>1. CASE Close(r)
    <2>1. ThreadTypes'  BY <1>0, <1>1, StayTypes DEF Close, Labels, TriesLeft
    <2>2. breaker' \in [Provider -> Breaker]
      <3> DEFINE b == [At(r) EXCEPT !.state = "Closed"]
      <3>1. b \in Breaker  BY <1>0, StateTypes
      <3>2. Change(r, b)  BY <1>1 DEF Close
      <3> HIDE DEF b
      <3>3. QED  BY <1>0, <3>1, <3>2, ChangeTypes
    <2>3. QED  BY <1>1, <2>1, <2>2, KeepTypes DEF Close, Keep
  <1>2. CASE CloseReset(r)
    <2>1. ThreadTypes'  BY <1>0, <1>2, RecordedTypes DEF CloseReset
    <2>2. breaker' \in [Provider -> Breaker]
      <3> DEFINE b == [At(r) EXCEPT !.failures = 0, !.successes = 0, !.total = 0, !.failed = 0]
      <3>1. b \in Breaker  BY <1>0, ResetTypes
      <3>2. Change(r, b)  BY <1>2 DEF CloseReset
      <3> HIDE DEF b
      <3>3. QED  BY <1>0, <3>1, <3>2, ChangeTypes
    <2>3. QED  BY <1>2, <2>1, <2>2, KeepTypes DEF CloseReset, Keep
  <1>3. CASE Open(r)
    <2>1. ThreadTypes'  BY <1>0, <1>3, StayTypes DEF Open, Labels, TriesLeft
    <2>2. breaker' \in [Provider -> Breaker]
      <3> DEFINE b == [At(r) EXCEPT !.state = "Open"]
      <3>1. b \in Breaker  BY <1>0, StateTypes
      <3>2. Change(r, b)  BY <1>3 DEF Open
      <3> HIDE DEF b
      <3>3. QED  BY <1>0, <3>1, <3>2, ChangeTypes
    <2>3. waited' \in [Provider -> BOOLEAN]  BY <1>0, <1>3 DEF Open, TypeInv, TypeOK
    <2>4. QED
      BY <1>3, <2>1, <2>2, <2>3 DEF Open, Keep, ThreadTypes, TypeInv, TypeOK
  <1>4. CASE Opened(r)
    <2>1. ThreadTypes'  BY <1>0, <1>4, StayTypes DEF Opened, Labels, TriesLeft
    <2>2. breaker' \in [Provider -> Breaker]
      <3> DEFINE b == [At(r) EXCEPT !.opened = "recent"]
      <3>1. b \in Breaker  BY <1>0, StateTypes
      <3>2. Change(r, b)  BY <1>4 DEF Opened
      <3> HIDE DEF b
      <3>3. QED  BY <1>0, <3>1, <3>2, ChangeTypes
    <2>3. QED  BY <1>4, <2>1, <2>2, KeepTypes DEF Opened, Keep
  <1>5. CASE OpenReset(r)
    <2>1. ThreadTypes'  BY <1>0, <1>5, RecordedTypes DEF OpenReset
    <2>2. breaker' \in [Provider -> Breaker]
      <3> DEFINE b == [At(r) EXCEPT !.failures = 0, !.successes = 0]
      <3>1. b \in Breaker  BY <1>0, ResetTypes
      <3>2. Change(r, b)  BY <1>5 DEF OpenReset
      <3> HIDE DEF b
      <3>3. QED  BY <1>0, <3>1, <3>2, ChangeTypes
    <2>3. QED  BY <1>5, <2>1, <2>2, KeepTypes DEF OpenReset, Keep
  <1>6. CASE Reset(r)
    <2>1. PICK p \in Provider : Set(r, [Blank EXCEPT !.at = p, !.result = "reset"])
      BY <1>6 DEF Reset
    <2> DEFINE l == [Blank EXCEPT !.at = p, !.result = "reset"]
    <2>2. l \in Forward  BY BlankForward DEF Forward
    <2>3. Goto(r, "close") /\ Set(r, l)  BY <1>6, <2>1 DEF Reset
    <2> HIDE DEF l
    <2>4. ThreadTypes'  BY <1>0, <2>2, <2>3, GoesTypes DEF Labels, TriesLeft
    <2>5. resets' \in 0..MaxResets
      <3>1. resets \in 0..MaxResets  BY DEF TypeInv, TypeOK
      <3>2. resets < MaxResets /\ resets' = resets + 1  BY <1>6 DEF Reset
      <3>3. QED  BY <3>1, <3>2, LimitAssumption
    <2>6. QED  BY <1>6, <2>4, <2>5 DEF Reset, ThreadTypes, TypeInv, TypeOK
  <1>7. QED  BY <1>1, <1>2, <1>3, <1>4, <1>5, <1>6

(* Whatever the requests do to a breaker at once, overlapping calls of its  *)
(* methods included, its half-open counter never goes below zero or past    *)
(* its width (release_half_open_permit checks before it subtracts), and no  *)
(* request is sent more often than max_retries allows (forwarder.rs).       *)
THEOREM TypeCorrect == Spec => []TypeOK
  <1>1. Init => TypeInv
    BY BlankForward, LimitAssumption DEF Init, TypeInv, TypeOK, TriesLeft, Labels
  <1>2. TypeInv /\ [Next]_vars => TypeInv'
    <2> SUFFICES ASSUME TypeInv, [Next]_vars PROVE TypeInv'
      OBVIOUS
    <2>1. ASSUME NEW r \in Request, Step(r) PROVE TypeInv'
      BY <2>1, SelectTypes, AllowTypes, SendTypes, CountTypes, TransitionTypes DEF Step
    <2>2. ASSUME NEW r \in Request, Arrive(r) \/ Reset(r) \/ Cancel(r) PROVE TypeInv'
      BY <2>2, SelectTypes, SendTypes, TransitionTypes
    <2>3. ASSUME NEW p \in Provider, Elapse(p) PROVE TypeInv'
      <3>1. breaker' \in [Provider -> Breaker]
        BY <2>3, StateTypes DEF Elapse, TypeInv, TypeOK
      <3>2. QED  BY <2>3, <3>1 DEF Elapse, Keep, TypeInv, TypeOK
    <2>4. CASE UNCHANGED vars  BY <2>4 DEF vars, TypeInv, TypeOK
    <2>5. QED  BY <2>1, <2>2, <2>3, <2>4 DEF Next
  <1>3. TypeInv => TypeOK  BY DEF TypeInv
  <1>4. QED  BY <1>1, <1>2, <1>3, PTL DEF Spec
=============================================================================
