--------------------------- MODULE ProxyFailover ---------------------------
(***************************************************************************)
(* The circuit breakers of one application's failover queue                *)
(* (proxy/circuit_breaker.rs) under the requests that the proxy forwards   *)
(* at the same time (proxy/provider_router.rs, proxy/forwarder.rs).        *)
(*                                                                         *)
(* A request is a thread whose steps are the accesses it makes to a        *)
(* breaker's locks and atomics; adjacent updates of counters that no other *)
(* thread tells apart are one step.  Nothing is kept over a restart.       *)
(***************************************************************************)
EXTENDS Integers, FiniteSets

CONSTANTS
    Request,                       \* the threads that forward, and that reset
    Provider,                      \* the failover queue, in its order
    FailureThreshold, SuccessThreshold, MinRequests,
    RateFailed, RateOf,            \* error_rate_threshold as a fraction
    MaxAttempts,                   \* max_retries + 1
    Width,                         \* the half-open counter wraps at this value
    SlowRequests,                  \* a request may outlast the open timeout
    Interleaved,                   \* calls of one breaker's methods overlap
    MayCancel,                     \* a client may hang up while it waits
    MaxArrivals, MaxResets         \* bounds

ASSUME ProviderAssumption == Provider \subseteq Nat /\ Provider # {}
ASSUME ThresholdAssumption ==
    /\ FailureThreshold \in Nat \ {0} /\ SuccessThreshold \in Nat \ {0}
    /\ MinRequests \in Nat /\ RateFailed \in Nat /\ RateOf \in Nat \ {0}
ASSUME LimitAssumption ==
    /\ MaxAttempts \in Nat \ {0} /\ MaxArrivals \in Nat /\ MaxResets \in Nat
ASSUME WidthAssumption == Width \in Nat /\ Width > 1

VARIABLES
    breaker,            \* the breaker of each provider
    waited,             \* history: its timeout ran out since it last opened
    pc, loc,            \* control and local state of each request
    arrivals, resets

vars == <<breaker, waited, pc, loc, arrivals, resets>>

States == {"Closed", "Open", "HalfOpen"}

\* opened is last_opened_at: None, a time not long ago, or the timeout is over.
Breaker == [state : States, opened : {"never", "recent", "elapsed"},
            failures : Nat, successes : Nat, total : Nat, failed : Nat,
            probes : 0..(Width - 1)]

Fresh == [state |-> "Closed", opened |-> "never", failures |-> 0, successes |-> 0,
          total |-> 0, failed |-> 0, probes |-> 0]

Forward == [examine : SUBSET Provider, todo : SUBSET Provider, tried : 0..MaxAttempts,
            at : Provider, permit : BOOLEAN,
            result : {"none", "success", "failure", "fatal", "reset"},
            seen : States, count : Nat]

Nowhere == CHOOSE p \in Provider : TRUE

Blank == [examine |-> {}, todo |-> {}, tried |-> 0, at |-> Nowhere, permit |-> FALSE,
          result |-> "none", seen |-> "Closed", count |-> 0]

Labels == {"idle", "select", "selectHalf", "loop", "half", "again", "probe", "unprobe",
           "send", "neutral", "record", "release", "success", "streak", "close",
           "closeReset", "failure", "tally", "rate", "open", "opened", "openReset"}

\* Between two accesses of one call of a breaker's method.
Inside == {"selectHalf", "half", "again", "probe", "unprobe", "release", "success",
           "streak", "close", "closeReset", "failure", "tally", "rate", "open",
           "opened", "openReset"}

TypeOK ==
    /\ breaker \in [Provider -> Breaker]
    /\ waited \in [Provider -> BOOLEAN]
    /\ pc \in [Request -> Labels]
    /\ loc \in [Request -> Forward]
    /\ arrivals \in 0..MaxArrivals /\ resets \in 0..MaxResets

Init ==
    /\ breaker = [p \in Provider |-> Fresh]
    /\ waited = [p \in Provider |-> FALSE]
    /\ pc = [r \in Request |-> "idle"]
    /\ loc = [r \in Request |-> Blank]
    /\ arrivals = 0 /\ resets = 0

----------------------------------------------------------------------------
At(r)           == breaker[loc[r].at]
Goto(r, label)  == pc' = [pc EXCEPT ![r] = label]
Set(r, l)       == loc' = [loc EXCEPT ![r] = l]
Change(r, b)    == breaker' = [breaker EXCEPT ![loc[r].at] = b]
Keep            == UNCHANGED <<arrivals, resets>>

Alone(p) == Interleaved \/ \A q \in Request : ~(pc[q] \in Inside /\ loc[q].at = p)

Finish(r) == Goto(r, "idle") /\ Set(r, Blank)

\* The provider whose turn it is in the queue.
First(S, p) == p \in S /\ \A q \in S : p <= q

\* On to the next provider of the request.
Move(r, l) ==
    /\ Goto(r, "loop")
    /\ Set(r, [l EXCEPT !.todo = @ \ {l.at}, !.permit = FALSE, !.result = "none",
                        !.seen = "Closed", !.count = 0])

Admit(r, l) == Goto(r, "send") /\ Set(r, [l EXCEPT !.tried = @ + 1])

OpenedOnce(b) == b.opened # "never"
TimedOut(b)   == b.opened = "elapsed"

\* transition_to_half_open, under the write lock of the state.
HalfOpened(b) ==
    IF b.state = "Open" THEN [b EXCEPT !.state = "HalfOpen", !.successes = 0, !.probes = 0]
    ELSE b

----------------------------------------------------------------------------
(* select_providers: the providers whose breakers are available. *)

Arrive(r) ==
    /\ pc[r] = "idle" /\ arrivals < MaxArrivals
    /\ arrivals' = arrivals + 1
    /\ Goto(r, "select")
    /\ Set(r, [Blank EXCEPT !.examine = Provider])
    /\ UNCHANGED <<breaker, waited, resets>>

SelectRead(r) ==
    /\ pc[r] = "select"
    /\ \E p \in Provider :
         /\ First(loc[r].examine, p) /\ Alone(p)
         /\ LET b == breaker[p]
                l == [loc[r] EXCEPT !.examine = @ \ {p}, !.at = p] IN
            IF b.state # "Open" THEN Goto(r, "select") /\ Set(r, [l EXCEPT !.todo = @ \cup {p}])
            ELSE IF TimedOut(b) THEN Goto(r, "selectHalf") /\ Set(r, l)
            ELSE Goto(r, "select") /\ Set(r, l)
    /\ Keep /\ UNCHANGED <<breaker, waited>>

SelectHalf(r) ==
    /\ pc[r] = "selectHalf"
    /\ Change(r, HalfOpened(At(r)))
    /\ Goto(r, "select")
    /\ Set(r, [loc[r] EXCEPT !.todo = @ \cup {loc[r].at}])
    /\ Keep /\ UNCHANGED waited

\* No provider is available: the request is refused.
SelectDone(r) ==
    /\ pc[r] = "select" /\ loc[r].examine = {}
    /\ IF loc[r].todo = {} THEN Finish(r) ELSE Goto(r, "loop") /\ UNCHANGED loc
    /\ Keep /\ UNCHANGED <<breaker, waited>>

----------------------------------------------------------------------------
(* allow_request, called by the loop of the forwarder. *)

LoopDone(r) ==
    /\ pc[r] = "loop"
    /\ loc[r].todo = {} \/ loc[r].tried = MaxAttempts
    /\ Finish(r)
    /\ Keep /\ UNCHANGED <<breaker, waited>>

AllowRead(r) ==
    /\ pc[r] = "loop" /\ loc[r].tried < MaxAttempts
    /\ \E p \in Provider :
         /\ First(loc[r].todo, p) /\ Alone(p)
         /\ LET b == breaker[p]  l == [loc[r] EXCEPT !.at = p] IN
            CASE b.state = "Closed"   -> Admit(r, l)
              [] b.state = "HalfOpen" -> Goto(r, "probe") /\ Set(r, l)
              [] b.state = "Open"     ->
                   IF TimedOut(b) THEN Goto(r, "half") /\ Set(r, l) ELSE Move(r, l)
    /\ Keep /\ UNCHANGED <<breaker, waited>>

AllowHalf(r) ==
    /\ pc[r] = "half"
    /\ Change(r, HalfOpened(At(r)))
    /\ Goto(r, "again")
    /\ Keep /\ UNCHANGED <<waited, loc>>

AllowAgain(r) ==
    /\ pc[r] = "again"
    /\ CASE At(r).state = "Closed"   -> Admit(r, loc[r])
         [] At(r).state = "HalfOpen" -> Goto(r, "probe") /\ UNCHANGED loc
         [] At(r).state = "Open"     -> Move(r, loc[r])
    /\ Keep /\ UNCHANGED <<breaker, waited>>

OneTooMany(b) == b.probes <= 1
HasPermit(b)  == b.probes < 1

\* allow_half_open_probe adds first and takes back when that was too many.
Probe(r) ==
    /\ pc[r] = "probe"
    /\ Change(r, [At(r) EXCEPT !.probes = (@ + 1) % Width])
    /\ IF HasPermit(At(r)) THEN Admit(r, [loc[r] EXCEPT !.permit = TRUE])
       ELSE Goto(r, "unprobe") /\ UNCHANGED loc
    /\ Keep /\ UNCHANGED waited

Unprobe(r) ==
    /\ pc[r] = "unprobe"
    /\ Change(r, [At(r) EXCEPT !.probes = (@ + Width - 1) % Width])
    /\ Move(r, loc[r])
    /\ Keep /\ UNCHANGED waited

----------------------------------------------------------------------------
(* The attempt, and what the forwarder does with its outcome. *)

Send(r) ==
    /\ pc[r] = "send"
    /\ \E result \in {"success", "failure", "fatal"} :
         Goto(r, "record") /\ Set(r, [loc[r] EXCEPT !.result = result])
    /\ Keep /\ UNCHANGED <<breaker, waited>>

\* Neither the provider's fault nor its merit.
SendNeutral(r) ==
    /\ pc[r] = "send"
    /\ IF loc[r].permit THEN Goto(r, "neutral") /\ UNCHANGED loc ELSE Finish(r)
    /\ Keep /\ UNCHANGED <<breaker, waited>>

\* The client hangs up and the handler's future is dropped where it waits.
Cancel(r) ==
    /\ MayCancel /\ pc[r] = "send"
    /\ Finish(r)
    /\ Keep /\ UNCHANGED <<breaker, waited>>

NotReleased(b) == b
Decremented(b) == [b EXCEPT !.probes = @ - 1]
Released(b)    == [b EXCEPT !.probes = IF @ = 0 THEN 0 ELSE @ - 1]

Neutral(r) ==
    /\ pc[r] = "neutral" /\ Alone(loc[r].at)
    /\ Change(r, Released(At(r)))
    /\ Finish(r)
    /\ Keep /\ UNCHANGED waited

Recorded(r) == IF loc[r].result = "failure" THEN Move(r, loc[r]) ELSE Finish(r)

----------------------------------------------------------------------------
(* record_success and record_failure. *)

Verdict(result) == IF result = "success" THEN "success" ELSE "failure"

RecordRead(r) ==
    /\ pc[r] = "record" /\ Alone(loc[r].at)
    /\ Set(r, [loc[r] EXCEPT !.seen = At(r).state])
    /\ Goto(r, IF loc[r].permit THEN "release" ELSE Verdict(loc[r].result))
    /\ Keep /\ UNCHANGED <<breaker, waited>>

Release(r) ==
    /\ pc[r] = "release"
    /\ Change(r, Released(At(r)))
    /\ Set(r, [loc[r] EXCEPT !.permit = FALSE])
    /\ Goto(r, Verdict(loc[r].result))
    /\ Keep /\ UNCHANGED waited

CountSuccess(r) ==
    /\ pc[r] = "success"
    /\ Change(r, [At(r) EXCEPT !.failures = 0, !.total = @ + 1])
    /\ IF loc[r].seen = "HalfOpen" THEN Goto(r, "streak") /\ UNCHANGED loc ELSE Recorded(r)
    /\ Keep /\ UNCHANGED waited

CountedTwice(b) == b.successes + 2 >= SuccessThreshold
Deserves(b)     == b.successes + 1 >= SuccessThreshold

Streak(r) ==
    /\ pc[r] = "streak"
    /\ Change(r, [At(r) EXCEPT !.successes = @ + 1])
    /\ IF Deserves(At(r)) THEN Goto(r, "close") /\ UNCHANGED loc
       ELSE Recorded(r)
    /\ Keep /\ UNCHANGED waited

\* transition_to_closed leaves last_opened_at and the half-open counter alone.
Close(r) ==
    /\ pc[r] = "close"
    /\ Change(r, [At(r) EXCEPT !.state = "Closed"])
    /\ Goto(r, "closeReset")
    /\ Keep /\ UNCHANGED <<waited, loc>>

CloseReset(r) ==
    /\ pc[r] = "closeReset"
    /\ Change(r, [At(r) EXCEPT !.failures = 0, !.successes = 0, !.total = 0, !.failed = 0])
    /\ Recorded(r)
    /\ Keep /\ UNCHANGED waited

CountFailure(r) ==
    /\ pc[r] = "failure"
    /\ Change(r, [At(r) EXCEPT !.failures = @ + 1])
    /\ Set(r, [loc[r] EXCEPT !.count = At(r).failures + 1])
    /\ Goto(r, "tally")
    /\ Keep /\ UNCHANGED waited

ReachedLate(count) == count > FailureThreshold
Reached(count)     == count >= FailureThreshold

Tally(r) ==
    /\ pc[r] = "tally"
    /\ Change(r, [At(r) EXCEPT !.total = @ + 1, !.failed = @ + 1, !.successes = 0])
    /\ CASE loc[r].seen = "Open"     -> Recorded(r)
         [] loc[r].seen = "HalfOpen" -> Goto(r, "open") /\ UNCHANGED loc
         [] loc[r].seen = "Closed"   ->
              /\ Goto(r, IF Reached(loc[r].count) THEN "open" ELSE "rate")
              /\ UNCHANGED loc
    /\ Keep /\ UNCHANGED waited

TooManyFailed(b) == b.total >= MinRequests /\ b.failed * RateOf >= RateFailed * b.total

Rate(r) ==
    /\ pc[r] = "rate"
    /\ IF TooManyFailed(At(r)) THEN Goto(r, "open") /\ UNCHANGED loc ELSE Recorded(r)
    /\ Keep /\ UNCHANGED <<breaker, waited>>

\* transition_to_open: the state, then the time, then the counters.
Open(r) ==
    /\ pc[r] = "open"
    /\ waited' = [waited EXCEPT ![loc[r].at] = FALSE]
    /\ Change(r, [At(r) EXCEPT !.state = "Open"])
    /\ Goto(r, "opened")
    /\ Keep /\ UNCHANGED loc

Opened(r) ==
    /\ pc[r] = "opened"
    /\ Change(r, [At(r) EXCEPT !.opened = "recent"])
    /\ Goto(r, "openReset")
    /\ Keep /\ UNCHANGED <<waited, loc>>

OpenReset(r) ==
    /\ pc[r] = "openReset"
    /\ Change(r, [At(r) EXCEPT !.failures = 0, !.successes = 0])
    /\ Recorded(r)
    /\ Keep /\ UNCHANGED waited

----------------------------------------------------------------------------
\* reset_provider_breaker, from the service.
Reset(r) ==
    /\ pc[r] = "idle" /\ resets < MaxResets
    /\ resets' = resets + 1
    /\ \E p \in Provider :
         Alone(p) /\ Set(r, [Blank EXCEPT !.at = p, !.result = "reset"])
    /\ Goto(r, "close")
    /\ UNCHANGED <<breaker, waited, arrivals>>

InFlight(r, p) == pc[r] \notin {"idle", "select", "loop"} /\ loc[r].at = p

\* The timeout of an open breaker runs out.
Elapse(p) ==
    /\ breaker[p].opened = "recent"
    /\ SlowRequests \/ \A r \in Request : ~InFlight(r, p)
    /\ breaker' = [breaker EXCEPT ![p].opened = "elapsed"]
    /\ waited' = [waited EXCEPT ![p] = TRUE]
    /\ Keep /\ UNCHANGED <<pc, loc>>

Step(r) ==
    \/ SelectRead(r) \/ SelectHalf(r) \/ SelectDone(r)
    \/ LoopDone(r) \/ AllowRead(r) \/ AllowHalf(r) \/ AllowAgain(r)
    \/ Probe(r) \/ Unprobe(r) \/ Send(r) \/ SendNeutral(r) \/ Neutral(r)
    \/ RecordRead(r) \/ Release(r) \/ CountSuccess(r) \/ Streak(r)
    \/ Close(r) \/ CloseReset(r) \/ CountFailure(r) \/ Tally(r) \/ Rate(r)
    \/ Open(r) \/ Opened(r) \/ OpenReset(r)

Next ==
    \/ \E r \in Request : Arrive(r) \/ Reset(r) \/ Step(r) \/ Cancel(r)
    \/ \E p \in Provider : Elapse(p)

Spec == Init /\ [][Next]_vars

----------------------------------------------------------------------------
(* Properties. *)

Probing(r, p)   == loc[r].permit /\ loc[r].at = p
ReturnsIt(r, p) == pc[r] = "unprobe" /\ loc[r].at = p

(* A half-open breaker lets one request through at a time (the limit of     *)
(* allow_half_open_probe).                                                  *)
OneProbe ==
    \A p \in Provider : Cardinality({r \in Request : Probing(r, p)}) <= 1

(* At rest a closed breaker has seen fewer failures in a row than would     *)
(* have opened it (failure_threshold), whatever requests came back while it *)
(* was open or half open.                                                   *)
ClosedIsHealthy ==
    (\A r \in Request : pc[r] = "idle") =>
        \A p \in Provider :
            breaker[p].state = "Closed" => breaker[p].failures < FailureThreshold

(* The half-open counter is at all times what the requests under way will   *)
(* give back: no path through the forwarder loses a permit, which would     *)
(* lock the provider out for good, and none gives one back twice.           *)
PermitsBalance ==
    \A p \in Provider :
        breaker[p].probes = Cardinality({r \in Request : Probing(r, p) \/ ReturnsIt(r, p)})

(* A breaker that opens again keeps everyone out until its timeout has run  *)
(* out anew (last_opened_at in transition_to_open).                         *)
OpeningRestartsTimeout ==
    [][\A p \in Provider :
         breaker[p].state = "Open" /\ breaker'[p].state = "HalfOpen" => waited[p]]_vars

----------------------------------------------------------------------------
(* What a breaker promises, without the steps. *)

\* Between a request's admission and the step that counts its outcome.
Admitted == {"send", "neutral", "record", "release", "success", "streak",
             "failure", "tally", "rate", "open"}

State      == [p \in Provider |-> breaker[p].state]
AdmittedTo == [p \in Provider |-> {r \in Request : pc[r] \in Admitted /\ loc[r].at = p}]
Merit      == [p \in Provider |->
                  IF breaker[p].state = "HalfOpen" THEN breaker[p].successes ELSE 0]
Resetting(r) == pc[r] = "close" /\ loc[r].result = "reset"
Asked      == [p \in Provider |-> {r \in Request : Resetting(r) /\ loc[r].at = p}]

Promise == INSTANCE CircuitBreaker WITH
    state <- State, due <- waited, admitted <- AdmittedTo, merit <- Merit, asked <- Asked

(* A half-open breaker serves one request at a time until its outcome is    *)
(* counted; it closes only for success_threshold successes in a row or a    *)
(* reset, opens only for a request it let through, and half-opens only      *)
(* after its timeout and when no request from before is left                *)
(* (allow_request, record_success, record_failure and their transitions).   *)
ImplementsBreaker == Promise!Spec
=============================================================================
