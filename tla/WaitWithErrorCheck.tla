-------------------------- MODULE WaitWithErrorCheck --------------------------
(***************************************************************************)
(* The end of applyManifest (kubectl/manifest_resource.go): the waiters of *)
(* kubectl/api/waiter.go, alone or in a goroutine beside the one-second    *)
(* check of the error block (waitWithErrorCheck), and the single check     *)
(* when nothing was waited for.                                            *)
(*                                                                         *)
(* The time is in seconds and moves by itself, so any step may be late by  *)
(* any amount; it stops at MaxTime, by when the deadline has passed.  The  *)
(* object's state is what the waiters and the error block test: ready has  *)
(* the things waited for that it shows, failing the entries of the error   *)
(* block that apply to it (a pattern or condition that matches; a pattern  *)
(* that is no regular expression, for a field that is there).              *)
(***************************************************************************)
EXTENDS Naturals, Sequences

CONSTANTS
  Blocks,     \* wait blocks: sets of things to wait for
  Errs,       \* error blocks: sequences of entries, in the order of the code
  Deadline,   \* create timeout
  MaxTime,    \* bound on the clock
  MaxFaults   \* bound on failed calls to the API server

\* wait.conditions and wait.fields; "unparsable" is a field of which the path or the
\* pattern is not accepted.
Matchers == {"conditions", "fields", "unparsable"}
Things == {"rollout"} \cup Matchers
Entries == {"match", "badregex"}

ASSUME TimesAssumption == Deadline \in Nat /\ MaxTime \in Nat /\ MaxTime > Deadline
ASSUME FaultsAssumption == MaxFaults \in Nat
ASSUME BlocksAssumption == Blocks \subseteq SUBSET Things
ASSUME ErrsAssumption == Errs \subseteq Seq(Entries)

VARIABLES
  asked, err,      \* the wait and error blocks of this apply; they do not change
  now,             \* the clock
  ready, failing,  \* the object
  faults,          \* failed calls so far
  main,            \* the caller: "start" (of the next wait), "select", "tick" (a check is
                   \* due), "plain" (waiter.Wait is called directly), "once", "returned"
  result,          \* what applyManifest returns
  ticked,          \* the ticker's channel holds a tick
  waitFor,         \* what the last wait that was started waits for
  waiter,          \* the goroutine or call of Wait: "off", "top", "get", "sleep",
                   \* "send" (its result is known), "done"
  wake,            \* when time.Sleep returns
  wres,            \* the result of Wait
  errCh            \* the channel it is sent on, or the return of the call

object == <<ready, failing>>
mainVars == <<main, result, ticked>>
waiterVars == <<waitFor, waiter, wake, wres, errCh>>
vars == <<asked, err, now, object, faults, mainVars, waiterVars>>

WaiterResults == {"nil", "error"}
EntriesOf(e) == {e[i] : i \in DOMAIN e}

TypeOK ==
  /\ asked \in Blocks /\ err \in Errs
  /\ now \in 0..MaxTime /\ faults \in 0..MaxFaults
  /\ ready \subseteq asked /\ failing \subseteq EntriesOf(err)
  /\ main \in {"start", "select", "tick", "plain", "once", "returned"}
  /\ result \in {"none", "nil", "ece", "error"}
  /\ ticked \in BOOLEAN
  /\ waitFor \in {"none", "rollout", "conditions", "fields"}
  /\ waiter \in {"off", "top", "get", "sleep", "send", "done"}
  /\ wake \in Nat
  /\ wres \in WaiterResults \cup {"none"}
  /\ errCh \in Seq(WaiterResults) /\ Len(errCh) <= 1

Init ==
  /\ asked \in Blocks /\ err \in Errs
  /\ now = 0 /\ faults = 0
  /\ ready \in SUBSET asked /\ failing \in SUBSET EntriesOf(err)
  /\ main = "start" /\ result = "none" /\ ticked = FALSE
  /\ waitFor = "none" /\ waiter = "off" /\ wake = 0 /\ wres = "none" /\ errCh = <<>>

Expired == now >= Deadline      \* ctx.Done() is closed
NoFault == UNCHANGED faults

\* A call fails.
Fault == faults < MaxFaults /\ faults' = faults + 1

\* A Get fails: the object or the server is gone for now, or the context has ended.
GetFails == Fault \/ (Expired /\ NoFault)

-----------------------------------------------------------------------------
(* The world *)

\* A second passes; the ticker drops its tick when the last one is still there.
Tick ==
  /\ now < MaxTime /\ now' = now + 1
  /\ ticked' = (ticked \/ main \in {"select", "tick"})
  /\ UNCHANGED <<asked, err, object, faults, main, result, waiterVars>>

\* A controller changes what is there to see.
Toggled(set, x) == IF x \in set THEN set \ {x} ELSE set \cup {x}
ObjectChanges ==
  /\ main # "returned"
  /\ \/ \E thing \in asked : ready' = Toggled(ready, thing) /\ UNCHANGED failing
     \/ \E entry \in EntriesOf(err) : failing' = Toggled(failing, entry) /\ UNCHANGED ready
  /\ UNCHANGED <<asked, err, now, faults, mainVars, waiterVars>>

-----------------------------------------------------------------------------
(* The waiter's loop *)

\* The test of the waiter.  One that cannot find its field is like one that does not match.
Seen == waitFor \in ready

\* Deviation: the loop relies on the Get to notice that the context has ended.
WaiterTopUnlimited ==
  /\ waiter = "top" /\ waiter' = "get"
  /\ UNCHANGED <<asked, err, now, object, faults, mainVars, waitFor, wake, wres, errCh>>

\* The three waiters' loop begins with a look at the deadline.
WaiterTop ==
  /\ waiter = "top"
  /\ \/ now > Deadline /\ waiter' = "send" /\ wres' = "error"
     \/ now <= Deadline /\ waiter' = "get" /\ UNCHANGED wres
  /\ UNCHANGED <<asked, err, now, object, faults, mainVars, waitFor, wake, errCh>>

\* Deviation: a failed Get is passed over, as in checkErrorOnConditions, and ends the
\* wait as a success.
WaiterGetLenient ==
  /\ waiter = "get"
  /\ \/ /\ Seen /\ NoFault
        /\ waiter' = "send" /\ wres' = "nil" /\ UNCHANGED wake
     \/ /\ ~Seen /\ NoFault
        /\ waiter' = "sleep" /\ wake' = now + 1 /\ UNCHANGED wres
     \/ /\ GetFails
        /\ waiter' = "send" /\ wres' = "nil" /\ UNCHANGED wake
  /\ UNCHANGED <<asked, err, now, object, mainVars, waitFor, errCh>>

\* An error of the Get, of reading the status or of a conversion ends the wait at once.
WaiterGet ==
  /\ waiter = "get"
  /\ \/ /\ Seen /\ NoFault
        /\ waiter' = "send" /\ wres' = "nil" /\ UNCHANGED wake
     \/ /\ ~Seen /\ NoFault
        /\ waiter' = "sleep" /\ wake' = now + 1 /\ UNCHANGED wres
     \/ /\ GetFails
        /\ waiter' = "send" /\ wres' = "error" /\ UNCHANGED wake
  /\ UNCHANGED <<asked, err, now, object, mainVars, waitFor, errCh>>

\* time.Sleep, which the context does not cut short.
WaiterWakes ==
  /\ waiter = "sleep" /\ (now >= wake \/ now = MaxTime)
  /\ waiter' = "top"
  /\ UNCHANGED <<asked, err, now, object, faults, mainVars, waitFor, wake, wres, errCh>>

\* Deviation: the channel has no buffer, so the caller has to be there to receive.
WaiterSendUnbuffered ==
  /\ waiter = "send" /\ errCh = <<>> /\ main \in {"select", "plain"}
  /\ errCh' = Append(errCh, wres) /\ waiter' = "done"
  /\ UNCHANGED <<asked, err, now, object, faults, mainVars, waitFor, wake, wres>>

\* Deviation: the goroutine goes on waiting after it has sent a result.
WaiterSendRepeats ==
  /\ waiter = "send"
  /\ errCh' = Append(errCh, wres) /\ waiter' = "top"
  /\ UNCHANGED <<asked, err, now, object, faults, mainVars, waitFor, wake, wres>>

\* errCh <- waiter.Wait(ctx), with a buffer of one.
WaiterSend ==
  /\ waiter = "send" /\ Len(errCh) < 1
  /\ errCh' = Append(errCh, wres) /\ waiter' = "done"
  /\ UNCHANGED <<asked, err, now, object, faults, mainVars, waitFor, wake, wres>>

-----------------------------------------------------------------------------
(* The caller *)

ReturnWith(r) == main' = "returned" /\ result' = r

\* The deadline and the channel of a wait that begins, beside checks of the error block
\* or alone.
Run(thing) ==
  /\ waitFor' = thing /\ waiter' = "top" /\ wres' = "none" /\ ticked' = FALSE
  /\ main' = IF err # <<>> THEN "select" ELSE "plain"
  /\ UNCHANGED <<result, wake, errCh>>

RolloutIsNext == main = "start" /\ waitFor = "none" /\ "rollout" \in asked
MatchersAreNext == main = "start" /\ ~RolloutIsNext /\ asked \cap Matchers # {}
NoMoreWaits == main = "start" /\ ~RolloutIsNext /\ asked \cap Matchers = {}

StartRollout ==
  /\ RolloutIsNext /\ Run("rollout")
  /\ UNCHANGED <<asked, err, now, object, faults>>

\* One waiter for conditions and fields: NewResourceWaiterFromConfig leaves out the
\* fields when there are conditions.
StartMatchers ==
  /\ MatchersAreNext /\ "unparsable" \notin asked
  /\ Run(IF "conditions" \in asked THEN "conditions" ELSE "fields")
  /\ UNCHANGED <<asked, err, now, object, faults>>

\* getResourceInterface fails, or a field's path or pattern does not parse.
StartFails ==
  /\ \/ (RolloutIsNext \/ MatchersAreNext \/ (NoMoreWaits /\ err # <<>>)) /\ Fault
     \/ MatchersAreNext /\ "unparsable" \in asked /\ NoFault
  /\ ReturnWith("error")
  /\ UNCHANGED <<asked, err, now, object, ticked, waiterVars>>

\* No conditions and no fields: the error block is checked once, if there is one.
StartCheck ==
  /\ NoMoreWaits
  /\ IF err # <<>> THEN main' = "once" /\ UNCHANGED result ELSE ReturnWith("nil")
  /\ UNCHANGED <<asked, err, now, object, faults, ticked, waiterVars>>

\* Deviation: the rollout is the only wait.
WaitDoneAtOnce == ReturnWith("nil")

\* A rollout that is done is followed by what else there is to wait for or to check.
WaitDone ==
  IF waitFor = "rollout" THEN main' = "start" /\ UNCHANGED result ELSE ReturnWith("nil")

\* case err := <-errCh, or the return of a Wait that was called directly.
Receive ==
  /\ main \in {"select", "plain"} /\ errCh # <<>>
  /\ errCh' = Tail(errCh)
  /\ IF Head(errCh) = "nil" THEN WaitDone ELSE ReturnWith("error")
  /\ UNCHANGED <<asked, err, now, object, faults, ticked, waitFor, waiter, wake, wres>>

\* case <-ticker.C
TickerFires ==
  /\ main = "select" /\ ticked
  /\ main' = "tick" /\ ticked' = FALSE
  /\ UNCHANGED <<asked, err, now, object, faults, result, waiterVars>>

\* case <-ctx.Done()
ContextDone ==
  /\ main = "select" /\ Expired
  /\ ReturnWith("error")
  /\ UNCHANGED <<asked, err, now, object, faults, ticked, waiterVars>>

\* checkErrorOnConditions on the object as it is now: the first entry that applies
\* to it decides.
Decides(i) == err[i] \in failing /\ \A j \in DOMAIN err : err[j] \in failing => i <= j
ErrorOn ==
  IF failing = {} THEN "nil"
  ELSE IF \E i \in DOMAIN err : err[i] = "match" /\ Decides(i) THEN "ece" ELSE "error"

\* The check of a tick: its error is returned, a failed Get is passed over.
CheckTick ==
  /\ main = "tick"
  /\ \/ /\ NoFault
        /\ IF ErrorOn = "nil" THEN main' = "select" /\ UNCHANGED result
                              ELSE ReturnWith(ErrorOn)
     \/ GetFails /\ main' = "select" /\ UNCHANGED result
  /\ UNCHANGED <<asked, err, now, object, ticked, waiterVars>>

\* The single check, under the context of the whole apply.
CheckOnce ==
  /\ main = "once"
  /\ \/ NoFault /\ ReturnWith(ErrorOn)
     \/ GetFails /\ ReturnWith("nil")
  /\ UNCHANGED <<asked, err, now, object, ticked, waiterVars>>

-----------------------------------------------------------------------------

WaiterNext == WaiterTop \/ WaiterGet \/ WaiterWakes \/ WaiterSend
MainNext ==
  \/ StartRollout \/ StartMatchers \/ StartFails \/ StartCheck
  \/ Receive \/ TickerFires \/ ContextDone \/ CheckTick \/ CheckOnce

\* Everything has returned and the clock stands still.
Done == main = "returned" /\ waiter \in {"off", "done"} /\ now = MaxTime /\ UNCHANGED vars

Next == WaiterNext \/ MainNext \/ Tick \/ ObjectChanges \/ Done

\* Time passes and the scheduler runs both goroutines.
Fairness == WF_vars(Tick) /\ WF_vars(WaiterNext) /\ WF_vars(MainNext)

Spec == Init /\ [][Next]_vars /\ Fairness

-----------------------------------------------------------------------------
(* Properties *)

\* What the waits that have succeeded have seen.
Met ==
  {thing \in asked : \/ thing = waitFor /\ wres = "nil"
                     \/ thing = "rollout" /\ waitFor \in {"conditions", "fields"}}

\* applyManifest, waitWithErrorCheck and the waiters do what ManifestResource relies on:
\* no success before the rollout and then the conditions, or the fields if there are no
\* conditions, have been seen; no error condition that does not hold.
Promise == INSTANCE WaitPromise WITH met <- Met
PromiseKept == Promise!Spec

\* The wait has an end: at the deadline, when nothing else has ended it, although
\* neither time.Sleep nor a Get is cut short (waiter.go).
AnswerComes == Promise!Returns

\* The goroutine of waitWithErrorCheck ends, also when the caller has returned before
\* it: errCh has room for its result (manifest_resource.go:2355).
WaiterEnds == (waiter # "off") ~> (waiter = "done")

\* Both, for every result, ticker and deadline.
BothEnd == AnswerComes /\ WaiterEnds
=============================================================================
