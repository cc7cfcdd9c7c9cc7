------------------------------ MODULE Discovery ------------------------------
(***************************************************************************)
(* GetRestClientFromUnstructured of kubectl/api/client.go: a goroutine     *)
(* looks for the kind of a manifest in what the API server serves, twice   *)
(* if need be, and sends what it has found on an unbuffered channel; the   *)
(* caller receives it, or its timer goes off.                              *)
(***************************************************************************)
EXTENDS Naturals

CONSTANT Callers   \* the operations that call it

VARIABLES
  routine,   \* of each caller's goroutine: which look it is at, or what it sends
  hung,      \* the callers whose goroutine waits for an API server that is silent
  timer      \* of each caller: is its timer running, and has it gone off?

discoveryVars == <<routine, hung, timer>>

Looks == {"first", "second"}
Answers == {"client", "invalid", "error"}

DiscoveryTypeOK ==
  /\ routine \in [Callers -> {"none", "done"} \cup Looks \cup Answers]
  /\ hung \in SUBSET Callers
  /\ timer \in [Callers -> {"off", "running", "fired"}]

DiscoveryInit ==
  /\ routine = [o \in Callers |-> "none"]
  /\ hung = {}
  /\ timer = [o \in Callers |-> "off"]

\* The goroutine is started, and the caller waits for it and for the timer.
Start(o) ==
  /\ routine' = [routine EXCEPT ![o] = "first"]
  /\ timer' = [timer EXCEPT ![o] = "running"]
  /\ UNCHANGED hung

\* Deviation: the second look is at the list of the first.
FoundOnlyAtFirst(look, visible) ==
  IF visible /\ look = "first" THEN "client" ELSE IF look = "first" THEN "second" ELSE "invalid"

\* What a look at the API's resources leads to, if it is answered.
Found(look, visible) ==
  IF visible THEN "client" ELSE IF look = "first" THEN "second" ELSE "invalid"

\* The API server lists its resources: the kind's group is among them or is not.  A
\* group that could not be listed is no error.
Look(o, visible) ==
  /\ routine[o] \in Looks /\ o \notin hung
  /\ routine' = [routine EXCEPT ![o] = Found(routine[o], visible)]
  /\ UNCHANGED <<hung, timer>>

\* Nothing could be listed.
LookFails(o) ==
  /\ routine[o] \in Looks /\ o \notin hung
  /\ routine' = [routine EXCEPT ![o] = "error"]
  /\ UNCHANGED <<hung, timer>>

\* The API server does not answer, and perhaps does so at last.
Hang(o) ==
  /\ routine[o] \in Looks /\ o \notin hung
  /\ hung' = hung \cup {o}
  /\ UNCHANGED <<routine, timer>>

Wake(o) ==
  /\ o \in hung /\ hung' = hung \ {o}
  /\ UNCHANGED <<routine, timer>>

\* The two cases of the select.  After the second there is nobody to receive, and the
\* goroutine stays at its send.
Receive(o) ==
  /\ timer[o] = "running" /\ routine[o] \in Answers
  /\ routine' = [routine EXCEPT ![o] = "done"]
  /\ timer' = [timer EXCEPT ![o] = "off"]
  /\ UNCHANGED hung

\* Deviation: there is no timer.
NeverFires(o) == FALSE /\ timer[o] = "running" /\ UNCHANGED discoveryVars

TimerFires(o) ==
  /\ timer[o] = "running"
  /\ timer' = [timer EXCEPT ![o] = "fired"]
  /\ UNCHANGED <<routine, hung>>
=============================================================================
