----------------------------- MODULE WaitPromise -----------------------------
(***************************************************************************)
(* What the wait at the end of applyManifest promises: it returns once, no *)
(* success before all that is awaited has been seen, the rollout first, no *)
(* error condition reported unless the object is in it (Spec); and it does *)
(* return (Returns).                                                       *)
(* ManifestResource takes the wait as one step on the strength of this;    *)
(* WaitWithErrorCheck implements it.                                       *)
(***************************************************************************)
CONSTANTS
  Blocks,   \* wait blocks: sets of things to wait for
  Errs      \* error blocks: sequences of entries

VARIABLES
  asked, err,      \* the wait and the error block
  ready, failing,  \* the object: what is there to see, which entries apply to it
  met,             \* what has been seen
  result

vars == <<asked, err, ready, failing, met, result>>

Results == {"nil", "ece", "error"}

\* What the success of a block stands for.  Fields beside conditions are not awaited:
\* NewResourceWaiterFromConfig has one waiter for both, and the conditions come first.
Awaited == IF "conditions" \in asked THEN asked \ {"fields"} ELSE asked

Init ==
  /\ asked \in Blocks /\ err \in Errs
  /\ ready \subseteq asked /\ failing \in SUBSET {err[i] : i \in DOMAIN err}
  /\ met = {} /\ result = "none"

\* The object changes; the wait looks at it.
Object ==
  /\ ready' \subseteq asked /\ failing' \subseteq {err[i] : i \in DOMAIN err}
  /\ UNCHANGED <<asked, err, met, result>>

Look(thing) ==
  /\ thing \in ready
  /\ thing = "rollout" \/ "rollout" \notin asked \/ "rollout" \in met
  /\ met' = met \cup {thing}
  /\ UNCHANGED <<asked, err, ready, failing, result>>

Return(r) ==
  /\ result = "none" /\ result' = r
  /\ r = "nil" => Awaited \subseteq met
  /\ r = "ece" => "match" \in failing
  /\ UNCHANGED <<asked, err, ready, failing, met>>

Next == Object \/ (\E thing \in asked : Look(thing)) \/ (\E r \in Results : Return(r))

Spec == Init /\ [][Next]_vars

Returns == <>(result # "none")
=============================================================================
