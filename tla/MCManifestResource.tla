------------------------- MODULE MCManifestResource -------------------------
(* Instances of ManifestResource for TLC: the configurations a user may write. *)
EXTENDS ManifestResource

CONSTANTS a, b, s1, s2, w1, w2

Block(n, s, w, err, wait, skip) ==
  [id |-> [name |-> n, ns |-> "default"], spec |-> s, wo |-> w,
   err |-> err, wait |-> wait, skip |-> skip]

NoNamespace(c) == [c EXCEPT !.id.ns = ""]

\* With and without a write-only value, under both names, with error blocks and
\* waits, with a namespace and without, and with delete.skip.
LifecycleConfigs ==
  { Block(a, s1, w1, "match", "rollout", FALSE),
    Block(a, s2, None, "none", "fields", FALSE),
    Block(b, s1, w1, "badregex", "none", TRUE),
    NoNamespace(Block(a, s1, w1, "match", "none", FALSE)) }

\* Two values of the public part and of the write-only path, which stays in use,
\* and an error block whose conditions a controller may make match.
SettlingConfigs ==
  { Block(a, s1, w1, "none", "none", FALSE),
    Block(a, s2, w2, "match", "none", FALSE),
    Block(b, s1, w2, "match", "rollout", FALSE) }

\* Only manifest_wo changes.
SecretConfigs ==
  { Block(a, s1, w, "none", "none", FALSE) : w \in {w1, w2} }
=============================================================================
