------------------------------ MODULE MCClients ------------------------------
(* Instances of Clients for TLC: kubeconfig files, configurations, concurrent calls. *)
EXTENDS Clients

CONSTANTS o1, o2, o3, builtin, custom

\* Two kubeconfig files, which define a context in common, and one that is missing.
Context(cluster, user) == [cluster |-> cluster, user |-> user]
File(current, contexts) == [current |-> current, contexts |-> contexts]
MCKubeconfig ==
  [p1 |-> File("c", [c |-> Context("k1", "u1"), d |-> Context("k2", "u1")]),
   p2 |-> File("d", [d |-> Context("k3", "u2")]),
   p3 |-> NoTarget]

NothingSet ==
  [host |-> Empty, token |-> Empty, context |-> Empty, cluster |-> Empty,
   path |-> <<Empty, Empty, Empty>>, paths |-> <<>>, load |-> Empty, retries |-> Empty]
NothingGiven ==
  [host |-> Null, token |-> Null, context |-> Null, cluster |-> Null,
   path |-> Null, paths |-> Null, load |-> Null, exec |-> FALSE, retries |-> Null]

\* Environments and blocks that differ in what decides about the target.
Environments ==
  { [NothingSet EXCEPT !.host = h, !.path = p, !.paths = ps, !.context = c, !.token = "t1",
                       !.retries = NotANumber] :
      h \in {Empty, "h1"}, p \in {<<Empty, Empty, Empty>>, <<Empty, "p2", "p1">>},
      ps \in {<<>>, <<"p2">>}, c \in {Empty, "d"} }
Blocks ==
  { [NothingGiven EXCEPT !.host = h, !.path = p, !.paths = ps, !.context = c,
                         !.token = tk[1], !.cluster = tk[2], !.load = le[1], !.exec = le[2]] :
      h \in {Null, Empty, "h2"}, p \in {Null, Empty, "p1", "p3"},
      ps \in {Null, <<"p3", "p1">>}, c \in {Null, "c"}, tk \in {<<Null, Null>>, <<"t2", "k5">>},
      le \in {<<Null, FALSE>>, <<FALSE, FALSE>>, <<Null, TRUE>>} }

Do(h, k) == [handler |-> h, kind |-> k]
Together(c1, c2, c3) == [o \in Ops |-> CASE o = o1 -> c1 [] o = o2 -> c2 [] OTHER -> c3]
WorkloadOf(block, env, calls, known, served0) ==
  [block |-> block, env |-> env, calls |-> calls, known |-> known, served |-> served0]

\* A patch in every configuration.
Configurations ==
  { WorkloadOf(b, e, Together(Do("patch", builtin), None, None), TRUE, Kinds) :
      b \in Blocks, e \in Environments }

\* Every handler, two or three at a time, for a kind that is there and for one whose
\* CRD may appear while they run.
Hosted == [NothingGiven EXCEPT !.host = "h2"]
Concurrent ==
  { WorkloadOf(Hosted, NothingSet, calls, TRUE, {builtin}) :
      calls \in { Together(Do("apply", custom), Do("data", custom), None),
                  Together(Do("import", custom), Do("delete", custom), None),
                  Together(Do("plan", builtin), Do("read", custom), Do("patch", builtin)) } }
NotKnown ==
  { WorkloadOf(NothingGiven, NothingSet, Together(Do("read", builtin), Do("data", builtin), None),
               FALSE, {builtin}) }

MCWorkloads == Configurations \cup Concurrent \cup NotKnown
=============================================================================
