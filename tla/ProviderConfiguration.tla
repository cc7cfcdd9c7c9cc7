------------------------ MODULE ProviderConfiguration ------------------------
(***************************************************************************)
(* Which cluster and which user the provider works with: Configure of      *)
(* kubectl/provider.go merges the environment with the provider block, and *)
(* InitializeConfiguration of kubectl/util/kubernetes.go makes a client    *)
(* configuration of the result and the kubeconfig files it names.          *)
(*                                                                         *)
(* Host and token stand for all settings that are handed on as they are;   *)
(* a cluster and a user of a kubeconfig are what their names say.          *)
(***************************************************************************)
EXTENDS Integers, Sequences

CONSTANTS
  Null,        \* an attribute that the provider block leaves out
  Empty,       \* the empty string, and an environment variable that is not set
  NotANumber,  \* an environment variable that is to be a number and is none
  NoTarget,    \* no client configuration can be made
  Kubeconfig   \* the kubeconfig of each path, NoTarget where there is no file

ASSUME AbsentAssumption == Null # Empty /\ Null \notin BOOLEAN

\* Deviation: the environment wins over the provider block.
OverrideByEnv(attr, env) == IF env # Empty THEN env ELSE IF attr # Null THEN attr ELSE env

\* An attribute of the block, or else its environment variable.
Override(attr, env) == IF attr # Null THEN attr ELSE env

FirstSet(values) ==
  IF \E i \in DOMAIN values : values[i] # Empty
  THEN values[CHOOSE i \in DOMAIN values :
                /\ values[i] # Empty /\ \A j \in 1..(i - 1) : values[j] = Empty]
  ELSE Empty

\* The number of retries; a variable that is no number counts as none.
Retries(attr, env) ==
  Override(attr, IF env \in {Empty, NotANumber} THEN 1 ELSE env)

\* The settings after Configure.  env.path has KUBE_CONFIG_PATH, KUBE_CONFIG and
\* KUBECONFIG; the files of KUBE_CONFIG_PATHS come before those of config_paths.
Resolve(attr, env) ==
  [host    |-> Override(attr.host, env.host),
   token   |-> Override(attr.token, env.token),
   context |-> Override(attr.context, env.context),
   cluster |-> Override(attr.cluster, env.cluster),
   path    |-> Override(attr.path, FirstSet(env.path)),
   paths   |-> env.paths \o (IF attr.paths # Null THEN attr.paths ELSE <<>>),
   load    |-> Override(attr.load, IF env.load = Empty THEN TRUE ELSE env.load),
   exec    |-> attr.exec,
   retries |-> Retries(attr.retries, env.retries)]

\* The kubeconfig files of the settings; one path hides the list.
FilesNamed(s) == IF s.path # Empty THEN <<s.path>> ELSE s.paths

\* An exec block stands in for the files.
FilesLoaded(s) == IF s.exec \/ ~s.load THEN <<>> ELSE FilesNamed(s)

\* client-go: a single file has to be there, of several the missing ones are left
\* out; of what two of them define the first one's counts.
ReadFiles(files) ==
  LET there == {i \in DOMAIN files : Kubeconfig[files[i]] # NoTarget}
      Defining(c) == {i \in there : c \in DOMAIN Kubeconfig[files[i]].contexts}
      First(c) == CHOOSE i \in Defining(c) : \A j \in Defining(c) : i <= j
  IN [ok |-> Len(files) # 1 \/ there # {},
      current |-> FirstSet([i \in DOMAIN files |->
                              IF i \in there THEN Kubeconfig[files[i]].current ELSE Empty]),
      contexts |-> [c \in UNION {DOMAIN Kubeconfig[files[i]].contexts : i \in there} |->
                      Kubeconfig[files[First(c)]].contexts[c]]]

\* The server and the user that the client configuration leads to, with the static
\* settings before those of the files.  config_context and config_context_cluster
\* count only when files are loaded.
Target(s) ==
  LET files   == FilesLoaded(s)
      config  == ReadFiles(files)
      named   == IF files # <<>> THEN s.context ELSE Empty
      context == IF named # Empty THEN named ELSE config.current
      found   == context \in DOMAIN config.contexts
      cluster == IF files # <<>> /\ s.cluster # Empty THEN s.cluster
                 ELSE IF found THEN config.contexts[context].cluster ELSE Empty
      server  == IF s.host # Empty THEN s.host ELSE cluster
      user    == IF s.token # Empty THEN s.token
                 ELSE IF found THEN config.contexts[context].user ELSE Empty
  IN IF config.ok /\ (named # Empty => found) /\ server # Empty
     THEN [server |-> server, user |-> user]
     ELSE NoTarget
=============================================================================
