-------------------------- MODULE TunnelDeployment --------------------------
(***************************************************************************)
(* `kubectl add tunnel --install` and `--remove`                           *)
(* (v1alpha1/tunnel/deployment/deployment.go, and the part of tunnel.go    *)
(* that gets there): the Deployments, one per slug of a target, the pods   *)
(* their controller keeps for them, and commands that create, update,      *)
(* watch and delete them.                                                  *)
(*                                                                         *)
(* A command's argument is [name, colon, port]: a name is the sequence of  *)
(* its characters, port 0 an absent port, with or without a colon.         *)
(***************************************************************************)
EXTENDS Naturals, Sequences, FiniteSetsExt

CONSTANTS Installs,       \* commands with --install
          Removes,        \* commands with --remove
          Asked,          \* what each command may be given: functions on them
          Mapped,         \* strings.Map in slug: a function on characters
          Hyphen,         \* the character "-"
          ApiServerNames, \* "" and "kubernetes"
          ApiServerSlug,  \* "apiserver"
          ServiceSlug,    \* "service"
          Limit,          \* longest slug (40)
          MaxPods,        \* bound: pods the controllers ever create
          Prior,          \* the targets that may have a tunnel already
          None

ASSUME DeploymentAssumption ==
  /\ MaxPods \in Nat /\ Limit \in Nat \ {0}
  /\ Installs \cap Removes = {}
  /\ <<>> \in ApiServerNames
  /\ \A f \in Asked : f \in [Installs \cup Removes ->
                             [name : Seq(DOMAIN Mapped), colon : BOOLEAN, port : Nat]]
  /\ Prior \subseteq [name : Seq(DOMAIN Mapped), colon : BOOLEAN, port : Nat]
  /\ \A f \in Asked : \A c \in DOMAIN f : f[c].port # 0 => f[c].colon

VARIABLES
  dep,    \* each slug's Deployment: its origin and resource version, or None
  writes, \* how often a Deployment has been written
  pods,   \* each pod's label, origin and phase, and whether it has printed its URL
  pc,     \* where each command is
  arg,    \* what each command was given
  seen,   \* the Deployment an install read before its update, or None
  pod     \* the pod it reads the URL from, 0 before it has one

local == <<arg, seen, pod>>
vars  == <<dep, writes, pods, pc, local>>

-----------------------------------------------------------------------------
(* Targets.                                                                *)

\* parseTarget: with a colon it is a Service, also when no port follows.
IsService(a) == a.colon \/ a.name \notin ApiServerNames

\* originURL: the URL the container forwards to.
ApiServerOrigin == [name |-> <<>>, colon |-> FALSE, port |-> 0]
Origin(a) == IF IsService(a) THEN a ELSE ApiServerOrigin

TrimHyphens(s) ==
  LET solid == {i \in DOMAIN s : s[i] # Hyphen}
  IN  IF solid = {} THEN <<>> ELSE SubSeq(s, Min(solid), Max(solid))

\* Mutant: what is left after the cut is not trimmed again.
SlugCut(a) ==
  LET s == TrimHyphens([i \in DOMAIN a.name |-> Mapped[a.name[i]]])
      cut == IF Len(s) > Limit THEN SubSeq(s, 1, Limit) ELSE s
  IN  IF ~IsService(a) THEN ApiServerSlug
      ELSE IF cut = <<>> THEN ServiceSlug ELSE cut

\* The Deployment's name and the pods' label, less the common prefix.
Slug(a) ==
  LET s == TrimHyphens([i \in DOMAIN a.name |-> Mapped[a.name[i]]])
      cut == IF Len(s) > Limit THEN TrimHyphens(SubSeq(s, 1, Limit)) ELSE s
  IN  IF ~IsService(a) THEN ApiServerSlug
      ELSE IF cut = <<>> THEN ServiceSlug ELSE cut

\* What may be a name in Kubernetes, a DNS-1123 label.
ValidName(s) ==
  /\ Len(s) \in 1..Limit
  /\ \A k \in DOMAIN s : \E c \in DOMAIN Mapped : s[k] = Mapped[c]
  /\ s[1] # Hyphen /\ s[Len(s)] # Hyphen

\* "apiserver" and "service" are such names, and neither "" nor "kubernetes" is
\* cut to "apiserver".
ASSUME SlugAssumption ==
  /\ ValidName(ApiServerSlug) /\ ValidName(ServiceSlug)
  /\ \A n \in ApiServerNames : Slug([name |-> n, colon |-> TRUE, port |-> 1]) # ApiServerSlug

-----------------------------------------------------------------------------
PodIds     == 1..MaxPods
Commands   == Installs \cup Removes
Args       == Prior \cup {f[c] : f \in Asked, c \in Commands}
Slugs      == {Slug(a) : a \in Args}
Origins    == {Origin(a) : a \in Args}
Deployment == [origin : Origins, rv : Nat]
Pod        == [label : Slugs, origin : Origins, printed : BOOLEAN,
               phase : {"Pending", "Running", "Failed", "Gone"}]
Labels     == {"start", "get", "update", "poll", "stream", "done", "error"}

\* None is no target, Deployment or pod.
ASSUME NoneAssumption == None \notin Prior /\ None \notin Deployment /\ None \notin Pod

TypeOK ==
  /\ dep \in [Slugs -> Deployment \cup {None}]
  /\ writes \in Nat
  /\ pods \in [PodIds -> Pod \cup {None}]
  /\ pc \in [Commands -> Labels]
  /\ arg \in [Commands -> Args]
  /\ seen \in [Installs -> Deployment \cup {None}]
  /\ pod \in [Installs -> PodIds \cup {0}]

NewPod(s, phase, printed) ==
  [label |-> s, origin |-> dep[s].origin, phase |-> phase, printed |-> printed]

\* A tunnel that was installed earlier runs and has printed its URL.
Init ==
  /\ \E a \in Prior \cup {None} :
       /\ dep = [s \in Slugs |-> IF a # None /\ s = Slug(a)
                                 THEN [origin |-> Origin(a), rv |-> 1] ELSE None]
       /\ pods = [p \in PodIds |-> IF a # None /\ p = 1
                                   THEN NewPod(Slug(a), "Running", TRUE) ELSE None]
  /\ writes = 1
  /\ pc = [c \in Commands |-> "start"]
  /\ arg \in Asked
  /\ seen = [i \in Installs |-> None]
  /\ pod = [i \in Installs |-> 0]

Goto(c, label) == pc' = [pc EXCEPT ![c] = label]

Ours(c) == dep[Slug(arg[c])]

\* Mutant: the API server is reached by the name it was asked for.
WriteArgument(i) ==
  /\ writes' = writes + 1
  /\ dep' = [dep EXCEPT ![Slug(arg[i])] = [origin |-> arg[i], rv |-> writes + 1]]

\* build: the Deployment is written with the origin install i wants.
WriteDeployment(i) ==
  /\ writes' = writes + 1
  /\ dep' = [dep EXCEPT ![Slug(arg[i])] =
               [origin |-> Origin(arg[i]), rv |-> writes + 1]]

-----------------------------------------------------------------------------
(* apply.                                                                  *)

\* A Service needs a port, and says so before anything is written.
NeedsPort(a) == IsService(a) /\ a.port = 0

Create(i) ==
  /\ pc[i] = "start" /\ ~NeedsPort(arg[i])
  /\ Ours(i) = None
  /\ WriteDeployment(i)
  /\ Goto(i, "poll")
  /\ UNCHANGED <<pods, local>>

AlreadyExists(i) ==
  /\ pc[i] = "start" /\ ~NeedsPort(arg[i])
  /\ Ours(i) # None
  /\ Goto(i, "get")
  /\ UNCHANGED <<dep, writes, pods, local>>

Get(i) ==
  /\ pc[i] = "get"
  /\ Ours(i) # None
  /\ seen' = [seen EXCEPT ![i] = Ours(i)]
  /\ Goto(i, "update")
  /\ UNCHANGED <<dep, writes, pods, arg, pod>>

\* Mutant: the update does not carry the resource version that was read.
UpdateUnconditionally(i) ==
  /\ pc[i] = "update"
  /\ Ours(i) # None
  /\ WriteDeployment(i)
  /\ Goto(i, "poll")
  /\ UNCHANGED <<pods, local>>

\* The API server takes the update only at the resource version it carries.
Update(i) ==
  /\ pc[i] = "update"
  /\ Ours(i) = seen[i]
  /\ WriteDeployment(i)
  /\ Goto(i, "poll")
  /\ UNCHANGED <<pods, local>>

\* The port is missing, Get finds nothing, Update conflicts, or a call fails.
ApplyFails(i) ==
  /\ pc[i] \in {"start", "get", "update"}
  /\ Goto(i, "error")
  /\ UNCHANGED <<dep, writes, pods, local>>

-----------------------------------------------------------------------------
(* waitForPublicURL.                                                       *)

Listed(p) == pods[p] # None /\ pods[p].phase # "Gone"

\* Mutant: the selector leaves the target out.
ListedAny(i, p) == Listed(p)

\* What the selector yields: pods labelled with the target's slug.
ListedFor(i, p) == Listed(p) /\ pods[p].label = Slug(arg[i])

\* The first pod listed that is Running is chosen; the list has no order the
\* code relies on.
PollRunning(i, p) ==
  /\ pc[i] = "poll"
  /\ ListedFor(i, p) /\ pods[p].phase = "Running"
  /\ pod' = [pod EXCEPT ![i] = p]
  /\ Goto(i, "stream")
  /\ UNCHANGED <<dep, writes, pods, arg, seen>>

\* One that is Failed ends the wait.
PollFailed(i, p) ==
  /\ pc[i] = "poll"
  /\ ListedFor(i, p) /\ pods[p].phase = "Failed"
  /\ Goto(i, "error")
  /\ UNCHANGED <<dep, writes, pods, local>>

\* Mutant: the wait has no timeout.
PollFails(i) ==
  /\ pc[i] = "poll"
  /\ \E p \in PodIds : ListedFor(i, p) /\ pods[p].phase = "Failed"
  /\ Goto(i, "error")
  /\ UNCHANGED <<dep, writes, pods, local>>

\* readyTimeout, a cancelled context or a failed list.
PollEnds(i) ==
  /\ pc[i] = "poll"
  /\ Goto(i, "error")
  /\ UNCHANGED <<dep, writes, pods, local>>

\* A line of the log matches publicURLRe.
StreamFinds(i) ==
  /\ pc[i] = "stream"
  /\ pods[pod[i]].printed
  /\ Goto(i, "done")
  /\ UNCHANGED <<dep, writes, pods, local>>

\* The log cannot be opened or has ended: the pod is not running any more.
StreamEnds(i) ==
  /\ pc[i] = "stream"
  /\ pods[pod[i]].phase # "Running"
  /\ Goto(i, "error")
  /\ UNCHANGED <<dep, writes, pods, local>>

\* The connection breaks or the context is cancelled.
StreamBreaks(i) ==
  /\ pc[i] = "stream"
  /\ Goto(i, "error")
  /\ UNCHANGED <<dep, writes, pods, local>>

-----------------------------------------------------------------------------
(* Remove.                                                                 *)

\* Mutant: every target is taken for a Service.
DeleteService(c) ==
  LET s == IF IsService(arg[c]) THEN Slug(arg[c]) ELSE ServiceSlug IN
  /\ pc[c] = "start"
  /\ s \in Slugs /\ dep[s] # None
  /\ dep' = [dep EXCEPT ![s] = None]
  /\ Goto(c, "done")
  /\ UNCHANGED <<writes, pods, local>>

\* The port plays no part.
Delete(c) ==
  /\ pc[c] = "start"
  /\ Ours(c) # None
  /\ dep' = [dep EXCEPT ![Slug(arg[c])] = None]
  /\ Goto(c, "done")
  /\ UNCHANGED <<writes, pods, local>>

\* There is none, or the call fails.
DeleteFails(c) ==
  /\ pc[c] = "start"
  /\ Goto(c, "error")
  /\ UNCHANGED <<dep, writes, pods, local>>

-----------------------------------------------------------------------------
(* The Deployments' controller and the kubelet.                            *)

\* The pods of the Deployment's current template.
Live(s) ==
  {p \in PodIds : Listed(p) /\ pods[p].phase # "Failed"
                   /\ pods[p].label = s /\ pods[p].origin = dep[s].origin}

PodCreated(p, s) ==
  /\ dep[s] # None
  /\ Live(s) = {}
  /\ pods[p] = None
  /\ pods' = [pods EXCEPT ![p] = NewPod(s, "Pending", FALSE)]
  /\ UNCHANGED <<dep, writes, pc, local>>

PodRuns(p) ==
  /\ Listed(p) /\ pods[p].phase = "Pending"
  /\ pods' = [pods EXCEPT ![p].phase = "Running"]
  /\ UNCHANGED <<dep, writes, pc, local>>

PodPrints(p) ==
  /\ Listed(p) /\ pods[p].phase = "Running" /\ ~pods[p].printed
  /\ pods' = [pods EXCEPT ![p].printed = TRUE]
  /\ UNCHANGED <<dep, writes, pc, local>>

\* Eviction leaves a Failed pod behind.
PodFails(p) ==
  /\ Listed(p) /\ pods[p].phase # "Failed"
  /\ pods' = [pods EXCEPT ![p].phase = "Failed"]
  /\ UNCHANGED <<dep, writes, pc, local>>

\* A rolling update removes an old pod once the new one runs; pods of a deleted
\* Deployment are collected.
PodRemoved(p) ==
  /\ Listed(p)
  /\ LET s == pods[p].label IN
       \/ dep[s] = None
       \/ /\ dep[s] # None /\ pods[p].origin # dep[s].origin
          /\ \E q \in Live(s) : pods[q].phase = "Running"
  /\ pods' = [pods EXCEPT ![p].phase = "Gone"]
  /\ UNCHANGED <<dep, writes, pc, local>>

Install(i) ==
  \/ Create(i) \/ AlreadyExists(i) \/ Get(i) \/ Update(i) \/ ApplyFails(i)
  \/ \E p \in PodIds : PollRunning(i, p) \/ PollFailed(i, p)
  \/ PollEnds(i) \/ StreamFinds(i) \/ StreamEnds(i)

Remove(c) == Delete(c) \/ DeleteFails(c)

Cluster(p) ==
  \/ \E s \in Slugs : PodCreated(p, s)
  \/ PodRuns(p) \/ PodPrints(p) \/ PodFails(p) \/ PodRemoved(p)

Next == \/ \E i \in Installs : Install(i) \/ StreamBreaks(i)
        \/ \E c \in Removes : Remove(c)
        \/ \E p \in PodIds : Cluster(p)

\* Commands go on, and a container that runs prints its URL.
Spec == /\ Init /\ [][Next]_vars
        /\ \A i \in Installs : WF_vars(Install(i))
        /\ \A p \in PodIds : WF_vars(PodPrints(p))

-----------------------------------------------------------------------------
Written(i) == pc[i] \in {"poll", "stream", "done"}

\* apply, "updating it in place if one already exists": of installs that race,
\* one is only replaced by a command that has read it, or removed.
NoLostInstall ==
  \A i \in Installs :
    Written(i) /\ Ours(i) # None /\ Ours(i).origin # Origin(arg[i]) =>
      \/ \E j \in Installs : seen[j] # None /\ seen[j].origin = Origin(arg[i])
      \/ \E c \in Removes : pc[c] = "done" /\ Slug(arg[c]) = Slug(arg[i])

\* slug, "a DNS-1123-safe label/name fragment": whatever the argument, what is
\* installed has a name, of at most Limit characters, none of them outside the
\* alphabet, that neither begins nor ends with a hyphen.
NamesValid ==
  \A s \in DOMAIN dep : dep[s] # None => ValidName(s)

\* Two arguments mean one target, or two that slug tells apart.
Apart(a, b) == a.name = b.name \/ Slug(a) # Slug(b)
Distinct(a) == \A b \in Args : Apart(a, b)

\* A URL that an install reports is that of a pod for the target it was given,
\* although other targets are installed and removed meanwhile.
ReportsOwnTarget ==
  \A i \in Installs :
    pc[i] = "done" /\ Distinct(arg[i]) => pods[pod[i]].origin.name = Origin(arg[i]).name

\* name_, "so install and remove agree": a Deployment only goes when its own
\* target is removed, or one whose name slug does not tell from it.
OnlyOwnRemoved ==
  [][\A s \in Slugs : dep[s] # None /\ dep'[s] = None =>
       \E c \in Removes :
         /\ pc[c] # pc'[c]
         /\ \/ dep[s].origin.name = Origin(arg[c]).name
            \/ ~Apart(dep[s].origin, Origin(arg[c]))]_vars

\* An install that has got as far as waiting returns: readyTimeout ends the wait
\* for a pod, and the log of a pod either shows the URL or ends.
InstallEnds ==
  \A i \in Installs : pc[i] = "poll" ~> pc[i] \in {"done", "error"}
=============================================================================
