------------------------------ MODULE Applier ------------------------------
(***************************************************************************)
(* remote.Applier.Run (v1alpha1/remote/remote.go): several runs of         *)
(* kubectl-add, each one a process of its own, share a namespace.  A run   *)
(* stores its caller's credential in a Secret, starts an applier pod that  *)
(* mounts it (and, for a kustomization, a builder pod that does not),      *)
(* waits for the pods, streams the manifest to a kubectl in the applier    *)
(* pod and unwinds its deferred deletes.                                   *)
(*                                                                         *)
(* The model keeps every call, its failure modes and the order of the      *)
(* deferred deletes.  A manifest is a number of documents; a credential is *)
(* the run whose caller it belongs to.  Object names are drawn from Names, *)
(* small enough that two runs can draw the same one.                       *)
(***************************************************************************)
EXTENDS Naturals, FiniteSets

CONSTANTS Runs,         \* invocations of kubectl-add
          Names,        \* the values "kubectl-add-" + rand.String(5) can take
          Kustomize,    \* the runs whose Format is FormatKustomize
          Remove,       \* the runs started with --remove (kubectl delete)
          NumDocs,      \* documents in a manifest
          NoRun,        \* "no owner"
          NoName        \* "base not drawn yet"

ASSUME RunsAssumption == /\ Kustomize \subseteq Runs
                         /\ Remove \subseteq Runs
                         /\ NoRun \notin Runs
                         /\ NoName \notin Names
                         /\ NumDocs \in Nat \ {0}

VARIABLES
  pc,        \* the statement of Run each run is at
  base,      \* the name it drew
  deferred,  \* the deletes it has deferred and not yet run
  canceled,  \* the runs whose context is cancelled (SIGINT, SIGTERM)
  unsure,    \* history: the runs that lost the reply to a create, or whose
             \* clean-up delete failed
  applyErr,  \* what a.apply returned ("none" before)
  result,    \* what Run returns ("none" before)
  secrets,   \* the namespace's Secrets: name -> the run that created it
  pods,      \* the namespace's Pods: <<name, role>> -> owner, phase and the
             \* credential its container was started with
  kubectl,   \* the kubectl process of a run inside its applier pod
  source,    \* the manifest's reader: "open" while kustomize may write more
  got,       \* documents that reached the remote kubectl's stdin
  applied    \* documents that kubectl has applied (or deleted)

client  == <<pc, base, deferred, applyErr, result>>
cluster == <<secrets, pods>>
remote  == <<kubectl, got, applied>>
vars    == <<client, canceled, unsure, cluster, remote, source>>

Roles  == {"apply", "build"}
Phases == {"absent", "pending", "ready", "failed", "deleting"}
PCs    == {"prepare", "secret", "applier", "builder", "waitApplier",
           "waitBuilder", "stream", "join", "return", "dead"}

Pod == [owner : Runs \cup {NoRun}, phase : Phases, cred : Runs \cup {NoRun}]

Absent == [owner |-> NoRun, phase |-> "absent", cred |-> NoRun]
Started(r) == [owner |-> r, phase |-> "pending", cred |-> NoRun]
InPhase(pod, phase) == [owner |-> pod.owner, phase |-> phase, cred |-> pod.cred]

TypeOK ==
  /\ pc \in [Runs -> PCs]
  /\ base \in [Runs -> Names \cup {NoName}]
  /\ deferred \in [Runs -> SUBSET {"secret", "apply", "build"}]
  /\ canceled \subseteq Runs
  /\ unsure \subseteq Runs
  /\ applyErr \in [Runs -> {"none", "nil", "err"}]
  /\ result \in [Runs -> {"none", "nil", "err"}]
  /\ secrets \in [Names -> Runs \cup {NoRun}]
  /\ pods \in [Names \X Roles -> Pod]
  /\ kubectl \in [Runs -> {"idle", "running", "ok", "failed"}]
  /\ source \in [Runs -> {"open", "ok", "failed"}]
  /\ got \in [Runs -> 0..NumDocs]
  /\ applied \in [Runs -> 0..NumDocs]

Init ==
  /\ pc = [r \in Runs |-> "prepare"]
  /\ base = [r \in Runs |-> NoName]
  /\ deferred = [r \in Runs |-> {}]
  /\ canceled = {}
  /\ unsure = {}
  /\ applyErr = [r \in Runs |-> "none"]
  /\ result = [r \in Runs |-> "none"]
  /\ secrets = [n \in Names |-> NoRun]
  /\ pods = [k \in Names \X Roles |-> Absent]
  /\ kubectl = [r \in Runs |-> "idle"]
  /\ source = [r \in Runs |-> IF r \in Kustomize THEN "open" ELSE "ok"]
  /\ got = [r \in Runs |-> 0]
  /\ applied = [r \in Runs |-> 0]

-----------------------------------------------------------------------------
(* The steps of Run.                                                       *)

Goto(r, label) == pc' = [pc EXCEPT ![r] = label]

\* return err: the deferred calls run next.
ReturnErr(r) == /\ Goto(r, "return")
                /\ result' = [result EXCEPT ![r] = "err"]
                /\ UNCHANGED applyErr

\* Run has returned to its caller: it answered and every deferred call ran.
Returned(r) == pc[r] = "return" /\ deferred[r] = {}

\* Configuration checks, clientset, callerCredential and caCert succeed and a
\* name is drawn.
Prepare(r) ==
  /\ pc[r] = "prepare"
  /\ \E n \in Names : base' = [base EXCEPT ![r] = n]
  /\ Goto(r, "secret")
  /\ UNCHANGED <<deferred, applyErr, result, canceled, unsure, cluster,
                 remote, source>>

\* One of them fails; nothing exists in the cluster yet.
PrepareFails(r) ==
  /\ pc[r] = "prepare"
  /\ ReturnErr(r)
  /\ UNCHANGED <<base, deferred, canceled, unsure, cluster, remote, source>>

\* Mutant: AlreadyExists is taken for success.
SecretReused(r) == secrets[base[r]] \in Runs \cup {NoRun}

SecretFree(r) == secrets[base[r]] = NoRun

\* createSecret answers; only now is the delete deferred.  A name in use is
\* AlreadyExists, so the Secret is this run's own.
CreateSecret(r) ==
  /\ pc[r] = "secret"
  /\ r \notin canceled
  /\ SecretFree(r)
  /\ secrets' = [secrets EXCEPT ![base[r]] = r]
  /\ deferred' = [deferred EXCEPT ![r] = @ \cup {"secret"}]
  /\ Goto(r, "applier")
  /\ UNCHANGED <<base, applyErr, result, canceled, unsure, pods, remote, source>>

\* Mutant: the delete is deferred before the create is known to have worked.
CreateSecretFailsDeferred(r) ==
  /\ pc[r] = "secret"
  /\ ReturnErr(r)
  /\ deferred' = [deferred EXCEPT ![r] = @ \cup {"secret"}]
  /\ UNCHANGED <<base, canceled, unsure, cluster, remote, source>>

\* Refused: AlreadyExists, forbidden, unreachable, or the context is done.
CreateSecretFails(r) ==
  /\ pc[r] = "secret"
  /\ ReturnErr(r)
  /\ UNCHANGED <<base, deferred, canceled, unsure, cluster, remote, source>>

\* The API server stores the Secret, but the reply is lost (a dropped
\* connection, or the context cancelled while the call is in flight).  Run
\* returns before the deferred delete is registered.
CreateSecretReplyLost(r) ==
  /\ pc[r] = "secret"
  /\ r \notin canceled
  /\ SecretFree(r)
  /\ secrets' = [secrets EXCEPT ![base[r]] = r]
  /\ unsure' = unsure \cup {r}
  /\ ReturnErr(r)
  /\ UNCHANGED <<base, deferred, canceled, pods, remote, source>>

Key(r, role) == <<base[r], role>>
CreatingPod(r, role) == pc[r] = (IF role = "apply" THEN "applier" ELSE "builder")
AfterCreate(r, role) ==
  IF role = "apply" /\ r \in Kustomize THEN "builder" ELSE "waitApplier"

\* Mutant: a pod that already exists is used as if it had been created.
CreatePodReuses(r, role) ==
  /\ CreatingPod(r, role)
  /\ r \notin canceled
  /\ pods' = [pods EXCEPT ![Key(r, role)] = IF @.phase = "absent" THEN Started(r) ELSE @]
  /\ deferred' = [deferred EXCEPT ![r] = @ \cup {role}]
  /\ Goto(r, AfterCreate(r, role))
  /\ UNCHANGED <<base, applyErr, result, canceled, unsure, secrets, remote, source>>

\* Mutant: the builder pod's delete is not deferred.
CreatePodUndeferred(r, role) ==
  /\ CreatingPod(r, role)
  /\ r \notin canceled
  /\ pods[Key(r, role)].phase = "absent"
  /\ pods' = [pods EXCEPT ![Key(r, role)] = Started(r)]
  /\ deferred' = [deferred EXCEPT ![r] = @ \cup ({role} \ {"build"})]
  /\ Goto(r, AfterCreate(r, role))
  /\ UNCHANGED <<base, applyErr, result, canceled, unsure, secrets, remote, source>>

\* createPod answers and its delete is deferred.
CreatePod(r, role) ==
  /\ CreatingPod(r, role)
  /\ r \notin canceled
  /\ pods[Key(r, role)].phase = "absent"
  /\ pods' = [pods EXCEPT ![Key(r, role)] = Started(r)]
  /\ deferred' = [deferred EXCEPT ![r] = @ \cup {role}]
  /\ Goto(r, AfterCreate(r, role))
  /\ UNCHANGED <<base, applyErr, result, canceled, unsure, secrets, remote, source>>

CreatePodFails(r, role) ==
  /\ CreatingPod(r, role)
  /\ ReturnErr(r)
  /\ UNCHANGED <<base, deferred, canceled, unsure, cluster, remote, source>>

CreatePodReplyLost(r, role) ==
  /\ CreatingPod(r, role)
  /\ r \notin canceled
  /\ pods[Key(r, role)].phase = "absent"
  /\ pods' = [pods EXCEPT ![Key(r, role)] = Started(r)]
  /\ unsure' = unsure \cup {r}
  /\ ReturnErr(r)
  /\ UNCHANGED <<base, deferred, canceled, secrets, remote, source>>

Waiting(r, role) == pc[r] = (IF role = "apply" THEN "waitApplier" ELSE "waitBuilder")
AfterWait(r, role) ==
  IF role = "apply" /\ r \in Kustomize THEN "waitBuilder" ELSE "stream"

\* waitReady polls the pod of that name until it is Running and ready.
WaitReady(r, role) ==
  /\ Waiting(r, role)
  /\ r \notin canceled
  /\ pods[Key(r, role)].phase = "ready"
  /\ Goto(r, AfterWait(r, role))
  /\ UNCHANGED <<base, deferred, applyErr, result, canceled, unsure, cluster,
                 remote, source>>

\* A failed Get (the pod is gone, the context is done), phase Failed, or two
\* minutes without becoming ready.
WaitFails(r, role) ==
  /\ Waiting(r, role)
  /\ ReturnErr(r)
  /\ UNCHANGED <<base, deferred, canceled, unsure, cluster, remote, source>>

-----------------------------------------------------------------------------
(* Streaming.  a.apply execs kubectl in the applier pod and copies the     *)
(* manifest to its stdin; for a kustomization the manifest is what a       *)
(* concurrent exec in the builder pod writes to the pipe.  KustomizePipe   *)
(* has the pipe itself.                                                    *)

\* The exec's connection is up: stdin is copied and the exit status read.
Attached(r) == pc[r] = "stream" /\ kubectl[r] # "idle"

ExecStarts(r) ==
  /\ pc[r] = "stream"
  /\ r \notin canceled
  /\ kubectl[r] = "idle"
  /\ pods[Key(r, "apply")].phase = "ready"
  /\ kubectl' = [kubectl EXCEPT ![r] = "running"]
  /\ UNCHANGED <<client, canceled, unsure, cluster, got, applied, source>>

\* Mutant: the copier goes on past the end of the manifest.
DeliverOnceMore(r) ==
  /\ Attached(r)
  /\ kubectl[r] = "running"
  /\ source[r] # "failed"
  /\ got[r] <= NumDocs
  /\ got' = [got EXCEPT ![r] = @ + 1]
  /\ UNCHANGED <<client, canceled, unsure, cluster, kubectl, applied, source>>

Deliver(r) ==
  /\ Attached(r)
  /\ kubectl[r] = "running"
  /\ source[r] # "failed"
  /\ got[r] < NumDocs
  /\ got' = [got EXCEPT ![r] = @ + 1]
  /\ UNCHANGED <<client, canceled, unsure, cluster, kubectl, applied, source>>

\* The builder's exec ends: all of the rendered manifest went into the pipe,
\* or it failed (kustomize, the pod, the connection, the context) and
\* CloseWithError ends the pipe early.
BuildEnds(r, outcome) ==
  /\ r \in Kustomize
  /\ pc[r] \in {"stream", "join"}
  /\ source[r] = "open"
  /\ outcome = "ok" => pods[Key(r, "build")].phase = "ready"
  /\ source' = [source EXCEPT ![r] = outcome]
  /\ UNCHANGED <<client, canceled, unsure, cluster, remote>>

\* Remote stdin is closed when the reader ends, with or without an error, and
\* when the client is gone: a truncated manifest looks like a complete one.
Eof(r) == \/ source[r] = "ok" /\ got[r] = NumDocs
          \/ source[r] = "failed"
          \/ ~Attached(r)

\* kubectl apply reads all of stdin first; kubectl delete works as it reads.
KubectlApplies(r) ==
  /\ kubectl[r] = "running"
  /\ r \in Remove \/ Eof(r)
  /\ applied[r] < got[r]
  /\ applied' = [applied EXCEPT ![r] = @ + 1]
  /\ UNCHANGED <<client, canceled, unsure, cluster, kubectl, got, source>>

\* Exit status 0: everything read was applied; no input is an error.
KubectlSucceeds(r) ==
  /\ kubectl[r] = "running"
  /\ Eof(r)
  /\ got[r] > 0
  /\ applied[r] = got[r]
  /\ kubectl' = [kubectl EXCEPT ![r] = "ok"]
  /\ UNCHANGED <<client, canceled, unsure, cluster, got, applied, source>>

KubectlFails(r) ==
  /\ kubectl[r] = "running"
  /\ kubectl' = [kubectl EXCEPT ![r] = "failed"]
  /\ UNCHANGED <<client, canceled, unsure, cluster, got, applied, source>>

\* a.apply returns err; a plain manifest returns it from Run at once, a
\* kustomization first waits for the builder.
ApplyReturns(r, err) ==
  /\ applyErr' = [applyErr EXCEPT ![r] = err]
  /\ IF r \in Kustomize
       THEN Goto(r, "join") /\ UNCHANGED result
       ELSE Goto(r, "return") /\ result' = [result EXCEPT ![r] = err]
  /\ UNCHANGED <<base, deferred, canceled, unsure, cluster, remote, source>>

\* The exec reports kubectl's exit status.
StreamEnds(r) ==
  /\ Attached(r)
  /\ kubectl[r] \in {"ok", "failed"}
  /\ ApplyReturns(r, IF kubectl[r] = "ok" THEN "nil" ELSE "err")

\* The exec cannot be started, its connection breaks or the context is done.
\* kubectl, if it started, goes on without the client.
StreamBreaks(r) ==
  /\ pc[r] = "stream"
  /\ ApplyReturns(r, "err")

\* Mutant: the builder's error is dropped.
JoinResultApplyOnly(r) == applyErr[r]

\* Mutant: the builder's goroutine only sends on buildErr when it succeeded.
JoinOnlyOk(r) ==
  /\ pc[r] = "join"
  /\ source[r] = "ok"
  /\ result' = [result EXCEPT ![r] = applyErr[r]]
  /\ Goto(r, "return")
  /\ UNCHANGED <<base, deferred, applyErr, canceled, unsure, cluster, remote,
                 source>>

\* <-buildErr: a failed build is reported instead of what apply returned.
JoinResult(r) == IF source[r] = "failed" THEN "err" ELSE applyErr[r]
Join(r) ==
  /\ pc[r] = "join"
  /\ source[r] # "open"
  /\ result' = [result EXCEPT ![r] = JoinResult(r)]
  /\ Goto(r, "return")
  /\ UNCHANGED <<base, deferred, applyErr, canceled, unsure, cluster, remote,
                 source>>

-----------------------------------------------------------------------------
(* The deferred deletes, in the reverse order of their registration, with  *)
(* context.Background().                                                   *)

\* The delete of obj runs next.
Next2Delete(r, obj) ==
  /\ pc[r] = "return"
  /\ obj \in deferred[r]
  /\ obj = "apply" => "build" \notin deferred[r]
  /\ obj = "secret" => deferred[r] = {"secret"}

Popped(r, obj) == deferred' = [deferred EXCEPT ![r] = @ \ {obj}]

DeleteSecret(r) ==
  /\ Next2Delete(r, "secret")
  /\ secrets' = [secrets EXCEPT ![base[r]] = NoRun]
  /\ Popped(r, "secret")
  /\ UNCHANGED <<pc, base, applyErr, result, canceled, unsure, pods, remote,
                 source>>

\* Deletion is graceful: the pod, and a kubectl in it, live on for a while.
DeletePod(r, role) ==
  /\ Next2Delete(r, role)
  /\ pods' = [pods EXCEPT ![Key(r, role)] =
                 IF @.phase = "absent" THEN @ ELSE InPhase(@, "deleting")]
  /\ Popped(r, role)
  /\ UNCHANGED <<pc, base, applyErr, result, canceled, unsure, secrets, remote,
                 source>>

\* A failed delete is only logged.
DeleteFails(r, obj) ==
  /\ Next2Delete(r, obj)
  /\ unsure' = unsure \cup {r}
  /\ Popped(r, obj)
  /\ UNCHANGED <<pc, base, applyErr, result, canceled, cluster, remote, source>>

-----------------------------------------------------------------------------
(* The environment: signals, and the cluster.                              *)

Running(r) == pc[r] # "dead" /\ ~Returned(r)

\* SIGINT or SIGTERM cancels the context; the process carries on.
Cancel(r) ==
  /\ Running(r)
  /\ r \notin canceled
  /\ canceled' = canceled \cup {r}
  /\ UNCHANGED <<client, unsure, cluster, remote, source>>

\* SIGKILL or a crash: no deferred call runs.
Kill(r) ==
  /\ Running(r)
  /\ Goto(r, "dead")
  /\ UNCHANGED <<base, deferred, applyErr, result, canceled, unsure, cluster,
                 remote, source>>

\* The kubelet starts a pod's container; an applier's needs the Secret of its
\* name, whoever's Secret that is by now.
StartPod(n, role) ==
  /\ pods[<<n, role>>].phase = "pending"
  /\ role = "apply" => secrets[n] # NoRun
  /\ pods' = [pods EXCEPT ![<<n, role>>] =
                [owner |-> @.owner, phase |-> "ready",
                 cred |-> IF role = "apply" THEN secrets[n] ELSE NoRun]]
  /\ UNCHANGED <<client, canceled, unsure, secrets, remote, source>>

\* A kubectl dies with its pod.
KillKubectlIn(n, role) ==
  kubectl' = [r \in Runs |->
                IF /\ role = "apply"
                   /\ pods[<<n, role>>].owner = r
                   /\ kubectl[r] = "running"
                THEN "failed" ELSE kubectl[r]]

\* The container exits or is evicted (restartPolicy Never), or sleep 3600 ends.
FailPod(n, role) ==
  /\ pods[<<n, role>>].phase \in {"pending", "ready"}
  /\ pods' = [pods EXCEPT ![<<n, role>>] = InPhase(@, "failed")]
  /\ KillKubectlIn(n, role)
  /\ UNCHANGED <<client, canceled, unsure, secrets, got, applied, source>>

\* A deleted pod's grace period is over, or a failed pod is collected.
RemovePod(n, role) ==
  /\ pods[<<n, role>>].phase \in {"deleting", "failed"}
  /\ pods' = [pods EXCEPT ![<<n, role>>] = Absent]
  /\ KillKubectlIn(n, role)
  /\ UNCHANGED <<client, canceled, unsure, secrets, got, applied, source>>

-----------------------------------------------------------------------------
(* What the code can always get done on its own: calls answer.             *)
Call(r) ==
  \/ Prepare(r) \/ PrepareFails(r)
  \/ CreateSecret(r) \/ CreateSecretFails(r) \/ CreateSecretReplyLost(r)
  \/ \E role \in Roles : \/ CreatePod(r, role)
                         \/ CreatePodFails(r, role)
                         \/ CreatePodReplyLost(r, role)
                         \/ WaitReady(r, role)
                         \/ WaitFails(r, role)
                         \/ DeletePod(r, role)
  \/ StreamEnds(r) \/ Join(r)
  \/ DeleteSecret(r)
  \/ \E obj \in {"secret", "apply", "build"} : DeleteFails(r, obj)

\* What depends on the other end of an exec, or on a signal.
Stream(r) ==
  \/ ExecStarts(r) \/ Deliver(r) \/ StreamBreaks(r)
  \/ \E outcome \in {"ok", "failed"} : BuildEnds(r, outcome)
  \/ KubectlApplies(r) \/ KubectlSucceeds(r) \/ KubectlFails(r)
  \/ Cancel(r) \/ Kill(r)

Kubelet(n, role) == StartPod(n, role) \/ FailPod(n, role) \/ RemovePod(n, role)

Next == \/ \E r \in Runs : Call(r) \/ Stream(r)
        \/ \E n \in Names, role \in Roles : Kubelet(n, role)

\* The Go scheduler runs the process and API calls answer or time out.  An
\* exec is only sure to end once its context is cancelled (StreamWithContext
\* returns on ctx.Done).
CanceledStream(r) == /\ r \in canceled
                     /\ \/ StreamBreaks(r)
                        \/ BuildEnds(r, "failed")

Fairness == \A r \in Runs : WF_vars(Call(r)) /\ WF_vars(CanceledStream(r))

Spec == Init /\ [][Next]_vars
FairSpec == Spec /\ Fairness

-----------------------------------------------------------------------------
(* Properties.                                                             *)

\* A deferred delete names an object this run created (or that is gone), even
\* when another run drew the same name: the Secret is the lock on the name.
DeferredIsOwn ==
  \A r \in Runs :
    /\ "secret" \in deferred[r] => secrets[base[r]] = r
    /\ \A role \in Roles : role \in deferred[r] =>
         pods[Key(r, role)].owner \in {r, NoRun}

\* remote.go's package comment, "runs kubectl apply inside the cluster as the
\* connected user": a kubectl runs in its own run's pod, started with its own
\* caller's credential, also when names collide and pods are left behind.
AppliesAsCaller ==
  \A r \in Runs : kubectl[r] = "running" =>
    /\ pods[Key(r, "apply")].owner = r
    /\ pods[Key(r, "apply")].cred = r

\* Run answers nil only when all of the manifest was applied: a truncated
\* kustomization, which kubectl cannot tell from a complete one, is an error.
NilMeansAll ==
  \A r \in Runs : result[r] = "nil" => applied[r] = NumDocs

\* Every path out of Run deletes what it created, unless the reply to a create
\* was lost or a delete failed.
CleanExit ==
  \A r \in Runs : Returned(r) /\ r \notin unsure =>
    /\ \A n \in Names : secrets[n] # r
    /\ \A n \in Names, role \in Roles :
         pods[<<n, role>>].owner = r => pods[<<n, role>>].phase = "deleting"

\* A Secret disappears only through the deferred call of the run that made it,
\* and a pod is marked for deletion only by the run that created it.
DeletesOnlyOwn ==
  [][/\ \A n \in Names : secrets[n] # NoRun /\ secrets'[n] # secrets[n] =>
          "secret" \in deferred[secrets[n]] \ deferred'[secrets[n]]
     /\ \A n \in Names, role \in Roles :
          LET k == <<n, role>>
          IN  pods'[k].phase = "deleting" /\ pods[k].phase # "deleting" =>
                role \in deferred[pods[k].owner] \ deferred'[pods[k].owner]]_vars

\* SIGINT ends every run, wherever it is: all waits watch the context.
CancelReturns ==
  \A r \in Runs : (r \in canceled) ~> (Returned(r) \/ pc[r] = "dead")

Outcome(r) == INSTANCE ApplyOutcome WITH applied <- applied[r],
                                         result <- result[r]

\* Each run keeps the promise of ApplyOutcome.
KeepsPromise ==
  /\ \A r \in Runs : Outcome(r)!Init
  /\ [][\A r \in Runs : [Outcome(r)!Next]_<<applied[r], result[r]>>]_<<applied, result>>
=============================================================================
