--------------------------- MODULE ApplierProofs ---------------------------
(***************************************************************************)
(* Safety of Applier for any number of runs, names and documents.          *)
(***************************************************************************)
EXTENDS Applier, TLAPS

(***************************************************************************)
(* Every step is one of the named actions; the proofs below follow this    *)
(* case split.                                                             *)
(***************************************************************************)
USE DEF Roles

\* Type correctness: every action of every run keeps TypeOK.
THEOREM TypeCorrect == Spec => []TypeOK
<1> USE RunsAssumption
<1>1. Init => TypeOK
  BY DEF Init, TypeOK, PCs, Pod, Phases, Absent
<1>2. TypeOK /\ [Next]_vars => TypeOK'
  <2> SUFFICES ASSUME TypeOK, [Next]_vars PROVE TypeOK'
    OBVIOUS
  <2> USE DEF TypeOK, client, cluster, remote, Goto, ReturnErr, PCs
  <2>1. ASSUME NEW r \in Runs, Prepare(r) PROVE TypeOK'
    BY <2>1 DEF Prepare
  <2>2. ASSUME NEW r \in Runs, PrepareFails(r) PROVE TypeOK'
    BY <2>2 DEF PrepareFails
  <2>3. ASSUME NEW r \in Runs, CreateSecret(r) PROVE TypeOK'
    BY <2>3 DEF CreateSecret
  <2>4. ASSUME NEW r \in Runs, CreateSecretFails(r) PROVE TypeOK'
    BY <2>4 DEF CreateSecretFails
  <2>5. ASSUME NEW r \in Runs, CreateSecretReplyLost(r) PROVE TypeOK'
    BY <2>5 DEF CreateSecretReplyLost
  <2>6. ASSUME NEW r \in Runs, NEW role \in Roles, CreatePod(r, role) PROVE TypeOK'
    BY <2>6 DEF CreatePod, CreatingPod, AfterCreate, Started, Pod, Phases
  <2>7. ASSUME NEW r \in Runs, NEW role \in Roles, CreatePodFails(r, role) PROVE TypeOK'
    BY <2>7 DEF CreatePodFails
  <2>8. ASSUME NEW r \in Runs, NEW role \in Roles, CreatePodReplyLost(r, role) PROVE TypeOK'
    BY <2>8 DEF CreatePodReplyLost, Started, Pod, Phases
  <2>9. ASSUME NEW r \in Runs, NEW role \in Roles, WaitReady(r, role) PROVE TypeOK'
    BY <2>9 DEF WaitReady, AfterWait
  <2>10. ASSUME NEW r \in Runs, NEW role \in Roles, WaitFails(r, role) PROVE TypeOK'
    BY <2>10 DEF WaitFails
  <2>11. ASSUME NEW r \in Runs, NEW role \in Roles, DeletePod(r, role) PROVE TypeOK'
    BY <2>11 DEF DeletePod, Popped, Key, Next2Delete, InPhase, Pod, Phases
  <2>12. ASSUME NEW r \in Runs, StreamEnds(r) PROVE TypeOK'
    BY <2>12 DEF StreamEnds, ApplyReturns
  <2>13. ASSUME NEW r \in Runs, Join(r) PROVE TypeOK'
    BY <2>13 DEF Join, JoinResult
  <2>14. ASSUME NEW r \in Runs, DeleteSecret(r) PROVE TypeOK'
    BY <2>14 DEF DeleteSecret, Popped
  <2>15. ASSUME NEW r \in Runs, NEW obj \in {"secret", "apply", "build"}, DeleteFails(r, obj)
         PROVE TypeOK'
    BY <2>15 DEF DeleteFails, Popped
  <2>16. ASSUME NEW r \in Runs, ExecStarts(r) PROVE TypeOK'
    BY <2>16 DEF ExecStarts
  <2>17. ASSUME NEW r \in Runs, Deliver(r) PROVE TypeOK'
    BY <2>17 DEF Deliver
  <2>18. ASSUME NEW r \in Runs, StreamBreaks(r) PROVE TypeOK'
    BY <2>18 DEF StreamBreaks, ApplyReturns
  <2>19. ASSUME NEW r \in Runs, NEW outcome \in {"ok", "failed"}, BuildEnds(r, outcome)
         PROVE TypeOK'
    BY <2>19 DEF BuildEnds
  <2>20. ASSUME NEW r \in Runs, KubectlApplies(r) PROVE TypeOK'
    BY <2>20 DEF KubectlApplies
  <2>21. ASSUME NEW r \in Runs, KubectlSucceeds(r) PROVE TypeOK'
    BY <2>21 DEF KubectlSucceeds
  <2>22. ASSUME NEW r \in Runs, KubectlFails(r) PROVE TypeOK'
    BY <2>22 DEF KubectlFails
  <2>23. ASSUME NEW r \in Runs, Cancel(r) PROVE TypeOK'
    BY <2>23 DEF Cancel
  <2>24. ASSUME NEW r \in Runs, Kill(r) PROVE TypeOK'
    BY <2>24 DEF Kill
  <2>25. ASSUME NEW n \in Names, NEW role \in Roles, StartPod(n, role) PROVE TypeOK'
    BY <2>25 DEF StartPod, Pod, Phases
  <2>26. ASSUME NEW n \in Names, NEW role \in Roles, FailPod(n, role) PROVE TypeOK'
    BY <2>26 DEF FailPod, KillKubectlIn, InPhase, Pod, Phases
  <2>27. ASSUME NEW n \in Names, NEW role \in Roles, RemovePod(n, role) PROVE TypeOK'
    BY <2>27 DEF RemovePod, KillKubectlIn, Pod, Phases, Absent
  <2>28. CASE UNCHANGED vars
    BY <2>28 DEF vars
  <2> HIDE DEF TypeOK, client, cluster, remote, Goto, ReturnErr, PCs
  <2> QED
    BY <2>1, <2>2, <2>3, <2>4, <2>5, <2>6, <2>7, <2>8, <2>9, <2>10, <2>11, <2>12,
       <2>13, <2>14, <2>15, <2>16, <2>17, <2>18, <2>19, <2>20, <2>21, <2>22, <2>23,
       <2>24, <2>25, <2>26, <2>27, <2>28
    DEF Next, Call, Stream, Kubelet
<1> QED
  BY <1>1, <1>2, PTL DEF Spec

-----------------------------------------------------------------------------
(***************************************************************************)
(* The inductive invariant.  Its parts are the facts the safety properties *)
(* silently rely on.                                                       *)
(***************************************************************************)

BeforeStream == {"prepare", "secret", "applier", "builder", "waitApplier",
                 "waitBuilder"}

\* Where Run stands says what it has deferred: a delete is deferred right
\* after its create, and the Secret's first.
Stages ==
  \A r \in Runs :
    /\ base[r] = NoName => /\ pc[r] \in {"prepare", "return", "dead"}
                           /\ deferred[r] = {}
                           /\ kubectl[r] = "idle"
    /\ pc[r] = "prepare" => base[r] = NoName
    /\ pc[r] \notin {"return", "dead"} => r \notin unsure
    /\ pc[r] \in BeforeStream => kubectl[r] = "idle"
    /\ pc[r] \in {"prepare", "secret"} => deferred[r] = {}
    /\ pc[r] \in {"applier", "builder", "waitApplier", "waitBuilder",
                  "stream", "join"} => "secret" \in deferred[r]
    /\ pc[r] \in {"builder", "waitApplier", "waitBuilder", "stream", "join"} =>
         "apply" \in deferred[r]
    /\ "build" \in deferred[r] => "apply" \in deferred[r]
    /\ "apply" \in deferred[r] => "secret" \in deferred[r]

\* A pod has an owner exactly while it exists.
Owned == \A k \in Names \X Roles : pods[k].owner = NoRun <=> pods[k].phase = "absent"

\* While a run holds its Secret, its applier pod can only have been started
\* with that Secret.
OwnCredential ==
  \A r \in Runs :
    /\ "secret" \in deferred[r]
    /\ pods[Key(r, "apply")].owner = r
    /\ pods[Key(r, "apply")].phase = "ready"
    => pods[Key(r, "apply")].cred = r

\* A pod with a kubectl in it was started and is not gone.
Executing ==
  \A r \in Runs : kubectl[r] = "running" =>
    pods[Key(r, "apply")].phase \in {"ready", "deleting"}

\* Run answers once, and success seen by the client was complete unless the
\* builder failed.
Answers ==
  \A r \in Runs :
    /\ r \notin Kustomize => source[r] = "ok"
    /\ pc[r] \notin {"return", "dead"} => result[r] = "none"
    /\ pc[r] = "stream" /\ kubectl[r] = "ok" =>
         source[r] = "failed" \/ applied[r] = NumDocs
    /\ applyErr[r] = "nil" => source[r] = "failed" \/ applied[r] = NumDocs

\* A run that is sure of its calls has a deferred delete for all that it owns.
Accounted ==
  \A r \in Runs : r \notin unsure =>
    /\ \A n \in Names : secrets[n] = r => n = base[r] /\ "secret" \in deferred[r]
    /\ \A n \in Names, role \in Roles : pods[<<n, role>>].owner = r =>
         /\ n = base[r]
         /\ role \in deferred[r] \/ pods[<<n, role>>].phase = "deleting"

IInv == /\ Stages /\ Owned /\ DeferredIsOwn /\ OwnCredential /\ Executing
        /\ AppliesAsCaller /\ Answers /\ NilMeansAll /\ Accounted

\* A run that has yet to create its Secret (createSecret) has no live pod.
LEMMA NoPodYet ==
  ASSUME TypeOK, Stages, Accounted, NEW r \in Runs, pc[r] = "secret",
         pods[<<base[r], "apply">>].owner = r
  PROVE  pods[<<base[r], "apply">>].phase = "deleting"
<1>1. r \notin unsure /\ deferred[r] = {} /\ base[r] \in Names
  BY RunsAssumption DEF TypeOK, Stages
<1> QED
  BY <1>1 DEF Accounted

\* One step of any run or of the cluster keeps the invariant.
LEMMA IInvStep == ASSUME TypeOK, TypeOK', IInv, [Next]_vars PROVE IInv'
<1> USE DEF IInv, TypeOK, Pod, client, cluster, remote, Goto, Key, BeforeStream, Stages, Owned,
           DeferredIsOwn, OwnCredential, Executing, AppliesAsCaller, Answers,
           NilMeansAll, Accounted
<1>1. ASSUME NEW r \in Runs, Prepare(r) PROVE IInv'
  BY <1>1, RunsAssumption DEF Prepare
<1>2. ASSUME NEW r \in Runs, PrepareFails(r) PROVE IInv'
  BY <1>2, RunsAssumption DEF PrepareFails, ReturnErr
<1>3. ASSUME NEW r \in Runs, CreateSecret(r) PROVE IInv'
  <2>1. Stages'
    BY <1>3, RunsAssumption DEF CreateSecret, SecretFree
  <2>2. Owned'
    BY <1>3, RunsAssumption DEF CreateSecret, SecretFree
  <2>3. DeferredIsOwn'
    BY <1>3, RunsAssumption DEF CreateSecret, SecretFree
  <2>4. OwnCredential'
    <3>1. pods[<<base[r], "apply">>].owner = r => pods[<<base[r], "apply">>].phase = "deleting"
      BY <1>3, NoPodYet DEF CreateSecret
    <3>2. pods' = pods /\ base' = base
      BY <1>3 DEF CreateSecret
    <3>3. \A s \in Runs : s # r => deferred'[s] = deferred[s]
      BY <1>3 DEF CreateSecret
    <3>4. ASSUME NEW s \in Runs, "secret" \in deferred'[s],
                 pods[Key(s, "apply")].owner = s, pods[Key(s, "apply")].phase = "ready"
          PROVE  pods[Key(s, "apply")].cred = s
      <4>1. s # r
        BY <3>1, <3>4
      <4> QED
        BY <3>3, <3>4, <4>1
    <3> QED
      BY <3>2, <3>4
  <2>5. Executing'
    BY <1>3, RunsAssumption DEF CreateSecret, SecretFree
  <2>6. AppliesAsCaller'
    BY <1>3, RunsAssumption DEF CreateSecret, SecretFree
  <2>7. Answers'
    BY <1>3, RunsAssumption DEF CreateSecret, SecretFree
  <2>8. NilMeansAll'
    BY <1>3, RunsAssumption DEF CreateSecret, SecretFree
  <2>9. Accounted'
    BY <1>3, RunsAssumption DEF CreateSecret, SecretFree
  <2> QED
    BY <2>1, <2>2, <2>3, <2>4, <2>5, <2>6, <2>7, <2>8, <2>9
<1>4. ASSUME NEW r \in Runs, CreateSecretFails(r) PROVE IInv'
  BY <1>4, RunsAssumption DEF CreateSecretFails, ReturnErr
<1>5. ASSUME NEW r \in Runs, CreateSecretReplyLost(r) PROVE IInv'
  BY <1>5, RunsAssumption DEF CreateSecretReplyLost, SecretFree, ReturnErr
<1>6. ASSUME NEW r \in Runs, NEW role \in Roles, CreatePod(r, role)
     PROVE IInv'
  <2>1. Stages'
    BY <1>6, RunsAssumption DEF CreatePod, CreatingPod, AfterCreate, Started
  <2>2. Owned'
    BY <1>6, RunsAssumption DEF CreatePod, CreatingPod, AfterCreate, Started
  <2>3. DeferredIsOwn'
    BY <1>6, RunsAssumption DEF CreatePod, CreatingPod, AfterCreate, Started
  <2>4. OwnCredential'
    BY <1>6, RunsAssumption DEF CreatePod, CreatingPod, AfterCreate, Started
  <2>5. Executing'
    BY <1>6, RunsAssumption DEF CreatePod, CreatingPod, AfterCreate, Started
  <2>6. AppliesAsCaller'
    BY <1>6, RunsAssumption DEF CreatePod, CreatingPod, AfterCreate, Started
  <2>7. Answers'
    BY <1>6, RunsAssumption DEF CreatePod, CreatingPod, AfterCreate, Started
  <2>8. NilMeansAll'
    BY <1>6, RunsAssumption DEF CreatePod, CreatingPod, AfterCreate, Started
  <2>9. Accounted'
    BY <1>6, RunsAssumption DEF CreatePod, CreatingPod, AfterCreate, Started
  <2> QED
    BY <2>1, <2>2, <2>3, <2>4, <2>5, <2>6, <2>7, <2>8, <2>9
<1>7. ASSUME NEW r \in Runs, NEW role \in Roles, CreatePodFails(r, role)
     PROVE IInv'
  BY <1>7, RunsAssumption DEF CreatePodFails, CreatingPod, ReturnErr
<1>8. ASSUME NEW r \in Runs, NEW role \in Roles, CreatePodReplyLost(r, role)
     PROVE IInv'
  <2>1. Stages'
    BY <1>8, RunsAssumption DEF CreatePodReplyLost, CreatingPod, Started, ReturnErr
  <2>2. Owned'
    BY <1>8, RunsAssumption DEF CreatePodReplyLost, CreatingPod, Started, ReturnErr
  <2>3. DeferredIsOwn'
    BY <1>8, RunsAssumption DEF CreatePodReplyLost, CreatingPod, Started, ReturnErr
  <2>4. OwnCredential'
    BY <1>8, RunsAssumption DEF CreatePodReplyLost, CreatingPod, Started, ReturnErr
  <2>5. Executing'
    BY <1>8, RunsAssumption DEF CreatePodReplyLost, CreatingPod, Started, ReturnErr
  <2>6. AppliesAsCaller'
    BY <1>8, RunsAssumption DEF CreatePodReplyLost, CreatingPod, Started, ReturnErr
  <2>7. Answers'
    BY <1>8, RunsAssumption DEF CreatePodReplyLost, CreatingPod, Started, ReturnErr
  <2>8. NilMeansAll'
    BY <1>8, RunsAssumption DEF CreatePodReplyLost, CreatingPod, Started, ReturnErr
  <2>9. Accounted'
    BY <1>8, RunsAssumption DEF CreatePodReplyLost, CreatingPod, Started, ReturnErr
  <2> QED
    BY <2>1, <2>2, <2>3, <2>4, <2>5, <2>6, <2>7, <2>8, <2>9
<1>9. ASSUME NEW r \in Runs, NEW role \in Roles, WaitReady(r, role)
     PROVE IInv'
  BY <1>9, RunsAssumption DEF WaitReady, Waiting, AfterWait
<1>10. ASSUME NEW r \in Runs, NEW role \in Roles, WaitFails(r, role)
     PROVE IInv'
  BY <1>10, RunsAssumption DEF WaitFails, Waiting, ReturnErr
<1>11. ASSUME NEW r \in Runs, NEW role \in Roles, DeletePod(r, role)
     PROVE IInv'
  <2>1. Stages'
    BY <1>11, RunsAssumption DEF DeletePod, Popped, Next2Delete, InPhase
  <2>2. Owned'
    BY <1>11, RunsAssumption DEF DeletePod, Popped, Next2Delete, InPhase
  <2>3. DeferredIsOwn'
    BY <1>11, RunsAssumption DEF DeletePod, Popped, Next2Delete, InPhase
  <2>4. OwnCredential'
    <3>1. base' = base /\ \A s \in Runs : deferred'[s] \subseteq deferred[s]
      BY <1>11 DEF DeletePod, Popped
    <3>2. \A k \in Names \X Roles : pods'[k] = pods[k] \/ pods'[k].phase # "ready"
      BY <1>11 DEF DeletePod, InPhase
    <3>3. ASSUME NEW s \in Runs, "secret" \in deferred'[s],
                 pods'[Key(s, "apply")].owner = s, pods'[Key(s, "apply")].phase = "ready"
          PROVE  pods'[Key(s, "apply")].cred = s
      <4>1. "secret" \in deferred[s]
        BY <3>1, <3>3
      <4>2. Key(s, "apply") \in Names \X Roles
        BY <4>1
      <4>3. pods'[Key(s, "apply")] = pods[Key(s, "apply")]
        BY <3>2, <3>3, <4>2
      <4>4. pods[Key(s, "apply")].owner = s /\ pods[Key(s, "apply")].phase = "ready"
        BY <3>3, <4>3
      <4>5. pods[Key(s, "apply")].cred = s
        <5> HIDE DEF TypeOK, Stages, Owned, DeferredIsOwn, Executing, AppliesAsCaller, Answers,
                     NilMeansAll, Accounted, Key
        <5> QED
          BY <4>1, <4>4
      <4> QED
        BY <4>3, <4>5
    <3> QED
      BY <3>1, <3>3
  <2>5. Executing'
    BY <1>11, RunsAssumption DEF DeletePod, Popped, Next2Delete, InPhase
  <2>6. AppliesAsCaller'
    BY <1>11, RunsAssumption DEF DeletePod, Popped, Next2Delete, InPhase
  <2>7. Answers'
    BY <1>11, RunsAssumption DEF DeletePod, Popped, Next2Delete, InPhase
  <2>8. NilMeansAll'
    BY <1>11, RunsAssumption DEF DeletePod, Popped, Next2Delete, InPhase
  <2>9. Accounted'
    BY <1>11, RunsAssumption DEF DeletePod, Popped, Next2Delete, InPhase
  <2> QED
    BY <2>1, <2>2, <2>3, <2>4, <2>5, <2>6, <2>7, <2>8, <2>9
<1>12. ASSUME NEW r \in Runs, StreamEnds(r) PROVE IInv'
  BY <1>12, RunsAssumption DEF StreamEnds, ApplyReturns, Attached
<1>13. ASSUME NEW r \in Runs, Join(r) PROVE IInv'
  BY <1>13, RunsAssumption DEF Join, JoinResult
<1>14. ASSUME NEW r \in Runs, DeleteSecret(r) PROVE IInv'
  BY <1>14, RunsAssumption DEF DeleteSecret, Popped, Next2Delete
<1>15. ASSUME NEW r \in Runs, NEW obj \in {"secret", "apply", "build"}, DeleteFails(r, obj)
     PROVE IInv'
  BY <1>15, RunsAssumption DEF DeleteFails, Popped, Next2Delete
<1>16. ASSUME NEW r \in Runs, ExecStarts(r) PROVE IInv'
  <2>1. base[r] \in Names /\ Key(r, "apply") \in Names \X Roles
    BY <1>16 DEF ExecStarts
  <2>2. pods[Key(r, "apply")].owner = r /\ pods[Key(r, "apply")].cred = r
    BY <1>16, <2>1 DEF ExecStarts
  <2>3. pods' = pods /\ base' = base /\ pods[Key(r, "apply")].phase = "ready"
    BY <1>16 DEF ExecStarts
  <2>4. \A s \in Runs : s # r => kubectl'[s] = kubectl[s]
    BY <1>16 DEF ExecStarts
  <2>5. ASSUME NEW s \in Runs, kubectl'[s] = "running"
        PROVE /\ pods[Key(s, "apply")].phase \in {"ready", "deleting"}
              /\ pods[Key(s, "apply")].owner = s
              /\ pods[Key(s, "apply")].cred = s
    <3>1. CASE s = r
      BY <2>2, <2>3, <3>1
    <3>2. CASE s # r
      BY <2>4, <2>5, <3>2
    <3> QED
      BY <3>1, <3>2
  <2>6. Executing' /\ AppliesAsCaller'
    BY <2>3, <2>5
  <2>7. Stages'
    BY <1>16, RunsAssumption DEF ExecStarts
  <2>8. Owned'
    BY <1>16, RunsAssumption DEF ExecStarts
  <2>9. DeferredIsOwn'
    BY <1>16, RunsAssumption DEF ExecStarts
  <2>10. OwnCredential'
    BY <1>16, RunsAssumption DEF ExecStarts
  <2>11. Answers'
    BY <1>16, RunsAssumption DEF ExecStarts
  <2>12. NilMeansAll'
    BY <1>16, RunsAssumption DEF ExecStarts
  <2>13. Accounted'
    BY <1>16, RunsAssumption DEF ExecStarts
  <2> QED
    BY <2>6, <2>7, <2>8, <2>9, <2>10, <2>11, <2>12, <2>13
<1>17. ASSUME NEW r \in Runs, Deliver(r) PROVE IInv'
  BY <1>17, RunsAssumption DEF Deliver, Attached
<1>18. ASSUME NEW r \in Runs, StreamBreaks(r) PROVE IInv'
  BY <1>18, RunsAssumption DEF StreamBreaks, ApplyReturns
<1>19. ASSUME NEW r \in Runs, NEW outcome \in {"ok", "failed"}, BuildEnds(r, outcome)
     PROVE IInv'
  BY <1>19, RunsAssumption DEF BuildEnds
<1>20. ASSUME NEW r \in Runs, KubectlApplies(r) PROVE IInv'
  BY <1>20, RunsAssumption DEF KubectlApplies
<1>21. ASSUME NEW r \in Runs, KubectlSucceeds(r) PROVE IInv'
  BY <1>21, RunsAssumption DEF KubectlSucceeds, Eof, Attached
<1>22. ASSUME NEW r \in Runs, KubectlFails(r) PROVE IInv'
  BY <1>22, RunsAssumption DEF KubectlFails
<1>23. ASSUME NEW r \in Runs, Cancel(r) PROVE IInv'
  BY <1>23, RunsAssumption DEF Cancel
<1>24. ASSUME NEW r \in Runs, Kill(r) PROVE IInv'
  BY <1>24, RunsAssumption DEF Kill
<1>25. ASSUME NEW n \in Names, NEW role \in Roles, StartPod(n, role)
     PROVE IInv'
  <2>1. ASSUME NEW s \in Runs, "secret" \in deferred[s] \/ kubectl[s] # "idle"
        PROVE base[s] \in Names /\ Key(s, "apply") \in Names \X Roles
    BY <2>1
  <2>2. OwnCredential'
    <3> SUFFICES ASSUME NEW s \in Runs, "secret" \in deferred'[s],
                        pods'[Key(s, "apply")'].owner = s,
                        pods'[Key(s, "apply")'].phase = "ready"
                 PROVE pods'[Key(s, "apply")'].cred = s
      OBVIOUS
    <3>1. CASE Key(s, "apply") = <<n, role>>
      <4>1. role = "apply" /\ n = base[s] /\ "secret" \in deferred[s] /\ base' = base
        BY <1>25, <3>1 DEF StartPod
      <4>2. secrets[n] = s
        BY <4>1
      <4>3. pods'[<<n, role>>].cred = s
        BY <1>25, <4>1, <4>2 DEF StartPod
      <4> QED
        BY <3>1, <4>1, <4>3
    <3>2. CASE Key(s, "apply") # <<n, role>>
      BY <1>25, <2>1, <3>2 DEF StartPod
    <3> QED
      BY <3>1, <3>2
  <2>3. Executing' /\ AppliesAsCaller'
    <3> SUFFICES ASSUME NEW s \in Runs, kubectl'[s] = "running"
                 PROVE /\ pods'[Key(s, "apply")'].phase \in {"ready", "deleting"}
                       /\ pods'[Key(s, "apply")'].owner = s
                       /\ pods'[Key(s, "apply")'].cred = s
      OBVIOUS
    <3>1. kubectl[s] = "running" /\ Key(s, "apply") \in Names \X Roles
      BY <1>25, <2>1 DEF StartPod
    <3>2. Key(s, "apply") # <<n, role>>
      BY <1>25, <3>1 DEF StartPod
    <3> QED
      BY <1>25, <3>1, <3>2 DEF StartPod
  <2>4. Stages'
    BY <1>25, RunsAssumption DEF StartPod
  <2>5. Owned'
    BY <1>25, RunsAssumption DEF StartPod
  <2>6. DeferredIsOwn'
    BY <1>25, RunsAssumption DEF StartPod
  <2>7. Answers'
    BY <1>25, RunsAssumption DEF StartPod
  <2>8. NilMeansAll'
    BY <1>25, RunsAssumption DEF StartPod
  <2>9. Accounted'
    BY <1>25, RunsAssumption DEF StartPod
  <2> QED
    BY <2>1, <2>2, <2>3, <2>4, <2>5, <2>6, <2>7, <2>8, <2>9
<1>26. ASSUME NEW n \in Names, NEW role \in Roles, FailPod(n, role)
     PROVE IInv'
  <2>1. ASSUME NEW s \in Runs, "secret" \in deferred[s] \/ kubectl[s] # "idle"
        PROVE base[s] \in Names /\ Key(s, "apply") \in Names \X Roles
    BY <2>1
  <2>2. OwnCredential'
    <3> SUFFICES ASSUME NEW s \in Runs, "secret" \in deferred'[s],
                        pods'[Key(s, "apply")'].owner = s,
                        pods'[Key(s, "apply")'].phase = "ready"
                 PROVE pods'[Key(s, "apply")'].cred = s
      OBVIOUS
    <3>1. CASE Key(s, "apply") = <<n, role>>
      BY <1>26, <2>1, <3>1, RunsAssumption DEF FailPod, KillKubectlIn, InPhase
    <3>2. CASE Key(s, "apply") # <<n, role>>
      BY <1>26, <2>1, <3>2 DEF FailPod, KillKubectlIn, InPhase
    <3> QED
      BY <3>1, <3>2
  <2>3. Executing' /\ AppliesAsCaller'
    <3> SUFFICES ASSUME NEW s \in Runs, kubectl'[s] = "running"
                 PROVE /\ pods'[Key(s, "apply")'].phase \in {"ready", "deleting"}
                       /\ pods'[Key(s, "apply")'].owner = s
                       /\ pods'[Key(s, "apply")'].cred = s
      OBVIOUS
    <3>1. kubectl[s] = "running" /\ Key(s, "apply") \in Names \X Roles
      BY <1>26, <2>1 DEF FailPod, KillKubectlIn, InPhase
    <3>2. Key(s, "apply") # <<n, role>>
      BY <1>26, <3>1 DEF FailPod, KillKubectlIn, InPhase
    <3> QED
      BY <1>26, <3>1, <3>2 DEF FailPod, KillKubectlIn, InPhase
  <2>4. Stages'
    BY <1>26, RunsAssumption DEF FailPod, KillKubectlIn, InPhase
  <2>5. Owned'
    BY <1>26, RunsAssumption DEF FailPod, KillKubectlIn, InPhase
  <2>6. DeferredIsOwn'
    BY <1>26, RunsAssumption DEF FailPod, KillKubectlIn, InPhase
  <2>7. Answers'
    BY <1>26, RunsAssumption DEF FailPod, KillKubectlIn, InPhase
  <2>8. NilMeansAll'
    BY <1>26, RunsAssumption DEF FailPod, KillKubectlIn, InPhase
  <2>9. Accounted'
    BY <1>26, RunsAssumption DEF FailPod, KillKubectlIn, InPhase
  <2> QED
    BY <2>1, <2>2, <2>3, <2>4, <2>5, <2>6, <2>7, <2>8, <2>9
<1>27. ASSUME NEW n \in Names, NEW role \in Roles, RemovePod(n, role)
     PROVE IInv'
  <2>1. ASSUME NEW s \in Runs, "secret" \in deferred[s] \/ kubectl[s] # "idle"
        PROVE base[s] \in Names /\ Key(s, "apply") \in Names \X Roles
    BY <2>1
  <2>2. OwnCredential'
    <3> SUFFICES ASSUME NEW s \in Runs, "secret" \in deferred'[s],
                        pods'[Key(s, "apply")'].owner = s,
                        pods'[Key(s, "apply")'].phase = "ready"
                 PROVE pods'[Key(s, "apply")'].cred = s
      OBVIOUS
    <3>1. CASE Key(s, "apply") = <<n, role>>
      BY <1>27, <2>1, <3>1, RunsAssumption DEF RemovePod, KillKubectlIn, Absent
    <3>2. CASE Key(s, "apply") # <<n, role>>
      BY <1>27, <2>1, <3>2 DEF RemovePod, KillKubectlIn, Absent
    <3> QED
      BY <3>1, <3>2
  <2>3. Executing' /\ AppliesAsCaller'
    <3> SUFFICES ASSUME NEW s \in Runs, kubectl'[s] = "running"
                 PROVE /\ pods'[Key(s, "apply")'].phase \in {"ready", "deleting"}
                       /\ pods'[Key(s, "apply")'].owner = s
                       /\ pods'[Key(s, "apply")'].cred = s
      OBVIOUS
    <3>1. kubectl[s] = "running" /\ Key(s, "apply") \in Names \X Roles
      BY <1>27, <2>1 DEF RemovePod, KillKubectlIn, Absent
    <3>2. Key(s, "apply") # <<n, role>>
      BY <1>27, <3>1 DEF RemovePod, KillKubectlIn, Absent
    <3> QED
      BY <1>27, <3>1, <3>2 DEF RemovePod, KillKubectlIn, Absent
  <2>4. Stages'
    BY <1>27, RunsAssumption DEF RemovePod, KillKubectlIn, Absent
  <2>5. Owned'
    BY <1>27, RunsAssumption DEF RemovePod, KillKubectlIn, Absent
  <2>6. DeferredIsOwn'
    BY <1>27, RunsAssumption DEF RemovePod, KillKubectlIn, Absent
  <2>7. Answers'
    BY <1>27, RunsAssumption DEF RemovePod, KillKubectlIn, Absent
  <2>8. NilMeansAll'
    BY <1>27, RunsAssumption DEF RemovePod, KillKubectlIn, Absent
  <2>9. Accounted'
    BY <1>27, RunsAssumption DEF RemovePod, KillKubectlIn, Absent
  <2> QED
    BY <2>1, <2>2, <2>3, <2>4, <2>5, <2>6, <2>7, <2>8, <2>9
<1>28. CASE UNCHANGED vars
  BY <1>28 DEF vars
<1> HIDE DEF IInv, TypeOK, Pod, client, cluster, remote, Goto, Key, BeforeStream, Stages, Owned,
           DeferredIsOwn, OwnCredential, Executing, AppliesAsCaller, Answers,
           NilMeansAll, Accounted
<1> QED
  BY <1>1, <1>2, <1>3, <1>4, <1>5, <1>6, <1>7, <1>8, <1>9, <1>10, <1>11, <1>12,
     <1>13, <1>14, <1>15, <1>16, <1>17, <1>18, <1>19, <1>20, <1>21, <1>22, <1>23,
     <1>24, <1>25, <1>26, <1>27, <1>28
  DEF Next, Call, Stream, Kubelet

\* IInv holds in every reachable state of the runs and the namespace.
THEOREM Invariance == Spec => []IInv
<1>1. Init => IInv
  BY RunsAssumption
  DEF Init, IInv, BeforeStream, Stages, Owned, DeferredIsOwn, OwnCredential, Executing,
      AppliesAsCaller, Answers, NilMeansAll, Accounted, Absent, Key
<1>2. TypeOK /\ TypeOK' /\ IInv /\ [Next]_vars => IInv'
  BY IInvStep
<1> QED
  BY <1>1, <1>2, TypeCorrect, PTL DEF Spec

-----------------------------------------------------------------------------
(***************************************************************************)
(* What the invariant is for.                                              *)
(***************************************************************************)

\* A deferred delete (deleteSecret, deletePod) names the run's own objects.
THEOREM DefersOwn == Spec => []DeferredIsOwn
<1>1. IInv => DeferredIsOwn
  BY DEF IInv
<1> QED
  BY <1>1, Invariance, PTL

\* The remote kubectl (apply) runs with its own caller's credential.
THEOREM RunsAsCaller == Spec => []AppliesAsCaller
<1>1. IInv => AppliesAsCaller
  BY DEF IInv
<1> QED
  BY <1>1, Invariance, PTL

\* Run returns nil only when the whole manifest was applied (pipeKustomize).
THEOREM NilIsComplete == Spec => []NilMeansAll
<1>1. IInv => NilMeansAll
  BY DEF IInv
<1> QED
  BY <1>1, Invariance, PTL

\* Every path out of Run leaves nothing of its own behind, when its calls were
\* answered.
THEOREM ExitsClean == Spec => []CleanExit
<1>1. TypeOK /\ IInv => CleanExit
  <2> SUFFICES ASSUME TypeOK, Accounted, NEW r \in Runs, Returned(r), r \notin unsure
               PROVE /\ \A n \in Names : secrets[n] # r
                     /\ \A n \in Names, role \in Roles :
                          pods[<<n, role>>].owner = r => pods[<<n, role>>].phase = "deleting"
    BY DEF CleanExit, IInv
  <2>1. deferred[r] = {}
    BY DEF Returned
  <2>2. \A n \in Names : secrets[n] # r
    BY <2>1 DEF Accounted
  <2>3. ASSUME NEW n \in Names, NEW role \in Roles, pods[<<n, role>>].owner = r
        PROVE pods[<<n, role>>].phase = "deleting"
    BY <2>1, <2>3 DEF Accounted
  <2> QED
    BY <2>2, <2>3
<1> QED
  BY <1>1, Invariance, TypeCorrect, PTL

\* Secrets change only in createSecret and deleteSecret.
LEMMA SecretsStep ==
  ASSUME [Next]_vars
  PROVE  secrets' = secrets \/ \E r \in Runs : \/ CreateSecret(r)
                                               \/ CreateSecretReplyLost(r)
                                               \/ DeleteSecret(r)
BY DEF Next, Call, Stream, Kubelet, vars, client, cluster, Prepare, PrepareFails,
   CreateSecretFails, CreatePod, CreatePodFails, CreatePodReplyLost, WaitReady, WaitFails,
   DeletePod, StreamEnds, StreamBreaks, ApplyReturns, Join, DeleteFails, ExecStarts,
   Deliver, BuildEnds, KubectlApplies, KubectlSucceeds, KubectlFails, Cancel, Kill,
   StartPod, FailPod, RemovePod

\* Only deletePod marks a pod for deletion.
LEMMA PodsStep ==
  ASSUME TypeOK, [Next]_vars, NEW n \in Names, NEW role \in Roles,
         pods'[<<n, role>>].phase = "deleting", pods[<<n, role>>].phase # "deleting"
  PROVE  \E r \in Runs, ro \in Roles : DeletePod(r, ro)
<1> DEFINE Marks == pods'[<<n, role>>].phase = "deleting"
<1>1. ASSUME NEW r \in Runs, NEW ro \in Roles, CreatePod(r, ro) \/ CreatePodReplyLost(r, ro)
      PROVE ~Marks
  BY <1>1 DEF CreatePod, CreatePodReplyLost, Started, TypeOK
<1>2. ASSUME NEW m \in Names, NEW ro \in Roles, Kubelet(m, ro)
      PROVE ~Marks
  BY <1>2 DEF Kubelet, StartPod, FailPod, RemovePod, InPhase, Absent, TypeOK
<1> QED
  BY <1>1, <1>2
  DEF Next, Call, Stream, vars, client, cluster, Prepare, PrepareFails, CreateSecret,
      CreateSecretFails, CreateSecretReplyLost, CreatePodFails, WaitReady, WaitFails,
      StreamEnds, StreamBreaks, ApplyReturns, Join, DeleteSecret, DeleteFails, ExecStarts,
      Deliver, BuildEnds, KubectlApplies, KubectlSucceeds, KubectlFails, Cancel, Kill

\* A Secret or a pod is deleted only by the deferred call of the run that
\* created it (deleteSecret, deletePod).
THEOREM DeletesOwn == Spec => DeletesOnlyOwn
<1> DEFINE OwnSecret(n) ==
      secrets[n] # NoRun /\ secrets'[n] # secrets[n] =>
        "secret" \in deferred[secrets[n]] \ deferred'[secrets[n]]
<1> DEFINE OwnPod(n, role) ==
      LET k == <<n, role>>
      IN  pods'[k].phase = "deleting" /\ pods[k].phase # "deleting" =>
            role \in deferred[pods[k].owner] \ deferred'[pods[k].owner]
<1>1. ASSUME TypeOK, IInv, [Next]_vars, NEW n \in Names PROVE OwnSecret(n)
  <2>1. ASSUME NEW r \in Runs, CreateSecret(r) \/ CreateSecretReplyLost(r)
        PROVE OwnSecret(n)
    BY <1>1, <2>1 DEF CreateSecret, CreateSecretReplyLost, SecretFree, TypeOK
  <2>2. ASSUME NEW r \in Runs, DeleteSecret(r) PROVE OwnSecret(n)
    <3>1. secrets[base[r]] = r /\ "secret" \in deferred[r]
      BY <1>1, <2>2 DEF IInv, DeferredIsOwn, DeleteSecret, Next2Delete
    <3> QED
      BY <1>1, <2>2, <3>1 DEF DeleteSecret, Popped, TypeOK
  <2> QED
    BY <1>1, <2>1, <2>2, SecretsStep
<1>2. ASSUME TypeOK, IInv, [Next]_vars, NEW n \in Names, NEW role \in Roles
      PROVE OwnPod(n, role)
  <2> SUFFICES ASSUME pods'[<<n, role>>].phase = "deleting",
                      pods[<<n, role>>].phase # "deleting"
               PROVE role \in deferred[pods[<<n, role>>].owner]
                              \ deferred'[pods[<<n, role>>].owner]
    OBVIOUS
  <2>1. PICK r \in Runs, ro \in Roles : DeletePod(r, ro)
    BY <1>2, PodsStep
  <2>2. Key(r, ro) = <<n, role>> /\ ro \in deferred[r] /\ pods[Key(r, ro)].phase # "absent"
    BY <1>2, <2>1 DEF DeletePod, Next2Delete, Key, TypeOK
  <2>3. pods[Key(r, ro)].owner = r /\ ro = role
    BY <1>2, <2>2 DEF IInv, DeferredIsOwn, Owned, Key
  <2> QED
    BY <1>2, <2>1, <2>2, <2>3 DEF DeletePod, Popped, TypeOK
<1>3. TypeOK /\ IInv /\ [Next]_vars =>
        [/\ \A n \in Names : OwnSecret(n)
         /\ \A n \in Names, role \in Roles : OwnPod(n, role)]_vars
  BY <1>1, <1>2
<1> QED
  BY <1>3, Invariance, TypeCorrect, PTL DEF Spec, DeletesOnlyOwn

\* A step that answers is a return statement of a run that has not answered
\* yet, and applies nothing.
LEMMA AnswerStep ==
  ASSUME TypeOK, IInv, [Next]_vars, NEW r \in Runs, result'[r] # result[r]
  PROVE  result[r] = "none" /\ applied' = applied
<1> DEFINE Answered == result[r] = "none" /\ applied' = applied
<1> USE DEF TypeOK, IInv, Answers, remote
<1>1. ASSUME NEW s \in Runs,
             PrepareFails(s) \/ CreateSecretFails(s) \/ CreateSecretReplyLost(s)
      PROVE Answered
  BY <1>1 DEF PrepareFails, CreateSecretFails, CreateSecretReplyLost, ReturnErr, Goto
<1>2. ASSUME NEW s \in Runs, NEW role \in Roles,
             CreatePodFails(s, role) \/ CreatePodReplyLost(s, role) \/ WaitFails(s, role)
      PROVE Answered
  BY <1>2 DEF CreatePodFails, CreatePodReplyLost, WaitFails, CreatingPod, Waiting, ReturnErr, Goto
<1>3. ASSUME NEW s \in Runs, StreamEnds(s) \/ StreamBreaks(s) PROVE Answered
  BY <1>3 DEF StreamEnds, StreamBreaks, ApplyReturns, Attached, Goto
<1>4. ASSUME NEW s \in Runs, Join(s) PROVE Answered
  BY <1>4 DEF Join, Goto
<1> HIDE DEF TypeOK, IInv, Answers
<1> QED
  BY <1>1, <1>2, <1>3, <1>4
  DEF Next, Call, Stream, Kubelet, vars, client, Prepare, CreateSecret, CreatePod, WaitReady,
      DeletePod, DeleteSecret, DeleteFails, ExecStarts, Deliver, BuildEnds, KubectlApplies,
      KubectlSucceeds, KubectlFails, Cancel, Kill, StartPod, FailPod, RemovePod

\* Documents are applied one at a time, by a kubectl that has them.
LEMMA AppliedStep ==
  ASSUME TypeOK, [Next]_vars, NEW r \in Runs, applied'[r] # applied[r]
  PROVE  applied[r] < NumDocs /\ applied'[r] = applied[r] + 1 /\ result' = result
<1>1. PICK s \in Runs : KubectlApplies(s)
  BY DEF Next, Call, Stream, Kubelet, vars, client, remote, Prepare, PrepareFails,
     CreateSecret, CreateSecretFails, CreateSecretReplyLost, CreatePod, CreatePodFails,
     CreatePodReplyLost, WaitReady, WaitFails, DeletePod, StreamEnds, StreamBreaks,
     ApplyReturns, Join, DeleteSecret, DeleteFails, ExecStarts, Deliver, BuildEnds,
     KubectlSucceeds, KubectlFails, Cancel, Kill, StartPod, FailPod, RemovePod
<1> QED
  BY <1>1, RunsAssumption DEF KubectlApplies, TypeOK, client

\* Every run, seen through applied and result, is a behaviour of ApplyOutcome:
\* Run answers once, and nil only after the last document.
THEOREM RefinesOutcome == Spec => KeepsPromise
<1>1. Init => \A r \in Runs : Outcome(r)!Init
  BY DEF Init, Outcome!Init
<1>2. ASSUME TypeOK, TypeOK', IInv, IInv', [Next]_vars, NEW r \in Runs
      PROVE [Outcome(r)!Next]_<<applied[r], result[r]>>
  <2>1. CASE applied'[r] # applied[r]
    BY <1>2, <2>1, AppliedStep DEF Outcome!Next, Outcome!ApplyOne
  <2>2. CASE result'[r] # result[r]
    <3>1. result[r] = "none" /\ applied' = applied
      BY <1>2, <2>2, AnswerStep
    <3>2. result'[r] \in {"nil", "err"} /\ (result'[r] = "nil" => applied'[r] = NumDocs)
      BY <1>2, <2>2, <3>1 DEF TypeOK, IInv, NilMeansAll
    <3> QED
      BY <3>1, <3>2 DEF Outcome!Next, Outcome!AnswerNil, Outcome!AnswerErr
  <2> QED
    BY <2>1, <2>2
<1>3. TypeOK /\ TypeOK' /\ IInv /\ IInv' /\ [Next]_vars =>
        [\A r \in Runs : [Outcome(r)!Next]_<<applied[r], result[r]>>]_<<applied, result>>
  BY <1>2
<1> QED
  BY <1>1, <1>3, TypeCorrect, Invariance, PTL DEF Spec, KeepsPromise
=============================================================================
