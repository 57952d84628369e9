------------------------ MODULE KustomizePipeProofs ------------------------
(***************************************************************************)
(* pipeKustomize implements ApplyOutcome, for any number of documents.     *)
(***************************************************************************)
EXTENDS KustomizePipe, TLAPS

\* The goroutine that returns is the one that answers, and each process's
\* status is passed on as it is.
Answered ==
  /\ result = "none" <=> main # "returned"
  /\ applyErr = "none" <=> main = "applying"
  /\ builder = "streaming" <=> buildErr = "none"
  /\ kustomize = "ok" => made = NumDocs

\* A builder that ended well has had all of its documents taken from the pipe.
BuiltWhole == buildErr = "nil" => kustomize = "ok" /\ piped = NumDocs

(***************************************************************************)
(* Between the pipe and kubectl: before the exec nothing is read; while it *)
(* runs and the client is connected, what was read was delivered, except   *)
(* for the document in the copier's hands; and the remote stdin is closed  *)
(* only by a copier that has met the end of the pipe.                      *)
(***************************************************************************)
InTransit ==
  /\ kubectl = "idle" => piped = 0 /\ got = 0 /\ copier = "reading" /\ stdin = "open"
  /\ kubectl = "running" /\ main = "applying" =>
       /\ copier = "writing" => piped = got + 1
       /\ copier # "writing" => piped = got
       /\ copier = "done" => stdin = "closed"
  /\ stdin = "closed" => copier = "done" /\ builder = "done"

(***************************************************************************)
(* A kubectl that succeeded has applied what it received; if the client    *)
(* was there to see it, it had received all that was read from the pipe.   *)
(***************************************************************************)
SeenSuccess ==
  /\ kubectl = "ok" => applied = got
  /\ kubectl = "ok" /\ main = "applying" => stdin = "closed" /\ piped = got
  /\ applyErr = "nil" => kubectl = "ok" /\ stdin = "closed" /\ piped = got

\* The answer, once it is given.
NilWhole == result = "nil" => applied = NumDocs

IInv == TypeOK /\ Answered /\ BuiltWhole /\ InTransit /\ SeenSuccess /\ NilWhole

-----------------------------------------------------------------------------
\* Nothing is made, piped or applied yet.
LEMMA IInvInitially == Init => IInv
<1> SUFFICES ASSUME Init PROVE IInv
  OBVIOUS
<1>1. canceled \in BOOLEAN
  BY DEF Init
<1>2. TypeOK
  BY <1>1, PipeAssumption DEF Init, TypeOK
<1>3. Answered /\ BuiltWhole /\ InTransit /\ SeenSuccess /\ NilWhole
  BY DEF Init, Answered, BuiltWhole, InTransit, SeenSuccess, NilWhole
<1> QED BY <1>2, <1>3 DEF IInv

\* One step of a goroutine, of a remote process or of the user keeps the invariant.
LEMMA IInvInductive == IInv /\ [Next]_vars => IInv'
<1> SUFFICES ASSUME IInv, [Next]_vars PROVE IInv'
  OBVIOUS
<1> USE PipeAssumption DEF IInv, TypeOK, Answered, BuiltWhole, InTransit, SeenSuccess, NilWhole,
        mainVars, buildVars, kubectlVars
<1>1. CASE KustomizeWrites
  BY <1>1 DEF KustomizeWrites
<1>2. ASSUME NEW status \in {"ok", "failed"}, KustomizeExits(status) PROVE IInv'
  BY <1>2 DEF KustomizeExits
<1>3. CASE BuilderStreamEnds
  BY <1>3 DEF BuilderStreamEnds, BuilderCloses
<1>4. CASE BuilderStreamBreaks
  BY <1>4 DEF BuilderStreamBreaks, BuilderCloses
<1>5. CASE BuilderCanceled
  BY <1>5 DEF BuilderCanceled, BuilderCloses
<1>6. CASE CopierReads
  BY <1>6 DEF CopierReads
<1>7. CASE CopierDelivers
  BY <1>7 DEF CopierDelivers, Connected
<1>8. ASSUME NEW next \in {"reading", "done"}, CopierWritesInVain(next) PROVE IInv'
  BY <1>8 DEF CopierWritesInVain
<1>9. CASE CopierEnds
  BY <1>9 DEF CopierEnds
<1>10. CASE ExecStarts
  BY <1>10 DEF ExecStarts
<1>11. CASE KubectlApplies
  BY <1>11 DEF KubectlApplies, Eof
<1>12. CASE KubectlSucceeds
  BY <1>12 DEF KubectlSucceeds, Eof
<1>13. CASE KubectlFails
  BY <1>13 DEF KubectlFails
<1>14. CASE ApplyStreamEnds
  BY <1>14 DEF ApplyStreamEnds, ApplyReturns
<1>15. CASE ApplyStreamBreaks
  BY <1>15 DEF ApplyStreamBreaks, ApplyReturns
<1>16. CASE ApplyCanceled
  BY <1>16 DEF ApplyCanceled, ApplyReturns
<1>17. CASE Join
  BY <1>17 DEF Join
<1>18. CASE Cancel
  BY <1>18 DEF Cancel
<1>19. CASE UNCHANGED vars
  BY <1>19 DEF vars
<1> HIDE DEF IInv, TypeOK, Answered, BuiltWhole, InTransit, SeenSuccess, NilWhole
<1> QED
  BY <1>1, <1>2, <1>3, <1>4, <1>5, <1>6, <1>7, <1>8, <1>9, <1>10,
     <1>11, <1>12, <1>13, <1>14, <1>15, <1>16, <1>17, <1>18, <1>19
  DEF Next, Kustomization, Builder, Copier, Kubectl, Main
\* Type correctness; that no document is received that was not read, or applied
\* that was not received, needs InTransit.
THEOREM TypeCorrect == Spec => []TypeOK
<1>1. IInv => TypeOK
  BY DEF IInv
<1> QED BY IInvInitially, IInvInductive, <1>1, PTL DEF Spec

\* All steps but kubectl's and Join leave the outcome alone.
LEMMA OutcomeUnchanged ==
  ASSUME [Next]_vars, ~KubectlApplies, ~Join
  PROVE  UNCHANGED <<applied, result>>
<1> USE DEF mainVars, buildVars, kubectlVars
<1>1. CASE Kustomization
  BY <1>1 DEF Kustomization, KustomizeWrites, KustomizeExits
<1>2. CASE Builder \/ BuilderStreamBreaks
  BY <1>2 DEF Builder, BuilderStreamEnds, BuilderCanceled, BuilderStreamBreaks, BuilderCloses
<1>3. CASE Copier
  BY <1>3 DEF Copier, CopierReads, CopierDelivers, CopierEnds, CopierWritesInVain
<1>4. CASE Kubectl
  BY <1>4 DEF Kubectl, KubectlSucceeds, KubectlFails
<1>5. CASE Main \/ ApplyStreamBreaks
  BY <1>5 DEF Main, ExecStarts, ApplyStreamEnds, ApplyCanceled, ApplyStreamBreaks, ApplyReturns
<1>6. CASE Cancel
  BY <1>6 DEF Cancel
<1>7. CASE UNCHANGED vars
  BY <1>7 DEF vars
<1> QED
  BY <1>1, <1>2, <1>3, <1>4, <1>5, <1>6, <1>7 DEF Next

(***************************************************************************)
(* pipeKustomize implements ApplyOutcome: it answers once, and nil only    *)
(* when every rendered document has been applied.  A prefix that a closed  *)
(* pipe made look complete to kubectl is reported as an error, because the *)
(* builder's own answer is joined before nil is returned.                  *)
(***************************************************************************)
THEOREM RefinesOutcome == Spec => KeepsPromise
<1>1. Init => Outcome!Init
  BY DEF Init, Outcome!Init
<1>2. ASSUME IInv, IInv', [Next]_vars
      PROVE  [Outcome!Next]_<<applied, result>>
  <2>1. CASE KubectlApplies
    BY <1>2, <2>1, PipeAssumption
    DEF KubectlApplies, IInv, TypeOK, mainVars, Outcome!Next, Outcome!ApplyOne
  <2>2. CASE Join
    <3>1. result = "none" /\ result' \in {"nil", "err"} /\ applied' = applied
      BY <1>2, <2>2 DEF Join, IInv, TypeOK, Answered, kubectlVars
    <3>2. result' = "nil" => applied = NumDocs
      BY <1>2, <3>1 DEF IInv, NilWhole
    <3> QED BY <3>1, <3>2 DEF Outcome!Next, Outcome!AnswerNil, Outcome!AnswerErr
  <2>3. CASE ~KubectlApplies /\ ~Join
    BY <1>2, <2>3, OutcomeUnchanged
  <2> QED BY <2>1, <2>2, <2>3
<1> QED
  BY <1>1, <1>2, IInvInitially, IInvInductive, PTL
  DEF Spec, KeepsPromise, Outcome!Spec, Outcome!outcomeVars
-----------------------------------------------------------------------------
(***************************************************************************)
(* Who can still do something: one disjunct for each guard of the remote   *)
(* processes, the goroutines and the copier.  A signal, a broken           *)
(* connection and a kubectl that fails with input are not counted.         *)
(***************************************************************************)
CanMove ==
  \/ kustomize = "running"
  \/ builder = "streaming" /\ (canceled \/ (kustomize # "running" /\ piped = made))
  \/ copier = "writing"
  \/ kubectl # "idle" /\ copier = "reading"
     /\ (builder = "done" \/ piped < made)
  \/ kubectl = "running" /\ Eof
  \/ main = "applying" /\ (canceled \/ kubectl # "running")
  \/ main = "joining" /\ buildErr # "none"

\* A write to the pipe that nobody will read: a.apply has returned, and there
\* is no copier or it has given up.
BlockedWrite ==
  /\ main = "joining" /\ ~canceled
  /\ builder = "streaming" /\ kustomize # "running" /\ piped < made
  /\ kubectl # "running"
  /\ kubectl = "idle" \/ copier = "done"

(***************************************************************************)
(* The goroutines of pipeKustomize do not wait for each other, except at   *)
(* <-buildErr (remote.go:232) when a.apply returned before the builder had *)
(* written everything: in every other state somebody can move, so the      *)
(* copier never waits for a builder that waits for it, and no order of the *)
(* closes of the pipe and of the remote stdin leaves kubectl waiting for   *)
(* more.                                                                   *)
(***************************************************************************)
THEOREM OnlyABlockedWriteHangs == Spec => [](main = "returned" \/ CanMove \/ BlockedWrite)
<1>1. ASSUME IInv, main # "returned", ~CanMove PROVE BlockedWrite
  <2>1. /\ kustomize # "running" /\ copier # "writing"
        /\ builder = "streaming" => ~canceled /\ piped # made
        /\ kubectl = "idle" \/ copier # "reading" \/ ~(builder = "done" \/ piped < made)
    BY <1>1 DEF CanMove, IInv, TypeOK
  <2>2. builder = "streaming" => piped < made
    BY <1>1, <2>1 DEF IInv, TypeOK
  <2>3. kubectl = "idle" \/ copier = "done"
    BY <1>1, <2>1, <2>2 DEF IInv, TypeOK
  <2>4. main = "joining"
    <3>1. SUFFICES ASSUME main = "applying" PROVE FALSE
      BY <1>1 DEF IInv, TypeOK
    <3>2. kubectl = "running" /\ stdin # "closed"
      BY <1>1, <3>1 DEF CanMove, Eof
    <3> QED BY <1>1, <2>3, <3>1, <3>2 DEF IInv, InTransit
  <2>5. builder = "streaming" /\ kubectl # "running"
    BY <1>1, <2>4 DEF CanMove, Eof, IInv, TypeOK, Answered
  <2> QED BY <2>1, <2>2, <2>3, <2>4, <2>5 DEF BlockedWrite
<1>2. IInv => main = "returned" \/ CanMove \/ BlockedWrite
  BY <1>1
<1> QED BY <1>2, IInvInitially, IInvInductive, PTL DEF Spec
=============================================================================
