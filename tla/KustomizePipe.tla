--------------------------- MODULE KustomizePipe ---------------------------
(***************************************************************************)
(* Applier.pipeKustomize (v1alpha1/remote/remote.go) at the level of its   *)
(* goroutines.  A builder goroutine execs kubectl kustomize and copies the *)
(* rendered chunks into an unbuffered io.Pipe; the main goroutine execs    *)
(* kubectl apply, whose stdin a copier goroutine of client-go feeds from   *)
(* the pipe, and afterwards receives from the channel buildErr.            *)
(*                                                                         *)
(*   kustomize --made--> builder --pipe--> copier --got--> kubectl         *)
(*                                                                         *)
(* A chunk is one document.  What client-go's StreamWithContext does is    *)
(* taken from how stream uses it: it returns when the remote process has   *)
(* ended and its output has been copied, or when the context is done; the  *)
(* copier is left to itself.                                               *)
(***************************************************************************)
EXTENDS Naturals

CONSTANT NumDocs        \* documents kustomize renders

ASSUME PipeAssumption == NumDocs \in Nat \ {0}

VARIABLES
  main,       \* "applying", "joining" (<-buildErr) or "returned"
  applyErr,   \* what a.apply returned
  result,     \* what pipeKustomize returns
  canceled,   \* the context is done
  kustomize,  \* the remote kubectl kustomize
  made,       \* documents it has written to its stdout
  builder,    \* "streaming", or "done": the pipe's write end is closed
  buildErr,   \* the channel of capacity 1: "none" when empty
  piped,      \* documents read from the pipe; a pending write is made > piped
  copier,     \* the stdin copier: "reading", "writing" (holds one), "done"
  kubectl,    \* the remote kubectl apply
  got,        \* documents it has received
  stdin,      \* its stdin: "open" or "closed" (EOF)
  applied     \* documents it has applied

mainVars    == <<main, applyErr, result>>
buildVars   == <<builder, buildErr>>
kubectlVars == <<kubectl, got, applied>>
vars == <<mainVars, buildVars, kubectlVars, canceled, kustomize, made, piped, copier, stdin>>

TypeOK ==
  /\ main \in {"applying", "joining", "returned"}
  /\ applyErr \in {"none", "nil", "err"}
  /\ result \in {"none", "nil", "err"}
  /\ canceled \in BOOLEAN
  /\ kustomize \in {"running", "ok", "failed"}
  /\ made \in 0..NumDocs
  /\ builder \in {"streaming", "done"}
  /\ buildErr \in {"none", "nil", "err"}
  /\ piped \in 0..made
  /\ copier \in {"reading", "writing", "done"}
  /\ kubectl \in {"idle", "running", "ok", "failed"}
  /\ got \in 0..piped
  /\ stdin \in {"open", "closed"}
  /\ applied \in 0..got

Init ==
  /\ main = "applying" /\ applyErr = "none" /\ result = "none"
  /\ canceled = FALSE
  /\ kustomize = "running" /\ made = 0
  /\ builder = "streaming" /\ buildErr = "none"
  /\ piped = 0 /\ copier = "reading"
  /\ kubectl = "idle" /\ got = 0 /\ stdin = "open" /\ applied = 0

-----------------------------------------------------------------------------
(* The builder pod and the goroutine that streams from it.                 *)

KustomizeWrites ==
  /\ kustomize = "running"
  /\ made < NumDocs
  /\ made' = made + 1
  /\ UNCHANGED <<mainVars, buildVars, kubectlVars, canceled, kustomize, piped, copier, stdin>>

\* It exits with status 0 after the last document, or fails at any point.
KustomizeExits(status) ==
  /\ kustomize = "running"
  /\ status = "ok" => made = NumDocs
  /\ kustomize' = status
  /\ UNCHANGED <<mainVars, buildVars, kubectlVars, canceled, made, piped, copier, stdin>>

\* pw.CloseWithError(err); buildErr <- err
BuilderCloses(err) ==
  /\ builder = "streaming"
  /\ builder' = "done"
  /\ buildErr' = err
  /\ UNCHANGED <<mainVars, kubectlVars, canceled, kustomize, made, piped, copier, stdin>>

\* a.stream returns once kustomize has exited and everything it wrote has been
\* taken out of the pipe.
BuilderStreamEnds ==
  /\ kustomize # "running"
  /\ piped = made
  /\ BuilderCloses(IF kustomize = "ok" THEN "nil" ELSE "err")

\* The exec cannot be started or its connection breaks.
BuilderStreamBreaks == kustomize = "running" /\ BuilderCloses("err")

\* StreamWithContext returns ctx.Err(), also while a pipe write is blocked.
BuilderCanceled == canceled /\ BuilderCloses("err")

-----------------------------------------------------------------------------
(* The copier of the applier's stdin.                                      *)

Connected == main = "applying" /\ kubectl # "idle"

\* pr.Read takes a pending write.  The copier was started by the exec and may
\* outlive it by one read.
CopierReads ==
  /\ kubectl # "idle"
  /\ copier = "reading"
  /\ builder = "streaming"
  /\ piped < made
  /\ piped' = piped + 1
  /\ copier' = "writing"
  /\ UNCHANGED <<mainVars, buildVars, kubectlVars, canceled, kustomize, made, stdin>>

\* Mutant: a chunk that was delivered is written again.
CopierDeliversAgain ==
  /\ copier = "writing"
  /\ Connected
  /\ kubectl = "running"
  /\ got' = got + 1
  /\ copier' \in {"reading", "writing"}
  /\ UNCHANGED <<mainVars, buildVars, canceled, kustomize, made, piped, kubectl, applied, stdin>>

CopierDelivers ==
  /\ copier = "writing"
  /\ Connected
  /\ kubectl = "running"
  /\ got' = got + 1
  /\ copier' = "reading"
  /\ UNCHANGED <<mainVars, buildVars, canceled, kustomize, made, piped, kubectl, applied, stdin>>

\* kubectl no longer reads: the write is dropped in a buffer or, at the latest
\* when the connection is gone, fails; a failed write ends the copier.
CopierWritesInVain(next) ==
  /\ copier = "writing"
  /\ kubectl # "running" \/ main # "applying"
  /\ next = "reading" => main = "applying"
  /\ copier' = next
  /\ UNCHANGED <<mainVars, buildVars, kubectlVars, canceled, kustomize, made, piped, stdin>>

\* Mutant: the remote stdin is only closed after a complete manifest.
CopierEndsOnNil ==
  /\ kubectl # "idle"
  /\ copier = "reading"
  /\ builder = "done"
  /\ copier' = "done"
  /\ stdin' = IF buildErr = "nil" THEN "closed" ELSE "open"
  /\ UNCHANGED <<mainVars, buildVars, kubectlVars, canceled, kustomize, made, piped>>

\* The pipe is closed, with or without an error: the copier closes the remote
\* stdin either way.
CopierEnds ==
  /\ kubectl # "idle"
  /\ copier = "reading"
  /\ builder = "done"
  /\ copier' = "done"
  /\ stdin' = "closed"
  /\ UNCHANGED <<mainVars, buildVars, kubectlVars, canceled, kustomize, made, piped>>

-----------------------------------------------------------------------------
(* The applier pod and the main goroutine.                                 *)

ExecStarts ==
  /\ main = "applying"
  /\ ~canceled
  /\ kubectl = "idle"
  /\ kubectl' = "running"
  /\ UNCHANGED <<mainVars, buildVars, got, applied, canceled, kustomize, made, piped, copier, stdin>>

\* End of input, as kubectl sees it.
Eof == stdin = "closed" \/ main # "applying"

KubectlApplies ==
  /\ kubectl = "running"
  /\ Eof
  /\ applied < got
  /\ applied' = applied + 1
  /\ UNCHANGED <<mainVars, buildVars, kubectl, got, canceled, kustomize, made, piped, copier, stdin>>

KubectlSucceeds ==
  /\ kubectl = "running"
  /\ Eof
  /\ got > 0 /\ applied = got
  /\ kubectl' = "ok"
  /\ UNCHANGED <<mainVars, buildVars, got, applied, canceled, kustomize, made, piped, copier, stdin>>

KubectlFails ==
  /\ kubectl = "running"
  /\ kubectl' = "failed"
  /\ UNCHANGED <<mainVars, buildVars, got, applied, canceled, kustomize, made, piped, copier, stdin>>

\* a.apply returns; the pipe's read end stays open.
ApplyReturns(err) ==
  /\ main = "applying"
  /\ main' = "joining"
  /\ applyErr' = err
  /\ UNCHANGED <<result, buildVars, kubectlVars, canceled, kustomize, made, piped, copier, stdin>>

ApplyStreamEnds ==
  /\ kubectl \in {"ok", "failed"}
  /\ ApplyReturns(IF kubectl = "ok" THEN "nil" ELSE "err")
ApplyStreamBreaks == ApplyReturns("err")
ApplyCanceled == canceled /\ ApplyReturns("err")

\* Mutant: the builder's error is not looked at.
JoinIgnoringBuild ==
  /\ main = "joining"
  /\ buildErr # "none"
  /\ main' = "returned"
  /\ result' = applyErr
  /\ UNCHANGED <<applyErr, buildVars, kubectlVars, canceled, kustomize, made, piped, copier, stdin>>

\* Mutant: only a nil is received.
JoinNil ==
  /\ main = "joining"
  /\ buildErr = "nil"
  /\ main' = "returned"
  /\ result' = applyErr
  /\ UNCHANGED <<applyErr, buildVars, kubectlVars, canceled, kustomize, made, piped, copier, stdin>>

\* if err := <-buildErr; err != nil { return err }; return applyErr
Join ==
  /\ main = "joining"
  /\ buildErr # "none"
  /\ main' = "returned"
  /\ result' = IF buildErr = "err" THEN "err" ELSE applyErr
  /\ UNCHANGED <<applyErr, buildVars, kubectlVars, canceled, kustomize, made, piped, copier, stdin>>

Cancel ==
  /\ ~canceled
  /\ main # "returned"
  /\ canceled' = TRUE
  /\ UNCHANGED <<mainVars, buildVars, kubectlVars, kustomize, made, piped, copier, stdin>>

-----------------------------------------------------------------------------
Kustomization == KustomizeWrites \/ \E status \in {"ok", "failed"} : KustomizeExits(status)
Builder == BuilderStreamEnds \/ BuilderCanceled
Copier == CopierReads \/ CopierDelivers \/ CopierEnds
          \/ \E next \in {"reading", "done"} : CopierWritesInVain(next)
Kubectl == KubectlApplies \/ KubectlSucceeds \/ KubectlFails
Main == ExecStarts \/ ApplyStreamEnds \/ ApplyCanceled \/ Join

Next == \/ Kustomization \/ Builder \/ BuilderStreamBreaks \/ Copier \/ Kubectl
        \/ Main \/ ApplyStreamBreaks \/ Cancel

Spec == Init /\ [][Next]_vars

\* Goroutines are scheduled and the remote processes get on with their work;
\* nothing makes a connection break or the user press Ctrl-C.
Fairness == /\ WF_vars(Kustomization) /\ WF_vars(Builder) /\ WF_vars(Copier)
            /\ WF_vars(KubectlApplies) /\ WF_vars(KubectlSucceeds) /\ WF_vars(Main)
            /\ WF_vars(got = 0 /\ Eof /\ KubectlFails)

FairSpec == Spec /\ Fairness

-----------------------------------------------------------------------------
Outcome == INSTANCE ApplyOutcome

\* pipeKustomize keeps the promise of ApplyOutcome: nothing is lost between the
\* two pods, and a nil is never the answer for a prefix that a closed pipe made
\* look complete.
KeepsPromise == Outcome!Spec

\* A cancelled context ends pipeKustomize from any state: both execs watch it.
CancelReturns == canceled ~> main = "returned"

\* Left alone, pipeKustomize ends, unless apply ended before the builder.
ReturnsUnlessApplyEndsFirst ==
  <>(main = "returned" \/ (main = "joining" /\ builder = "streaming"))

\* remote.go:214 says "this binary is the pipe": when both remote processes
\* have ended, so has pipeKustomize.
EndsWithItsProcesses ==
  (kustomize # "running" /\ kubectl \in {"ok", "failed"}) ~> main = "returned"
=============================================================================
