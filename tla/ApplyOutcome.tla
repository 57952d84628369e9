---------------------------- MODULE ApplyOutcome ----------------------------
(***************************************************************************)
(* What remote.Applier.Run promises its caller, whatever happens in the    *)
(* cluster: the documents of the manifest are applied one by one, and Run  *)
(* answers once.  It answers nil only when every document was applied.     *)
(* After an error nothing is promised about how many were: the remote      *)
(* kubectl may even still be working.                                      *)
(***************************************************************************)
EXTENDS Naturals

CONSTANT NumDocs        \* documents in the manifest

VARIABLES applied,      \* documents the cluster has accepted so far
          result        \* "none" until Run answers, then "nil" or "err"

outcomeVars == <<applied, result>>

Init == applied = 0 /\ result = "none"

\* One more document reaches the cluster.
ApplyOne == /\ applied < NumDocs
            /\ applied' = applied + 1
            /\ UNCHANGED result

AnswerNil == /\ result = "none"
             /\ applied = NumDocs
             /\ result' = "nil"
             /\ UNCHANGED applied

AnswerErr == /\ result = "none"
             /\ result' = "err"
             /\ UNCHANGED applied

Next == ApplyOne \/ AnswerNil \/ AnswerErr

Spec == Init /\ [][Next]_outcomeVars
=============================================================================
