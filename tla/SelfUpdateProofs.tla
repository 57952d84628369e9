-------------------------- MODULE SelfUpdateProofs --------------------------
(***************************************************************************)
(* Safety of SelfUpdate for any set of versions and any retain.            *)
(***************************************************************************)
EXTENDS SelfUpdate, FiniteSetTheorems, WellFoundedInduction, TLAPS

\* Type correctness of the install directory, the throttle and the processes.
THEOREM TypeCorrect == Spec => []TypeOK
<1>1. Init => TypeOK
  BY UpdateAssumption DEF Init, TypeOK, Layouts, Archives, Labels
<1>2. TypeOK /\ [Next]_vars => TypeOK'
  <2> SUFFICES ASSUME TypeOK, [Next]_vars PROVE TypeOK'
    OBVIOUS
  <2> USE UpdateAssumption DEF TypeOK, Labels, Archives, install, throttle, local, Goto, Return
  <2>1. ASSUME NEW p \in Procs, Start(p) PROVE TypeOK'
    BY <2>1 DEF Start
  <2>2. ASSUME NEW p \in Procs, Guard(p) PROVE TypeOK'
    BY <2>2 DEF Guard, AfterGuard
  <2>3. ASSUME NEW p \in Procs, GuardFails(p) PROVE TypeOK'
    BY <2>3 DEF GuardFails
  <2>4. ASSUME NEW p \in Procs, RecentlyChecked(p) PROVE TypeOK'
    BY <2>4 DEF RecentlyChecked
  <2>5. ASSUME NEW p \in Procs, MarkChecked(p) PROVE TypeOK'
    BY <2>5 DEF MarkChecked
  <2>6. ASSUME NEW p \in Procs, LatestTag(p) PROVE TypeOK'
    BY <2>6 DEF LatestTag
  <2>7. ASSUME NEW p \in Procs, LatestTagFails(p) PROVE TypeOK'
    BY <2>7 DEF LatestTagFails
  <2>8. ASSUME NEW p \in Procs, Download(p) PROVE TypeOK'
    BY <2>8 DEF Download, Verified, Archives
  <2>9. ASSUME NEW p \in Procs, DownloadFails(p) PROVE TypeOK'
    BY <2>9 DEF DownloadFails
  <2>10. ASSUME NEW p \in Procs, WriteExecutable(p) PROVE TypeOK'
    BY <2>10 DEF WriteExecutable, Written, DropArchive
  <2>11. ASSUME NEW p \in Procs, ReplaceInPlace(p) PROVE TypeOK'
    BY <2>11 DEF ReplaceInPlace, Written, DropArchive
  <2>12. ASSUME NEW p \in Procs, WriteFails(p) PROVE TypeOK'
    BY <2>12 DEF WriteFails, DropArchive
  <2>13. ASSUME NEW p \in Procs, RemoveTmpLink(p) PROVE TypeOK'
    BY <2>13 DEF RemoveTmpLink
  <2>14. ASSUME NEW p \in Procs, Symlink(p) PROVE TypeOK'
    BY <2>14 DEF Symlink
  <2>15. ASSUME NEW p \in Procs, Rename(p) PROVE TypeOK'
    BY <2>15 DEF Rename
  <2>16. ASSUME NEW p \in Procs, SwapFails(p) PROVE TypeOK'
    BY <2>16 DEF SwapFails
  <2>17. ASSUME NEW p \in Procs, PruneList(p) PROVE TypeOK'
    BY <2>17 DEF PruneList, Pruned
  <2>18. ASSUME NEW p \in Procs, PruneRemove(p) PROVE TypeOK'
    BY <2>18 DEF PruneRemove
  <2>19. ASSUME NEW p \in Procs, PruneEnds(p) PROVE TypeOK'
    BY <2>19 DEF PruneEnds
  <2>20. ASSUME NEW p \in Procs, Crash(p) PROVE TypeOK'
    BY <2>20 DEF Crash, DropArchive
  <2>21. CASE Publish
    BY <2>21 DEF Publish
  <2>22. CASE DayPasses
    BY <2>22 DEF DayPasses
  <2>23. CASE UNCHANGED vars
    BY <2>23 DEF vars
  <2>24. ASSUME NEW p \in Procs, NoStampPath(p) \/ MarkCheckedFails(p) PROVE TypeOK'
    <3>1. /\ missed < MaxMissed /\ missed' = missed + 1 /\ checks' = checks + 1
          /\ UNCHANGED <<layout, published, install, stamp, local, outcome>>
          /\ pc' = [pc EXCEPT ![p] = "latest"]
      BY <2>24 DEF NoStampPath, MarkCheckedFails, CheckUnmarked
    <3>2. checks' \in Nat /\ missed' \in 0 .. MaxMissed
      BY <3>1
    <3>3. pc' \in [Procs -> Labels]
      BY <3>1
    <3> QED BY <3>1, <3>2, <3>3
  <2>25. ASSUME NEW p \in Procs, PruneListFails(p) PROVE TypeOK'
    BY <2>25 DEF PruneListFails
  <2>26. ASSUME NEW p \in Procs, PruneRemoveFails(p) PROVE TypeOK'
    BY <2>26 DEF PruneRemoveFails
  <2> HIDE DEF TypeOK, Labels, Archives, install, throttle, local, Goto, Return
  <2> QED
    BY <2>1, <2>2, <2>3, <2>4, <2>5, <2>6, <2>7, <2>8, <2>9, <2>10, <2>11, <2>12,
       <2>13, <2>14, <2>15, <2>16, <2>17, <2>18, <2>19, <2>20, <2>21, <2>22, <2>23,
       <2>24, <2>25, <2>26
    DEF Next, Step
<1> QED
  BY <1>1, <1>2, PTL DEF Spec

-----------------------------------------------------------------------------
\* Only a verified archive is ever held for writing.
Trusted == /\ InstalledIsGenuine
           /\ \A p \in Procs : pc[p] = "write" => archive[p] = "genuine"

\* However many processes update at once, no binary in the directory comes
\* from an archive that verifyChecksum or verifySignature rejects.
THEOREM OnlyGenuine == Spec => []InstalledIsGenuine
<1>1. Init => Trusted
  BY DEF Init, Trusted, InstalledIsGenuine
<1>2. TypeOK /\ Trusted /\ [Next]_vars => Trusted'
  <2> SUFFICES ASSUME TypeOK, Trusted, [Next]_vars PROVE Trusted'
    OBVIOUS
  <2> USE UpdateAssumption DEF TypeOK, Trusted, InstalledIsGenuine, install, throttle, local, Goto, Return
  <2>1. ASSUME NEW p \in Procs, Start(p) PROVE Trusted'
    BY <2>1 DEF Start
  <2>2. ASSUME NEW p \in Procs, Guard(p) PROVE Trusted'
    BY <2>2 DEF Guard, AfterGuard
  <2>3. ASSUME NEW p \in Procs, GuardFails(p) PROVE Trusted'
    BY <2>3 DEF GuardFails
  <2>4. ASSUME NEW p \in Procs, RecentlyChecked(p) PROVE Trusted'
    BY <2>4 DEF RecentlyChecked
  <2>5. ASSUME NEW p \in Procs, MarkChecked(p) PROVE Trusted'
    BY <2>5 DEF MarkChecked
  <2>6. ASSUME NEW p \in Procs, LatestTag(p) PROVE Trusted'
    BY <2>6 DEF LatestTag
  <2>7. ASSUME NEW p \in Procs, LatestTagFails(p) PROVE Trusted'
    BY <2>7 DEF LatestTagFails
  <2>8. ASSUME NEW p \in Procs, Download(p) PROVE Trusted'
    BY <2>8 DEF Download, Verified, Archives
  <2>9. ASSUME NEW p \in Procs, DownloadFails(p) PROVE Trusted'
    BY <2>9 DEF DownloadFails
  <2>10. ASSUME NEW p \in Procs, WriteExecutable(p) PROVE Trusted'
    BY <2>10 DEF WriteExecutable, Written, DropArchive
  <2>11. ASSUME NEW p \in Procs, ReplaceInPlace(p) PROVE Trusted'
    BY <2>11 DEF ReplaceInPlace, Written, DropArchive
  <2>12. ASSUME NEW p \in Procs, WriteFails(p) PROVE Trusted'
    BY <2>12 DEF WriteFails, DropArchive
  <2>13. ASSUME NEW p \in Procs, RemoveTmpLink(p) PROVE Trusted'
    BY <2>13 DEF RemoveTmpLink
  <2>14. ASSUME NEW p \in Procs, Symlink(p) PROVE Trusted'
    BY <2>14 DEF Symlink
  <2>15. ASSUME NEW p \in Procs, Rename(p) PROVE Trusted'
    BY <2>15 DEF Rename
  <2>16. ASSUME NEW p \in Procs, SwapFails(p) PROVE Trusted'
    BY <2>16 DEF SwapFails
  <2>17. ASSUME NEW p \in Procs, PruneList(p) PROVE Trusted'
    BY <2>17 DEF PruneList, Pruned
  <2>18. ASSUME NEW p \in Procs, PruneRemove(p) PROVE Trusted'
    BY <2>18 DEF PruneRemove
  <2>19. ASSUME NEW p \in Procs, PruneEnds(p) PROVE Trusted'
    BY <2>19 DEF PruneEnds
  <2>20. ASSUME NEW p \in Procs, Crash(p) PROVE Trusted'
    BY <2>20 DEF Crash, DropArchive
  <2>21. CASE Publish
    BY <2>21 DEF Publish
  <2>22. CASE DayPasses
    BY <2>22 DEF DayPasses
  <2>23. CASE UNCHANGED vars
    BY <2>23 DEF vars
  <2>24. ASSUME NEW p \in Procs, NoStampPath(p) \/ MarkCheckedFails(p) PROVE Trusted'
    BY <2>24 DEF NoStampPath, MarkCheckedFails, CheckUnmarked
  <2>25. ASSUME NEW p \in Procs, PruneListFails(p) \/ PruneRemoveFails(p) PROVE Trusted'
    BY <2>25 DEF PruneListFails, PruneRemoveFails
  <2> HIDE DEF TypeOK, Trusted, InstalledIsGenuine, install, throttle, local, Goto, Return
  <2> QED
    BY <2>1, <2>2, <2>3, <2>4, <2>5, <2>6, <2>7, <2>8, <2>9, <2>10, <2>11, <2>12,
       <2>13, <2>14, <2>15, <2>16, <2>17, <2>18, <2>19, <2>20, <2>21, <2>22, <2>23,
       <2>24, <2>25
    DEF Next, Step
<1>3. Trusted => InstalledIsGenuine
  BY DEF Trusted
<1> QED
  BY <1>1, <1>2, <1>3, TypeCorrect, PTL DEF Spec

-----------------------------------------------------------------------------
(***************************************************************************)
(* One updater at a time.  Between writing the binary and pruning, what    *)
(* kubectl-add.new and kubectl-add point to is in the directory, and prune *)
(* spares it.                                                              *)
(***************************************************************************)
Swapping ==
  /\ LinkResolves
  /\ \A p \in Procs :
       /\ pc[p] \in {"unlink", "symlink", "rename"} => want[p] \in files
       /\ pc[p] = "rename" => tmpLink \in {want[p], NoVersion}
       /\ pc[p] \in {"list", "prune"} => link = want[p]
       /\ pc[p] = "prune" => want[p] \notin doomed[p]

\* With one updater at a time, killed at any step and started again, there is
\* always a binary behind the symlink kubectl-add (apply, prune).
THEOREM AlwaysRunnable ==
  ASSUME NEW CONSTANT u, Procs = {u}
  PROVE  Spec => []LinkResolves
<1>1. Init => Swapping
  BY DEF Init, Swapping, LinkResolves
<1>2. TypeOK /\ Swapping /\ [Next]_vars => Swapping'
  <2> SUFFICES ASSUME TypeOK, Swapping, [Next]_vars PROVE Swapping'
    OBVIOUS
  <2> USE UpdateAssumption DEF TypeOK, Swapping, LinkResolves, install, throttle, local, Goto, Return
  <2>1. ASSUME NEW p \in Procs, Start(p) PROVE Swapping'
    BY <2>1 DEF Start
  <2>2. ASSUME NEW p \in Procs, Guard(p) PROVE Swapping'
    BY <2>2 DEF Guard, AfterGuard
  <2>3. ASSUME NEW p \in Procs, GuardFails(p) PROVE Swapping'
    BY <2>3 DEF GuardFails
  <2>4. ASSUME NEW p \in Procs, RecentlyChecked(p) PROVE Swapping'
    BY <2>4 DEF RecentlyChecked
  <2>5. ASSUME NEW p \in Procs, MarkChecked(p) PROVE Swapping'
    BY <2>5 DEF MarkChecked
  <2>6. ASSUME NEW p \in Procs, LatestTag(p) PROVE Swapping'
    BY <2>6 DEF LatestTag
  <2>7. ASSUME NEW p \in Procs, LatestTagFails(p) PROVE Swapping'
    BY <2>7 DEF LatestTagFails
  <2>8. ASSUME NEW p \in Procs, Download(p) PROVE Swapping'
    BY <2>8 DEF Download, Verified, Archives
  <2>9. ASSUME NEW p \in Procs, DownloadFails(p) PROVE Swapping'
    BY <2>9 DEF DownloadFails
  <2>10. ASSUME NEW p \in Procs, WriteExecutable(p) PROVE Swapping'
    BY <2>10 DEF WriteExecutable, Written, DropArchive
  <2>11. ASSUME NEW p \in Procs, ReplaceInPlace(p) PROVE Swapping'
    BY <2>11 DEF ReplaceInPlace, Written, DropArchive
  <2>12. ASSUME NEW p \in Procs, WriteFails(p) PROVE Swapping'
    BY <2>12 DEF WriteFails, DropArchive
  <2>13. ASSUME NEW p \in Procs, RemoveTmpLink(p) PROVE Swapping'
    BY <2>13 DEF RemoveTmpLink
  <2>14. ASSUME NEW p \in Procs, Symlink(p) PROVE Swapping'
    BY <2>14 DEF Symlink
  <2>15. ASSUME NEW p \in Procs, Rename(p) PROVE Swapping'
    BY <2>15 DEF Rename
  <2>16. ASSUME NEW p \in Procs, SwapFails(p) PROVE Swapping'
    BY <2>16 DEF SwapFails
  <2>17. ASSUME NEW p \in Procs, PruneList(p) PROVE Swapping'
    BY <2>17 DEF PruneList, Pruned
  <2>18. ASSUME NEW p \in Procs, PruneRemove(p) PROVE Swapping'
    BY <2>18 DEF PruneRemove
  <2>19. ASSUME NEW p \in Procs, PruneEnds(p) PROVE Swapping'
    BY <2>19 DEF PruneEnds
  <2>20. ASSUME NEW p \in Procs, Crash(p) PROVE Swapping'
    BY <2>20 DEF Crash, DropArchive
  <2>21. CASE Publish
    BY <2>21 DEF Publish
  <2>22. CASE DayPasses
    BY <2>22 DEF DayPasses
  <2>23. CASE UNCHANGED vars
    BY <2>23 DEF vars
  <2>24. ASSUME NEW p \in Procs, NoStampPath(p) \/ MarkCheckedFails(p) PROVE Swapping'
    BY <2>24 DEF NoStampPath, MarkCheckedFails, CheckUnmarked
  <2>25. ASSUME NEW p \in Procs, PruneListFails(p) \/ PruneRemoveFails(p) PROVE Swapping'
    BY <2>25 DEF PruneListFails, PruneRemoveFails
  <2> HIDE DEF TypeOK, Swapping, LinkResolves, install, throttle, local, Goto, Return
  <2> QED
    BY <2>1, <2>2, <2>3, <2>4, <2>5, <2>6, <2>7, <2>8, <2>9, <2>10, <2>11, <2>12,
       <2>13, <2>14, <2>15, <2>16, <2>17, <2>18, <2>19, <2>20, <2>21, <2>22, <2>23,
       <2>24, <2>25
    DEF Next, Step
<1>3. Swapping => LinkResolves
  BY DEF Swapping
<1> QED
  BY <1>1, <1>2, <1>3, TypeCorrect, PTL DEF Spec

-----------------------------------------------------------------------------
(***************************************************************************)
(* While the stamp is old, no check of the day has left one; and the only  *)
(* updater that is about to leave one has found the stamp old.             *)
(***************************************************************************)
Throttled ==
  /\ OneCheckPerStamp
  /\ stamp = "old" => checks <= missed
  /\ \A p \in Procs : pc[p] = "stamp" => stamp = "old"

(***************************************************************************)
(* One updater at a time goes to the network at most once a day, but for   *)
(* the checks that could not leave their stamp, also when it is killed     *)
(* after the check.  Two that both find the stamp old both go.             *)
(***************************************************************************)
THEOREM ChecksOncePerStamp ==
  ASSUME NEW CONSTANT u, Procs = {u}
  PROVE  Spec => []OneCheckPerStamp
<1>1. Init => Throttled
  BY DEF Init, Throttled, OneCheckPerStamp
<1>2. TypeOK /\ Throttled /\ [Next]_vars => Throttled'
  <2> SUFFICES ASSUME TypeOK, Throttled, [Next]_vars PROVE Throttled'
    OBVIOUS
  <2>0. /\ pc \in [Procs -> Labels] /\ stamp \in {"old", "fresh"}
        /\ checks \in Nat /\ missed \in Nat
    BY UpdateAssumption DEF TypeOK
  <2> USE DEF Throttled, OneCheckPerStamp
  <2>1. ASSUME NEW p \in Procs, RecentlyChecked(p) PROVE Throttled'
    BY <2>0, <2>1 DEF RecentlyChecked, Goto, Return, throttle
  <2>2. ASSUME NEW p \in Procs, MarkChecked(p) PROVE Throttled'
    BY <2>0, <2>2 DEF MarkChecked, Goto
  <2>8. ASSUME NEW p \in Procs, NoStampPath(p) \/ MarkCheckedFails(p) PROVE Throttled'
    BY <2>0, <2>8 DEF NoStampPath, MarkCheckedFails, CheckUnmarked, Goto
  <2>3. CASE DayPasses
    BY <2>0, <2>3 DEF DayPasses
  <2>4. ASSUME UNCHANGED throttle, \A p \in Procs : pc'[p] = "stamp" => pc[p] = "stamp"
        PROVE  Throttled'
    BY <2>4 DEF throttle
  <2>5. ASSUME NEW p \in Procs, Step(p) PROVE Throttled'
    <3>1. CASE Start(p) \/ Guard(p) \/ GuardFails(p) \/ Crash(p)
      BY <2>0, <2>4, <3>1 DEF Start, Guard, AfterGuard, GuardFails, Crash, Goto, Return
    <3>2. CASE LatestTag(p) \/ LatestTagFails(p) \/ Download(p) \/ DownloadFails(p)
      BY <2>0, <2>4, <3>2 DEF LatestTag, LatestTagFails, Download, DownloadFails, Goto, Return
    <3>3. CASE WriteExecutable(p) \/ ReplaceInPlace(p) \/ WriteFails(p) \/ RemoveTmpLink(p)
      BY <2>0, <2>4, <3>3 DEF WriteExecutable, ReplaceInPlace, WriteFails, RemoveTmpLink,
         Goto, Return
    <3>4. CASE Symlink(p) \/ Rename(p) \/ SwapFails(p)
      BY <2>0, <2>4, <3>4 DEF Symlink, Rename, SwapFails, Goto, Return
    <3>5. CASE PruneList(p) \/ PruneListFails(p) \/ PruneRemove(p) \/ PruneRemoveFails(p)
               \/ PruneEnds(p)
      BY <2>0, <2>4, <3>5 DEF PruneList, PruneListFails, PruneRemove, PruneRemoveFails,
         PruneEnds, Goto, Return
    <3> QED BY <2>1, <2>2, <2>5, <2>8, <3>1, <3>2, <3>3, <3>4, <3>5 DEF Step
  <2>6. CASE Publish
    BY <2>4, <2>6 DEF Publish
  <2>7. CASE UNCHANGED vars
    BY <2>4, <2>7 DEF vars
  <2> QED BY <2>3, <2>5, <2>6, <2>7 DEF Next
<1>3. Throttled => OneCheckPerStamp
  BY DEF Throttled
<1> QED
  BY <1>1, <1>2, <1>3, TypeCorrect, PTL DEF Spec

-----------------------------------------------------------------------------
Applying == {"download", "write", "unlink", "symlink", "rename"}

(***************************************************************************)
(* Until it has replaced the symlink, the only updater runs what that      *)
(* points to; what it installs is newer; and the guards have held.         *)
(***************************************************************************)
Upgrading ==
  \A p \in Procs :
    /\ pc[p] \in {"guard", "check", "stamp", "latest"} \cup Applying => cur[p] = link
    /\ pc[p] \in {"check", "stamp", "latest"} => layout # "dev"
    /\ pc[p] \in Applying => want[p] > cur[p] /\ layout \in {"symlink", "inplace"}
    /\ pc[p] = "rename" => tmpLink \in {want[p], NoVersion}

\* What OnlyForward says of a step.
Forward == link' # link => link' > link /\ layout \in {"symlink", "inplace"}

\* A step of the only updater keeps it upgrading, and moves the symlink only forward.
LEMMA UpgradeStep ==
  ASSUME NEW CONSTANT u, Procs = {u}, TypeOK, Upgrading, Step(u)
  PROVE  Upgrading' /\ Forward
<1>0. /\ pc \in [Procs -> Labels] /\ cur \in [Procs -> Versions]
      /\ want \in [Procs -> Versions] /\ layout \in Layouts
  BY DEF TypeOK
<1> USE DEF Upgrading, Applying, Forward, Goto, Return, install, local
<1>1. CASE Start(u)
  BY <1>0, <1>1 DEF Start
<1>2. CASE Guard(u) \/ GuardFails(u)
  BY <1>0, <1>2 DEF Guard, AfterGuard, GuardFails
<1>3. CASE RecentlyChecked(u) \/ NoStampPath(u) \/ MarkChecked(u) \/ MarkCheckedFails(u)
  BY <1>0, <1>3 DEF RecentlyChecked, NoStampPath, MarkChecked, MarkCheckedFails,
     CheckUnmarked
<1>4. CASE LatestTag(u)
  <2>1. published \in Nat /\ cur[u] \in Nat
    BY <1>0, UpdateAssumption DEF TypeOK
  <2>2. ~(published <= cur[u]) => published > cur[u]
    BY <2>1
  <2> QED BY <1>0, <1>4, <2>2 DEF LatestTag, Layouts
<1>5. CASE LatestTagFails(u) \/ Download(u) \/ DownloadFails(u)
  BY <1>0, <1>5 DEF LatestTagFails, Download, DownloadFails
<1>6. CASE WriteExecutable(u) \/ ReplaceInPlace(u) \/ WriteFails(u)
  BY <1>0, <1>6 DEF WriteExecutable, ReplaceInPlace, WriteFails
<1>7. CASE RemoveTmpLink(u) \/ Symlink(u) \/ Rename(u) \/ SwapFails(u)
  BY <1>0, <1>7 DEF RemoveTmpLink, Symlink, Rename, SwapFails
<1>8. CASE PruneList(u) \/ PruneListFails(u) \/ PruneRemove(u) \/ PruneRemoveFails(u)
           \/ PruneEnds(u) \/ Crash(u)
  BY <1>0, <1>8 DEF PruneList, PruneListFails, PruneRemove, PruneRemoveFails, PruneEnds,
     Crash
<1> HIDE DEF Upgrading, Forward
<1> QED BY <1>1, <1>2, <1>3, <1>4, <1>5, <1>6, <1>7, <1>8 DEF Step

(***************************************************************************)
(* One updater at a time never moves the symlink, or the binary in place,  *)
(* to an older version, and never one that krew, Nix or a developer put    *)
(* there (update's guards).                                                *)
(***************************************************************************)
THEOREM OnlyUpgrades ==
  ASSUME NEW CONSTANT u, Procs = {u}
  PROVE  Spec => OnlyForward
<1>1. Init => Upgrading
  BY DEF Init, Upgrading, Applying
<1>2. TypeOK /\ Upgrading /\ [Next]_vars => Upgrading' /\ [Forward]_vars
  <2> SUFFICES ASSUME TypeOK, Upgrading, [Next]_vars PROVE Upgrading' /\ Forward
    OBVIOUS
  <2>1. ASSUME NEW p \in Procs, Step(p) PROVE Upgrading' /\ Forward
    BY <2>1, UpgradeStep
  <2>2. CASE UNCHANGED <<layout, install, pc, local>>
    BY <2>2 DEF Upgrading, Forward, install, local
  <2> QED BY <2>1, <2>2 DEF Next, Publish, DayPasses, vars
<1> QED
  BY <1>1, <1>2, TypeCorrect, PTL DEF Spec, OnlyForward, Forward

-----------------------------------------------------------------------------
Above(S, v) == {w \in S : w > v}

(***************************************************************************)
(* The binaries prune keeps: if it leaves out a version, then at least     *)
(* keep newer ones are kept.  (The newest of those left out has keep       *)
(* versions above it, which are all kept.)                                 *)
(***************************************************************************)
LEMMA NewestAreEnough ==
  ASSUME NEW S, S \subseteq Nat, IsFiniteSet(S), NEW keep \in Nat,
         NEW v \in S \ Newest(S, keep)
  PROVE  Cardinality(Above(Newest(S, keep), v)) >= keep
<1>0. ASSUME NEW w \in S
      PROVE  /\ Above(S, w) \subseteq S /\ IsFiniteSet(Above(S, w))
             /\ Cardinality(Above(S, w)) \in Nat
  <2>1. Above(S, w) \in SUBSET S
    BY DEF Above
  <2> QED BY <2>1, FS_Subset, FS_CardinalityType
<1>1. ASSUME NEW w \in S, NEW x \in S, x > w
      PROVE  Cardinality(Above(S, x)) < Cardinality(Above(S, w))
  <2>0. x \in Nat /\ w \in Nat /\ \A y \in S : y \in Nat
    OBVIOUS
  <2>1. Above(S, x) \in SUBSET Above(S, w) /\ x \in Above(S, w) /\ x \notin Above(S, x)
    <3>1. ~(x > x) /\ \A y \in S : y > x => y > w
      BY <1>1, <2>0
    <3> QED BY <1>1, <3>1 DEF Above
  <2>2. /\ Cardinality(Above(S, x)) <= Cardinality(Above(S, w))
        /\ Cardinality(Above(S, x)) # Cardinality(Above(S, w))
    BY <1>0, <2>1, FS_Subset
  <2> QED BY <1>0, <2>2
<1>2. \A w \in S : w \in Newest(S, keep) <=> Cardinality(Above(S, w)) < keep
  BY DEF Newest, Above
<1>3. Cardinality(Above(S, v)) >= keep
  BY <1>0, <1>2
<1> DEFINE Left   == S \ Newest(S, keep)
           Ranks  == {Cardinality(Above(S, w)) : w \in Left}
<1>4. PICK m \in Left : \A w \in Left : Cardinality(Above(S, m)) <= Cardinality(Above(S, w))
  <2>1. Ranks \subseteq Nat /\ Ranks # {}
    BY <1>0
  <2>2. PICK r \in Ranks : \A q \in Ranks : ~(<<q, r>> \in OpToRel(<, Nat))
    <3> HIDE DEF Ranks
    <3> QED BY <2>1, NatLessThanWellFounded, WFMin
  <2>3. ASSUME NEW q \in Ranks PROVE r <= q
    <3>1. r \in Nat /\ q \in Nat
      BY <2>1
    <3>2. ~(q < r)
      BY <2>2, <3>1 DEF OpToRel
    <3> QED BY <3>1, <3>2
  <2>4. PICK w \in Left : r = Cardinality(Above(S, w))
    OBVIOUS
  <2> QED BY <2>3, <2>4
<1>5. m >= v
  <2>1. ASSUME v > m PROVE FALSE
    BY <1>0, <1>1, <1>4, <2>1
  <2> QED BY <2>1
<1>6. Above(S, m) \subseteq Above(Newest(S, keep), v)
  <2> SUFFICES ASSUME NEW x \in S, x > m PROVE x \in Newest(S, keep) /\ x > v
    BY DEF Above
  <2>1. x \in Newest(S, keep)
    BY <1>0, <1>1, <1>4
  <2> QED BY <1>5, <2>1
<1>7. IsFiniteSet(Above(Newest(S, keep), v))
  <2>1. Above(Newest(S, keep), v) \in SUBSET S
    BY DEF Above, Newest
  <2> QED BY <2>1, FS_Subset
<1>8. Cardinality(Above(S, m)) <= Cardinality(Above(Newest(S, keep), v))
  BY <1>6, <1>7, FS_Subset
<1>9. Cardinality(Above(S, m)) >= keep /\ Cardinality(Above(Newest(S, keep), v)) \in Nat
  BY <1>0, <1>2, <1>7, FS_CardinalityType
<1> QED BY <1>0, <1>8, <1>9

(***************************************************************************)
(* While the only updater prunes, the binaries it is not going to remove   *)
(* are enough: what remains to be removed shrinks with the directory.      *)
(***************************************************************************)
Spared ==
  \A p \in Procs : pc[p] = "prune" =>
    \A v \in doomed[p] : Cardinality(Above(files \ doomed[p], v)) >= Retain

\* What RollbackKept says of a step.
Rollback ==
  \A v \in files \ files' :
    \/ layout = "inplace"
    \/ Cardinality({w \in files' : w > v}) >= Retain

\* More binaries, more above a version.
LEMMA MoreAbove ==
  ASSUME NEW S, NEW T, S \subseteq T, T \subseteq Versions, NEW v
  PROVE  /\ Cardinality(Above(S, v)) \in Nat /\ Cardinality(Above(T, v)) \in Nat
         /\ Cardinality(Above(S, v)) <= Cardinality(Above(T, v))
<1>1. Above(T, v) \in SUBSET Versions /\ Above(S, v) \in SUBSET Above(T, v)
  BY DEF Above
<1>2. IsFiniteSet(Above(T, v))
  BY <1>1, FS_Subset, UpdateAssumption
<1>3. /\ IsFiniteSet(Above(S, v))
      /\ Cardinality(Above(S, v)) <= Cardinality(Above(T, v))
  BY <1>1, <1>2, FS_Subset
<1> QED BY <1>2, <1>3, FS_CardinalityType

\* prune lists only binaries with enough newer ones that it does not list.
LEMMA ListSpares ==
  ASSUME TypeOK, NEW p \in Procs, NEW v \in Pruned(p)
  PROVE  Cardinality(Above(files \ Pruned(p), v)) >= Retain
<1>1. /\ files \subseteq Nat /\ IsFiniteSet(files) /\ Retain \in Nat /\ files \subseteq Versions
  BY UpdateAssumption, FS_Subset DEF TypeOK
<1>2. Newest(files, Retain) \subseteq files \ Pruned(p) /\ v \in files \ Newest(files, Retain)
  BY DEF Pruned, Newest
<1>3. Cardinality(Above(Newest(files, Retain), v)) >= Retain
  BY <1>1, <1>2, NewestAreEnough
<1>4. files \ Pruned(p) \subseteq Versions
  BY <1>1
<1> QED BY <1>1, <1>2, <1>3, <1>4, MoreAbove

\* A step of the only updater that removes a binary leaves Retain newer ones.
LEMMA PruneStep ==
  ASSUME NEW CONSTANT u, Procs = {u}, TypeOK, Spared, Step(u)
  PROVE  Spared' /\ Rollback
<1>0. /\ pc \in [Procs -> Labels] /\ doomed \in [Procs -> SUBSET Versions]
      /\ files \subseteq Versions /\ Retain \in Nat
  BY UpdateAssumption DEF TypeOK
<1>a. ASSUME pc'[u] # "prune", files \subseteq files' \/ layout = "inplace" PROVE Spared' /\ Rollback
  BY <1>a DEF Spared, Rollback
<1>1. CASE PruneList(u)
  <2>1. files' = files /\ doomed' = [doomed EXCEPT ![u] = Pruned(u)]
    BY <1>1 DEF PruneList, install
  <2>2. doomed'[u] = Pruned(u)
    BY <1>0, <2>1
  <2> QED BY <2>1, <2>2, ListSpares DEF Spared, Rollback
<1>2. CASE PruneRemove(u)
  <2>1. PICK v \in doomed[u] : /\ files' = files \ {v}
                              /\ doomed' = [doomed EXCEPT ![u] = doomed[u] \ {v}]
    BY <1>2 DEF PruneRemove
  <2>2. doomed'[u] = doomed[u] \ {v} /\ pc[u] = "prune"
    BY <1>0, <1>2, <2>1 DEF PruneRemove
  <2>3. files' \ doomed'[u] = files \ doomed[u]
    BY <2>1, <2>2
  <2>4. Spared'
    BY <2>2, <2>3 DEF Spared
  <2>5. Cardinality(Above(files \ doomed[u], v)) >= Retain
    BY <2>2 DEF Spared
  <2>6. files \ doomed[u] \subseteq files' /\ files' \subseteq Versions
    BY <1>0, <2>1
  <2>7. Cardinality(Above(files', v)) >= Retain
    BY <1>0, <2>5, <2>6, MoreAbove
  <2> QED BY <2>1, <2>4, <2>7 DEF Rollback, Above
<1>8. CASE PruneRemoveFails(u)
  <2>1. PICK v \in doomed[u] : /\ files' = files
                              /\ doomed' = [doomed EXCEPT ![u] = doomed[u] \ {v}]
    BY <1>8 DEF PruneRemoveFails, install
  <2>2. doomed'[u] = doomed[u] \ {v} /\ pc[u] = "prune"
    BY <1>0, <1>8, <2>1 DEF PruneRemoveFails
  <2>3. files \ doomed[u] \subseteq files' \ doomed'[u] /\ files' \ doomed'[u] \subseteq Versions
    BY <1>0, <2>1, <2>2
  <2>4. ASSUME NEW w \in doomed'[u]
        PROVE  Cardinality(Above(files' \ doomed'[u], w)) >= Retain
    <3>1. Cardinality(Above(files \ doomed[u], w)) >= Retain
      BY <2>2, <2>4 DEF Spared
    <3> QED BY <1>0, <2>3, <3>1, MoreAbove
  <2> QED BY <2>1, <2>4 DEF Spared, Rollback
<1> USE <1>0, <1>a DEF Goto, Return, install
<1>3. CASE Start(u) \/ Guard(u) \/ GuardFails(u) \/ RecentlyChecked(u) \/ NoStampPath(u)
           \/ MarkChecked(u) \/ MarkCheckedFails(u)
  BY <1>3 DEF Start, Guard, AfterGuard, GuardFails, RecentlyChecked, NoStampPath,
     MarkChecked, MarkCheckedFails, CheckUnmarked
<1>4. CASE LatestTag(u) \/ LatestTagFails(u) \/ Download(u) \/ DownloadFails(u)
  BY <1>4 DEF LatestTag, LatestTagFails, Download, DownloadFails
<1>5. CASE WriteExecutable(u) \/ ReplaceInPlace(u) \/ WriteFails(u)
  BY <1>5 DEF WriteExecutable, ReplaceInPlace, WriteFails
<1>6. CASE RemoveTmpLink(u) \/ Symlink(u) \/ Rename(u) \/ SwapFails(u)
  BY <1>6 DEF RemoveTmpLink, Symlink, Rename, SwapFails
<1>7. CASE PruneListFails(u) \/ PruneEnds(u) \/ Crash(u)
  BY <1>7 DEF PruneListFails, PruneEnds, Crash
<1> QED BY <1>1, <1>2, <1>3, <1>4, <1>5, <1>6, <1>7, <1>8 DEF Step

(***************************************************************************)
(* One updater at a time always leaves Retain versions to roll back to:    *)
(* prune removes a binary only when that many newer ones stay, also when   *)
(* it was killed and runs again, for any set of versions.                  *)
(***************************************************************************)
THEOREM KeepsRollback ==
  ASSUME NEW CONSTANT u, Procs = {u}
  PROVE  Spec => RollbackKept
<1>1. Init => Spared
  BY DEF Init, Spared
<1>2. TypeOK /\ Spared /\ [Next]_vars => Spared' /\ [Rollback]_vars
  <2> SUFFICES ASSUME TypeOK, Spared, [Next]_vars PROVE Spared' /\ Rollback
    OBVIOUS
  <2>1. ASSUME NEW p \in Procs, Step(p) PROVE Spared' /\ Rollback
    BY <2>1, PruneStep
  <2>2. CASE UNCHANGED <<layout, install, pc, local>>
    BY <2>2 DEF Spared, Rollback, install, local
  <2> QED BY <2>1, <2>2 DEF Next, Publish, DayPasses, vars
<1> QED
  BY <1>1, <1>2, TypeCorrect, PTL DEF Spec, RollbackKept, Rollback
=============================================================================
