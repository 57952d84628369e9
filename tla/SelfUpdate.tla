----------------------------- MODULE SelfUpdate -----------------------------
(***************************************************************************)
(* selfupdate.update and selfupdate.apply (v1alpha1/selfupdate): processes *)
(* of kubectl-add share an install directory and a throttle stamp.  In the *)
(* versioned layout the directory holds binaries kubectl_add_<version> and *)
(* the symlink kubectl-add; an update writes a binary, replaces the        *)
(* symlink through the shared name kubectl-add.new and prunes old          *)
(* binaries.  A process may die between any two steps.                     *)
(*                                                                         *)
(* Versions are numbers in semver order.  An archive is genuine, corrupt   *)
(* (its checksum does not match) or forged (it does, but no valid          *)
(* signature covers it).                                                   *)
(***************************************************************************)
EXTENDS Naturals, FiniteSets

CONSTANTS Procs,        \* concurrent kubectl-add processes
          InitLayouts,  \* the kinds of install considered, see Layouts
          Versions,     \* release and local versions, a set of numbers
          Retain,       \* the constant retain
          MaxMissed,    \* bound: checks a day that leave no stamp
          NoVersion     \* "no such link"

ASSUME UpdateAssumption == /\ Versions \subseteq Nat
                           /\ IsFiniteSet(Versions)
                           /\ InitLayouts \subseteq {"symlink", "inplace", "managed", "dev"}
                           /\ Retain \in Nat \ {0}
                           /\ MaxMissed \in Nat
                           /\ NoVersion \notin Versions

VARIABLES
  layout,    \* how this binary was installed, see Layouts
  published, \* the release that releases/latest names
  files,     \* versions whose binary is in the directory
  tainted,   \* those of them that did not come from a genuine archive
  link,      \* target of the symlink kubectl-add (in place: the binary itself)
  tmpLink,   \* target of kubectl-add.new, NoVersion if there is none
  stamp,     \* last-update-check: "old" (or missing), or "fresh" (< checkEvery)
  checks,    \* history: throttled network checks since a day last passed
  missed,    \* history: those of them that left no stamp
  pc,        \* the step of update each process is at
  cur,       \* the version it runs
  want,      \* the release it installs
  archive,   \* the verified archive it holds, "none" if it holds none
  doomed,    \* the binaries its prune has yet to remove
  outcome    \* what update did: "updated", "kept", "err"

install == <<files, tainted, link, tmpLink>>
throttle == <<stamp, checks, missed>>
local == <<cur, want, archive, doomed>>
vars == <<layout, published, install, throttle, pc, local, outcome>>

\* symlink: versioned binaries and a symlink; inplace: a single binary (tap,
\* bare download); managed: krew or Nix; dev: a prerelease build.
Layouts  == {"symlink", "inplace", "managed", "dev"}
Archives == {"genuine", "corrupt", "forged"}
Labels   == {"idle", "guard", "check", "stamp", "latest", "download", "write",
             "unlink", "symlink", "rename", "list", "prune"}

TypeOK ==
  /\ layout \in Layouts
  /\ published \in Versions
  /\ files \subseteq Versions
  /\ tainted \subseteq files
  /\ link \in Versions
  /\ tmpLink \in Versions \cup {NoVersion}
  /\ stamp \in {"old", "fresh"}
  /\ checks \in Nat
  /\ missed \in 0 .. MaxMissed
  /\ pc \in [Procs -> Labels]
  /\ cur \in [Procs -> Versions]
  /\ want \in [Procs -> Versions]
  /\ archive \in [Procs -> Archives \cup {"none"}]
  /\ doomed \in [Procs -> SUBSET Versions]
  /\ outcome \in [Procs -> {"none", "updated", "kept", "err"}]

\* Any directory a user can have: several versions, the symlink flipped to an
\* older one for a rollback, binaries newer than the latest release.
Init ==
  /\ layout \in InitLayouts
  /\ published \in Versions
  /\ files \in SUBSET Versions
  /\ link \in files
  /\ layout = "inplace" => files = {link}
  /\ tainted = {}
  /\ tmpLink = NoVersion
  /\ stamp = "old" /\ checks = 0 /\ missed = 0
  /\ pc = [p \in Procs |-> "idle"]
  /\ cur = [p \in Procs |-> link]
  /\ want = [p \in Procs |-> link]
  /\ archive = [p \in Procs |-> "none"]
  /\ doomed = [p \in Procs |-> {}]
  /\ outcome = [p \in Procs |-> "none"]

-----------------------------------------------------------------------------
(* update: guards, throttle and version check.                             *)

Goto(p, label) == pc' = [pc EXCEPT ![p] = label] /\ UNCHANGED outcome

\* update returns; the command the user asked for runs next.
Return(p, what) == /\ pc' = [pc EXCEPT ![p] = "idle"]
                   /\ outcome' = [outcome EXCEPT ![p] = what]

\* kubectl finds the plugin through the symlink and runs what it points to.
Start(p) ==
  /\ pc[p] = "idle"
  /\ link \in files
  /\ cur' = [cur EXCEPT ![p] = link]
  /\ pc' = [pc EXCEPT ![p] = "guard"]
  /\ outcome' = [outcome EXCEPT ![p] = "none"]
  /\ UNCHANGED <<layout, published, install, throttle, want, archive, doomed>>

\* AutoUpdate goes through the throttle, --update (Update) does not.
AfterGuard == {"check", "latest"}

\* A development build is left alone; managedInstall and locate find out what
\* kind of install this is.
Guard(p) ==
  /\ pc[p] = "guard"
  /\ IF layout = "dev" THEN Return(p, "kept") ELSE \E label \in AfterGuard : Goto(p, label)
  /\ UNCHANGED <<layout, published, install, throttle, local>>

\* The directory is not writable, or this is Windows without the layout.
GuardFails(p) ==
  /\ pc[p] = "guard"
  /\ layout \in {"symlink", "inplace"}
  /\ Return(p, "err")
  /\ UNCHANGED <<layout, published, install, throttle, local>>

RecentlyChecked(p) ==
  /\ pc[p] = "check"
  /\ IF stamp = "fresh" THEN Return(p, "kept") ELSE Goto(p, "stamp")
  /\ UNCHANGED <<layout, published, install, throttle, local>>

\* Off to the network without a stamp to tell the next process.
CheckUnmarked(p) ==
  /\ missed < MaxMissed
  /\ checks' = checks + 1 /\ missed' = missed + 1
  /\ Goto(p, "latest")
  /\ UNCHANGED <<layout, published, install, stamp, local>>

\* No cache directory can be named (stampPath is ""): recentlyChecked says no,
\* whatever stamp other processes see, and markChecked does nothing.
NoStampPath(p) == pc[p] = "check" /\ CheckUnmarked(p)

\* Mutant: the stamp is not written before the network call.
MarkCheckedLater(p) ==
  /\ pc[p] = "stamp"
  /\ checks' = checks + 1
  /\ Goto(p, "latest")
  /\ UNCHANGED <<layout, published, install, stamp, missed, local>>

\* markChecked, and with it the decision to go to the network.
MarkChecked(p) ==
  /\ pc[p] = "stamp"
  /\ stamp' = "fresh"
  /\ checks' = checks + 1
  /\ Goto(p, "latest")
  /\ UNCHANGED <<layout, published, install, missed, local>>

\* MkdirAll or Create fails; the error is ignored and the check takes place.
MarkCheckedFails(p) == pc[p] = "stamp" /\ CheckUnmarked(p)

\* Mutant: any release other than the running one is installed.
LatestTagDiffers(p) ==
  /\ pc[p] = "latest"
  /\ want' = [want EXCEPT ![p] = published]
  /\ IF published = cur[p] \/ layout = "managed"
       THEN Return(p, "kept") ELSE Goto(p, "download")
  /\ UNCHANGED <<layout, published, install, throttle, cur, archive, doomed>>

\* latestTag answers.  A managed install is only told about the release.
LatestTag(p) ==
  /\ pc[p] = "latest"
  /\ want' = [want EXCEPT ![p] = published]
  /\ IF published <= cur[p] \/ layout = "managed"
       THEN Return(p, "kept") ELSE Goto(p, "download")
  /\ UNCHANGED <<layout, published, install, throttle, cur, archive, doomed>>

LatestTagFails(p) ==
  /\ pc[p] = "latest"
  /\ Return(p, "err")
  /\ UNCHANGED <<layout, published, install, throttle, local>>

-----------------------------------------------------------------------------
(* apply: download, verify, swap, prune.                                   *)

\* Mutant: the checksum alone is trusted.
VerifiedByChecksum(a) == a # "corrupt"

\* verifyChecksum and verifySignature.
Verified(a) == a # "corrupt" /\ a # "forged"

\* The archive, its checksum and its signature are downloaded and verified and
\* the binary is extracted; anything wrong with them ends the update.
Download(p) ==
  /\ pc[p] = "download"
  /\ \E a \in Archives :
       IF Verified(a)
         THEN archive' = [archive EXCEPT ![p] = a] /\ Goto(p, "write")
         ELSE UNCHANGED archive /\ Return(p, "err")
  /\ UNCHANGED <<layout, published, install, throttle, cur, want, doomed>>

DownloadFails(p) ==
  /\ pc[p] = "download"
  /\ Return(p, "err")
  /\ UNCHANGED <<layout, published, install, throttle, local>>

\* The downloaded bytes have been written, or are gone with the process.
DropArchive(p) == archive' = [archive EXCEPT ![p] = "none"]

Written(p) == IF archive[p] = "genuine" THEN tainted \ {want[p]}
                                        ELSE tainted \cup {want[p]}

\* writeExecutable: a temporary file renamed into place, so the binary
\* appears complete or not at all.
WriteExecutable(p) ==
  /\ pc[p] = "write"
  /\ layout # "inplace"
  /\ files' = files \cup {want[p]}
  /\ tainted' = Written(p)
  /\ DropArchive(p)
  /\ Goto(p, "unlink")
  /\ UNCHANGED <<layout, published, link, tmpLink, throttle, cur, want, doomed>>

\* In place, the rename replaces the binary itself.
ReplaceInPlace(p) ==
  /\ pc[p] = "write"
  /\ layout = "inplace"
  /\ files' = {want[p]}
  /\ link' = want[p]
  /\ tainted' = Written(p) \cap {want[p]}
  /\ DropArchive(p)
  /\ Return(p, "updated")
  /\ UNCHANGED <<layout, published, tmpLink, throttle, cur, want, doomed>>

WriteFails(p) ==
  /\ pc[p] = "write"
  /\ DropArchive(p)
  /\ Return(p, "err")
  /\ UNCHANGED <<layout, published, install, throttle, cur, want, doomed>>

\* _ = os.Remove(tmpLink)
RemoveTmpLink(p) ==
  /\ pc[p] = "unlink"
  /\ tmpLink' = NoVersion
  /\ Goto(p, "symlink")
  /\ UNCHANGED <<layout, published, files, tainted, link, throttle, local>>

\* os.Symlink fails if another process has just made one.
Symlink(p) ==
  /\ pc[p] = "symlink"
  /\ IF tmpLink = NoVersion
       THEN tmpLink' = want[p] /\ Goto(p, "rename")
       ELSE UNCHANGED tmpLink /\ Return(p, "err")
  /\ UNCHANGED <<layout, published, files, tainted, link, throttle, local>>

\* Mutant: the old symlink is removed before the rename.
RenameAfterRemove(p) ==
  /\ pc[p] = "rename"
  /\ IF link # NoVersion
       THEN link' = NoVersion /\ UNCHANGED <<tmpLink, pc, outcome>>
       ELSE link' = tmpLink /\ tmpLink' = NoVersion /\ Goto(p, "list")
  /\ UNCHANGED <<layout, published, files, tainted, throttle, local>>

\* os.Rename moves whatever kubectl-add.new is by now over the symlink.
Rename(p) ==
  /\ pc[p] = "rename"
  /\ IF tmpLink = NoVersion
       THEN UNCHANGED <<link, tmpLink>> /\ Return(p, "err")
       ELSE link' = tmpLink /\ tmpLink' = NoVersion /\ Goto(p, "list")
  /\ UNCHANGED <<layout, published, files, tainted, throttle, local>>

\* os.Symlink or os.Rename fails for another reason (permissions, a full disk).
SwapFails(p) ==
  /\ pc[p] \in {"symlink", "rename"}
  /\ Return(p, "err")
  /\ UNCHANGED <<layout, published, install, throttle, local>>

\* The keep newest versions of a directory.
Newest(S, keep) == {v \in S : Cardinality({w \in S : w > v}) < keep}

\* Mutant: prune keeps the newest binaries and nothing else.
PrunedAll(p) == files \ Newest(files, Retain)

\* Mutant: prune keeps one binary too few.
PrunedOneMore(p) == (files \ Newest(files, Retain - 1)) \ {want[p]}

\* What prune will remove: all but the newest and the one just installed.
Pruned(p) == (files \ Newest(files, Retain)) \ {want[p]}

\* prune reads the directory ...
PruneList(p) ==
  /\ pc[p] = "list"
  /\ doomed' = [doomed EXCEPT ![p] = Pruned(p)]
  /\ Goto(p, "prune")
  /\ UNCHANGED <<layout, published, install, throttle, cur, want, archive>>

PruneListFails(p) ==
  /\ pc[p] = "list"
  /\ Return(p, "updated")
  /\ UNCHANGED <<layout, published, install, throttle, local>>

\* ... and removes the binaries one by one.
PruneRemove(p) ==
  /\ pc[p] = "prune"
  /\ \E v \in doomed[p] :
       /\ files' = files \ {v}
       /\ tainted' = tainted \ {v}
       /\ doomed' = [doomed EXCEPT ![p] = @ \ {v}]
  /\ UNCHANGED <<layout, published, link, tmpLink, throttle, pc, outcome, cur, want, archive>>

\* A binary that cannot be removed stays.
PruneRemoveFails(p) ==
  /\ pc[p] = "prune"
  /\ \E v \in doomed[p] : doomed' = [doomed EXCEPT ![p] = @ \ {v}]
  /\ UNCHANGED <<layout, published, install, throttle, pc, outcome, cur, want, archive>>

PruneEnds(p) ==
  /\ pc[p] = "prune"
  /\ doomed[p] = {}
  /\ Return(p, "updated")
  /\ UNCHANGED <<layout, published, install, throttle, local>>

-----------------------------------------------------------------------------
(* The environment.                                                        *)

\* The process is killed; the next step is never taken.
Crash(p) ==
  /\ pc[p] # "idle"
  /\ pc' = [pc EXCEPT ![p] = "idle"]
  /\ outcome' = [outcome EXCEPT ![p] = "none"]
  /\ DropArchive(p)
  /\ doomed' = [doomed EXCEPT ![p] = {}]
  /\ UNCHANGED <<layout, published, install, throttle, cur, want>>

Publish == /\ \E v \in Versions : v > published /\ published' = v
           /\ UNCHANGED <<layout, install, throttle, pc, local, outcome>>

\* checkEvery has passed since the stamp was written, or since the checks that
\* left none.
DayPasses == /\ stamp = "fresh" \/ checks > 0
             /\ stamp' = "old" /\ checks' = 0 /\ missed' = 0
             /\ UNCHANGED <<layout, published, install, pc, local, outcome>>

Step(p) ==
  \/ Start(p) \/ Guard(p) \/ GuardFails(p) \/ RecentlyChecked(p) \/ NoStampPath(p)
  \/ MarkChecked(p) \/ MarkCheckedFails(p) \/ LatestTag(p) \/ LatestTagFails(p) \/ Download(p) \/ DownloadFails(p)
  \/ WriteExecutable(p) \/ ReplaceInPlace(p) \/ WriteFails(p) \/ RemoveTmpLink(p)
  \/ Symlink(p) \/ Rename(p) \/ SwapFails(p) \/ PruneList(p)
  \/ PruneListFails(p) \/ PruneRemove(p) \/ PruneRemoveFails(p) \/ PruneEnds(p)
  \/ Crash(p)

Next == (\E p \in Procs : Step(p)) \/ Publish \/ DayPasses

Spec == Init /\ [][Next]_vars

-----------------------------------------------------------------------------
\* kubectl always finds a binary behind kubectl-add, also when an updater died
\* between two steps of the swap, or the user had rolled back.
LinkResolves == link \in files

\* "Never swap an archive this can't prove" (selfupdate.go, apply): no binary
\* in the directory comes from an archive that is not genuine.
InstalledIsGenuine == tainted = {}

\* Of the checks of a day at most one leaves a stamp: whoever can see it checks
\* no more, also when the process that left it died right after.  AutoUpdate's
\* "at most once per day" holds on days on which every check leaves its stamp.
OneCheckPerStamp == checks <= 1 + missed

\* An update never replaces the running version by an older one, and never
\* touches a managed install or a development build (update's two guards).
OnlyForward ==
  [][link' # link => link' > link /\ layout \in {"symlink", "inplace"}]_vars

\* prune leaves enough to roll back to: a binary goes only when Retain newer
\* ones stay.
RollbackKept ==
  [][\A v \in files \ files' :
       \/ layout = "inplace"
       \/ Cardinality({w \in files' : w > v}) >= Retain]_vars
=============================================================================
