# A TLA+ model of kubectl-add

`kubectl-add` is a kubectl plugin. `kubectl add <resource>` resolves a URL, a
repository, an image or a chart to a manifest and applies it **in the cluster,
as the connected user**: it forwards the caller's credential in a Secret, starts
a pod that mounts it, and streams the manifest to a `kubectl apply` there.
`kubectl add tunnel` exposes the API server or a Service under a public URL. The
plugin also updates its own binary.

The modules here model the parts that keep state, meet other processes or can
fail half-way. Paths below are relative to the repository root; `file:line`
refers to the commit the modules were written from, and the `map` of
`PROJECT.json` says which lines each definition stands for.

## 1. Inventory

| Component | Source | State it keeps | Operations | What is hard |
|---|---|---|---|---|
| remote applier | `v1alpha1/remote/remote.go` | a Secret, one or two pods, deferred deletes, exec streams | `Run`, `createSecret`, `createPod`, `waitReady`, `apply`, `stream`, `deletePod`, `deleteSecret` | lost replies, pod failures, cancellation at any call, two runs with one random name, clean-up on every path |
| kustomize pipe | `remote.go`, `pipeKustomize` | an `io.Pipe`, the `buildErr` channel, two goroutines, two execs | build, apply, join | a truncated stream that looks complete; goroutines that wait for each other |
| caller credential | `v1alpha1/remote/credential.go` | none; reads the REST configuration and up to three files | `callerCredential` | files rotated between two reads, failing closed |
| self-update | `v1alpha1/selfupdate/*.go` | install directory (binaries, symlink, temporary link), stamp file | `update`, `locate`, `apply`, `prune`, `recentlyChecked`, `markChecked` | crashes between file operations, two updaters at once, rollbacks, unverified archives |
| tunnel and its kubeconfig context | `v1alpha1/tunnel/tunnel.go`, `cmd/add/add.go`, `tunnel/auth/impersonate.go` | kubeconfig file, ServiceAccount, ClusterRole, binding | `Run`, `serve`, `announce`, `writeTunnelContext`, `MintImpersonation` | a configuration read early and written late, half-done minting, users and other tunnels editing the same file |
| in-cluster tunnel | `v1alpha1/tunnel/deployment/deployment.go` | one Deployment per target, named by `slug` | `parseTarget`, `Install`, `apply`, `waitForPublicURL`, `Remove` | racing installs and removals, pods of an earlier Deployment, names that are cut, a log without an end |
| helm install and values | `cmd/add/add.go`, `v1alpha1/helm/values.go` | a values ConfigMap per chart URL | `installHelm`, `LoadValues`, `StoreValues`, `editConfigMap` | a second install or an editor between load, store and reload; `--remove` after a release |
| helm discovery | `v1alpha1/helm/repo.go`, `oci.go`, `helm.go` | the files fetched so far | `Discover`, `DiscoverRepo`, `DiscoverArchive`, `pullChart` | one of many requests failing, a 404 that may be passed over and an error that may not, selection rules |
| kustomize materialization | `v1alpha1/kustomize/kustomize.go` | the kustomizations seen, the tar | `Materialize`, a depth-first walk | cycles, shared bases, a site that changes during the walk |
| resolution | `v1alpha1/resolve/**` | the paths listed so far | `Registry.Resolve`, the git, http and image resolvers | order of resolvers, URLs whose segments look like markers, pagination, truncated listings, a branch that moves |
| command line, watch padding, HTTP client, version | `cmd/kubectl-add/main.go`, `tunnel/apiserver/watch.go`, `httpclient`, `version` | signal context | flag binding, plumbing | cancellation |

How they meet: `main` makes a context that Ctrl-C cancels and that every wait
below watches. The command resolves its resource; a chart goes through
`installHelm`, a kustomization is materialized to a tar, and all end in
`remote.Applier.Run`, which first asks `callerCredential`. The processes share
the namespace (Secrets, Pods, ConfigMaps, Deployments), the kubeconfig file and
the install directory with other processes of the same program; nothing locks
any of these.

What makes each part correct:

- *applier*: it uses and deletes only what it created itself, runs kubectl with
  its own caller's credential, answers nil only for a complete apply, leaves
  nothing behind, and returns when it is cancelled;
- *pipe*: nothing is lost between the pods without an error, and it ends;
- *credential*: one whole credential is forwarded, and an error is never
  followed by a fallback;
- *self-update*: there is always a genuine binary behind the symlink, it never
  moves backwards, prune leaves versions to roll back to, and a check that leaves
  its stamp is the day's last;
- *tunnel*: its context and its RBAC objects go with it, and the selected
  context exists;
- *in-cluster tunnel*: an install is only replaced by one that has read it, every
  Deployment has a valid name, a command reports and removes its own target's
  tunnel, and it returns;
- *resolution*: a URL leads to what it shows on its host, a repository to its own
  chart, whatever the order and the pages of the listing;
- *helm discovery*: a chart has all the parts helm renders or is not rendered, and
  an index or a registry yields the version that was asked for or the newest;
- *materialization*: the builder finds in the tar whatever a kustomization in it
  refers to, and the walk ends;
- *helm values*: what a user saved is kept, found again and rendered.

The `hazards` of `PROJECT.json` list, line by line, what could break these.

## 2. Modules

| Module | Models | State and actions |
|---|---|---|
| `ApplyOutcome` | the promise of `Run` | `applied`, `result`; documents are applied one by one, one answer, nil only after all of them |
| `Applier` | `Run` and what it calls, several runs in one namespace | `pc` is the statement of `Run`; `deferred` the stack of deletes; `secrets`, `pods` the cluster; `kubectl`, `got`, `applied` the remote end of the exec. One action per call and outcome: `CreateSecret`, `CreateSecretFails`, `CreateSecretReplyLost`, ... |
| `KustomizePipe` | `pipeKustomize` goroutine by goroutine | main, builder and remotecommand's stdin copier; `piped` is a blocked `pw.Write`, `buildErr` the channel |
| `Credential` | `callerCredential` | one action per read; `Rotate` changes a file between reads |
| `SelfUpdate`, `MCSelfUpdate` | `update`, `apply`, `prune` | one action per file operation; `Crash` between any two |
| `TunnelContext` | `serve`/`runInstall`, `announce`, `writeTunnelContext`, `MintImpersonation` | `file` is the kubeconfig, `raw` what the process's loader has read, `grants` the RBAC objects; the user adds and selects contexts |
| `TunnelDeployment`, `MCTunnelDeployment` | `parseTarget`, `slug`, `deployment.Install` and `Remove` | one Deployment per slug with its resource version, the pods, one action per API call |
| `GitTree` | what the git resolver makes of URLs and listings | operators: the pages a host answers (`GitHubPage`, `GitLabPage`, `BitbucketPage`), `ParseRef`, `RepoOf`, `RouteSubpath`, `RouteRepo` |
| `HelmSelect` | `chooseChart`, `selectVersion`, `highestSemver` | operators |
| `Materialize` | `kustomize.Materialize` | `stack` holds the open calls of the recursion, `seen`, `archive` the tar; one action per entry of a kustomization and outcome |
| `AddRun`, `MCAddRun` | `Add.Run` from its argument to what it hands on; composes the three modules above | `pc` is the request the command waits for; `site` and `catalog` are the servers, `Move` a push to the branch; one action per request and outcome; `ReviewValues` is the rest of `installHelm` in one step |
| `HelmInstall` | `installHelm`, `editConfigMap`, values ConfigMaps | one action per API call or editor session; releases and deletions meanwhile |
| `ApplierProofs`, `KustomizePipeProofs`, `CredentialProofs`, `SelfUpdateProofs`, `TunnelContextProofs`, `TunnelDeploymentProofs`, `HelmInstallProofs`, `AddRunProofs` | theorems (section 4) | each extends the module it is about; `AddRunProofs` is also about `Materialize` and `GitTree` |

`Applier` and `KustomizePipe` are two views of the same code: `Applier` has the
whole life of several runs and keeps of the pipe only what its result depends
on; `KustomizePipe` has the goroutines of one. Both implement `ApplyOutcome`
(`KeepsPromise` in each). `AddRun` ends where they begin: at `handed` a manifest,
a rendered chart or a tar goes to the applier. `HelmInstall` is what happens
between a chart that was discovered and that point, seen from the values.
`AddRun` EXTENDS `Materialize` and interleaves its steps with `Move`; each `Walk`
step is a step of `Materialize`, restricted to what the site serves, and
`Spec => MaterializeSpec` is a theorem.

Abstractions. A manifest is a number of documents; kubectl applies those it has
received in order and cannot tell a short input from a complete one, except an
empty one, which it refuses. A credential is the run it belongs to, or where it
was read from. Versions are numbers in semver order. An archive is genuine,
corrupt (the checksum does not match) or forged (it does, and no valid signature
covers it). A context is the user's context and the number of `-tunnel` suffixes; what it
points at is the user's cluster, a tunnel, or the dead URL of a killed one.
Values are "the defaults of version v" or "what the user of run r saved".
A path is the sequence of its segments, a URL what follows the host in it; a
repository is a set of paths at a tag and one at a branch. Which resolvers detect
a resource is given with it (`res.detect`), and so is what its URL means on the
host (`res.asked`), which only the properties read; `URLAssumption` ties the two
together. A ref that was misread, `-` of a GitLab URL for example, names no tree,
and what is listed of it is empty (`Tree`). Sorting is stated by what it yields:
`SortEntries` is an arrangement in which nothing newer comes behind; a loop that
filters is the recursive function `Kept`, one step per element. A kustomization is its list
of entries. A version string has a place in the semver order or, with 0, none. A
target's name is a sequence of characters, because `slug` maps and cuts it.
Contents of pod specs, logs and messages are left out.

External behaviour, modelled from how the code uses it: the listings of the git
hosts (a recursive tree with a limit, numbered pages, one listing per directory),
the API server (create
fails on an existing name, update fails on a stale resource version if one is
given, a reply may be lost), kubelet and the Deployment controller, kubectl,
client-go's remotecommand (a stdin copier that reads ahead of the remote
process; the exec ends when the process ends, the connection breaks or the
context is done), and `clientcmd.ModifyConfig`, which makes the kubeconfig equal
to the configuration it is given. The loader that `cmd/kubectl-add/main.go:16`
makes is a persistent one: it reads the kubeconfig once and answers every later
`RawConfig` from that.

## 3. Runs

Passing runs (distinct states):

| Run | Instance | Checks |
|---|---|---|
| `applier` (731,116) | a kustomize run of two documents and a `--remove` run, one possible name; lost replies, pod failures, cancellation, kills; fairness | `TypeOK`, `DeferredIsOwn`, `AppliesAsCaller`, `CleanExit`, `DeletesOnlyOwn`: when names collide, the Secret acts as the lock on the name, because its create comes first and fails for the second run. `KeepsPromise` (nil only after a complete apply) and `CancelReturns` on the same instance |
| `add_run` (68,253) | repositories of up to eight files on three hosts, a site, chart repositories with up to two charts, whose packages are on a web server or in a registry, registries with up to three tags; every request may fail, the branch moves at any time; fairness | `TypeOK`, `NoPartLost`, `RightArtifact`, `LeadsWhereAsked`, `PinnedOrNewest`, `BuilderFinds`, `WalkedOnce`, `Ends` |
| `kustomize_pipe` (3,478) | three documents: one in kubectl, one in the copier, one in a blocked write | `TypeOK`, `KeepsPromise`, `CancelReturns`, `ReturnsUnlessApplyEndsFirst` |
| `selfupdate` (136,895) | one updater at a time, every initial directory over five versions, all four kinds of install, crashes, stamps that cannot be written | `TypeOK`, `LinkResolves`, `InstalledIsGenuine`, `OneCheckPerStamp`, `OnlyForward`, `RollbackKept` |
| `tunnel_context` (19,178) | one tunnel, two user contexts and what a killed tunnel left beside them, a user who adds and selects | `TypeOK`, `DeadContextRetired`, `SelectionExists`, `GrantsRevoked` |
| `tunnel_deployment` (188,692) | two installs and a removal, over an earlier tunnel or none; six choices of their targets: one Service with two ports, two Services, one that is cut to the name of another, one without a port, one called like the API server, one whose port is left out behind its colon | `TypeOK`, `NoLostInstall`, `NamesValid`, `ReportsOwnTarget`, `OnlyOwnRemoved`, `InstallEnds` |
| `credential` (95,608) | every configuration and every state of the files, one change during the resolution | `TypeOK`, `ExactlyOne` |
| `helm_install` (140,368) | two commands in sequence or at once, a release, a deletion | `TypeOK`, `EditsKept`, `ReviewedOrNewer` |

Runs that find the code and its documentation in disagreement:

| Run | Property | What happens |
|---|---|---|
| `kustomize_pipe_ends` | `EndsWithItsProcesses` | when `kubectl apply` fails before it has read everything, nobody reads the pipe any more and nobody closes its read end; the builder blocks in `pw.Write`, and `<-buildErr` (`remote.go:232`) waits until Ctrl-C |
| `selfupdate_race` | `LinkResolves` | two updaters share the name `kubectl-add.new`; one renames the link the other made, and its prune removes that link's target |
| `tunnel_context_clobber` | `ForeignChangesKept` | the clean-up's "reload" (`add.go:322-327`) answers from the cache, so a context added while the tunnel was open is deleted |
| `helm_install_remove` | `RemoveUndoes` | `--remove` renders the newest version with the present values; what only the installed version had stays |

### Bounds, and why they are enough

- `Names` with one element makes every pair of runs collide; the runs do not
  interact except through a name, so a second name adds no new meeting. The
  theorems hold for any number of both.
- `NumDocs = 3` in `KustomizePipe` is the number of places a document can be in
  at once (kubectl, copier, blocked write); with two, the run that hangs already
  exists but the copier's read-ahead and the blocked write are not seen together.
- Five versions against `Retain = 3` leave two to prune, one of which can be the
  installed one after a rollback.
- `MaxMissed = 2` checks of a day leave no stamp: before and behind one that does.
  It is 0 in `selfupdate_race`, which is not about the stamp.
- `MaxSuffix = 2`: one suffix from a killed tunnel, one from the tunnel that runs.
- `MaxPods = 2` is one pod of the old Deployment and one of the new, or of two
  targets.
- `Limit = 2` for 40 in `slug`: names of three characters are cut, and the cut can
  fall before, on or behind a hyphen. `MCMapped` has a character that `slug` lowers
  and one that it replaces.
- `PageSize = 2` against up to eight files with their directories: every listing
  has several pages, and one with a file and a directory on it. `TreeLimit = 8`
  leaves whole trees and cuts the largest ones.
- Every subset of six files of two charts, with and without a root kustomization,
  is a repository at a tag; six trees are what the branch may come to be.
- `MCListings` has cycles (`base` and `..`), a reference twice, an absolute URL and
  one that climbs above the root. A fetch may answer any of them, so that the walk
  meets every graph of kustomizations over the site's directories, and ones that
  change.
- `TagLists` has at most three tags, versions only, no newer one behind an older:
  helm's `Tags` drops what is no version and sorts, so the fallback of
  `highestSemver` (`oci.go:82-85`) is never reached from here. The theorems hold for
  any list.
- `MaxVersion = 2`, `MaxDeletes = 1`: a release and a deletion can fall between
  any two steps of either command.
- `MaxRotations = 1`: one change between any two reads; a part is read once.

### Fairness

`Applier.FairSpec`: weak fairness of the calls of a run (the Go scheduler runs
the process; an API call answers, fails or times out) and of the end of a stream
whose context is cancelled (`StreamWithContext` returns on `ctx.Done`). Nothing
makes an uncancelled exec end. `KustomizePipe.FairSpec`: weak fairness of the
goroutines and of the two remote processes. No fairness is given to a broken
connection, a failing pod, a signal, or to kubectl failing, except that it
refuses an empty input. `AddRun.Spec`: weak fairness of the command's next step,
because every request goes through a client with a timeout of 30 seconds
(`httpclient.go:19`); which outcome it has is not constrained, and `Move` has no
fairness. `Unbounded` is left out, and `Ends` lets the command wait there: a pull
goes through helm's own registry client (`oci.go:18`), which has no timeout, be the
registry the resource's own or one that a chart repository's index points at
(`repo.go:64-75`); and the requests for the values have no timeout either, nor has
the user in the editor (`add.go:671-701`). `TunnelDeployment.Spec`: weak fairness
of each install, whose wait has `readyTimeout`, and of a running container printing
its URL. The second is an assumption about the container, not about this code: the log is followed without
a timeout (`deployment.go:200`), and without it `InstallEnds` fails. A broken
connection and a failing pod have no fairness. The other modules state safety
only.

`CHECK_DEADLOCK FALSE` is in every configuration: all of these are commands,
which end.

## 4. Proofs

`ApplierProofs` (for any `Runs`, `Names`, `Kustomize`, `Remove` and any positive
`NumDocs`, from `RunsAssumption`):

- `TypeCorrect`: `Spec => []TypeOK`.
- `Invariance`: `Spec => []IInv`. None of the properties is inductive alone.
  `IInv` adds to them: `Stages` (where `Run` stands says what it has deferred,
  and that a run with a lost reply is on its way out), `Owned` (a pod has an
  owner exactly while it exists), `OwnCredential` (while a run holds its Secret,
  a ready applier pod of its own was started with that Secret), `Executing` (a
  kubectl runs only in a pod that was started and is not gone), `Answers` (one
  answer; a success the client has seen was complete, unless the builder
  failed) and `Accounted` (a run that is sure of its calls has a deferred delete
  for all it owns, under the one name it drew). The heart of it is the Secret:
  its create comes first and fails on a taken name, so from there to its
  deferred delete it is the run's own, and kubelet starts the run's pod with it
  whoever else drew the name. The lemma `NoPodYet` covers the way back: a run
  that has yet to create its Secret has no live pod that could pick up another's.
- `DefersOwn`, `RunsAsCaller`, `NilIsComplete`, `ExitsClean`: `DeferredIsOwn`,
  `AppliesAsCaller`, `NilMeansAll` and `CleanExit` follow from `IInv`.
- `DeletesOwn`: the action property `DeletesOnlyOwn`, from `IInv` and a step.
- `RefinesOutcome`: `Spec => KeepsPromise`, so each run implements
  `ApplyOutcome`.

`SelfUpdateProofs` (for any finite set of versions and any positive `Retain`,
from `UpdateAssumption`):

- `TypeCorrect`, and `OnlyGenuine` (`InstalledIsGenuine`), for any number of
  racing updaters: an archive that is held past verification is genuine
  (`Trusted`).
- `AlwaysRunnable` (`LinkResolves`) for a single updater: the step invariant
  `Swapping` says that the version about to be linked has its binary, that the
  temporary link names it or is gone, that the symlink names it once the prune
  starts, and that the prune does not doom it. With two
  updaters it is false, see `selfupdate_race`.

- `ChecksOncePerStamp` (`OneCheckPerStamp`), `OnlyUpgrades` (`OnlyForward`) and
  `KeepsRollback` (`RollbackKept`) for a single updater. `Throttled`: the updater
  that is about to leave a stamp has found the old one, and while the stamp is old
  no check of the day has left one. `Upgrading`: until it has
  renamed the link, the updater is the binary the symlink names, and what it
  installs is newer. `Spared`: while it prunes, the binaries it is not going to
  remove are already enough, so it may stop after any of them (lemma
  `NewestAreEnough`: behind the `Retain` newest of a finite set there are `Retain`
  newer ones). `Procs = {u}` is a hypothesis because all three fail with two
  updaters: both read an old stamp, both rename, and each prunes its own list.

`KustomizePipeProofs` (for any positive `NumDocs`):

- `TypeCorrect`, and `RefinesOutcome` (`KeepsPromise`): the goroutines implement
  `ApplyOutcome` in every interleaving. Its nil-only-after-all is not inductive,
  since whether a document was lost is decided in the copier and seen at the join.
  `IInv` follows a document on its way: `BuiltWhole` (a nil on `buildErr` means
  that every document was taken from the pipe), `InTransit` (what was taken has
  been delivered, but for one in the copier's hands, and stdin is closed only
  behind the end of the pipe), `SeenSuccess` (a success that the client saw is one
  of a kubectl that had all of it), and `Answered` for the order of the joins.
- `OnlyABlockedWriteHangs`, from the same invariant: before it has returned, in every
  state one of the goroutines or remote processes can move (`CanMove`), except when
  `a.apply` has returned and the builder is left with a write that nobody will read
  (`BlockedWrite`). So the hang that `kustomize_pipe_ends` finds is the only one.
  `CanMove` spells out the guards of what `Fairness` names, since `ENABLED` is
  outside the proof system; the liveness that follows is TLC's
  (`ReturnsUnlessApplyEndsFirst`).

`CredentialProofs` (for any `MaxRotations`):

- `TypeCorrect`, and `ForwardsExactlyOne` (`ExactlyOne`): a certificate with a key,
  or a token, never both, never half a pair, nothing after a failure. From `StillClosed`
  (nothing has failed unless the answer is an error) and `InHand` (a token is looked
  for only after an incomplete pair was dropped).

`TunnelContextProofs` (for any `Tunnels` and contexts, from `TunnelAssumption` and
`NoneAssumption`):

- `TypeCorrect`, together with `Named`: a clean-up has a context to retire.
- `RevokesItsGrants` (`GrantsRevoked`), for any number of tunnels, from
  `GrantsHeld`: only a process that will still run its clean-up, was killed, was
  installed or failed has RBAC objects.
- `SelectsAContext` (`SelectionExists`), for any number of tunnels. A clean-up writes
  what its loader read long before, so the invariant `CopiesSelect` is about every
  such copy and not only about the file.
- `RetiresItsContext` (`DeadContextRetired`) for one tunnel (`Alone`), from
  `OwnContext`: the copy a tunnel keeps does not have its own context. With two it
  is false (section 5).

`TunnelDeploymentProofs` (for any targets, alphabets, limits and numbers of
commands, from `DeploymentAssumption`, `SlugAssumption` and `NoneAssumption`):

- `TypeCorrect`.
- `InstallsValidNames` (`NamesValid`): every slug is a valid name. The lemmas are
  about `TrimHyphens`, on either side of a cut that may fall on a hyphen.
- `LosesNoInstall` (`NoLostInstall`). The property says nothing of a Deployment that
  is gone and that a third command may create again; `InPlace` says that what an
  install wrote is still there, or somebody has read or removed it, and
  `ReadsOnce` that an update is of what was read.
- `ReportsItsTarget` (`ReportsOwnTarget`) and the action property `RemovesOnlyOwn`
  (`OnlyOwnRemoved`), from `TargetInv`: Deployments, their pods and the log an
  install reads belong to a target with the same slug.

`HelmInstallProofs` (for any runs, versions and bounds, from `HelmAssumption` and
`AbsentAssumption`):

- `TypeCorrect`.
- `RendersWhatWasReviewed` (`ReviewedOrNewer`), for any key. `RevInv` compares the
  revision that was shown with the one in the store: between editor and reload
  others may rewrite or delete the ConfigMap, but revisions only grow.
- `SavedEditsStay`: for any key, either two first installs have raced or every key
  a user saved holds an edit. Only a Create that met a ConfigMap leads to an Update
  (`OnlyRacesUpdate`), and that is the race.
- `EditsPersist` (`EditsKept`) for a key without a version, which is what the
  property is about (section 5). `Reuses`: a run that started when there was an edit
  stores no defaults, and holds the edit once it has loaded for the last time.

`AddRunProofs` (for any `Names`, `Ext`, `KFiles` and `Entries`, any page size and
tree limit, any worlds, heads and listings). The assumptions: `NamesAssumption`,
`EntriesAssumption`, `AddRunAssumption` and `GitTreeAssumption` give the constants
their types. `TreesAssumption`: a ref is a tree of files, none of which is a
directory of another, in the host's order. `CatalogAssumption`: an index has
finitely many versions of a chart, a registry a list of tags. `ConventionalAssumption`:
what is probed without a listing (`helm.go:22-30`) are files a chart may have.
`URLAssumption`: a URL is written as its host writes it. `MCAddRun` satisfies all
of them, and TLC evaluates them in `add_run`.

- `ArchiveCanBeBuilt` (`BuilderFinds`) and `KustomizationsWalkedOnce`
  (`WalkedOnce`) of `MaterializeSpec`, in which every fetch may answer any list.
  `BuilderFinds` says nothing before the walk is over, so the
  invariant `WalkInv` says what holds during it: `StackPoints` (the open calls are
  at kustomizations in the tar, within their lists), `AllServed` (of every
  kustomization in the tar, an entry that is behind its open call, or any entry if
  its call has returned, leads to something in the tar) and `SeenWritten` (`seen`
  is exactly the set of kustomizations in the tar, each there once). The last is
  needed for an entry that is passed over because it was seen: what it leads to is
  in the tar although this fetch wrote nothing. When the stack is empty every entry
  is behind, and below the host root the path the URL resolves to is the one the
  builder looks at (`BuilderPathResolves`).
- `WalksAsMaterialize`: `Spec => MaterializeSpec`. A walk of `Materialize` starts at
  a path that is named like a kustomization; that the resolvers only hand over such
  a path is the invariant `RouteInv`, with one lemma for each way to route
  (`FileProper`, `KustomizationProper`, `RouteProper`). `HandsOverWhatBuilds` and
  `WalksOnce` carry the two theorems above over to the command.
- `URLLeadsWhereAsked` (`LeadsWhereAsked`). One half is about `ParseRef`: in a URL
  that is a project, a marker, a ref and a path, the first marker found is the one
  behind the project (`BehindTheMark`), in a directory's URL no blob marker is found
  (`NoBlob`), and so what is read is what was asked (`ReadsWhatIsAsked`). The other
  half is `LeadInv`: the ref is settled before the listing starts, such a URL never
  comes to the latest release or to the probe, and every route stays at the path or
  directly below it (`RoutesBelow`), whatever was listed.
- `TakesPinnedOrNewest` (`PinnedOrNewest`). `ChosenInv` is the property of what is
  chosen, in stages: which chart of an index (`InIndex`) and which version of it
  (`Taken`), and once the package is fetched what it is (`Picked`), for which a
  registry may have chosen again. Below it
  are the selection rules, for an index and a list of tags of any length: a finite
  set of versions can be sorted (`CanBeSorted`), so that `SortEntries` is one of its
  arrangements; `SelectVersionSelects` and `HighestSemverIs` say that the loops
  return the version asked for, or one that no other is newer than.
- `AddTypeCorrect` (`TypeOK`), from `TypeInv`, which adds the queue of requests, the
  trees (a push replaces a branch by a tree) and that what is listed are files.
- `ListsWholeTag`: `Spec => [](TypeInv /\ TagInv)`, the heart of the next two. While
  a tag is listed, each of its files is listed already or will be by a request in
  the queue (`Listed`); once the resolver has decided, it has decided from all of
  them (`Found`). What a request will still bring is `Covers`, for each host its
  own: everything on GitHub, where one answer has the tree; what comes behind the
  start of the page on GitLab; on Bitbucket what is below an entry of the directory
  behind the start of the page. `AnswerBrings` is the step: what a request covers is
  on its page, or covered by the requests that page leads to. The order in which
  Bitbucket's directories are queued before the rest of their page plays no part.
- `InstallsRightArtifact` (`RightArtifact`), from `TagInv` and what the routing makes
  of a whole listing: `FindChartIs` (the chart with the repository's name if there
  is one, wherever the order puts it, else one of the others) and `RoutesRight`.
- `RendersAllParts` (`NoPartLost`), from `TagInv` and `ChartInv`: while members are
  fetched, every file of the chart that `isChartFile` lets through is fetched or to
  be fetched, and nothing else is (`Fetching`); helm's parts (`Rendered`) are among
  them. `ChartResolutionIs` says which files the resolver names of a whole
  listing, `MemberServed` and `ChartURL` that a member's URL leads to it at the tag,
  so that a 404 is passed over only for a path the chart does not have.

The last five are about loops over sequences of any length. The library's
induction theorems cannot be used (they take an operator), but the set of the
positions at which a statement fails can be an argument: lemma `Induction` says that
a set of naturals with 0 and closed under successor has them all, from the least
element of what is missing, and `StepsExist` and `KeptIs` draw from it that a
recursive function over positions exists and what it returns.

Only model-checked: liveness (`CancelReturns`, `ReturnsUnlessApplyEndsFirst`, `Ends`,
`InstallEnds`), which is outside the proof system. Every other property of a
passing run is a theorem.

## 5. Limits of the properties

Some properties are stated with an exception because the code does not do more.
The models contain each of these behaviours.

- `CleanExit` excepts runs in `unsure`. `Run` defers a delete after the create
  has answered; a create that is stored and whose reply is lost leaves the
  Secret with the credential (`remote.go:175`; compare `CONTRIBUTING.md:98-100`)
  or the pod.
- `OneCheckPerStamp` does not count checks that left no stamp. Without a cache
  directory, or when the stamp cannot be written, the errors are ignored
  (`selfupdate.go:456-480`) and every invocation checks, although
  `selfupdate.go:42` and `README.md:73` say at most once a day. It is checked for
  one process at a time: `recentlyChecked` and `markChecked`
  (`selfupdate.go:104-108`) are two steps, and two processes can both pass the
  first.
- `ExactlyOne` does not say that a certificate and its key belong together: one may
  be inline and the other from a file, or the pair may be rotated between the two
  reads (`credential.go:67-81`).
- `GrantsRevoked` excepts `leaked` processes: `MintImpersonation` returns no
  clean-up with an error, so what it had created stays (`impersonate.go:64-90`).
- `DeadContextRetired` is checked with one tunnel. A second one that opened
  while the first's context was in the file writes it back when it closes.
- `SelectionExists` excepts a tunnel whose name is that of the selected context. A
  killed tunnel left it there, and `--context` naming its base makes prevContext
  (`add.go:306`) the context that the clean-up deletes.
- `EditsKept` excepts histories in which two first installs race: the slower one's
  `Update` (`values.go:47`) carries no resource version and puts the defaults back. It is also about chart URLs without a
  version in their path; for a chart in a git repository the ref is part of the
  key (`add.go:662-669`), and a release starts from its defaults again.
- After a re-install with another origin `waitForPublicURL` may take the running
  pod of the previous Deployment and announce its URL (`deployment.go:179-181`);
  `ReportsOwnTarget` compares the Service, not its port.
- `ReportsOwnTarget` and `OnlyOwnRemoved` except targets that `slug` does not tell
  apart: a Service called `apiserver` and the API server, or two names that agree
  after the mapping in their first 40 characters, share one Deployment.
- `NoPartLost` is about the files helm makes templates, values, dependencies and
  CRDs of. `README.md:192-194` and `README.md:204-205` promise the full file set;
  `isChartFile` (`git.go:185-196`) drops the rest, so that a chart that reads
  `files/` with `.Files.Get`, or lists its dependencies in `requirements.yaml`, is
  rendered without them. The charts of `MCAddRun` have a `requirements.yaml`.
- `PinnedOrNewest` excepts an index whose `oci://` reference has no tag: `pullChart`
  sees neither the version selected from the index nor the resource's `?version=`
  (`repo.go:64-75`, `oci.go:28-37`) and pulls the registry's newest, although
  `README.md:211-213` says that `?version=` pins the selection.
- `NoPartLost` and `RightArtifact` are about tags. On a branch that moves between
  its listing and a fetch, a member that is gone is passed over (`helm.go:86-88`)
  and files of two commits meet in one chart.
- `NoPartLost` and `RightArtifact` except trees above GitHub's limit: `truncated`
  is only logged (`github.go:93`). `NoPartLost` also excepts directory URLs with a
  segment `blob` in their path (see the next item).
- `LeadsWhereAsked` excepts `/tree/` URLs with a segment `blob` in their path, where
  the blob marker is found first. Refs are single segments: of a branch name with a
  slash the code takes the first segment. Segments need no escaping and a URL has no
  query: the code does not unescape a `%20` before it builds the raw URL or looks
  the path up in the listing, and leaves a `?ref_type=` in the last segment.
- `URLAssumption` leaves out projects whose own name has a segment that is one of
  the host's markers, a GitHub repository called `tree` for example: parseRef looks
  for the first marker in the whole path (`github.go:48-57`) and would find that one.
- `BuilderFinds` excepts references that climb above the host root, which the URL
  clamps and the builder does not. The model follows `resources` and `bases`, as the
  code does; files a kustomization names elsewhere (components, patches,
  generators) are not fetched, and a nested kustomization is only looked for as
  `kustomization.yaml`. `EntriesAssumption` leaves out a kustomization file that is
  named as a plain resource, which the code would write to the tar as a file too.
- The kubeconfig is written in one step. `clientcmd.ModifyConfig` (`add.go:314`)
  writes the selection and the sections one after the other; what a kill between
  two of these writes leaves is not modelled.
- A probe that fails makes a chart repository a manifest (`http.go:88`); the
  command then ends with whatever that URL serves.

## 6. Not modelled

The padding of watch streams (`tunnel/apiserver/watch.go`) is a function of the
bytes of one write. The reverse proxy of a Service tunnel, request headers,
redirects, the version string, flag binding and the builder setters are I/O or
plumbing without a protocol of their own. How a resolver detects a resource is
string matching and given with the resource; an archive or a chart is opaque once
it is fetched. `selfupdate/disabled.go` is the build without updates, and
`persistSpec`, `secretName` and `updateAPIServerIdentity` of the tunnel are stubs
nothing calls.

## 7. Plan

Done: `Applier` first, because it carries the credential and everything else
ends in it; then `KustomizePipe`, `SelfUpdate`, `TunnelContext`, `Credential`,
`TunnelDeployment`, `HelmInstall`; the theorems of `Applier` and `SelfUpdate`;
then `Materialize` with its theorems, `GitTree`, `HelmSelect` and their composition
`AddRun`, and `TunnelDeployment` for several targets; then the theorems of the
other components, and that `AddRun` implements `Materialize`;
and last the theorems about what `AddRun` lists, selects and fetches, so that every
invariant and action property of a passing run is proved.

Left:

1. The part of `ExitsClean` that holds of runs with a lost reply: a Secret that
   stays is one whose create was never answered.
2. A chart's full file set, and an index's untagged `oci://` reference that keeps
   the version asked for, as properties the code is found to violate.
3. A branch that moves during its listing: which files of which commits can meet in
   one chart, as a property that bounds the damage instead of excepting branches.
4. The padding of watch streams as an operator over the chunks of an event.
