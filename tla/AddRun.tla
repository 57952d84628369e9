------------------------------- MODULE AddRun -------------------------------
(***************************************************************************)
(* `kubectl add <resource>` from its argument to what it hands to the      *)
(* applier: the resolver registry, the git, http and image resolvers, the  *)
(* dispatch on the format in Add.Run, helm's discovery and kustomize's     *)
(* materialization, over a repository, a site or a registry that other     *)
(* people change meanwhile.                                                *)
(*                                                                         *)
(* Every action is one request and what the program does with its answer.  *)
(***************************************************************************)
EXTENDS GitTree, HelmSelect, Materialize

CONSTANTS
  Worlds,     \* what may be asked for, and what is there: [res, site, catalog]
  Heads,      \* the trees a branch or a site may come to have
  Listings,   \* contents of kustomizations
  Conventional \* the paths probed where nothing can be listed

ASSUME AddRunAssumption ==
  /\ Listings \subseteq Listing
  /\ RawRoot \in Path
  /\ KFiles = ToSet(KustomizationNames)
  /\ \A w \in Worlds : w.res.path \in Path
                       /\ w.res.host \in {"github", "gitlab", "bitbucket"}

\* A tree of files, none of them a directory of another, which hosts can list.
IsTree(tree) ==
  /\ tree \subseteq Path \ {<<>>}
  /\ tree \cap Directories(tree) = {}
  /\ tree \cup Directories(tree) \subseteq ToSet(Order)

ASSUME TreesAssumption ==
  /\ Order \in Seq(Path)
  /\ \A w \in Worlds : /\ w.site = [tag |-> w.site.tag, branch |-> w.site.branch]
                       /\ IsTree(w.site.tag) /\ IsTree(w.site.branch)
  /\ \A tree \in Heads : IsTree(tree)

\* What is probed blindly are files a chart may have, beside its Chart.yaml.
ASSUME ConventionalAssumption ==
  /\ Conventional \in Seq(Path)
  /\ \A rel \in ToSet(Conventional) :
       rel # <<>> /\ IsChartFile(rel) /\ rel # <<"Chart.yaml">>

\* An index has finitely many versions of a chart, a registry a list of tags.
\* catalog.entries: the first 4096 bytes of index.yaml contain "entries:".
\* catalog.at: where the index's packages are, on a web server or in a registry,
\* there by a reference with the version for its tag or with none.
Version == [raw : STRING \ {""}, sem : Nat]
ASSUME CatalogAssumption ==
  \A w \in Worlds :
    /\ w.catalog.entries \in BOOLEAN
    /\ w.catalog.at \in {"http", "tagged", "untagged"}
    /\ w.catalog.tags \in Seq(Version)
    /\ \A name \in DOMAIN w.catalog.index :
         w.catalog.index[name] \subseteq Version /\ IsFiniteSet(w.catalog.index[name])

(***************************************************************************)
(* res.asked is what the URL means on the host: the name of a repository,  *)
(* a ref, "" for the repository itself, and a path.  The hosts write such  *)
(* a URL as the project, a marker, the ref and the path; nothing in the    *)
(* project's own name is one of their markers.                             *)
(***************************************************************************)
Marks(host) == CASE host = "github" -> {"blob", "tree"}
                 [] host = "gitlab" -> {"-"}
                 [] host = "bitbucket" -> {"src"}

AsHostWrites(r) ==
  \E n \in 2 .. Len(r.path) :
    /\ n = 2 \/ r.host = "gitlab"
    /\ \A i \in 1 .. n : r.path[i] \notin Marks(r.host)
    /\ r.path[n] = r.asked.name
    /\ IF r.asked.ref = ""
         THEN n = Len(r.path) /\ r.asked.path = <<>> /\ ~r.asked.blob
         ELSE r.path = SubSeq(r.path, 1, n)
                         \o (IF r.asked.blob THEN BlobMark(r.host) ELSE TreeMark(r.host))
                         \o (<<r.asked.ref>> \o r.asked.path)

ASSUME URLAssumption ==
  \A w \in Worlds :
    LET asked == w.res.asked IN
      "git" \in w.res.detect /\ RepoOf(w.res.host, w.res.path) # <<>> =>
        /\ asked.ref \in {"", "tag", "branch"} /\ asked.path \in Path
        /\ asked.blob \in BOOLEAN
        /\ asked.blob => w.res.host # "bitbucket"
        /\ AsHostWrites(w.res)

VARIABLES
  res,        \* the resource
  site,       \* its files by ref; a site without listings is all "branch"
  catalog,    \* the index and the tags of a chart repository or registry
  pc,
  ref,        \* the ref the resolver settled on
  queue,      \* listing requests to make
  paths,      \* the paths listed so far
  target,     \* the Resolution
  todo,       \* chart files still to fetch
  got,        \* chart files fetched
  chosen      \* chart and version taken from an index or a registry

local == <<queue, paths, target, todo, got, chosen>>
vars == <<res, site, catalog, pc, ref, local, mvars>>

\* What the git resolver reads in the resource.
Repo == RepoOf(res.host, res.path)
Parsed == ParseRef(res.host, res.path)

Base == BaseOf(res.path)

AllFiles == UNION (Heads \cup {w.site.tag : w \in Worlds}
                         \cup {w.site.branch : w \in Worlds})

Nothing == [chart |-> "", version |-> NoVersion]

TypeOK ==
  /\ \E w \in Worlds : res = w.res /\ catalog = w.catalog
  /\ site.tag \subseteq AllFiles /\ site.branch \subseteq AllFiles
  /\ ref \in {"tag", "branch"} \cup Names
  /\ pc \in {"resolve", "release", "list", "probe", "dispatch", "chart",
             "members", "index", "archive", "manifest", "materialize",
             "values", "handed", "failed"}
  /\ ToSet(paths) \subseteq AllFiles
  /\ target.format \in {"none", "helm", "kustomize", "yaml"}
  /\ todo \in Seq(Path)
  /\ got \subseteq Path
  /\ chosen.version.sem \in Nat
  /\ stack \in Seq([item : Nat, next : Nat])
  /\ walk \in {"idle", "walking", "ok", "failed"}

Init ==
  /\ \E w \in Worlds : res = w.res /\ site = w.site /\ catalog = w.catalog
  /\ pc = "resolve"
  /\ ref = "branch"
  /\ queue = <<>> /\ paths = <<>>
  /\ target = Unsupported
  /\ todo = <<>> /\ got = {}
  /\ chosen = Nothing
  /\ MaterializeInit

-----------------------------------------------------------------------------
(* Resolution: Registry.Resolve and the three resolvers. *)

Resolvers == <<"git", "image", "http">>

\* The first resolver, in the registry's order, that detects the resource.
Detected == {i \in DOMAIN Resolvers : Resolvers[i] \in res.detect}
Uses(resolver) == Detected # {} /\ Resolvers[Min(Detected)] = resolver

\* What is there now; nothing at a ref that was misread in the URL.
Tree == IF ref \in DOMAIN site THEN site[ref] ELSE {}

\* A file of the repository (by its raw URL) or of the site.
Served(url) ==
  \E p \in Tree : url = (IF Uses("git") THEN RawURL(p) ELSE p)

\* The request fails, or is answered with an error, and the command ends.
Fail ==
  /\ pc' = "failed"
  /\ UNCHANGED <<res, site, catalog, ref, local, mvars>>

\* A resolver returns: its locals are gone, the Resolution is kept.
Resolves(resolution) ==
  /\ target' = resolution
  /\ queue' = <<>> /\ paths' = <<>>
  /\ pc' = IF resolution = Unsupported THEN "failed" ELSE "dispatch"
  /\ UNCHANGED <<todo, got, chosen>>

\* No resolver detects it, or it names no repository.
UnknownResource ==
  /\ pc = "resolve"
  /\ Detected = {} \/ (Uses("git") /\ Repo = <<>>)
  /\ Fail

\* Once the ref is known: a blob is routed by its name, the rest is listed.
WithRef(r) ==
  /\ ref' = r
  /\ IF Parsed.blob
       THEN Resolves(FileResolution(Parsed.sub))
       ELSE /\ pc' = "list"
            /\ queue' = <<FirstRequest>>
            /\ UNCHANGED <<paths, target, todo, got, chosen>>

GitResolve ==
  /\ pc = "resolve" /\ Uses("git") /\ Repo # <<>>
  /\ IF Parsed.ref # ""
       THEN WithRef(Parsed.ref)
       ELSE pc' = "release" /\ UNCHANGED <<ref, local>>
  /\ UNCHANGED <<res, site, catalog, mvars>>

\* The newest release or tag; only Bitbucket falls back to the main branch.
LatestRelease ==
  /\ pc = "release"
  /\ \/ site.tag # {} /\ WithRef("tag")
     \/ site.tag = {} /\ res.host = "bitbucket" /\ WithRef("branch")
  /\ UNCHANGED <<res, site, catalog, mvars>>

LatestReleaseFails == pc = "release" /\ Fail

ListPage ==
  /\ pc = "list" /\ queue # <<>>
  /\ ref \in DOMAIN site /\ Answers(res.host, Tree, Head(queue))
  /\ LET a == Answer(res.host, Tree, Head(queue)) IN
       /\ paths' = paths \o a.files
       /\ queue' = Tail(queue) \o a.more
  /\ UNCHANGED <<res, site, catalog, pc, ref, target, todo, got, chosen, mvars>>

ListFails == pc = "list" /\ queue # <<>> /\ Fail

Route ==
  /\ pc = "list" /\ queue = <<>>
  /\ Resolves(IF Parsed.sub # <<>> THEN RouteSubpath(paths, Parsed.sub)
              ELSE RouteRepo(paths, Last(Repo)))
  /\ UNCHANGED <<res, site, catalog, ref, mvars>>

\* http: the format follows from the URL's last segment; a URL without an
\* extension is probed for a chart repository's index.
HttpResolve ==
  /\ pc = "resolve" /\ Uses("http")
  /\ \/ res.form = "tgz" /\ Resolves(Resolution("helm", res.path))
     \/ res.form = "bare" /\ pc' = "probe" /\ UNCHANGED local
     \/ res.form = "file" /\
          Resolves(CASE Contains(KustomizationNames, Base) ->
                                     Resolution("kustomize", res.path)
                     [] Base \in ChartNames -> Resolution("helm", res.path)
                     [] OTHER -> Resolution("yaml", res.path))
  /\ UNCHANGED <<res, site, catalog, ref, mvars>>

\* An index is recognised by its first 4096 bytes, usable or not; a probe that
\* fails, or does not show it, makes the resource a manifest.
Probe ==
  /\ pc = "probe"
  /\ \/ catalog.entries /\ Resolves(Resolution("helm", res.path))
     \/ Resolves(Resolution("yaml", res.path))
  /\ UNCHANGED <<res, site, catalog, ref, mvars>>

ImageResolve ==
  /\ pc = "resolve" /\ Uses("image")
  /\ Resolves(Resolution("helm", res.path))
  /\ UNCHANGED <<res, site, catalog, ref, mvars>>

-----------------------------------------------------------------------------
(* Add.Run after resolution, and helm's discovery. *)

\* What a repository has are loose files.
Packaged == res.form \in {"oci", "tgz"} /\ ~Uses("git")

\* Run: helm is discovered, everything else is fetched first.
Dispatch ==
  /\ pc = "dispatch"
  /\ pc' = CASE target.format # "helm" -> "manifest"
             [] target.format = "helm" /\ Packaged -> "archive"
             [] target.format = "helm" /\ ~Packaged
                  /\ BaseOf(target.url) \in ChartNames -> "chart"
             [] OTHER -> "index"
  /\ UNCHANGED <<res, site, catalog, ref, local, mvars>>

\* No connection can be inferred from the kubeconfig.
DispatchFails == pc = "dispatch" /\ Fail

\* Discover: Chart.yaml must be there; then the members, or the conventional
\* paths where none are known.
FetchChartYaml ==
  /\ pc = "chart" /\ Served(target.url)
  /\ todo' = IF target.files # <<>> THEN target.files ELSE Conventional
  /\ pc' = "members"
  /\ UNCHANGED <<res, site, catalog, ref, queue, paths, target, got, chosen, mvars>>

FetchChartYamlFails == pc = "chart" /\ Fail

\* A member that is not found is passed over.
FetchMember ==
  /\ pc = "members" /\ todo # <<>>
  /\ got' = IF Served(Front(target.url) \o Head(todo))
              THEN got \cup {Head(todo)} ELSE got
  /\ todo' = Tail(todo)
  /\ UNCHANGED <<res, site, catalog, pc, ref, queue, paths, target, chosen, mvars>>

\* Mutant: a member whose request fails is passed over too.
FetchMemberSkips ==
  /\ pc = "members" /\ todo # <<>>
  /\ todo' = Tail(todo)
  /\ UNCHANGED <<res, site, catalog, pc, ref, queue, paths, target, got, chosen, mvars>>

FetchMemberFails == pc = "members" /\ todo # <<>> /\ Fail

\* loader.LoadFiles.
LoadChart ==
  /\ pc = "members" /\ todo = <<>>
  /\ pc' \in {"values", "failed"}
  /\ UNCHANGED <<res, site, catalog, ref, local, mvars>>

\* The rest of installHelm: the stored values are loaded or stored, the user
\* edits them, the chart is rendered.  HelmInstall has these steps one by one.
ReviewValues ==
  /\ pc = "values"
  /\ pc' \in {"handed", "failed"}
  /\ UNCHANGED <<res, site, catalog, ref, local, mvars>>

\* DiscoverRepo: index.yaml, a chart of it, a version of that.
FetchIndex ==
  /\ pc = "index"
  /\ LET name == ChooseChart(DOMAIN catalog.index, Base, res.chart) IN
       IF name = "" THEN pc' = "failed" /\ UNCHANGED local
       ELSE LET version == SelectVersion(SortEntries(catalog.index[name]), res.version) IN
              /\ chosen' = [chart |-> name, version |-> version]
              /\ pc' = IF version = NoVersion THEN "failed" ELSE "archive"
              /\ UNCHANGED <<queue, paths, target, todo, got>>
  /\ UNCHANGED <<res, site, catalog, ref, mvars>>

FetchIndexFails == pc = "index" /\ Fail

\* DiscoverArchive: the URL is the resource, or what the index says; pullChart
\* takes an oci:// reference, of either origin, to its registry.
Indexed == chosen.chart # ""
FromRegistry == IF Indexed THEN catalog.at # "http" ELSE res.form = "oci"

\* pullChart knows of the resource's own query only, not of the one that led to
\* the index's entry.
NoTag == IF Indexed THEN catalog.at = "untagged" ELSE res.version = "" /\ ~res.tagged

\* The reference's ?version= or :tag, else the highest of the registry's tags.
OciTag ==
  IF NoTag THEN HighestSemver(catalog.tags)
  ELSE IF Indexed THEN chosen.version
  ELSE [raw |-> IF res.version # "" THEN res.version ELSE "tag", sem |-> 0]

FetchArchive ==
  /\ pc = "archive"
  /\ FromRegistry => /\ NoTag => catalog.tags # <<>>
                     \* repo:tag:version is no reference
                     /\ Indexed \/ ~(res.tagged /\ res.version # "")
  /\ chosen' = IF FromRegistry THEN [chart |-> chosen.chart, version |-> OciTag] ELSE chosen
  /\ pc' = "values"
  /\ UNCHANGED <<res, site, catalog, ref, queue, paths, target, todo, got, mvars>>

FetchArchiveFails == pc = "archive" /\ Fail

-----------------------------------------------------------------------------
(* Manifests and kustomizations. *)

FetchManifest ==
  /\ pc = "manifest" /\ Served(target.url)
  /\ \/ /\ target.format = "yaml"
        /\ pc' = "handed" /\ UNCHANGED mvars
     \/ /\ target.format = "kustomize"
        /\ pc' = "materialize"
        /\ \E list \in Listings : Start(target.url, list)
  /\ UNCHANGED <<res, site, catalog, ref, local>>

\* Mutant: a client without a timeout waits for a server that does not answer.
FetchManifestWaits == pc = "manifest" /\ Served(target.url) /\ Fail

FetchManifestFails == pc = "manifest" /\ Fail

Walk ==
  /\ pc = "materialize" /\ walk = "walking"
  /\ \/ SkipAbsolute
     \/ Left /\ Served(Nested(Here.name, At))
        /\ \E list \in Listings : FetchNested(list)
     \/ Left /\ Served(Resolved(Here.name, At)) /\ FetchFile
     \/ Leave
  /\ UNCHANGED <<res, site, catalog, pc, ref, local>>

WalkFails ==
  /\ pc = "materialize" /\ FetchFails
  /\ UNCHANGED <<res, site, catalog, pc, ref, local>>

Materialized ==
  /\ pc = "materialize" /\ walk \in {"ok", "failed"}
  /\ pc' = IF walk = "ok" THEN "handed" ELSE "failed"
  /\ UNCHANGED <<res, site, catalog, ref, local, mvars>>

-----------------------------------------------------------------------------
Over == pc \in {"handed", "failed"}

\* Somebody pushes to the branch, or changes the site; a tag stays.  What
\* happens before the ref is known is another initial state.
Move ==
  /\ ~Over /\ pc \notin {"resolve", "release"} /\ ref = "branch"
  /\ \E tree \in Heads : site' = [site EXCEPT !.branch = tree]
  /\ UNCHANGED <<res, catalog, pc, ref, local, mvars>>

Step ==
  \/ UnknownResource \/ GitResolve \/ LatestRelease \/ LatestReleaseFails
  \/ ListPage \/ ListFails \/ Route \/ HttpResolve \/ Probe \/ ImageResolve
  \/ Dispatch \/ DispatchFails \/ FetchChartYaml \/ FetchChartYamlFails
  \/ FetchMember \/ FetchMemberFails \/ LoadChart \/ ReviewValues
  \/ FetchIndex \/ FetchIndexFails \/ FetchArchive \/ FetchArchiveFails
  \/ FetchManifest \/ FetchManifestFails \/ Walk \/ WalkFails \/ Materialized

Next == Step \/ Move

\* helm's registry client has no timeout of its own, the values' requests have
\* none, and the user closes the editor when she likes.
Unbounded == (pc = "archive" /\ FromRegistry) \/ pc = "values"

\* Every other request is answered or runs into the shared client's timeout.
Spec == Init /\ [][Next]_vars /\ WF_vars(Step /\ ~Unbounded)

-----------------------------------------------------------------------------
\* A repository's tag, listed to its end.
FixedListing ==
  /\ Uses("git") /\ ref = "tag" /\ ~res.asked.blob /\ res.asked.path \notin site.tag
  /\ ~Contains(res.asked.path, "blob")     \* or LeadsWhereAsked does not hold
  /\ res.host = "github" => Len(TreeEntries(site.tag)) <= TreeLimit

\* What helm's loader makes templates, values, dependencies and CRDs of, by the
\* place of a file in the chart.
Rendered(rel) ==
  \/ rel \in {<<"values.yaml">>, <<"values.schema.json">>, <<"Chart.lock">>}
  \/ Len(rel) > 1 /\ rel[1] \in {"templates", "charts", "crds"}

(***************************************************************************)
(* A chart found in a repository at a tag is rendered with all of its      *)
(* templates, values, dependencies and CRDs, and with no file of anything  *)
(* else: no page, directory or member is lost on the way and no failed     *)
(* request passes for an absent file (resolve.go:30 "so discovery fetches  *)
(* the real files instead of guessing").  It is not the chart's full file  *)
(* set: isChartFile drops requirements.yaml and what templates read with   *)
(* .Files.                                                                 *)
(***************************************************************************)
NoPartLost ==
  pc \in {"values", "handed"} /\ target.format = "helm" /\ FixedListing =>
    LET dir == Relative(RawRoot, Front(target.url))
        files == {Relative(dir, p) : p \in {q \in site.tag : Below(dir, q)}}
    IN  {rel \in files : Rendered(rel)} \subseteq got /\ got \subseteq files

(***************************************************************************)
(* A bare repository at a tag installs charts/<its own name> whenever it   *)
(* has one, otherwise some chart under charts/, and its kustomization only *)
(* when it has no chart, whatever the order in which a host lists the      *)
(* paths.                                                                  *)
(***************************************************************************)
RightArtifact ==
  target.format # "none" /\ FixedListing /\ res.asked.path = <<>> =>
    LET charts == {p \in site.tag : p[1] = "charts" /\ Last(p) = "Chart.yaml"}
        own == <<"charts", res.asked.name, "Chart.yaml">>
    IN  CASE own \in charts -> target.url = RawURL(own)
          [] own \notin charts /\ charts # {} ->
               target.url \in {RawURL(p) : p \in charts}
          [] charts = {} -> target.format = "kustomize"

(***************************************************************************)
(* A URL into a repository leads to what it shows on the host: to the file *)
(* itself, or to an artifact directly in the directory, at the ref it      *)
(* names (git.go:75 "honoring an explicit ref and subpath from a full      *)
(* URL"), although segments of the path may look like the host's markers.  *)
(* GitHub's and GitLab's blob marker is looked for first, so it must not   *)
(* come up in a directory's path.  Refs and segments are plain: none has   *)
(* to be escaped in a URL, and the URL has no query.                       *)
(***************************************************************************)
LeadsWhereAsked ==
  /\ Uses("git") /\ target.format # "none" /\ res.asked.ref # ""
  /\ ~res.asked.blob => ~Contains(res.asked.path, "blob")
  => /\ ref = res.asked.ref
     /\ res.asked.path # <<>> =>
          target.url \in {RawURL(res.asked.path)} \cup
            {RawURL(res.asked.path \o <<n>>) : n \in {"Chart.yaml"} \cup ToSet(KustomizationNames)}

(***************************************************************************)
(* What is taken from an index or a registry is what the query parameters  *)
(* ask for, and without them the newest version of the only chart that can *)
(* be meant.  An index entry whose oci:// reference has no tag is the      *)
(* exception: whatever version was asked for and selected, the newest in   *)
(* the registry is taken.                                                  *)
(***************************************************************************)
PinnedOrNewest ==
  pc \in {"values", "handed"} /\ chosen # Nothing =>
    LET offered == IF Indexed /\ ~NoTag THEN catalog.index[chosen.chart]
                   ELSE ToSet(catalog.tags)
        pinned == res.version # "" /\ ~(Indexed /\ FromRegistry /\ NoTag)
    IN  /\ pinned => chosen.version.raw = res.version
        /\ ~pinned /\ ~(res.tagged /\ ~Indexed) =>
             chosen.version \in offered
             /\ \A v \in offered : v.sem <= chosen.version.sem
        /\ Indexed =>
             \/ chosen.chart \in {res.chart, Base}
             \/ res.chart = "" /\ DOMAIN catalog.index = {chosen.chart}

(***************************************************************************)
(* The command gets to the applier or to an error: listings end although   *)
(* the branch moves under them, and so do walks over kustomizations that   *)
(* refer to each other and change meanwhile.  Only a registry may keep it, *)
(* the resource's own or an index's, or the values' review.                *)
(***************************************************************************)
Ends == <>(Over \/ Unbounded)
=============================================================================
