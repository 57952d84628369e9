------------------------------ MODULE GitTree ------------------------------
(***************************************************************************)
(* What the git resolver asks its three hosts and makes of the answers:    *)
(* the pages of a repository's listing, and the artifact the listed paths  *)
(* lead to.  A path is the sequence of its segments, a tree a set of file  *)
(* paths.                                                                  *)
(***************************************************************************)
EXTENDS Naturals, Sequences, SequencesExt

CONSTANTS
  Order,      \* every path and directory, in the order hosts list them
  PageSize,   \* entries on a page (per_page, pagelen)
  TreeLimit,  \* entries after which GitHub truncates a recursive tree
  TplNames,   \* file names that end in .tpl
  YamlNames   \* file names that end in .yaml or .yml

ASSUME GitTreeAssumption ==
  /\ PageSize \in Nat \ {0}
  /\ TreeLimit \in Nat \ {0}

-----------------------------------------------------------------------------
\* The elements of s that are in S, in their order: SelectSeq, of which the
\* provers have no definition, with a set for its test.
Kept(s, S) ==
  LET kept[n \in 0 .. Len(s)] ==
        IF n = 0 THEN <<>>
        ELSE IF s[n] \in S THEN Append(kept[n - 1], s[n])
        ELSE kept[n - 1]
  IN  kept[Len(s)]

-----------------------------------------------------------------------------
(* The hosts. *)

Directories(tree) ==
  UNION {{SubSeq(p, 1, n) : n \in 1 .. Len(p) - 1} : p \in tree}

\* Everything in the tree, files ("blob", "commit_file") and directories.
TreeEntries(tree) ==
  Kept(Order, tree \cup Directories(tree))

Children(tree, dir) ==
  Kept(Order, {p \in tree \cup Directories(tree) : Front(p) = dir})

\* The page of `all` that starts at `from`, and the request for the next one.
Upto(all, n) == IF n < Len(all) THEN n ELSE Len(all)
PageOf(all, from) == SubSeq(all, from, Upto(all, from + PageSize - 1))
NextPage(all, req) ==
  IF req.from + PageSize > Len(all) THEN <<>>
  ELSE <<[dir |-> req.dir, from |-> req.from + PageSize]>>

\* Mutant: directories are taken for files.
AllIn(entries, tree) == entries

\* Only the entries of type "blob" or "commit_file".
FilesIn(entries, tree) == Kept(entries, tree)

\* GitHub: one recursive tree, cut off at the limit; "truncated" is ignored.
GitHubPage(tree, req) ==
  LET all == TreeEntries(tree)
  IN  [files |-> FilesIn(SubSeq(all, 1, Upto(all, TreeLimit)), tree),
       more |-> <<>>]

\* GitLab: the recursive tree page by page, along X-Next-Page.
GitLabPage(tree, req) ==
  LET all == TreeEntries(tree)
  IN  [files |-> FilesIn(PageOf(all, req.from), tree),
       more |-> NextPage(all, req)]

\* Bitbucket: one directory at a time; its directories are queued before the
\* rest of its pages.
BitbucketPage(tree, req) ==
  LET all == Children(tree, req.dir)
      page == PageOf(all, req.from)
      dirs == Kept(page, Directories(tree))
  IN  [files |-> FilesIn(page, tree),
       more |-> [i \in DOMAIN dirs |-> [dir |-> dirs[i], from |-> 1]]
                  \o NextPage(all, req)]

FirstRequest == [dir |-> <<>>, from |-> 1]

Answer(host, tree, req) ==
  CASE host = "github" -> GitHubPage(tree, req)
    [] host = "gitlab" -> GitLabPage(tree, req)
    [] host = "bitbucket" -> BitbucketPage(tree, req)

\* Bitbucket answers 404 for a directory that is gone.
Answers(host, tree, req) ==
  host = "bitbucket" => req.dir = <<>> \/ req.dir \in Directories(tree)

-----------------------------------------------------------------------------
ChartNames == {"Chart.yaml", "Chart.yml"}
KustomizationNames ==
  <<"kustomization.yaml", "kustomization.yml", "Kustomization">>
Unsupported == [format |-> "none", url |-> <<>>, files |-> <<>>]

-----------------------------------------------------------------------------
(* What a URL says: the segments after the host. *)

\* Where a marker ("/tree/", "/-/blob/", "/src/") is, and something after it.
MarkedAt(url, mark) ==
  {i \in 1 .. Len(url) - Len(mark) : SubSeq(url, i, i + Len(mark) - 1) = mark}
Before(url, mark) ==
  IF MarkedAt(url, mark) = {} THEN url
  ELSE SubSeq(url, 1, Min(MarkedAt(url, mark)) - 1)

\* Mutant: the last marker counts.
AfterLast(url, mark) ==
  SubSeq(url, Max(MarkedAt(url, mark)) + Len(mark), Len(url))

After(url, mark) ==
  SubSeq(url, Min(MarkedAt(url, mark)) + Len(mark), Len(url))

SplitRef(rest, blob) == [ref |-> Head(rest), sub |-> Tail(rest), blob |-> blob]
NoRef == [ref |-> "", sub |-> <<>>, blob |-> FALSE]

BlobMark(host) == IF host = "gitlab" THEN <<"-", "blob">> ELSE <<"blob">>
TreeMark(host) == CASE host = "gitlab" -> <<"-", "tree">>
                    [] host = "github" -> <<"tree">>
                    [] host = "bitbucket" -> <<"src">>

\* Bitbucket's URLs do not tell files from directories.  Segments are plain ones,
\* which a URL need not escape, and there is no query: the code unescapes nothing
\* and cuts no query off the last segment.
ParseRef(host, url) ==
  IF host # "bitbucket" /\ MarkedAt(url, BlobMark(host)) # {}
    THEN SplitRef(After(url, BlobMark(host)), TRUE)
  ELSE IF MarkedAt(url, TreeMark(host)) # {}
    THEN SplitRef(After(url, TreeMark(host)), FALSE)
  ELSE NoRef

\* GitLab projects nest; elsewhere it is the first two segments.  <<>> when
\* the URL names none.
RepoOf(host, url) ==
  LET project == CASE host = "gitlab" -> Before(url, <<"-">>)
                   [] host = "bitbucket" -> Before(url, <<"src">>)
                   [] host = "github" -> url
  IN  IF Len(project) < 2 THEN <<>>
      ELSE IF host = "gitlab" THEN project ELSE SubSeq(project, 1, 2)

-----------------------------------------------------------------------------
(* What the listed paths lead to. *)

\* Raw files lie below the repository and the ref in the host's paths.
RawRoot == <<"raw">>
RawURL(path) == RawRoot \o path

Resolution(format, url) == [format |-> format, url |-> url, files |-> <<>>]

\* The last segment of a path or a URL (path.Base).
BaseOf(path) == IF path = <<>> THEN "." ELSE Last(path)

IsYaml(name) == name \in YamlNames

FileResolution(path) ==
  CASE BaseOf(path) \in ChartNames -> Resolution("helm", RawURL(path))
    [] Contains(KustomizationNames, BaseOf(path)) ->
         Resolution("kustomize", RawURL(path))
    [] IsYaml(BaseOf(path))
       /\ BaseOf(path) \notin ChartNames
       /\ ~Contains(KustomizationNames, BaseOf(path)) ->
         Resolution("yaml", RawURL(path))
    [] OTHER -> Unsupported

IsChartFile(rel) ==
  \/ rel \in {<<"values.yaml">>, <<"values.schema.json">>, <<"Chart.lock">>,
              <<".helmignore">>}
  \/ Last(rel) \in TplNames
  \/ Len(rel) > 1 /\ rel[1] \in {"templates", "charts", "crds"}

Below(dir, path) == IsStrictPrefix(dir, path)
Relative(dir, path) == SubSeq(path, Len(dir) + 1, Len(path))

ChartResolution(dir, paths) ==
  LET members == Kept(paths, {p \in ToSet(paths) : Below(dir, p)
                             /\ Relative(dir, p) # <<"Chart.yaml">>
                             /\ IsChartFile(Relative(dir, p))})
  IN  [format |-> "helm",
       url |-> RawURL(dir \o <<"Chart.yaml">>),
       files |-> [i \in DOMAIN members |-> Relative(dir, members[i])]]

\* A chart under charts/, at any depth.
IsChartYaml(p) == Len(p) > 1 /\ p[1] = "charts" /\ Last(p) = "Chart.yaml"

\* Mutant: the first chart listed is taken.
FindFirstChart(paths, name) ==
  LET charts == {i \in DOMAIN paths : IsChartYaml(paths[i])}
  IN  IF charts # {} THEN Front(paths[Min(charts)]) ELSE <<>>

\* The charts/<name> chart, else the first one listed under charts/.
FindChart(paths, name) ==
  LET charts == {i \in DOMAIN paths : IsChartYaml(paths[i])}
      own == <<"charts", name, "Chart.yaml">>
  IN  IF Contains(paths, own) THEN Front(own)
      ELSE IF charts # {} THEN Front(paths[Min(charts)])
      ELSE <<>>

\* The kustomization in dir, by the first of its names that is listed.
KustomizationIn(paths, dir) ==
  LET Name(i) == dir \o <<KustomizationNames[i]>>
      found == {i \in DOMAIN KustomizationNames : Contains(paths, Name(i))}
  IN  IF found = {} THEN Unsupported
      ELSE Resolution("kustomize", RawURL(Name(Min(found))))

RouteSubpath(paths, sub) ==
  IF Contains(paths, sub) THEN FileResolution(sub)
  ELSE IF Contains(paths, sub \o <<"Chart.yaml">>) THEN ChartResolution(sub, paths)
  ELSE KustomizationIn(paths, sub)

RouteRepo(paths, name) ==
  IF FindChart(paths, name) # <<>> THEN ChartResolution(FindChart(paths, name), paths)
  ELSE KustomizationIn(paths, <<>>)
=============================================================================
