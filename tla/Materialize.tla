---------------------------- MODULE Materialize ----------------------------
(***************************************************************************)
(* kustomize.Materialize: the kustomization behind a URL and everything it *)
(* refers to by relative path are fetched, depth first, into a tar that    *)
(* the builder pod unpacks and hands to `kubectl kustomize`.               *)
(*                                                                         *)
(* A path is the sequence of its segments below the host.  The site may    *)
(* change under the walk: every fetch of a kustomization may answer        *)
(* another listing, and every fetch may fail.                              *)
(***************************************************************************)
EXTENDS Naturals, Sequences

CONSTANTS
  Names,      \* path segments
  Ext,        \* the segments that carry a file extension
  KFiles,     \* the names a kustomization may have
  KFile,      \* the one a nested kustomization is fetched under
  Entries     \* what a kustomization may list under resources and bases

(***************************************************************************)
(* An entry is an absolute URL, or a relative reference that climbs `up`   *)
(* directories and descends along `down`; `slash` is a trailing slash.  A  *)
(* reference from the host root ("/x") is one that climbs above every      *)
(* directory.  No entry names a kustomization file as a plain resource:    *)
(* kustomize refuses one.                                                  *)
(***************************************************************************)
ASSUME NamesAssumption == KFiles \subseteq Names /\ KFile \in KFiles
ASSUME EntriesAssumption ==
  /\ Entries \subseteq [abs : BOOLEAN, up : Nat, down : Seq(Names),
                        slash : BOOLEAN]
  /\ \A e \in Entries : \A i \in DOMAIN e.down : e.down[i] \notin KFiles

VARIABLES
  stack,      \* the open calls of materialize: [item, next]
  seen,       \* kustomizations already entered
  archive,    \* the tar's members in order: [name, list]
  walk        \* "idle", "walking", "ok", "failed"

mvars == <<stack, seen, archive, walk>>

Path == Seq(Names)
Listing == Seq(Entries)

\* The number of directories above the file at p.
Depth(p) == Len(p) - 1

IsKustomization(p) == Len(p) > 0 /\ p[Len(p)] \in KFiles

\* url.ResolveReference: ../ stops at the host root.
Resolved(base, e) ==
  LET kept == IF e.up > Depth(base) THEN 0 ELSE Depth(base) - e.up
  IN  SubSeq(base, 1, kept) \o e.down

\* A trailing slash, "." and "..", and names without an extension.
IsDirectory(e) ==
  \/ e.slash
  \/ Len(e.down) = 0
  \/ Len(e.down) > 0 /\ e.down[Len(e.down)] \notin Ext

Nested(base, e) == Resolved(base, e) \o <<KFile>>

MaterializeTypeOK ==
  /\ stack \in Seq([item : Nat \ {0}, next : Nat \ {0}])
  /\ seen \in SUBSET Path
  /\ archive \in Seq([name : Path, list : Listing])
  /\ walk \in {"idle", "walking", "ok", "failed"}

MaterializeInit ==
  /\ stack = <<>>
  /\ seen = {}
  /\ archive = <<>>
  /\ walk = "idle"

-----------------------------------------------------------------------------
Top == stack[Len(stack)]
Here == archive[Top.item]           \* the kustomization being walked
Left == Top.next <= Len(Here.list)
At == Here.list[Top.next]           \* the entry the loop is at

Walking == walk = "walking" /\ Len(stack) > 0

Advanced == [stack EXCEPT ![Len(stack)] = [item |-> @.item,
                                           next |-> @.next + 1]]

\* Mutant: the kustomization is not recorded in seen.
EnterUnmarked(name, list, rest) ==
  /\ seen' = seen
  /\ archive' = Append(archive, [name |-> name, list |-> list])
  /\ stack' = Append(rest, [item |-> Len(archive) + 1, next |-> 1])

\* The body of materialize up to its loop, with `rest` the callers' frames.
Enter(name, list, rest) ==
  /\ seen' = seen \cup {name}
  /\ archive' = Append(archive, [name |-> name, list |-> list])
  /\ stack' = Append(rest, [item |-> Len(archive) + 1, next |-> 1])

Start(root, list) ==
  /\ walk = "idle"
  /\ Enter(root, list, <<>>)
  /\ walk' = "walking"

SkipAbsolute ==
  /\ Walking /\ Left /\ At.abs
  /\ stack' = Advanced
  /\ UNCHANGED <<seen, archive, walk>>

\* Mutant: a nested kustomization is written but its own entries are not walked.
FetchNestedShallow(list) ==
  /\ Walking /\ Left /\ ~At.abs /\ IsDirectory(At)
  /\ LET name == Nested(Here.name, At) IN
       /\ seen' = seen \cup {name}
       /\ archive' = IF name \in seen THEN archive
                     ELSE Append(archive, [name |-> name, list |-> list])
       /\ stack' = Advanced
  /\ UNCHANGED walk

\* The nested kustomization is fetched before seen is looked at; if it was
\* entered before, what this fetch answered is dropped.
FetchNested(list) ==
  /\ Walking /\ Left /\ ~At.abs /\ IsDirectory(At)
  /\ LET name == Nested(Here.name, At) IN
       IF name \in seen
         THEN stack' = Advanced /\ UNCHANGED <<seen, archive>>
         ELSE Enter(name, list, Advanced)
  /\ UNCHANGED walk

FetchFile ==
  /\ Walking /\ Left /\ ~At.abs /\ ~IsDirectory(At)
  /\ archive' = Append(archive, [name |-> Resolved(Here.name, At),
                                 list |-> <<>>])
  /\ stack' = Advanced
  /\ UNCHANGED <<seen, walk>>

\* A fetch fails, or what it answers does not parse: no archive is returned.
FetchFails ==
  /\ Walking /\ Left /\ ~At.abs
  /\ stack' = <<>>
  /\ archive' = <<>>
  /\ walk' = "failed"
  /\ UNCHANGED seen

\* The loop is done: materialize returns to its caller, the first call to
\* Materialize, which closes the tar.
Leave ==
  /\ Walking /\ ~Left
  /\ stack' = SubSeq(stack, 1, Len(stack) - 1)
  /\ walk' = IF Len(stack) = 1 THEN "ok" ELSE walk
  /\ UNCHANGED <<seen, archive>>

MaterializeNext ==
  \/ \E root \in Path, list \in Listing : IsKustomization(root) /\ Start(root, list)
  \/ SkipAbsolute
  \/ \E list \in Listing : FetchNested(list)
  \/ FetchFile
  \/ FetchFails
  \/ Leave

MaterializeSpec == MaterializeInit /\ [][MaterializeNext]_mvars

-----------------------------------------------------------------------------
\* Where `kubectl kustomize` looks for an entry in the unpacked tree; it is
\* defined for the references that stay below the unpacking directory.
StaysInside(base, e) == e.up <= Depth(base)
BuilderPath(base, e) == SubSeq(base, 1, Depth(base) - e.up) \o e.down

Present(p) ==
  \E i \in DOMAIN archive :
    archive[i].name \in {p} \cup {p \o <<k>> : k \in KFiles}

(***************************************************************************)
(* What a finished walk returns is a tree the builder can build: every     *)
(* relative reference of every kustomization in the tar, as it was         *)
(* fetched, leads to a file or a kustomization that is in the tar too.     *)
(* This holds however the kustomizations refer to each other, and while    *)
(* the site changes between two fetches.                                   *)
(***************************************************************************)
BuilderFinds ==
  walk = "ok" =>
    \A i \in DOMAIN archive : \A j \in DOMAIN archive[i].list :
      LET e == archive[i].list[j] IN
        ~e.abs /\ StaysInside(archive[i].name, e)
          => Present(BuilderPath(archive[i].name, e))

(***************************************************************************)
(* However kustomizations refer to each other, none is written to the tar  *)
(* or walked a second time, so a cycle ends the walk instead of deepening  *)
(* it and two revisions of one kustomization never overwrite each other.   *)
(***************************************************************************)
WalkedOnce ==
  \A i, j \in DOMAIN archive :
    /\ IsKustomization(archive[i].name)
    /\ archive[i].name = archive[j].name
    => i = j
=============================================================================
