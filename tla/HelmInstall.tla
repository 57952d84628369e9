---------------------------- MODULE HelmInstall ----------------------------
(***************************************************************************)
(* Installing and removing one Helm chart: installHelm and editConfigMap   *)
(* (v1alpha1/cmd/add/add.go) over the values ConfigMap of                  *)
(* v1alpha1/helm/values.go.  Each run is one command; runs, other          *)
(* releases of the chart and an administrator interleave between the       *)
(* calls to the API server.                                                *)
(*                                                                         *)
(* A values text is <<"defaults", v>>, what version v ships, or            *)
(* <<"edited", r>>, what the user of run r saved.  The objects a chart     *)
(* renders to depend on its version and on the values.                     *)
(***************************************************************************)
EXTENDS Naturals, FiniteSets

CONSTANTS Runs,         \* commands, each one install or one --remove
          MaxActive,    \* how many of them may be under way at once
          MaxVersion,   \* bound: versions the chart ever has
          MaxDeletes,   \* bound: times the administrator deletes a ConfigMap
          VersionInKey, \* the chart's URL names its version (git, OCI tag, .tgz)
          Absent        \* "no such ConfigMap"

ASSUME HelmAssumption == /\ MaxActive \in Nat \ {0}
                         /\ MaxVersion \in Nat \ {0}
                         /\ MaxDeletes \in Nat
                         /\ VersionInKey \in BOOLEAN

VARIABLES
  latest,    \* the newest version of the chart
  store,     \* the values ConfigMaps: a text and the revision that wrote it
  revision,  \* how many writes the ConfigMaps have seen
  deletes,   \* how many of them were deletions
  cluster,   \* the rendered objects that exist
  pc,        \* where each run is
  removing,  \* the runs with --remove
  version,   \* the chart version a run discovered
  values,    \* the values it holds
  reviewed,  \* history: the revision its user was last shown
  edited,    \* history: the ConfigMaps that hold an edit
  mustReuse, \* history: runs started when there was one
  raced,     \* history: a Create has met a ConfigMap made since LoadValues
  last       \* history: the last command that succeeded

shared == <<latest, store, revision, deletes, cluster>>
local  == <<removing, version, values, reviewed>>
ghost  == <<edited, mustReuse, raced, last>>
vars   == <<shared, pc, local, ghost>>

Versions == 1..MaxVersion
Keys     == 0..MaxVersion
Texts    == ({"defaults"} \X Versions) \cup ({"edited"} \X Runs)
Stored   == [text : Texts, rev : Nat]
Objects  == Versions \X Texts
Labels   == {"idle", "load", "create", "update", "edit", "reload", "render",
             "apply", "done", "error"}

\* Absent is no ConfigMap.
ASSUME AbsentAssumption == Absent \notin Stored

TypeOK ==
  /\ latest \in Versions
  /\ store \in [Keys -> Stored \cup {Absent}]
  /\ revision \in Nat
  /\ deletes \in 0..MaxDeletes
  /\ cluster \subseteq Objects
  /\ pc \in [Runs -> Labels]
  /\ removing \subseteq Runs
  /\ version \in [Runs -> Versions]
  /\ values \in [Runs -> Stored]
  /\ reviewed \in [Runs -> Nat]
  /\ edited \subseteq Keys
  /\ mustReuse \subseteq Runs
  /\ raced \in BOOLEAN
  /\ last \in {"none", "install", "remove"}

Defaults(v) == [text |-> <<"defaults", v>>, rev |-> 0]

Init ==
  /\ latest = 1
  /\ store = [k \in Keys |-> Absent]
  /\ revision = 0
  /\ deletes = 0
  /\ cluster = {}
  /\ pc = [r \in Runs |-> "idle"]
  /\ removing = {}
  /\ version = [r \in Runs |-> 1]
  /\ values = [r \in Runs |-> Defaults(1)]
  /\ reviewed = [r \in Runs |-> 0]
  /\ edited = {}
  /\ mustReuse = {}
  /\ raced = FALSE
  /\ last = "none"

Goto(r, label) == pc' = [pc EXCEPT ![r] = label]
Active == {r \in Runs : pc[r] \notin {"idle", "done", "error"}}

\* Mutant: ?version= stays in the URL that is hashed.
ValuesNameOfVersion(v) == v

\* ValuesName(valuesID): ?version= is dropped from the chart's URL before it is
\* hashed; a version elsewhere in the URL is not.
ValuesName(v) == IF VersionInKey THEN v ELSE 0
Key(r) == ValuesName(version[r])

\* The ConfigMap k is written with text.
Write(k, text) ==
  /\ revision' = revision + 1
  /\ store' = [store EXCEPT ![k] = [text |-> text, rev |-> revision + 1]]

-----------------------------------------------------------------------------
(* A run.                                                                  *)

\* The chart is discovered, at its newest version.
Start(r) ==
  /\ pc[r] = "idle"
  /\ Cardinality(Active) < MaxActive
  /\ removing' \in {removing, removing \cup {r}}
  /\ version' = [version EXCEPT ![r] = latest]
  /\ mustReuse' = IF edited # {} THEN mustReuse \cup {r} ELSE mustReuse
  /\ Goto(r, "load")
  /\ UNCHANGED <<shared, values, reviewed, edited, raced, last>>

\* After the values are reconciled: the editor, unless --no-edit or no terminal.
Reconciled(r) == \E next \in {"edit", "render"} : Goto(r, next)

Holds(r, stored) == /\ values' = [values EXCEPT ![r] = stored]
                    /\ reviewed' = [reviewed EXCEPT ![r] = stored.rev]

\* LoadValues: an existing ConfigMap is used, else the defaults are stored.
LoadValues(r) ==
  /\ pc[r] = "load"
  /\ \/ /\ store[Key(r)] # Absent
        /\ Holds(r, store[Key(r)])
        /\ Reconciled(r)
     \/ /\ store[Key(r)] = Absent
        /\ Holds(r, Defaults(version[r]))
        /\ Goto(r, "create")
  /\ UNCHANGED <<shared, removing, version, ghost>>

\* StoreValues: Create ...
CreateValues(r) ==
  /\ pc[r] = "create"
  /\ store[Key(r)] = Absent
  /\ Write(Key(r), values[r].text)
  /\ Holds(r, [text |-> values[r].text, rev |-> revision + 1])
  /\ Reconciled(r)
  /\ UNCHANGED <<latest, deletes, cluster, removing, version, ghost>>

\* ... or AlreadyExists ...
AlreadyExists(r) ==
  /\ pc[r] = "create"
  /\ store[Key(r)] # Absent
  /\ raced' = TRUE
  /\ Goto(r, "update")
  /\ UNCHANGED <<shared, local, edited, mustReuse, last>>

\* ... and an Update, which carries no resource version.
UpdateValues(r) ==
  /\ pc[r] = "update"
  /\ store[Key(r)] # Absent
  /\ Write(Key(r), values[r].text)
  /\ Holds(r, [text |-> values[r].text, rev |-> revision + 1])
  /\ Reconciled(r)
  /\ UNCHANGED <<latest, deletes, cluster, removing, version, ghost>>

\* `kubectl edit`: the user saves other values ...
EditSaves(r) ==
  /\ pc[r] = "edit"
  /\ store[Key(r)] # Absent
  /\ Write(Key(r), <<"edited", r>>)
  /\ reviewed' = [reviewed EXCEPT ![r] = revision + 1]
  /\ edited' = edited \cup {Key(r)}
  /\ Goto(r, "reload")
  /\ UNCHANGED <<latest, deletes, cluster, removing, version, values, mustReuse, raced, last>>

\* ... or leaves them.
EditLeaves(r) ==
  /\ pc[r] = "edit"
  /\ store[Key(r)] # Absent
  /\ reviewed' = [reviewed EXCEPT ![r] = store[Key(r)].rev]
  /\ Goto(r, "reload")
  /\ UNCHANGED <<shared, removing, version, values, ghost>>

\* Mutant: what was loaded before the editor opened is rendered.
ReloadSkipped(r) ==
  /\ pc[r] = "reload"
  /\ Goto(r, "render")
  /\ UNCHANGED <<shared, local, ghost>>

\* Mutant: a ConfigMap that is gone is rendered as it was found.
ReloadAsFound(r) ==
  /\ pc[r] = "reload"
  /\ values' = [values EXCEPT ![r] = store[Key(r)]]
  /\ Goto(r, "render")
  /\ UNCHANGED <<shared, removing, version, reviewed, ghost>>

\* The values are loaded again; a ConfigMap that is gone by now means none, and
\* the chart's own defaults apply.
Reload(r) ==
  /\ pc[r] = "reload"
  /\ values' = [values EXCEPT ![r] =
       IF store[Key(r)] # Absent THEN store[Key(r)]
       ELSE [text |-> Defaults(version[r]).text, rev |-> revision]]
  /\ Goto(r, "render")
  /\ UNCHANGED <<shared, removing, version, reviewed, ghost>>

Rendered(r) == {<<version[r], values[r].text>>}

Render(r) ==
  /\ pc[r] = "render"
  /\ Goto(r, "apply")
  /\ UNCHANGED <<shared, local, ghost>>

\* The rendered manifest goes to the applier, kubectl apply or kubectl delete
\* (see Applier for how).
Apply(r) ==
  /\ pc[r] = "apply"
  /\ cluster' = IF r \in removing THEN cluster \ Rendered(r) ELSE cluster \cup Rendered(r)
  /\ last' = IF r \in removing THEN "remove" ELSE "install"
  /\ Goto(r, "done")
  /\ UNCHANGED <<latest, store, revision, deletes, local, edited, mustReuse, raced>>

\* Discovery, a call, the editor, the template or the apply fails.
Fail(r) ==
  /\ r \in Active
  /\ Goto(r, "error")
  /\ UNCHANGED <<shared, local, ghost>>

-----------------------------------------------------------------------------
(* The environment.                                                        *)

Release ==
  /\ latest < MaxVersion
  /\ latest' = latest + 1
  /\ UNCHANGED <<store, revision, deletes, cluster, pc, local, ghost>>

\* kubectl delete configmap
AdminDeletes(k) ==
  /\ deletes < MaxDeletes
  /\ store[k] # Absent
  /\ store' = [store EXCEPT ![k] = Absent]
  /\ revision' = revision + 1
  /\ deletes' = deletes + 1
  /\ edited' = edited \ {k}
  /\ mustReuse' = {}
  /\ UNCHANGED <<latest, cluster, pc, local, raced, last>>

Step(r) ==
  \/ Start(r) \/ LoadValues(r) \/ CreateValues(r) \/ AlreadyExists(r)
  \/ UpdateValues(r) \/ EditSaves(r) \/ EditLeaves(r) \/ Reload(r)
  \/ Render(r) \/ Apply(r) \/ Fail(r)

Next == (\E r \in Runs : Step(r)) \/ Release \/ (\E k \in Keys : AdminDeletes(k))

Spec == Init /\ [][Next]_vars

-----------------------------------------------------------------------------
\* README.md:252, "The first install stores the chart's defaults; later
\* installs reuse them": values a user has saved are not put back to defaults,
\* unless two first installs raced and the slower one's Update came last.  And
\* add.go:662, "so edited values persist across version bumps": short of that
\* race, an install that starts when there are edited values renders them,
\* whatever version it installs.  (For a URL without the version in its path.)
EditsKept ==
  \/ raced
  \/ /\ \A k \in edited : store[k] # Absent /\ store[k].text[1] = "edited"
     /\ \A r \in mustReuse : pc[r] = "done" => values[r].text[1] = "edited"

\* What is rendered is never older than what the user of the run was shown, or
\* saved, in the editor, whoever else is writing the ConfigMap.
ReviewedOrNewer ==
  \A r \in Runs : pc[r] \in {"render", "apply", "done"} => values[r].rev >= reviewed[r]

\* README.md:30: "`--remove` deletes exactly what you added."
RemoveUndoes == last = "remove" => cluster = {}
=============================================================================
