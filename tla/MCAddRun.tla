------------------------------ MODULE MCAddRun ------------------------------
(* AddRun on repositories of at most eight files, listed two entries a page. *)
EXTENDS AddRun

a == <<"charts", "app">>
z == <<"charts", "zed">>
App == a \o <<"Chart.yaml">>
Deployment == a \o <<"templates", "deployment.yaml">>
Web == a \o <<"web.tpl">>
Readme == a \o <<"README.md">>
Require == a \o <<"requirements.yaml">>
Zed == z \o <<"Chart.yaml">>
Root == <<"kustomization.yaml">>
BaseK == <<"base", "kustomization.yaml">>
Manifest == <<"x.yaml">>
TreeK == <<"tree", "tag", "kustomization.yml">>

MCOrder == <<<<"base">>, BaseK, <<"charts">>, a, App, Readme, Require, a \o <<"templates">>,
             Deployment, Web, z, Zed, Root, <<"tree">>, <<"tree", "tag">>, TreeK, Manifest>>

Charts == SUBSET {App, Deployment, Web, Readme, Zed, Root}
Full == {App, Deployment, Web, Zed, Manifest}
MCHeads == {Full, Full \ {Web}, {Zed, Manifest}, {Root, BaseK, TreeK, Manifest},
            {BaseK, Manifest}, {Manifest}}
Tagged == [tag : Charts \cup {{App, Require, Deployment}, {Root, BaseK, TreeK, Manifest}},
           branch : {{}}]
Untagged == [tag : {{}}, branch : MCHeads]

Resource == [detect |-> {"git", "http"}, host |-> "github", path |-> <<>>,
             asked |-> [name |-> "", ref |-> "", path |-> <<>>, blob |-> FALSE],
             form |-> "file", chart |-> "", version |-> "", tagged |-> FALSE]

\* URLs as the hosts write them.
Project(h) == IF h = "gitlab" THEN <<"group", "sub", "zed">> ELSE <<"org", "zed">>
GitURL(h, r, p, b) ==
  [Resource EXCEPT
     !.host = h,
     !.path = Project(h) \o (IF r = "" THEN <<>>
                ELSE (IF b THEN BlobMark(h) ELSE TreeMark(h)) \o <<r>> \o p),
     !.asked = [name |-> "zed", ref |-> r, path |-> p, blob |-> b]]
Git == {GitURL(h, "", <<>>, FALSE) : h \in {"github", "gitlab", "bitbucket"}}
       \cup {GitURL(h, r, p, FALSE) : h \in {"github", "gitlab", "bitbucket"},
               r \in {"tag", "branch"}, p \in {<<>>, a, <<"base">>, <<"tree", "tag">>,
                             <<"blob", "base", "x.yaml">>}}
       \cup {GitURL(h, r, p, TRUE) : h \in {"github", "gitlab"},
               r \in {"tag", "branch"}, p \in {<<>>, App, TreeK, Manifest, Readme}}
NoRepo == [Resource EXCEPT !.path = <<"org">>]
Http == {[Resource EXCEPT !.detect = {"http"}, !.path = p] : p \in {App, Root, Manifest}}
        \cup {[Resource EXCEPT !.detect = {"http"}, !.path = <<"app.tgz">>, !.form = "tgz"]}
        \cup {[Resource EXCEPT !.detect = {"http"}, !.path = p, !.form = "bare",
                               !.chart = c, !.version = v] :
                p \in {<<>>, <<"app">>}, c \in {"", "app"}, v \in {"", "1.0"}}
Oci == {[Resource EXCEPT !.detect = {"image"}, !.path = <<"app">>, !.form = "oci",
                         !.tagged = t, !.version = v] :
          t \in BOOLEAN, v \in {"", "1.0"}}

v1 == [raw |-> "1.0", sem |-> 1]
v2 == [raw |-> "2.0", sem |-> 2]
v3 == [raw |-> "v2.0", sem |-> 2]
latest == [raw |-> "latest", sem |-> 0]
Indexes == UNION {[S -> {{v1}, {v1, v2}, {v2, latest}}] : S \in SUBSET {"app", "zed"}}
Empty == [index |-> <<>>, tags |-> <<>>, entries |-> FALSE, at |-> "http"]
\* helm lists a registry's tags newest first, only those that are versions.
TagLists == {tags \in BoundedSeq({v1, v2, v3}, 3) :
               \A i, j \in DOMAIN tags : i < j => tags[i].sem >= tags[j].sem}
Repositories ==
  {[Empty EXCEPT !.index = i, !.entries = TRUE, !.at = at] :
     i \in Indexes, at \in {"http", "tagged"}}
  \cup {[index |-> i, tags |-> tags, entries |-> TRUE, at |-> "untagged"] :
           i \in Indexes, tags \in {<<>>, <<v2, v1>>}}
  \cup {[Empty EXCEPT !.index = i] : i \in {<<>>, "app" :> {v1, v2}}}
MCWorlds ==
  [res : {r \in Git : r.asked.ref # "branch"}, site : Tagged, catalog : {Empty}]
  \cup [res : {r \in Git : r.asked.ref # "tag"} \cup {r \in Http : r.form = "file"},
         site : Untagged, catalog : {Empty}]
  \cup [res : {r \in Http : r.form # "file"}, site : {[tag |-> {}, branch |-> {}]},
         catalog : Repositories]
  \cup [res : Oci \cup {[Resource EXCEPT !.detect = {}], NoRepo},
         site : {[tag |-> {}, branch |-> {}]},
         catalog : {[Empty EXCEPT !.tags = tags] : tags \in TagLists}]

MCEntry(u, d) == [abs |-> FALSE, up |-> u, down |-> d, slash |-> FALSE]
ToBase == MCEntry(0, <<"base">>)
ToFile == MCEntry(0, <<"x.yaml">>)
UpDir == MCEntry(1, <<>>)
UpFile == MCEntry(1, <<"x.yaml">>)
Climb == MCEntry(3, <<"x.yaml">>)
Absolute == [MCEntry(0, <<>>) EXCEPT !.abs = TRUE]
MCEntries == {ToBase, ToFile, UpDir, UpFile, Climb, Absolute}
MCListings == {<<>>, <<ToBase, ToFile>>, <<UpDir, UpFile>>, <<ToBase, ToBase>>,
               <<Absolute, ToFile>>, <<Climb>>}

MCConventional == <<<<"values.yaml">>, <<"templates", "deployment.yaml">>>>
MCYamlNames == {"x.yaml", "deployment.yaml", "requirements.yaml"}
MCKFiles == ToSet(KustomizationNames)
MCExt == {"kustomization.yaml", "kustomization.yml", "Chart.yaml", "README.md",
          "web.tpl"} \cup MCYamlNames
MCNames == MCExt \cup {"Kustomization", "base", "charts", "app", "zed", "templates",
                       "tree", "tag", "values.yaml"}
           \cup UNION {ToSet(w.res.path) : w \in MCWorlds} \cup ToSet(RawRoot)
=============================================================================
