------------------------- MODULE HelmInstallProofs -------------------------
(***************************************************************************)
(* Safety of HelmInstall for any number of commands, releases, deletions   *)
(* and concurrent runs.                                                    *)
(***************************************************************************)
EXTENDS HelmInstall, TLAPS

\* The revisions in the store, and those shown to users, are ones there have been.
Revisions ==
  /\ \A k \in Keys : store[k] # Absent => store[k].rev <= revision
  /\ \A r \in Runs : reviewed[r] <= revision

(***************************************************************************)
(* Between the editor and the reload the ConfigMap may be rewritten, or    *)
(* deleted, by others, but never to something older than what was shown.   *)
(***************************************************************************)
Unrendered ==
  /\ \A r \in Runs : pc[r] = "reload" /\ store[Key(r)] # Absent =>
                       store[Key(r)].rev >= reviewed[r]
  /\ \A r \in Runs : pc[r] = "edit" => values[r].rev >= reviewed[r]

RevInv == Revisions /\ Unrendered /\ ReviewedOrNewer

\* Only a Create that met a ConfigMap made meanwhile leads to an Update.
OnlyRacesUpdate == \A r \in Runs : pc[r] = "update" => raced

\* A ConfigMap that was edited holds the edit.
EditsStored == \A k \in edited : store[k] # Absent /\ store[k].text[1] = "edited"

(***************************************************************************)
(* A run that started when there was an edit still finds one: it does not  *)
(* come to store defaults, and once it has loaded the last time, it holds  *)
(* the edit.                                                               *)
(***************************************************************************)
Reuses ==
  /\ mustReuse # {} => 0 \in edited
  /\ edited \subseteq {0}
  /\ \A r \in mustReuse :
       /\ pc[r] \notin {"idle", "create", "update"}
       /\ pc[r] \in {"render", "apply", "done"} => values[r].text[1] = "edited"

\* Both, short of a race.
StoredInv == OnlyRacesUpdate /\ (raced \/ EditsStored)
ReuseInv  == raced \/ Reuses

-----------------------------------------------------------------------------
\* Every run has a ConfigMap of its own or of its chart, and texts for it.
LEMMA KeyType ==
  ASSUME TypeOK, NEW r \in Runs
  PROVE  /\ Key(r) \in Keys
         /\ <<"edited", r>> \in Texts
         /\ Defaults(version[r]) \in Stored
<1>1. version[r] \in Versions
  BY DEF TypeOK
<1>2. Key(r) \in Keys
  BY <1>1, HelmAssumption DEF Key, ValuesName, Keys, Versions
<1>3. <<"edited", r>> \in Texts
  BY DEF Texts
<1>4. <<"defaults", version[r]>> \in Texts
  BY <1>1 DEF Texts
<1> QED BY <1>2, <1>3, <1>4 DEF Defaults, Stored

\* What a write leaves in the store, and what the run that wrote it then holds.
LEMMA WriteType ==
  ASSUME TypeOK, NEW k \in Keys, NEW text \in Texts, Write(k, text)
  PROVE  /\ revision' \in Nat
         /\ store' \in [Keys -> Stored \cup {Absent}]
<1>1. revision + 1 \in Nat
  BY DEF TypeOK
<1>2. [text |-> text, rev |-> revision + 1] \in Stored
  BY <1>1 DEF Stored
<1> QED BY <1>1, <1>2 DEF Write, TypeOK

\* The values a run holds, written again, are at the revision of the write.
LEMMA HeldType ==
  ASSUME TypeOK, NEW r \in Runs
  PROVE  /\ values[r].text \in Texts
         /\ values[r].rev \in Nat
         /\ [text |-> values[r].text, rev |-> revision + 1] \in Stored
<1>1. values[r] \in Stored /\ revision + 1 \in Nat
  BY DEF TypeOK
<1> QED BY <1>1 DEF Stored

\* Every step keeps the types.
LEMMA TypeInductive == TypeOK /\ [Next]_vars => TypeOK'
<1> SUFFICES ASSUME TypeOK, [Next]_vars PROVE TypeOK'
  OBVIOUS
<1>0. raced' \in BOOLEAN
  <2>1. ASSUME NEW r \in Runs, Step(r) PROVE raced' \in BOOLEAN
    BY <2>1 DEF Step, Start, LoadValues, CreateValues, AlreadyExists, UpdateValues,
       EditSaves, EditLeaves, Reload, Render, Apply, Fail, ghost, TypeOK
  <2> QED BY <2>1 DEF Next, Release, AdminDeletes, vars, ghost, TypeOK
<1> USE HelmAssumption, <1>0, KeyType DEF Labels, Goto
<1>a. ASSUME NEW r \in Runs, NEW stored \in Stored, Holds(r, stored)
      PROVE  values' \in [Runs -> Stored] /\ reviewed' \in [Runs -> Nat]
  BY <1>a DEF Holds, Stored, TypeOK
<1>b. ASSUME NEW r \in Runs, Reconciled(r) PROVE pc' \in [Runs -> Labels]
  BY <1>b DEF Reconciled, TypeOK
<1>1. ASSUME NEW r \in Runs, Start(r) PROVE TypeOK'
  BY <1>1 DEF Start, shared, TypeOK
<1>2. ASSUME NEW r \in Runs, LoadValues(r) PROVE TypeOK'
  <2>1. CASE store[Key(r)] # Absent
    <3>1. store[Key(r)] \in Stored
      BY <2>1 DEF TypeOK
    <3> QED BY <1>2, <2>1, <3>1, <1>a, <1>b DEF LoadValues, shared, ghost, TypeOK
  <2>2. CASE store[Key(r)] = Absent
    BY <1>2, <2>2, <1>a DEF LoadValues, shared, ghost, TypeOK
  <2> QED BY <2>1, <2>2
<1>3. ASSUME NEW r \in Runs, CreateValues(r) PROVE TypeOK'
  BY <1>3, <1>a, <1>b, HeldType, WriteType DEF CreateValues, ghost, TypeOK
<1>4. ASSUME NEW r \in Runs, AlreadyExists(r) PROVE TypeOK'
  BY <1>4 DEF AlreadyExists, shared, local, TypeOK
<1>5. ASSUME NEW r \in Runs, UpdateValues(r) PROVE TypeOK'
  BY <1>5, <1>a, <1>b, HeldType, WriteType DEF UpdateValues, ghost, TypeOK
<1>6. ASSUME NEW r \in Runs, EditSaves(r) PROVE TypeOK'
  BY <1>6, WriteType DEF EditSaves, TypeOK
<1>7. ASSUME NEW r \in Runs, EditLeaves(r) PROVE TypeOK'
  <2>1. store[Key(r)].rev \in Nat
    BY <1>7 DEF EditLeaves, TypeOK, Stored
  <2> QED BY <1>7, <2>1 DEF EditLeaves, shared, ghost, TypeOK
<1>8. ASSUME NEW r \in Runs, Reload(r) PROVE TypeOK'
  <2>1. [text |-> Defaults(version[r]).text, rev |-> revision] \in Stored
    BY DEF Stored, TypeOK
  <2>2. store[Key(r)] # Absent => store[Key(r)] \in Stored
    BY DEF TypeOK
  <2> QED BY <1>8, <2>1, <2>2 DEF Reload, shared, ghost, TypeOK
<1>9. ASSUME NEW r \in Runs, Render(r) PROVE TypeOK'
  BY <1>9 DEF Render, shared, local, ghost, TypeOK
<1>10. ASSUME NEW r \in Runs, Apply(r) PROVE TypeOK'
  <2>1. values[r].text \in Texts /\ version[r] \in Versions
    BY HeldType DEF TypeOK
  <2>2. Rendered(r) \subseteq Objects
    BY <2>1 DEF Rendered, Objects
  <2> QED BY <1>10, <2>2 DEF Apply, local, TypeOK
<1>11. ASSUME NEW r \in Runs, Fail(r) PROVE TypeOK'
  BY <1>11 DEF Fail, shared, local, ghost, TypeOK
<1>12. CASE Release
  BY <1>12 DEF Release, local, ghost, Versions, TypeOK
<1>13. ASSUME NEW k \in Keys, AdminDeletes(k) PROVE TypeOK'
  BY <1>13 DEF AdminDeletes, local, TypeOK
<1>14. CASE UNCHANGED vars
  BY <1>14 DEF vars, shared, local, ghost, TypeOK
<1> QED
  BY <1>1, <1>2, <1>3, <1>4, <1>5, <1>6, <1>7, <1>8, <1>9, <1>10, <1>11, <1>12,
     <1>13, <1>14 DEF Next, Step

\* Type correctness of the ConfigMaps, the cluster and the runs.
THEOREM TypeCorrect == Spec => []TypeOK
<1>1. Init => TypeOK
  <2> SUFFICES ASSUME Init PROVE TypeOK
    OBVIOUS
  <2>1. raced \in BOOLEAN
    BY DEF Init
  <2>2. Defaults(1) \in Stored
    BY HelmAssumption DEF Defaults, Stored, Texts, Versions
  <2> QED BY <2>1, <2>2, HelmAssumption DEF Init, TypeOK, Versions, Labels
<1> QED BY <1>1, TypeInductive, PTL DEF Spec

-----------------------------------------------------------------------------
(***************************************************************************)
(* A write is newer than everything before it: whatever bound on revisions *)
(* held of a ConfigMap holds of it after the write.                        *)
(***************************************************************************)
LEMMA WriteIsNewest ==
  ASSUME TypeOK, Revisions, NEW k \in Keys, NEW text \in Texts, Write(k, text)
  PROVE  /\ revision' = revision + 1 /\ store'[k].rev = revision + 1
         /\ \A j \in Keys : j # k => store'[j] = store[j]
         /\ \A j \in Keys : store'[j] # Absent => store'[j].rev <= revision'
<1>1. /\ revision \in Nat /\ revision' = revision + 1
      /\ store'[k] = [text |-> text, rev |-> revision + 1]
      /\ \A j \in Keys : j # k => store'[j] = store[j]
  BY DEF Write, TypeOK
<1>2. store'[k].rev = revision + 1
  BY <1>1
<1>3. ASSUME NEW j \in Keys, store[j] # Absent
      PROVE  store[j].rev \in Nat /\ store[j].rev <= revision
  BY <1>3 DEF Revisions, TypeOK, Stored
<1>4. ASSUME NEW j \in Keys, store'[j] # Absent PROVE store'[j].rev <= revision'
  BY <1>1, <1>2, <1>3, <1>4
<1> QED BY <1>1, <1>2, <1>4

\* Before the first command nothing was written and nothing shown.
LEMMA RevInvInitially == Init => RevInv
  BY HelmAssumption DEF Init, RevInv, Revisions, Unrendered, ReviewedOrNewer

\* Every step keeps what is rendered at least as new as what was shown.
LEMMA RevInductive == TypeOK /\ RevInv /\ [Next]_vars => RevInv'
<1> SUFFICES ASSUME TypeOK, RevInv, [Next]_vars PROVE RevInv'
  OBVIOUS
<1>w. ASSUME NEW r \in Runs, NEW text \in Texts, Write(Key(r), text)
      PROVE  /\ revision' = revision + 1 /\ store'[Key(r)].rev = revision + 1
             /\ \A j \in Keys : j # Key(r) => store'[j] = store[j]
             /\ \A j \in Keys : store'[j] # Absent => store'[j].rev <= revision'
  <2>1. Key(r) \in Keys /\ Revisions
    BY KeyType DEF RevInv
  <2> QED BY <1>w, <2>1, WriteIsNewest, Zenon
<1> USE DEF RevInv, Revisions, Unrendered, ReviewedOrNewer, Goto, Key
<1>0. /\ revision \in Nat
      /\ pc \in [Runs -> Labels] /\ version \in [Runs -> Versions]
      /\ values \in [Runs -> Stored] /\ reviewed \in [Runs -> Nat]
      /\ \A r \in Runs : Key(r) \in Keys /\ values[r].rev \in Nat
      /\ \A k \in Keys : store[k] # Absent => store[k].rev \in Nat
  BY KeyType DEF TypeOK, Stored
<1>1. ASSUME NEW r \in Runs, Start(r) PROVE RevInv'
  BY <1>0, <1>1 DEF Start, shared
<1>2. ASSUME NEW r \in Runs, LoadValues(r) PROVE RevInv'
  <2>1. CASE store[Key(r)] # Absent
    BY <1>0, <1>2, <2>1 DEF LoadValues, Holds, Reconciled, shared
  <2>2. CASE store[Key(r)] = Absent
    <3>1. Defaults(version[r]).rev = 0
      BY DEF Defaults
    <3> QED BY <1>0, <1>2, <2>2, <3>1 DEF LoadValues, Holds, shared
  <2> QED BY <2>1, <2>2
<1>3. ASSUME NEW r \in Runs, NEW text \in Texts, Write(Key(r), text),
             Holds(r, [text |-> text, rev |-> revision + 1]),
             Reconciled(r), version' = version
      PROVE  RevInv'
  <2>1. /\ values' = [values EXCEPT ![r] = [text |-> text, rev |-> revision + 1]]
        /\ reviewed' = [reviewed EXCEPT ![r] = revision + 1]
    BY <1>3 DEF Holds
  <2> QED BY <1>0, <1>3, <1>w, <2>1 DEF Reconciled
<1>4. ASSUME NEW r \in Runs, CreateValues(r) PROVE RevInv'
  BY <1>3, <1>4, HeldType DEF CreateValues
<1>5. ASSUME NEW r \in Runs, AlreadyExists(r) PROVE RevInv'
  BY <1>0, <1>5 DEF AlreadyExists, shared, local
<1>6. ASSUME NEW r \in Runs, UpdateValues(r) PROVE RevInv'
  BY <1>3, <1>6, HeldType DEF UpdateValues
<1>7. ASSUME NEW r \in Runs, EditSaves(r) PROVE RevInv'
  <2>1. <<"edited", r>> \in Texts
    BY KeyType
  <2>3. /\ pc' = [pc EXCEPT ![r] = "reload"] /\ version' = version /\ values' = values
        /\ reviewed' = [reviewed EXCEPT ![r] = revision + 1]
        /\ Write(Key(r), <<"edited", r>>)
    BY <1>7 DEF EditSaves
  <2>4. /\ revision' = revision + 1 /\ store'[Key(r)].rev = revision + 1
        /\ \A j \in Keys : j # Key(r) => store'[j] = store[j]
        /\ \A j \in Keys : store'[j] # Absent => store'[j].rev <= revision'
    BY <1>w, <2>1, <2>3
  <2>5. Revisions'
    BY <1>0, <2>3, <2>4
  <2>6. ASSUME NEW s \in Runs, pc'[s] = "reload", store'[Key(s)'] # Absent
        PROVE  store'[Key(s)'].rev >= reviewed'[s]
    <3>1. CASE Key(s) = Key(r)
      BY <1>0, <2>3, <2>4, <3>1
    <3>2. CASE Key(s) # Key(r)
      BY <1>0, <2>3, <2>4, <2>6, <3>2
    <3> QED BY <3>1, <3>2
  <2>7. ReviewedOrNewer' /\ \A s \in Runs : pc'[s] = "edit" => values'[s].rev >= reviewed'[s]
    BY <1>0, <2>3
  <2> QED BY <2>5, <2>6, <2>7
<1>8. ASSUME NEW r \in Runs, EditLeaves(r) PROVE RevInv'
  BY <1>0, <1>8 DEF EditLeaves, shared
<1>9. ASSUME NEW r \in Runs, Reload(r) PROVE RevInv'
  BY <1>0, <1>9 DEF Reload, shared
<1>10. ASSUME NEW r \in Runs, Render(r) PROVE RevInv'
  BY <1>0, <1>10 DEF Render, shared, local
<1>11. ASSUME NEW r \in Runs, Apply(r) PROVE RevInv'
  BY <1>0, <1>11 DEF Apply, local
<1>12. ASSUME NEW r \in Runs, Fail(r) PROVE RevInv'
  BY <1>0, <1>12 DEF Fail, shared, local
<1>13. CASE Release
  BY <1>13 DEF Release, local
<1>14. ASSUME NEW k \in Keys, AdminDeletes(k) PROVE RevInv'
  <2>1. \A j \in Keys : store'[j] # Absent => store'[j] = store[j] /\ store[j] # Absent
    BY <1>14 DEF AdminDeletes, TypeOK
  <2> QED BY <1>0, <1>14, <2>1 DEF AdminDeletes, local
<1>15. CASE UNCHANGED vars
  BY <1>15 DEF vars, shared, local
<1> HIDE DEF RevInv
<1> QED
  BY <1>1, <1>2, <1>4, <1>5, <1>6, <1>7, <1>8, <1>9, <1>10, <1>11, <1>12, <1>13,
     <1>14, <1>15 DEF Next, Step

(***************************************************************************)
(* installHelm renders values no older than the ones its user was shown or *)
(* saved, whatever other runs and the administrator do to the ConfigMap    *)
(* between the editor and the reload.                                      *)
(***************************************************************************)
THEOREM RendersWhatWasReviewed == Spec => []ReviewedOrNewer
<1>1. RevInv => ReviewedOrNewer
  BY DEF RevInv
<1> QED BY <1>1, RevInvInitially, TypeCorrect, RevInductive, PTL DEF Spec

-----------------------------------------------------------------------------
\* A race is never forgotten.
LEMMA RacedStays == raced /\ [Next]_vars => raced'
<1> SUFFICES ASSUME raced, [Next]_vars PROVE raced'
  OBVIOUS
<1>1. ASSUME NEW r \in Runs, Step(r) PROVE raced'
  BY <1>1 DEF Step, Start, LoadValues, CreateValues, AlreadyExists, UpdateValues,
     EditSaves, EditLeaves, Reload, Render, Apply, Fail, ghost
<1> QED BY <1>1 DEF Next, Release, AdminDeletes, vars, ghost

\* Only AlreadyExists leads to the Update, and it is the race.
LEMMA UpdatesInductive == TypeOK /\ OnlyRacesUpdate /\ [Next]_vars => OnlyRacesUpdate'
<1> SUFFICES ASSUME TypeOK, OnlyRacesUpdate, [Next]_vars, NEW s \in Runs, pc'[s] = "update"
             PROVE  raced'
  BY DEF OnlyRacesUpdate
<1>1. CASE pc[s] = "update"
  BY <1>1, RacedStays DEF OnlyRacesUpdate
<1>2. CASE pc[s] # "update"
  <2>1. ASSUME NEW r \in Runs, Step(r) PROVE AlreadyExists(r)
    BY <1>2, <2>1 DEF Step, Start, LoadValues, CreateValues, UpdateValues,
       EditSaves, EditLeaves, Reload, Render, Apply, Fail, Goto, Reconciled, TypeOK
  <2>2. PICK r \in Runs : Step(r)
    BY <1>2 DEF Next, Release, AdminDeletes, vars
  <2> QED BY <2>1, <2>2 DEF AlreadyExists
<1> QED BY <1>1, <1>2

(***************************************************************************)
(* Until two first installs have raced, a ConfigMap with an edit is only   *)
(* written by another edit: a Create needs its name to be free.            *)
(***************************************************************************)
LEMMA StoredInductive == TypeOK /\ StoredInv /\ [Next]_vars => StoredInv'
<1> SUFFICES ASSUME TypeOK, StoredInv, [Next]_vars, ~raced' PROVE EditsStored'
  BY UpdatesInductive DEF StoredInv
<1>0. EditsStored /\ ~raced
  BY RacedStays DEF StoredInv
<1> USE DEF EditsStored
<1>a. ASSUME NEW r \in Runs PROVE Key(r) \in Keys
  BY KeyType
<1>1. ASSUME NEW r \in Runs, CreateValues(r) PROVE EditsStored'
  BY <1>0, <1>1, <1>a DEF CreateValues, Write, ghost, TypeOK
<1>2. ASSUME NEW r \in Runs PROVE ~AlreadyExists(r) /\ ~UpdateValues(r)
  BY <1>0, <1>2 DEF AlreadyExists, UpdateValues, StoredInv, OnlyRacesUpdate
<1>3. ASSUME NEW r \in Runs, EditSaves(r) PROVE EditsStored'
  <2>1. PICK new \in Stored : new.text = <<"edited", r>> /\ store' = [store EXCEPT ![Key(r)] = new]
    <3> DEFINE entry == [text |-> <<"edited", r>>, rev |-> revision + 1]
    <3>1. store' = [store EXCEPT ![Key(r)] = entry]
      BY <1>3 DEF EditSaves, Write
    <3>2. entry \in Stored /\ entry.text = <<"edited", r>>
      BY KeyType DEF Stored, TypeOK
    <3> HIDE DEF entry
    <3> QED BY <3>1, <3>2
  <2>2. new.text[1] = "edited" /\ new # Absent
    BY <2>1, AbsentAssumption
  <2>3. edited' = edited \cup {Key(r)}
    BY <1>3 DEF EditSaves
  <2> QED BY <1>0, <1>a, <2>1, <2>2, <2>3 DEF TypeOK
<1>4. ASSUME NEW r \in Runs,
             \/ Start(r) \/ LoadValues(r) \/ EditLeaves(r) \/ Reload(r)
             \/ Render(r) \/ Apply(r) \/ Fail(r)
      PROVE  EditsStored'
  <2>1. store' = store /\ edited' = edited
    BY <1>4 DEF Start, LoadValues, EditLeaves, Reload, Render, Apply, Fail, shared, ghost
  <2> QED BY <1>0, <2>1
<1>5. CASE Release
  BY <1>0, <1>5 DEF Release, ghost
<1>6. ASSUME NEW k \in Keys, AdminDeletes(k) PROVE EditsStored'
  BY <1>0, <1>6 DEF AdminDeletes, TypeOK
<1>7. CASE UNCHANGED vars
  BY <1>0, <1>7 DEF vars, shared, ghost
<1> HIDE DEF EditsStored
<1> QED
  BY <1>1, <1>2, <1>3, <1>4, <1>5, <1>6, <1>7 DEF Next, Step

(***************************************************************************)
(* When the chart's URL names no version every run has the same ConfigMap, *)
(* so one that starts when it holds an edit loads, and renders, an edit.   *)
(***************************************************************************)
LEMMA ReuseInductive ==
  ASSUME VersionInKey = FALSE
  PROVE  TypeOK /\ StoredInv /\ ReuseInv /\ [Next]_vars => ReuseInv'
<1> SUFFICES ASSUME TypeOK, StoredInv, ReuseInv, [Next]_vars, ~raced' PROVE Reuses'
  BY DEF ReuseInv
<1>0. EditsStored /\ Reuses /\ ~raced
  BY RacedStays DEF StoredInv, ReuseInv
<1>a. ASSUME NEW r \in Runs PROVE Key(r) = 0
  BY DEF Key, ValuesName
<1>b. /\ pc \in [Runs -> Labels] /\ values \in [Runs -> Stored]
      /\ mustReuse \subseteq Runs /\ 0 \in Keys
  BY HelmAssumption DEF TypeOK, Keys
<1>c. mustReuse # {} => store[0] # Absent /\ store[0].text[1] = "edited"
  BY <1>0 DEF EditsStored, Reuses
<1> USE DEF Reuses, Goto
<1>1. ASSUME NEW r \in Runs, Start(r) PROVE Reuses'
  BY <1>0, <1>b, <1>1 DEF Start
<1>2. ASSUME NEW r \in Runs, LoadValues(r) PROVE Reuses'
  BY <1>0, <1>a, <1>b, <1>c, <1>2 DEF LoadValues, Holds, Reconciled, ghost
<1>3. ASSUME NEW r \in Runs, CreateValues(r) PROVE Reuses'
  BY <1>0, <1>b, <1>3 DEF CreateValues, Holds, Reconciled, ghost
<1>4. ASSUME NEW r \in Runs PROVE ~AlreadyExists(r) /\ ~UpdateValues(r)
  BY <1>0, <1>4 DEF AlreadyExists, UpdateValues, StoredInv, OnlyRacesUpdate
<1>5. ASSUME NEW r \in Runs, EditSaves(r) PROVE Reuses'
  BY <1>0, <1>a, <1>b, <1>5 DEF EditSaves
<1>6. ASSUME NEW r \in Runs, EditLeaves(r) PROVE Reuses'
  BY <1>0, <1>b, <1>6 DEF EditLeaves, ghost
<1>7. ASSUME NEW r \in Runs, Reload(r) PROVE Reuses'
  BY <1>0, <1>a, <1>b, <1>c, <1>7 DEF Reload, ghost
<1>8. ASSUME NEW r \in Runs, Render(r) PROVE Reuses'
  BY <1>0, <1>b, <1>8 DEF Render, local, ghost
<1>9. ASSUME NEW r \in Runs, Apply(r) PROVE Reuses'
  BY <1>0, <1>b, <1>9 DEF Apply, local
<1>10. ASSUME NEW r \in Runs, Fail(r) PROVE Reuses'
  BY <1>0, <1>b, <1>10 DEF Fail, local, ghost
<1>11. CASE Release
  BY <1>0, <1>11 DEF Release, local, ghost
<1>12. ASSUME NEW k \in Keys, AdminDeletes(k) PROVE Reuses'
  BY <1>0, <1>12 DEF AdminDeletes
<1>13. CASE UNCHANGED vars
  BY <1>0, <1>13 DEF vars, local, ghost
<1> HIDE DEF Reuses
<1> QED
  BY <1>1, <1>2, <1>3, <1>4, <1>5, <1>6, <1>7, <1>8, <1>9, <1>10, <1>11, <1>12,
     <1>13 DEF Next, Step

(***************************************************************************)
(* For any chart, also one whose URL names its version: short of a race of *)
(* two first installs, no step puts saved values back to defaults.         *)
(***************************************************************************)
THEOREM SavedEditsStay == Spec => [](raced \/ EditsStored)
<1>1. Init => StoredInv
  BY DEF Init, StoredInv, OnlyRacesUpdate, EditsStored
<1>2. StoredInv => raced \/ EditsStored
  BY DEF StoredInv
<1> QED BY <1>1, <1>2, StoredInductive, TypeCorrect, PTL DEF Spec

(***************************************************************************)
(* "edited values persist across version bumps" (add.go:662), for a chart  *)
(* whose URL does not name its version and short of that race: an install  *)
(* that starts when there are edited values renders edited values.         *)
(***************************************************************************)
THEOREM EditsPersist ==
  ASSUME VersionInKey = FALSE
  PROVE  Spec => []EditsKept
<1>1. Init => StoredInv /\ ReuseInv
  BY DEF Init, StoredInv, OnlyRacesUpdate, EditsStored, ReuseInv, Reuses
<1>2. StoredInv /\ ReuseInv => EditsKept
  BY DEF StoredInv, ReuseInv, EditsStored, Reuses, EditsKept
<1>3. TypeOK /\ StoredInv /\ ReuseInv /\ [Next]_vars => ReuseInv'
  BY ReuseInductive
<1> QED BY <1>1, <1>2, <1>3, StoredInductive, TypeCorrect, PTL DEF Spec
=============================================================================
