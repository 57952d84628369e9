----------------------- MODULE TunnelDeploymentProofs -----------------------
(***************************************************************************)
(* Safety of TunnelDeployment for any commands, arguments, alphabet and    *)
(* length of names, and any number of pods.                                *)
(***************************************************************************)
EXTENDS TunnelDeployment, SequenceTheorems, WellFoundedInduction, TLAPS

(* Names.                                                                  *)

\* Min and Max of the community modules, on positions in a sequence.
LEMMA Extremes ==
  ASSUME NEW n \in Nat, NEW S, S \subseteq 1..n, S # {}
  PROVE  /\ Min(S) \in S /\ \A y \in S : Min(S) <= y
         /\ Max(S) \in S /\ \A y \in S : Max(S) >= y
<1>0. ASSUME NEW T, T \subseteq Nat, T # {} PROVE \E x \in T : \A y \in T : x <= y
  <2>1. \E x \in T : \A y \in T : ~(<<y, x>> \in OpToRel(<, Nat))
    BY <1>0, NatLessThanWellFounded, WFMin
  <2>2. PICK x \in T : \A y \in T : ~(<<y, x>> \in OpToRel(<, Nat))
    BY <2>1
  <2>3. ASSUME NEW y \in T PROVE x <= y
    <3>1. x \in Nat /\ y \in Nat
      BY <1>0
    <3>2. ~(y < x)
      BY <2>2, <3>1 DEF OpToRel
    <3> QED BY <3>1, <3>2
  <2> QED BY <2>3
<1>1. \E x \in S : \A y \in S : x <= y
  <2>1. S \subseteq Nat
    OBVIOUS
  <2> QED BY <1>0, <2>1
<1>2. \E x \in S : \A y \in S : x >= y
  <2> DEFINE T == {n - x : x \in S}
  <2>1. T \subseteq Nat /\ T # {}
    <3>1. \A x \in S : n - x \in Nat
      OBVIOUS
    <3> QED BY <3>1
  <2>2. PICK z \in T : \A y \in T : z <= y
    BY <1>0, <2>1
  <2>3. PICK x \in S : z = n - x
    OBVIOUS
  <2>4. ASSUME NEW y \in S PROVE x >= y
    <3>1. n - x <= n - y
      BY <2>2, <2>3
    <3>2. x \in 1..n /\ y \in 1..n
      OBVIOUS
    <3> QED BY <3>1, <3>2
  <2> QED BY <2>4
<1> QED BY <1>1, <1>2 DEF Min, Max

\* A sequence of mapped characters that neither begins nor ends with a hyphen.
Alphabet == {Mapped[c] : c \in DOMAIN Mapped}
Trimmed(s) == s = <<>> \/ (s[1] # Hyphen /\ s[Len(s)] # Hyphen)

\* TrimHyphens only takes characters off, and leaves none of the hyphens at the ends.
LEMMA TrimProperties ==
  ASSUME NEW s \in Seq(Alphabet)
  PROVE  /\ TrimHyphens(s) \in Seq(Alphabet)
         /\ Len(TrimHyphens(s)) <= Len(s)
         /\ Trimmed(TrimHyphens(s))
<1> DEFINE solid == {i \in DOMAIN s : s[i] # Hyphen}
<1>1. CASE solid = {}
  <2>1. TrimHyphens(s) = <<>>
    BY <1>1 DEF TrimHyphens
  <2>2. <<>> \in Seq(Alphabet) /\ Len(<<>>) = 0 /\ Len(s) \in Nat
    OBVIOUS
  <2> QED BY <2>1, <2>2 DEF Trimmed
<1>2. CASE solid # {}
  <2>1. DOMAIN s = 1..Len(s) /\ Len(s) \in Nat
    OBVIOUS
  <2>2. PICK a, b : a = Min(solid) /\ b = Max(solid)
    OBVIOUS
  <2>3. a \in solid /\ b \in solid /\ a <= b
    <3>1. solid \subseteq 1..Len(s)
      BY <2>1
    <3> HIDE DEF solid
    <3> QED BY <1>2, <2>1, <2>2, <3>1, Extremes
  <2>4. a \in 1..Len(s) /\ b \in 1..Len(s) /\ s[a] # Hyphen /\ s[b] # Hyphen
    BY <2>1, <2>3
  <2>5. TrimHyphens(s) = SubSeq(s, a, b)
    BY <1>2, <2>2 DEF TrimHyphens
  <2>6. /\ SubSeq(s, a, b) \in Seq(Alphabet)
        /\ Len(SubSeq(s, a, b)) = b - a + 1
        /\ \A i \in 1..(b - a + 1) : SubSeq(s, a, b)[i] = s[a + i - 1]
    BY <2>1, <2>3, <2>4, SubSeqProperties
  <2>7. SubSeq(s, a, b)[1] = s[a] /\ SubSeq(s, a, b)[b - a + 1] = s[b]
    <3>1. 1 \in 1..(b - a + 1) /\ b - a + 1 \in 1..(b - a + 1)
      BY <2>1, <2>3, <2>4
    <3>2. a + 1 - 1 = a /\ a + (b - a + 1) - 1 = b
      BY <2>1, <2>4
    <3> QED BY <2>6, <3>1, <3>2
  <2>8. b - a + 1 <= Len(s)
    BY <2>1, <2>3, <2>4
  <2> QED BY <2>4, <2>5, <2>6, <2>7, <2>8 DEF Trimmed
<1> QED BY <1>1, <1>2

(***************************************************************************)
(* slug: whatever a Service is called, the name of its Deployment is one   *)
(* that Kubernetes takes.  The cut to Limit characters can end in a hyphen *)
(* or leave nothing, and is followed by another trim and by a default.     *)
(***************************************************************************)
LEMMA SlugIsValid ==
  ASSUME NEW a, a.name \in Seq(DOMAIN Mapped)
  PROVE  ValidName(Slug(a))
<1>0. Limit \in Nat \ {0}
  BY DeploymentAssumption
<1>1. PICK s : s = TrimHyphens([i \in DOMAIN a.name |-> Mapped[a.name[i]]])
  OBVIOUS
<1>2. s \in Seq(Alphabet) /\ Trimmed(s)
  <2>1. [i \in DOMAIN a.name |-> Mapped[a.name[i]]] \in Seq(Alphabet)
    <3>1. DOMAIN a.name = 1..Len(a.name) /\ Len(a.name) \in Nat
      OBVIOUS
    <3>2. \A i \in 1..Len(a.name) : Mapped[a.name[i]] \in Alphabet
      BY DEF Alphabet
    <3> QED BY <3>1, <3>2
  <2> QED BY <1>1, <2>1, TrimProperties
<1>3. PICK cut : cut = IF Len(s) > Limit THEN TrimHyphens(SubSeq(s, 1, Limit)) ELSE s
  OBVIOUS
<1>4. cut \in Seq(Alphabet) /\ Trimmed(cut) /\ Len(cut) <= Limit
  <2>1. CASE Len(s) > Limit
    <3>1. SubSeq(s, 1, Limit) \in Seq(Alphabet) /\ Len(SubSeq(s, 1, Limit)) = Limit
      BY <1>0, <1>2, <2>1, SubSeqProperties
    <3>2. cut = TrimHyphens(SubSeq(s, 1, Limit))
      BY <1>3, <2>1
    <3> QED BY <3>1, <3>2, TrimProperties
  <2>2. CASE ~(Len(s) > Limit)
    BY <1>0, <1>2, <1>3, <2>2
  <2> QED BY <2>1, <2>2
<1>5. ASSUME cut # <<>> PROVE ValidName(cut)
  <2>1. Len(cut) \in 1..Limit /\ DOMAIN cut = 1..Len(cut)
    BY <1>0, <1>4, <1>5
  <2>2. \A k \in DOMAIN cut : cut[k] \in Alphabet
    BY <1>4, <2>1
  <2> QED BY <1>4, <1>5, <2>1, <2>2 DEF ValidName, Trimmed, Alphabet
<1>6. Slug(a) = IF ~IsService(a) THEN ApiServerSlug ELSE IF cut = <<>> THEN ServiceSlug ELSE cut
  BY <1>1, <1>3 DEF Slug
<1> QED BY <1>5, <1>6, SlugAssumption

-----------------------------------------------------------------------------
(* Types.                                                                  *)

\* The commands' arguments are targets, whose slugs and origins are known.
LEMMA ArgTypes ==
  /\ \A f \in Asked : f \in [Commands -> Args]
  /\ \A a \in Args : /\ a.name \in Seq(DOMAIN Mapped) /\ a.port \in Nat
                      /\ Slug(a) \in Slugs /\ Origin(a) \in Origins
<1>1. ASSUME NEW f \in Asked PROVE f \in [Commands -> Args]
  <2>1. f \in [Commands -> [name : Seq(DOMAIN Mapped), colon : BOOLEAN, port : Nat]]
    BY DeploymentAssumption DEF Commands
  <2>2. \A c \in Commands : f[c] \in Args
    BY DEF Args
  <2> QED BY <2>1, <2>2
<1>2. ASSUME NEW a \in Args PROVE a \in [name : Seq(DOMAIN Mapped), colon : BOOLEAN, port : Nat]
  BY DeploymentAssumption DEF Commands, Args
<1>3. \A a \in Args : Slug(a) \in Slugs /\ Origin(a) \in Origins
  BY DEF Slugs, Origins
<1> QED BY <1>1, <1>2, <1>3

\* What an install writes.
LEMMA WriteType ==
  ASSUME TypeOK, NEW i \in Installs, WriteDeployment(i)
  PROVE  /\ writes' \in Nat
         /\ Slug(arg[i]) \in Slugs
         /\ \E new \in Deployment : /\ new.origin = Origin(arg[i])
                                   /\ dep' = [dep EXCEPT ![Slug(arg[i])] = new]
<1>1. arg[i] \in Args
  BY DEF TypeOK, Commands
<1> DEFINE new == [origin |-> Origin(arg[i]), rv |-> writes + 1]
<1>2. new \in Deployment /\ new.origin = Origin(arg[i])
  BY <1>1, ArgTypes DEF TypeOK, Deployment
<1>3. dep' = [dep EXCEPT ![Slug(arg[i])] = new] /\ writes' \in Nat
  BY DEF WriteDeployment, TypeOK
<1> HIDE DEF new
<1> QED BY <1>1, <1>2, <1>3, ArgTypes

\* The pods of a Deployment are pods.
LEMMA NewPodType ==
  ASSUME NEW s \in Slugs, dep[s] \in Deployment, NEW printed \in BOOLEAN,
         NEW phase \in {"Pending", "Running", "Failed", "Gone"}
  PROVE  /\ NewPod(s, phase, printed) \in Pod
         /\ NewPod(s, phase, printed).label = s
         /\ NewPod(s, phase, printed).origin = dep[s].origin
<1>1. dep[s].origin \in Origins
  BY DEF Deployment
<1>2. NewPod(s, phase, printed) \in Pod
  BY <1>1 DEF NewPod, Pod
<1> QED BY <1>2 DEF NewPod

\* A pod has one label and one origin for life.
LEMMA ClusterStep ==
  ASSUME TypeOK, NEW p \in PodIds, Cluster(p)
  PROVE  \/ \E s \in Slugs : PodCreated(p, s)
         \/ /\ UNCHANGED <<dep, writes, pc, local>>
            /\ pods[p] # None
            /\ \E new \in Pod : /\ new.label = pods[p].label /\ new.origin = pods[p].origin
                               /\ pods' = [pods EXCEPT ![p] = new]
<1> SUFFICES ASSUME PodRuns(p) \/ PodPrints(p) \/ PodFails(p) \/ PodRemoved(p)
             PROVE  /\ UNCHANGED <<dep, writes, pc, local>>
                    /\ pods[p] # None
                    /\ \E new \in Pod : /\ new.label = pods[p].label /\ new.origin = pods[p].origin
                                       /\ pods' = [pods EXCEPT ![p] = new]
  BY DEF Cluster
<1>1. UNCHANGED <<dep, writes, pc, local>> /\ pods[p] # None
  BY DEF PodRuns, PodPrints, PodFails, PodRemoved, Listed
<1>2. pods[p] \in Pod
  BY <1>1 DEF TypeOK
<1>3. ASSUME NEW ph \in {"Pending", "Running", "Failed", "Gone"},
             pods' = [pods EXCEPT ![p].phase = ph]
      PROVE  \E new \in Pod : /\ new.label = pods[p].label /\ new.origin = pods[p].origin
                             /\ pods' = [pods EXCEPT ![p] = new]
  <2> DEFINE new == [pods[p] EXCEPT !.phase = ph]
  <2>1. new \in Pod /\ new.label = pods[p].label /\ new.origin = pods[p].origin
    BY <1>2 DEF Pod
  <2>2. pods' = [pods EXCEPT ![p] = new]
    BY <1>3
  <2> HIDE DEF new
  <2> QED BY <2>1, <2>2
<1>4. ASSUME pods' = [pods EXCEPT ![p].printed = TRUE]
      PROVE  \E new \in Pod : /\ new.label = pods[p].label /\ new.origin = pods[p].origin
                             /\ pods' = [pods EXCEPT ![p] = new]
  <2> DEFINE new == [pods[p] EXCEPT !.printed = TRUE]
  <2>1. new \in Pod /\ new.label = pods[p].label /\ new.origin = pods[p].origin
    BY <1>2 DEF Pod
  <2>2. pods' = [pods EXCEPT ![p] = new]
    BY <1>4
  <2> HIDE DEF new
  <2> QED BY <2>1, <2>2
<1> QED BY <1>1, <1>3, <1>4 DEF PodRuns, PodPrints, PodFails, PodRemoved

\* Every step keeps the types.
LEMMA TypeInductive == TypeOK /\ [Next]_vars => TypeOK'
<1> SUFFICES ASSUME TypeOK, [Next]_vars PROVE TypeOK'
  OBVIOUS
<1> USE DEF Goto, local, Commands
<1>0. \A label \in Labels, c \in Commands : [pc EXCEPT ![c] = label] \in [Commands -> Labels]
  BY DEF TypeOK
<1>1. ASSUME NEW i \in Installs, Create(i) \/ Update(i) PROVE TypeOK'
  <2>1. UNCHANGED <<pods, arg, seen, pod>> /\ pc' = [pc EXCEPT ![i] = "poll"]
    BY <1>1 DEF Create, Update
  <2>2. WriteDeployment(i)
    BY <1>1 DEF Create, Update
  <2>3. dep' \in [Slugs -> Deployment \cup {None}] /\ writes' \in Nat
    BY <2>2, WriteType DEF TypeOK
  <2> QED BY <1>0, <2>1, <2>3 DEF TypeOK, Labels
<1>2. ASSUME NEW i \in Installs, Get(i) PROVE TypeOK'
  <2>1. dep[Slug(arg[i])] \in Deployment \cup {None}
    BY ArgTypes DEF TypeOK
  <2> QED BY <1>0, <1>2, <2>1 DEF Get, Ours, TypeOK, Labels
<1>3. ASSUME NEW i \in Installs, NEW p \in PodIds, PollRunning(i, p) PROVE TypeOK'
  BY <1>0, <1>3 DEF PollRunning, TypeOK, Labels
<1>4. ASSUME NEW c \in Commands, NEW label \in Labels, Goto(c, label),
             UNCHANGED <<dep, writes, pods, local>>
      PROVE  TypeOK'
  BY <1>0, <1>4 DEF TypeOK
<1>5. ASSUME NEW i \in Installs, Install(i) \/ StreamBreaks(i) PROVE TypeOK'
  BY <1>1, <1>2, <1>3, <1>4, <1>5 DEF Install, AlreadyExists, ApplyFails, PollFailed,
     PollEnds, StreamFinds, StreamEnds, StreamBreaks, Labels
<1>6. ASSUME NEW c \in Removes, Delete(c) PROVE TypeOK'
  <2>1. Slug(arg[c]) \in Slugs
    BY ArgTypes DEF TypeOK
  <2> QED BY <1>0, <1>6, <2>1 DEF Delete, TypeOK, Labels
<1>7. ASSUME NEW c \in Removes, DeleteFails(c) PROVE TypeOK'
  BY <1>4, <1>7 DEF DeleteFails, Labels
<1>8. ASSUME NEW p \in PodIds, Cluster(p) PROVE TypeOK'
  <2>1. ASSUME NEW s \in Slugs, PodCreated(p, s) PROVE TypeOK'
    <3>1. NewPod(s, "Pending", FALSE) \in Pod
      BY <2>1, NewPodType DEF PodCreated, TypeOK
    <3> QED BY <2>1, <3>1 DEF PodCreated, TypeOK
  <2> QED BY <1>8, <2>1, ClusterStep DEF TypeOK
<1>9. CASE UNCHANGED vars
  BY <1>9 DEF vars, TypeOK
<1> QED BY <1>5, <1>6, <1>7, <1>8, <1>9 DEF Next, Remove

\* Before the first command: one earlier tunnel or none.
LEMMA TypeInitially == Init => TypeOK
<1> SUFFICES ASSUME Init PROVE TypeOK
  OBVIOUS
<1>1. PICK a \in Prior \cup {None} :
        /\ dep = [s \in Slugs |-> IF a # None /\ s = Slug(a)
                                  THEN [origin |-> Origin(a), rv |-> 1] ELSE None]
        /\ pods = [p \in PodIds |-> IF a # None /\ p = 1
                                    THEN NewPod(Slug(a), "Running", TRUE) ELSE None]
  BY DEF Init
<1>2. a # None => Slug(a) \in Slugs /\ Origin(a) \in Origins
  BY ArgTypes DEF Args
<1>3. a # None => [origin |-> Origin(a), rv |-> 1] \in Deployment
  BY <1>2 DEF Deployment
<1>4. dep \in [Slugs -> Deployment \cup {None}]
  BY <1>1, <1>3
<1>5. a # None => NewPod(Slug(a), "Running", TRUE) \in Pod
  <2> SUFFICES ASSUME a # None PROVE NewPod(Slug(a), "Running", TRUE) \in Pod
    OBVIOUS
  <2>1. dep[Slug(a)] \in Deployment
    BY <1>1, <1>2, <1>3
  <2> QED BY <1>2, <2>1, NewPodType
<1>6. pods \in [PodIds -> Pod \cup {None}]
  BY <1>1, <1>5
<1>7. arg \in [Commands -> Args]
  BY ArgTypes DEF Init
<1> QED BY <1>4, <1>6, <1>7 DEF Init, TypeOK, Labels

\* Type correctness of the Deployments, the pods and the commands.
THEOREM TypeCorrect == Spec => []TypeOK
  BY TypeInitially, TypeInductive, PTL DEF Spec

(***************************************************************************)
(* No Deployment is ever written under a name that Kubernetes would not    *)
(* take, for every argument of every command.                              *)
(***************************************************************************)
THEOREM InstallsValidNames == Spec => []NamesValid
<1>1. TypeOK => NamesValid
  <2> SUFFICES ASSUME TypeOK, NEW s \in Slugs PROVE ValidName(s)
    BY DEF TypeOK, NamesValid
  <2>1. PICK a \in Args : s = Slug(a)
    BY DEF Slugs
  <2> QED BY <2>1, ArgTypes, SlugIsValid
<1> QED BY <1>1, TypeCorrect, PTL

-----------------------------------------------------------------------------
(* Installs that race.                                                     *)

\* An install only updates what it has read, and reads once.
ReadsOnce ==
  \A i \in Installs : /\ pc[i] \in {"start", "get"} => seen[i] = None
                      /\ pc[i] = "update" => seen[i] # None

\* Somebody has read what install i wrote, or removed it.
Superseded(i) ==
  \/ \E j \in Installs : seen[j] # None /\ seen[j].origin = Origin(arg[i])
  \/ \E c \in Removes : pc[c] = "done" /\ Slug(arg[c]) = Slug(arg[i])

(***************************************************************************)
(* What an install wrote is there, also when it is Superseded but not yet  *)
(* replaced.  NoLostInstall alone says nothing of a Deployment that is     *)
(* gone, which a third command may create again.                           *)
(***************************************************************************)
InPlace ==
  \A i \in Installs :
    Written(i) => (Ours(i) # None /\ Ours(i).origin = Origin(arg[i])) \/ Superseded(i)

RaceInv == ReadsOnce /\ InPlace

\* A read is never undone, and neither is a removal.
LEMMA StaysSuperseded ==
  ASSUME TypeOK, ReadsOnce, [Next]_vars, NEW i \in Installs, Superseded(i)
  PROVE  Superseded(i)'
<1>1. arg' = arg
  BY DEF Next, Install, Remove, Cluster, Create, AlreadyExists, Get, Update, ApplyFails,
     PollRunning, PollFailed, PollEnds, StreamFinds, StreamEnds, StreamBreaks, Delete,
     DeleteFails, PodCreated, PodRuns, PodPrints, PodFails, PodRemoved, local, vars
<1>2. ASSUME NEW j \in Installs, seen[j] # None PROVE seen'[j] = seen[j]
  <2>1. ASSUME NEW k \in Installs, Get(k) PROVE seen'[j] = seen[j]
    BY <1>2, <2>1 DEF Get, ReadsOnce, TypeOK
  <2> QED
    BY <2>1 DEF Next, Install, Remove, Cluster, Create, AlreadyExists, Update, ApplyFails,
       PollRunning, PollFailed, PollEnds, StreamFinds, StreamEnds, StreamBreaks, Delete,
       DeleteFails, PodCreated, PodRuns, PodPrints, PodFails, PodRemoved, local, vars
<1>3. ASSUME NEW c \in Removes, pc[c] = "done" PROVE pc'[c] = "done"
  <2>0. c \in Commands /\ c \notin Installs /\ pc \in [Commands -> Labels]
    BY DeploymentAssumption DEF TypeOK, Commands
  <2>1. ASSUME NEW k \in Installs, Install(k) \/ StreamBreaks(k) PROVE pc'[c] = "done"
    BY <1>3, <2>0, <2>1 DEF Install, Create, AlreadyExists, Get, Update, ApplyFails,
       PollRunning, PollFailed, PollEnds, StreamFinds, StreamEnds, StreamBreaks, Goto
  <2>2. ASSUME NEW k \in Removes, Remove(k) PROVE pc'[c] = "done"
    BY <1>3, <2>0, <2>2 DEF Remove, Delete, DeleteFails, Goto
  <2>3. ASSUME NEW p \in PodIds, Cluster(p) PROVE pc'[c] = "done"
    BY <1>3, <2>3 DEF Cluster, PodCreated, PodRuns, PodPrints, PodFails, PodRemoved
  <2> QED BY <1>3, <2>1, <2>2, <2>3 DEF Next, vars
<1> QED BY <1>1, <1>2, <1>3 DEF Superseded

\* No command writes over what another wrote unless it has read that.
LEMMA RaceInductive == TypeOK /\ RaceInv /\ [Next]_vars => RaceInv'
<1> SUFFICES ASSUME TypeOK, RaceInv, [Next]_vars PROVE RaceInv'
  OBVIOUS
<1>0. /\ ReadsOnce /\ InPlace
      /\ pc \in [Commands -> Labels] /\ seen \in [Installs -> Deployment \cup {None}]
      /\ dep \in [Slugs -> Deployment \cup {None}] /\ Installs \subseteq Commands
      /\ \A c \in Commands : arg[c] \in Args /\ Slug(arg[c]) \in Slugs
  BY ArgTypes DEF RaceInv, TypeOK, Commands
<1>s. ASSUME NEW k \in Installs, Superseded(k) PROVE Superseded(k)'
  BY <1>0, <1>s, StaysSuperseded
<1>1. ASSUME NEW i \in Installs, Create(i) \/ Update(i) PROVE RaceInv'
  <2>1. /\ arg' = arg /\ seen' = seen /\ pc' = [pc EXCEPT ![i] = "poll"]
        /\ WriteDeployment(i)
    BY <1>1 DEF Create, Update, Goto, local
  <2>2. PICK new \in Deployment : /\ new.origin = Origin(arg[i])
                                 /\ dep' = [dep EXCEPT ![Slug(arg[i])] = new]
    BY <2>1, WriteType
  <2>3. new # None
    BY NoneAssumption
  <2>4. ReadsOnce'
    BY <1>0, <2>1 DEF ReadsOnce
  <2>5. ASSUME NEW k \in Installs, Written(k)'
        PROVE  (Ours(k)' # None /\ Ours(k)'.origin = Origin(arg[k])') \/ Superseded(k)'
    <3>1. CASE k = i
      BY <1>0, <2>1, <2>2, <2>3, <3>1 DEF Ours
    <3>2. CASE k # i /\ Slug(arg[k]) # Slug(arg[i])
      <4>1. Written(k) /\ Ours(k)' = Ours(k)
        BY <1>0, <2>1, <2>2, <2>5, <3>2 DEF Written, Ours
      <4> QED BY <1>0, <1>s, <2>1, <4>1 DEF InPlace
    <3>3. CASE k # i /\ Slug(arg[k]) = Slug(arg[i])
      <4>1. Written(k)
        BY <1>0, <2>1, <2>5, <3>3 DEF Written
      <4>2. Superseded(k)
        <5>1. ASSUME Ours(k) # None, Ours(k).origin = Origin(arg[k]) PROVE Superseded(k)
          <6>1. Update(i)
            BY <1>1, <3>3, <5>1 DEF Create, Ours
          <6>2. seen[i] = Ours(k)
            BY <3>3, <6>1 DEF Update, Ours
          <6> QED BY <5>1, <6>2 DEF Superseded
        <5> QED BY <1>0, <4>1, <5>1 DEF InPlace
      <4> QED BY <1>s, <4>2
    <3> QED BY <3>1, <3>2, <3>3
  <2> QED BY <2>4, <2>5 DEF RaceInv, InPlace
<1>2. ASSUME NEW i \in Installs, Get(i) PROVE RaceInv'
  <2>1. ReadsOnce'
    BY <1>0, <1>2 DEF Get, Goto, ReadsOnce
  <2>2. \A k \in Installs : (Written(k)' => Written(k)) /\ Ours(k)' = Ours(k) /\ arg' = arg
    BY <1>0, <1>2 DEF Get, Goto, Written, Ours
  <2> QED BY <1>0, <1>s, <2>1, <2>2 DEF RaceInv, InPlace
<1>3. ASSUME UNCHANGED <<dep, arg, seen>>,
             \A k \in Installs :
               /\ Written(k)' => Written(k)
               /\ pc'[k] \in {"start", "get"} => pc[k] \in {"start", "get"}
               /\ pc'[k] = "update" => pc[k] = "update"
      PROVE  RaceInv'
  <2>1. ReadsOnce'
    BY <1>0, <1>3 DEF ReadsOnce
  <2>2. \A k \in Installs : Ours(k)' = Ours(k)
    BY <1>3 DEF Ours
  <2> QED BY <1>0, <1>s, <1>3, <2>1, <2>2 DEF RaceInv, InPlace
<1>4. ASSUME NEW i \in Installs, Install(i) \/ StreamBreaks(i) PROVE RaceInv'
  <2>1. ASSUME NEW p \in PodIds, PollRunning(i, p) \/ PollFailed(i, p) PROVE RaceInv'
    BY <1>0, <1>3, <2>1 DEF PollRunning, PollFailed, Goto, local, Written
  <2>2. CASE AlreadyExists(i) \/ ApplyFails(i) \/ PollEnds(i)
    BY <1>0, <1>3, <2>2 DEF AlreadyExists, ApplyFails, PollEnds, Goto, local, Written
  <2>3. CASE StreamFinds(i) \/ StreamEnds(i) \/ StreamBreaks(i)
    BY <1>0, <1>3, <2>3 DEF StreamFinds, StreamEnds, StreamBreaks, Goto, local, Written
  <2> QED BY <1>1, <1>2, <1>4, <2>1, <2>2, <2>3 DEF Install
<1>5. ASSUME NEW c \in Removes, Delete(c) PROVE RaceInv'
  <2>1. /\ arg' = arg /\ seen' = seen /\ pc' = [pc EXCEPT ![c] = "done"]
        /\ dep' = [dep EXCEPT ![Slug(arg[c])] = None]
        /\ c \in Commands /\ c \notin Installs
    BY <1>5, DeploymentAssumption DEF Delete, Goto, local, Commands
  <2>2. ReadsOnce'
    BY <1>0, <2>1 DEF ReadsOnce
  <2>3. ASSUME NEW k \in Installs, Written(k)'
        PROVE  (Ours(k)' # None /\ Ours(k)'.origin = Origin(arg[k])') \/ Superseded(k)'
    <3>1. CASE Slug(arg[k]) = Slug(arg[c])
      BY <1>0, <2>1, <3>1 DEF Superseded
    <3>2. CASE Slug(arg[k]) # Slug(arg[c])
      <4>1. Written(k) /\ Ours(k)' = Ours(k)
        BY <1>0, <2>1, <2>3, <3>2 DEF Written, Ours
      <4> QED BY <1>0, <1>s, <2>1, <4>1 DEF InPlace
    <3> QED BY <3>1, <3>2
  <2> QED BY <2>2, <2>3 DEF RaceInv, InPlace
<1>6. ASSUME NEW c \in Removes, DeleteFails(c) PROVE RaceInv'
  <2>1. c \notin Installs
    BY DeploymentAssumption
  <2> QED BY <1>0, <1>3, <1>6, <2>1 DEF DeleteFails, Goto, local, Written
<1>7. ASSUME NEW p \in PodIds, Cluster(p) PROVE RaceInv'
  <2>1. UNCHANGED <<dep, pc, local>>
    BY <1>7 DEF Cluster, PodCreated, PodRuns, PodPrints, PodFails, PodRemoved
  <2> QED BY <1>3, <2>1 DEF local, Written
<1>8. CASE UNCHANGED vars
  BY <1>3, <1>8 DEF vars, local, Written
<1> QED BY <1>4, <1>5, <1>6, <1>7, <1>8 DEF Next, Remove

(***************************************************************************)
(* apply: what an install wrote is only replaced by a command that has     *)
(* read it, or after a removal, for any number of commands that race.      *)
(***************************************************************************)
THEOREM LosesNoInstall == Spec => []NoLostInstall
<1>1. Init => RaceInv
  BY DEF Init, RaceInv, ReadsOnce, InPlace, Written, Commands
<1>2. RaceInv => NoLostInstall
  BY DEF RaceInv, InPlace, Superseded, NoLostInstall
<1> QED BY <1>1, <1>2, RaceInductive, TypeCorrect, PTL DEF Spec

-----------------------------------------------------------------------------
(* Whose Deployments and pods they are.                                    *)

\* A target and the origin it stands for have the same slug.
LEMMA SlugOfOrigin ==
  ASSUME NEW a \in Args
  PROVE  Slug(Origin(a)) = Slug(a)
<1>1. CASE IsService(a)
  BY <1>1 DEF Origin
<1>2. CASE ~IsService(a)
  <2>1. ~IsService(ApiServerOrigin)
    BY DeploymentAssumption DEF IsService, ApiServerOrigin
  <2> QED BY <1>2, <2>1 DEF Origin, Slug
<1> QED BY <1>1, <1>2

\* Targets of one name that slug does not tell apart are of one kind.
LEMMA SameOrigin ==
  ASSUME NEW a \in Args, NEW b \in Args, a.name = b.name, Slug(a) = Slug(b)
  PROVE  Origin(a).name = Origin(b).name
<1>1. ASSUME NEW x \in Args, NEW y \in Args, x.name = y.name, Slug(x) = Slug(y), IsService(x)
      PROVE  IsService(y)
  <2> SUFFICES ASSUME ~IsService(y) PROVE FALSE
    OBVIOUS
  <2>1. y.name \in ApiServerNames /\ Slug(y) = ApiServerSlug
    BY DEF IsService, Slug
  <2>2. PICK z : z = [name |-> x.name, colon |-> TRUE, port |-> 1]
    OBVIOUS
  <2>3. z.name = x.name /\ IsService(z)
    BY <2>2 DEF IsService
  <2>4. Slug(z) = Slug(x)
    BY <1>1, <2>3 DEF Slug
  <2> QED BY <1>1, <2>1, <2>2, <2>4, SlugAssumption
<1>2. IsService(a) <=> IsService(b)
  BY <1>1
<1> QED BY <1>2 DEF Origin

\* A Deployment's origin is that of a target with its slug ...
DeploymentsOf ==
  \A s \in Slugs : dep[s] # None => \E a \in Args : s = Slug(a) /\ dep[s].origin = Origin(a)

\* ... a pod's too ...
PodsOf ==
  \A p \in PodIds : pods[p] # None =>
    \E a \in Args : pods[p].label = Slug(a) /\ pods[p].origin = Origin(a)

\* ... and an install reads the log of a pod with the label of its target.
ReadsFrom ==
  \A i \in Installs : pc[i] \in {"stream", "done"} =>
    /\ pod[i] \in PodIds
    /\ pods[pod[i]] # None /\ pods[pod[i]].label = Slug(arg[i])

TargetInv == DeploymentsOf /\ PodsOf /\ ReadsFrom

\* Deployments are only written for the target whose slug names them.
LEMMA DeploymentsInductive == TypeOK /\ DeploymentsOf /\ [Next]_vars => DeploymentsOf'
<1> SUFFICES ASSUME TypeOK, DeploymentsOf, [Next]_vars PROVE DeploymentsOf'
  OBVIOUS
<1>0. dep \in [Slugs -> Deployment \cup {None}] /\ \A c \in Commands : arg[c] \in Args
  BY DEF TypeOK
<1>1. ASSUME NEW i \in Installs, WriteDeployment(i) PROVE DeploymentsOf'
  <2>1. PICK new \in Deployment : /\ new.origin = Origin(arg[i])
                                 /\ dep' = [dep EXCEPT ![Slug(arg[i])] = new]
    BY <1>1, WriteType
  <2>2. arg[i] \in Args
    BY <1>0 DEF Commands
  <2> QED BY <1>0, <2>1, <2>2 DEF DeploymentsOf
<1>2. ASSUME NEW c \in Removes, Delete(c) PROVE DeploymentsOf'
  BY <1>0, <1>2 DEF Delete, DeploymentsOf
<1>3. CASE dep' = dep
  BY <1>3 DEF DeploymentsOf
<1> QED
  BY <1>1, <1>2, <1>3 DEF Next, Install, Remove, Cluster, Create, AlreadyExists, Get,
     Update, ApplyFails, PollRunning, PollFailed, PollEnds, StreamFinds, StreamEnds,
     StreamBreaks, DeleteFails, PodCreated, PodRuns, PodPrints, PodFails, PodRemoved, vars

\* Pods keep the label and origin the Deployment had when they were created.
LEMMA TargetInductive == TypeOK /\ TargetInv /\ [Next]_vars => TargetInv'
<1> SUFFICES ASSUME TypeOK, TargetInv, [Next]_vars PROVE PodsOf' /\ ReadsFrom'
  BY DeploymentsInductive DEF TargetInv
<1>0. /\ DeploymentsOf /\ PodsOf /\ ReadsFrom
      /\ pods \in [PodIds -> Pod \cup {None}] /\ pc \in [Commands -> Labels]
      /\ pod \in [Installs -> PodIds \cup {0}] /\ Installs \subseteq Commands
      /\ dep \in [Slugs -> Deployment \cup {None}]
  BY DEF TargetInv, TypeOK, Commands
<1>1. ASSUME NEW p \in PodIds, NEW new \in Pod, pods' = [pods EXCEPT ![p] = new],
             UNCHANGED <<pc, local>>,
             \E a \in Args : new.label = Slug(a) /\ new.origin = Origin(a),
             pods[p] # None => new.label = pods[p].label
      PROVE  PodsOf' /\ ReadsFrom'
  <2>1. new # None
    BY NoneAssumption
  <2>2. PodsOf'
    BY <1>0, <1>1 DEF PodsOf
  <2>3. ReadsFrom'
    BY <1>0, <1>1, <2>1 DEF ReadsFrom, local
  <2> QED BY <2>2, <2>3
<1>2. ASSUME NEW p \in PodIds, Cluster(p) PROVE PodsOf' /\ ReadsFrom'
  <2>1. ASSUME NEW s \in Slugs, PodCreated(p, s) PROVE PodsOf' /\ ReadsFrom'
    <3>1. PICK new \in Pod : /\ pods' = [pods EXCEPT ![p] = new]
                            /\ new.label = s /\ new.origin = dep[s].origin
      BY <1>0, <2>1, NewPodType DEF PodCreated
    <3>2. PICK a \in Args : s = Slug(a) /\ dep[s].origin = Origin(a)
      BY <1>0, <2>1 DEF PodCreated, DeploymentsOf
    <3>3. pods[p] = None /\ UNCHANGED <<pc, local>>
      BY <2>1 DEF PodCreated
    <3> QED BY <1>1, <3>1, <3>2, <3>3
  <2>2. ASSUME NEW new \in Pod, pods[p] # None, pods' = [pods EXCEPT ![p] = new],
               new.label = pods[p].label, new.origin = pods[p].origin,
               UNCHANGED <<pc, local>>
        PROVE  PodsOf' /\ ReadsFrom'
    BY <1>0, <1>1, <2>2 DEF PodsOf
  <2> QED BY <1>2, <2>1, <2>2, ClusterStep
<1>3. ASSUME UNCHANGED <<pods, arg, pod>>,
             \A k \in Installs : pc'[k] \in {"stream", "done"} => pc[k] \in {"stream", "done"}
      PROVE  PodsOf' /\ ReadsFrom'
  BY <1>0, <1>3 DEF PodsOf, ReadsFrom
<1>4. ASSUME NEW i \in Installs, NEW p \in PodIds, PollRunning(i, p)
      PROVE  PodsOf' /\ ReadsFrom'
  BY <1>0, <1>4 DEF PollRunning, ListedFor, Listed, Goto, PodsOf, ReadsFrom
<1>5. ASSUME NEW i \in Installs, Install(i) \/ StreamBreaks(i) PROVE PodsOf' /\ ReadsFrom'
  <2>1. ASSUME NEW p \in PodIds, PollFailed(i, p) PROVE PodsOf' /\ ReadsFrom'
    BY <1>0, <1>3, <2>1 DEF PollFailed, Goto, local
  <2>2. CASE Create(i) \/ AlreadyExists(i) \/ Get(i) \/ Update(i) \/ ApplyFails(i)
    BY <1>0, <1>3, <2>2 DEF Create, AlreadyExists, Get, Update, ApplyFails, Goto, local
  <2>3. CASE PollEnds(i) \/ StreamFinds(i) \/ StreamEnds(i) \/ StreamBreaks(i)
    BY <1>0, <1>3, <2>3 DEF PollEnds, StreamFinds, StreamEnds, StreamBreaks, Goto, local
  <2> QED BY <1>4, <1>5, <2>1, <2>2, <2>3 DEF Install
<1>6. ASSUME NEW c \in Removes, Remove(c) PROVE PodsOf' /\ ReadsFrom'
  <2>1. c \notin Installs
    BY DeploymentAssumption
  <2> QED BY <1>0, <1>3, <1>6, <2>1 DEF Remove, Delete, DeleteFails, Goto, local
<1>7. CASE UNCHANGED vars
  BY <1>3, <1>7 DEF vars, local
<1> QED BY <1>2, <1>5, <1>6, <1>7 DEF Next

\* Before the first command: the earlier tunnel's Deployment and pod are its own.
LEMMA TargetInitially == Init => TargetInv
<1> SUFFICES ASSUME Init PROVE TargetInv
  OBVIOUS
<1>1. PICK a \in Prior \cup {None} :
        /\ dep = [s \in Slugs |-> IF a # None /\ s = Slug(a)
                                  THEN [origin |-> Origin(a), rv |-> 1] ELSE None]
        /\ pods = [p \in PodIds |-> IF a # None /\ p = 1
                                    THEN NewPod(Slug(a), "Running", TRUE) ELSE None]
  BY DEF Init
<1>2. a # None => a \in Args /\ Slug(a) \in Slugs
  BY ArgTypes DEF Args
<1>3. DeploymentsOf
  BY <1>1, <1>2 DEF DeploymentsOf
<1>4. PodsOf
  <2> SUFFICES ASSUME NEW p \in PodIds, pods[p] # None
               PROVE  \E b \in Args : pods[p].label = Slug(b) /\ pods[p].origin = Origin(b)
    BY DEF PodsOf
  <2>1. a # None /\ pods[p] = NewPod(Slug(a), "Running", TRUE)
    BY <1>1
  <2>2. dep[Slug(a)].origin = Origin(a)
    BY <1>1, <1>2, <2>1
  <2>3. pods[p].label = Slug(a) /\ pods[p].origin = Origin(a)
    BY <2>1, <2>2 DEF NewPod
  <2> QED BY <1>2, <2>1, <2>3
<1>5. ReadsFrom
  BY DEF Init, ReadsFrom, Commands
<1> QED BY <1>3, <1>4, <1>5 DEF TargetInv

(***************************************************************************)
(* The URL waitForPublicURL reports is of a pod for the install's target,  *)
(* when slug tells that from every other target in use: Deployments and    *)
(* pods come and go meanwhile, but a label stands for one target.          *)
(***************************************************************************)
THEOREM ReportsItsTarget == Spec => []ReportsOwnTarget
<1>1. TypeOK /\ TargetInv => ReportsOwnTarget
  <2> SUFFICES ASSUME TypeOK, TargetInv, NEW i \in Installs, pc[i] = "done", Distinct(arg[i])
               PROVE  pods[pod[i]].origin.name = Origin(arg[i]).name
    BY DEF ReportsOwnTarget
  <2>1. /\ pod[i] \in PodIds /\ pods[pod[i]] # None
        /\ pods[pod[i]].label = Slug(arg[i])
    BY DEF TargetInv, ReadsFrom
  <2>2. PICK a \in Args : pods[pod[i]].label = Slug(a) /\ pods[pod[i]].origin = Origin(a)
    BY <2>1 DEF TargetInv, PodsOf
  <2>3. arg[i] \in Args
    BY DEF TypeOK, Commands
  <2>4. arg[i].name = a.name
    BY <2>1, <2>2 DEF Distinct, Apart
  <2> QED BY <2>1, <2>2, <2>3, <2>4, SameOrigin
<1> QED BY <1>1, TargetInitially, TargetInductive, TypeCorrect, PTL DEF Spec

\* A step that takes a Deployment away is the removal of its target.
OwnRemoval ==
  \A s \in Slugs : dep[s] # None /\ dep'[s] = None =>
    \E c \in Removes :
      /\ pc[c] # pc'[c]
      /\ \/ dep[s].origin.name = Origin(arg[c]).name
         \/ ~Apart(dep[s].origin, Origin(arg[c]))

(***************************************************************************)
(* Install and remove agree on names: a Deployment only goes when its own  *)
(* target is removed, or one that slug does not tell from it.              *)
(***************************************************************************)
THEOREM RemovesOnlyOwn == Spec => OnlyOwnRemoved
<1>1. TypeOK /\ TargetInv /\ [Next]_vars => [OwnRemoval]_vars
  <2> SUFFICES ASSUME TypeOK, TargetInv, [Next]_vars, NEW s \in Slugs, dep[s] # None,
                      dep'[s] = None
               PROVE  \E c \in Removes :
                        /\ pc[c] # pc'[c]
                        /\ \/ dep[s].origin.name = Origin(arg[c]).name
                           \/ ~Apart(dep[s].origin, Origin(arg[c]))
    BY DEF OwnRemoval
  <2>0. dep \in [Slugs -> Deployment \cup {None}] /\ pc \in [Commands -> Labels]
    BY DEF TypeOK
  <2>1. ASSUME NEW i \in Installs, WriteDeployment(i) PROVE FALSE
    <3>1. PICK new \in Deployment : dep' = [dep EXCEPT ![Slug(arg[i])] = new]
      BY <2>1, WriteType
    <3> QED BY <2>0, <3>1, NoneAssumption
  <2>2. PICK c \in Removes : Delete(c)
    BY <2>1 DEF Next, Install, Remove, Cluster, Create, AlreadyExists, Get, Update,
       ApplyFails, PollRunning, PollFailed, PollEnds, StreamFinds, StreamEnds,
       StreamBreaks, DeleteFails, PodCreated, PodRuns, PodPrints, PodFails, PodRemoved, vars
  <2>3. c \in Commands /\ arg[c] \in Args
    BY DEF TypeOK, Commands
  <2>4. pc[c] # pc'[c]
    BY <2>0, <2>2, <2>3 DEF Delete, Goto
  <2>5. s = Slug(arg[c])
    BY <2>0, <2>2 DEF Delete
  <2>6. PICK a \in Args : s = Slug(a) /\ dep[s].origin = Origin(a)
    BY DEF TargetInv, DeploymentsOf
  <2>7. Slug(Origin(a)) = Slug(Origin(arg[c]))
    BY <2>3, <2>5, <2>6, SlugOfOrigin
  <2> QED BY <2>4, <2>6, <2>7 DEF Apart
<1> QED BY <1>1, TargetInitially, TargetInductive, TypeCorrect, PTL
        DEF Spec, OnlyOwnRemoved, OwnRemoval
=============================================================================
