---------------------------- MODULE AddRunProofs ----------------------------
(***************************************************************************)
(* For every set of names, entries and listings, every resource, and a     *)
(* site that changes at any time: what Materialize returns can be built,   *)
(* kubectl add walks as Materialize does, and a URL with a ref in it leads *)
(* to what its host shows there.                                           *)
(***************************************************************************)
EXTENDS AddRun, SequenceTheorems, FiniteSetTheorems, WellFoundedInduction, TLAPS

(***************************************************************************)
(* An open call points at a member of the archive.                         *)
(***************************************************************************)
StackPoints ==
  \A f \in DOMAIN stack : stack[f].item \in DOMAIN archive

(***************************************************************************)
(* Every relative entry of every member has been served, unless an open    *)
(* call has still to come to it.                                           *)
(***************************************************************************)
Pending(i, j) ==
  \E f \in DOMAIN stack : stack[f].item = i /\ stack[f].next <= j

Done(i, j) ==
  LET e == archive[i].list[j] IN
    e.abs \/ Present(Resolved(archive[i].name, e))

AllServed ==
  \A i \in DOMAIN archive : \A j \in DOMAIN archive[i].list :
    Done(i, j) \/ Pending(i, j)

(***************************************************************************)
(* seen holds exactly the kustomizations of the archive, and each is there *)
(* once.                                                                   *)
(***************************************************************************)
SeenWritten ==
  /\ \A n \in seen : \E i \in DOMAIN archive : archive[i].name = n
  /\ \A i \in DOMAIN archive :
       /\ IsKustomization(archive[i].name) => archive[i].name \in seen
       /\ Len(archive[i].list) > 0 => Len(archive[i].name) > 0
  /\ WalkedOnce

WalkInv ==
  /\ MaterializeTypeOK
  /\ walk = "idle" => stack = <<>> /\ archive = <<>> /\ seen = {}
  /\ walk = "ok" => stack = <<>>
  /\ walk = "failed" => stack = <<>> /\ archive = <<>>
  /\ walk # "failed" => StackPoints /\ AllServed /\ SeenWritten

\* A relative entry of a kustomization, resolved against it, is a path, and the
\* nested kustomization it may stand for is one that is named as such.
LEMMA ResolvedType ==
  ASSUME NEW base \in Path, Len(base) > 0, NEW e \in Entries
  PROVE  /\ Resolved(base, e) \in Path
         /\ Nested(base, e) \in Path
         /\ IsKustomization(Nested(base, e))
<1> DEFINE kept == IF e.up > Depth(base) THEN 0 ELSE Depth(base) - e.up
           r == SubSeq(base, 1, kept) \o e.down
<1>1. Depth(base) = Len(base) - 1 /\ Depth(base) \in Nat
  BY DEF Path, Depth
<1>2. e.up \in Nat /\ e.down \in Seq(Names)
  BY EntriesAssumption
<1>3. kept \in 0 .. Len(base)
  BY <1>1, <1>2 DEF Path
<1>4. SubSeq(base, 1, kept) \in Seq(Names)
  BY <1>3 DEF Path
<1>5. r \in Seq(Names)
  BY <1>2, <1>4
<1>6. Resolved(base, e) = r
  BY DEF Resolved
<1> HIDE DEF r
<1>7. r \o <<KFile>> \in Seq(Names) /\ Len(r \o <<KFile>>) = Len(r) + 1
      /\ (r \o <<KFile>>)[Len(r) + 1] = KFile /\ Len(r) \in Nat
  BY <1>5, NamesAssumption
<1> QED BY <1>5, <1>6, <1>7, NamesAssumption DEF Nested, IsKustomization, Path

\* A plain file is never a kustomization.
LEMMA FileIsNoKustomization ==
  ASSUME NEW base \in Path, Len(base) > 0, NEW e \in Entries, ~IsDirectory(e)
  PROVE  ~IsKustomization(Resolved(base, e))
<1> DEFINE kept == IF e.up > Depth(base) THEN 0 ELSE Depth(base) - e.up
           p == SubSeq(base, 1, kept)
<1>1. e.up \in Nat /\ e.down \in Seq(Names) /\ Len(e.down) > 0
      /\ e.down[Len(e.down)] \notin KFiles
  BY EntriesAssumption DEF IsDirectory
<1>2. kept \in 0 .. Len(base) /\ p \in Seq(Names)
  BY <1>1 DEF Path, Depth
<1> HIDE DEF p
<1>3. Len(p \o e.down) = Len(p) + Len(e.down)
      /\ (p \o e.down)[Len(p) + Len(e.down)] = e.down[Len(e.down)]
  BY <1>1, <1>2
<1> QED BY <1>1, <1>3 DEF p, Resolved, IsKustomization

\* Below the host root the builder and the URL agree on where an entry leads.
LEMMA BuilderPathResolves ==
  ASSUME NEW base \in Path, Len(base) > 0, NEW e \in Entries,
         StaysInside(base, e)
  PROVE  BuilderPath(base, e) = Resolved(base, e)
<1>1. ~(e.up > Depth(base))
  BY EntriesAssumption DEF Path, StaysInside, Depth
<1> QED BY <1>1 DEF Resolved, BuilderPath

(***************************************************************************)
(* What one step appends to the archive leaves the rest of it in place.    *)
(***************************************************************************)
LEMMA AppendKeeps ==
  ASSUME NEW S, NEW s \in Seq(S), NEW x \in S
  PROVE  /\ Append(s, x) \in Seq(S)
         /\ DOMAIN Append(s, x) = DOMAIN s \cup {Len(s) + 1}
         /\ Len(s) + 1 \notin DOMAIN s
         /\ \A i \in DOMAIN s : Append(s, x)[i] = s[i]
         /\ Append(s, x)[Len(s) + 1] = x
  OBVIOUS

\* An open call of materialize has its kustomization and its place in the list.
LEMMA FrameType ==
  ASSUME MaterializeTypeOK, NEW f \in DOMAIN stack
  PROVE  stack[f].item \in Nat \ {0} /\ stack[f].next \in Nat \ {0}
<1> DEFINE F == [item : Nat \ {0}, next : Nat \ {0}]
<1>1. stack \in Seq(F)
  BY DEF MaterializeTypeOK
<1> HIDE DEF F
<1>2. stack[f] \in F
  BY <1>1
<1> QED BY <1>2 DEF F

\* A member of the tar has a name and the entries that were fetched with it.
LEMMA MemberType ==
  ASSUME MaterializeTypeOK, NEW i \in DOMAIN archive
  PROVE  /\ archive[i].name \in Path
         /\ archive[i].list \in Listing
         /\ DOMAIN archive[i].list = 1 .. Len(archive[i].list)
         /\ Len(archive[i].list) \in Nat
         /\ \A j \in DOMAIN archive[i].list : archive[i].list[j] \in Entries
<1> DEFINE M == [name : Path, list : Listing]
<1>1. archive \in Seq(M)
  BY DEF MaterializeTypeOK
<1> HIDE DEF M
<1>2. archive[i] \in M
  BY <1>1
<1>3. archive[i].name \in Path /\ archive[i].list \in Listing
  BY <1>2 DEF M
<1> QED BY <1>3 DEF Listing

\* The frame on top moves on by one entry, the others stay.
LEMMA AdvancedIs ==
  ASSUME MaterializeTypeOK, Len(stack) > 0
  PROVE  /\ Advanced \in Seq([item : Nat \ {0}, next : Nat \ {0}])
         /\ DOMAIN Advanced = DOMAIN stack
         /\ Len(stack) \in DOMAIN stack
         /\ Advanced[Len(stack)] = [item |-> Top.item, next |-> Top.next + 1]
         /\ \A f \in DOMAIN stack : f # Len(stack) => Advanced[f] = stack[f]
<1> DEFINE F == [item : Nat \ {0}, next : Nat \ {0}]
<1>1. stack \in Seq(F) /\ Len(stack) \in DOMAIN stack
      /\ DOMAIN stack = 1 .. Len(stack) /\ Len(stack) \in Nat
  BY DEF MaterializeTypeOK
<1> HIDE DEF F
<1>2. Top \in F /\ \A f \in DOMAIN stack : stack[f] \in F
  BY <1>1 DEF Top
<1>3. [item |-> Top.item, next |-> Top.next + 1] \in F
  <2>1. Top.item \in Nat \ {0} /\ Top.next \in Nat \ {0}
    BY <1>2 DEF F
  <2>2. Top.next + 1 \in Nat \ {0}
    BY <2>1
  <2> QED BY <2>1, <2>2 DEF F
<1>4. Advanced = [f \in 1 .. Len(stack) |->
                    IF f = Len(stack)
                      THEN [item |-> Top.item, next |-> Top.next + 1]
                      ELSE stack[f]]
  BY <1>1 DEF Advanced, Top
<1>5. Advanced \in [1 .. Len(stack) -> F]
  BY <1>1, <1>2, <1>3, <1>4
<1>6. Advanced \in Seq(F)
  BY <1>1, <1>5
<1> QED BY <1>1, <1>4, <1>6 DEF F

\* Before Materialize is called the invariant holds: nothing is open or written.
THEOREM WalkInvInitially == MaterializeInit => WalkInv
  BY DEF MaterializeInit, WalkInv, MaterializeTypeOK, StackPoints, AllServed,
         SeenWritten, WalkedOnce

(***************************************************************************)
(* The argument the three steps of the loop share: the archive may grow,   *)
(* the frame on top moves past its entry once that entry is served, and    *)
(* every new member has an open call of its own.                           *)
(***************************************************************************)
LEMMA AdvanceKeepsServed ==
  ASSUME MaterializeTypeOK, AllServed, StackPoints, Walking, Left,
         DOMAIN archive \subseteq DOMAIN archive',
         \A i \in DOMAIN archive : archive'[i] = archive[i],
         DOMAIN stack \subseteq DOMAIN stack',
         \A f \in DOMAIN stack : stack'[f] = Advanced[f],
         \A i \in DOMAIN archive' \ DOMAIN archive :
           \A j \in DOMAIN archive'[i].list : Pending(i, j)',
         At.abs \/ \E i \in DOMAIN archive' :
                     archive'[i].name \in
                       {Resolved(Here.name, At)} \cup
                       {Resolved(Here.name, At) \o <<k>> : k \in KFiles}
  PROVE  AllServed'
<1>1. SUFFICES ASSUME NEW i \in DOMAIN archive',
                      NEW j \in DOMAIN archive'[i].list
               PROVE  (Done(i, j) \/ Pending(i, j))'
  BY DEF AllServed
<1>0. CASE i \notin DOMAIN archive
  BY <1>0
<1> SUFFICES ASSUME i \in DOMAIN archive
             PROVE  (Done(i, j) \/ Pending(i, j))'
  BY <1>0
<1>2. archive'[i] = archive[i] /\ j \in DOMAIN archive[i].list /\ j \in Nat
  BY MemberType
<1>a. PICK e : e = archive[i].list[j]
  OBVIOUS
<1>b. PICK p : p = Resolved(archive[i].name, e)
  OBVIOUS
<1>c. SUFFICES e.abs \/ Present(p)' \/ Pending(i, j)'
  BY <1>2, <1>a, <1>b DEF Done, Present
<1>3. CASE e.abs
  BY <1>3
<1>4. CASE Present(p)
  BY <1>4 DEF Present
<1>5. CASE Pending(i, j)
  <2>1. PICK f \in DOMAIN stack : stack[f].item = i /\ stack[f].next <= j
    BY <1>5 DEF Pending
  <2>2. stack[f].next \in Nat
    BY FrameType
  <2>3. CASE f # Len(stack)
    BY <2>1, <2>3, AdvancedIs DEF Pending, Walking
  <2>4. CASE f = Len(stack) /\ stack[f].next < j
    <3>1. stack'[f] = [item |-> Top.item, next |-> Top.next + 1]
      BY <2>4, AdvancedIs DEF Walking
    <3>2. Top.item = i /\ Top.next \in Nat /\ Top.next < j
      BY <2>1, <2>2, <2>4 DEF Top
    <3> QED BY <1>2, <3>1, <3>2 DEF Pending
  <2>5. CASE f = Len(stack) /\ stack[f].next = j
    <3>1. At = e /\ Here.name = archive[i].name
      BY <2>1, <2>5, <1>a DEF At, Here, Top
    <3> QED BY <1>b, <3>1 DEF Present
  <2> QED BY <1>2, <2>1, <2>2, <2>3, <2>4, <2>5
<1>6. e.abs \/ Present(p) \/ Pending(i, j)
  BY <1>2, <1>a, <1>b DEF AllServed, Done
<1> QED BY <1>3, <1>4, <1>5, <1>6

\* A new kustomization, not seen before, keeps seen and the archive in step.
LEMMA EnterKeepsSeen ==
  ASSUME MaterializeTypeOK, SeenWritten,
         NEW name \in Path, IsKustomization(name), name \notin seen,
         NEW list \in Listing,
         seen' = seen \cup {name},
         archive' = Append(archive, [name |-> name, list |-> list])
  PROVE  archive' \in Seq([name : Path, list : Listing]) /\ SeenWritten'
<1> DEFINE x == [name |-> name, list |-> list]
           M == [name : Path, list : Listing]
<1>1. archive \in Seq(M) /\ x \in M
  BY DEF MaterializeTypeOK
<1>2. x.name = name /\ Len(name) > 0
  BY DEF IsKustomization
<1> HIDE DEF M, x
<1>3. /\ archive' \in Seq(M)
      /\ DOMAIN archive' = DOMAIN archive \cup {Len(archive) + 1}
      /\ Len(archive) + 1 \notin DOMAIN archive
      /\ \A i \in DOMAIN archive : archive'[i] = archive[i]
      /\ archive'[Len(archive) + 1] = x
  BY <1>1, AppendKeeps DEF x
<1>4. (\A n \in seen : \E i \in DOMAIN archive : archive[i].name = n)'
  BY <1>2, <1>3 DEF SeenWritten
<1>5. (\A i \in DOMAIN archive :
         /\ IsKustomization(archive[i].name) => archive[i].name \in seen
         /\ Len(archive[i].list) > 0 => Len(archive[i].name) > 0)'
  BY <1>2, <1>3 DEF SeenWritten
<1>6. WalkedOnce'
  BY <1>2, <1>3 DEF SeenWritten, WalkedOnce
<1> QED BY <1>3, <1>4, <1>5, <1>6 DEF SeenWritten, M

\* Writing a plain resource to the tar leaves the tar's type and the agreement of
\* seen with the kustomizations in it as they were.
LEMMA FileKeepsSeen ==
  ASSUME MaterializeTypeOK, SeenWritten,
         NEW name \in Path, ~IsKustomization(name), seen' = seen,
         archive' = Append(archive, [name |-> name, list |-> <<>>])
  PROVE  archive' \in Seq([name : Path, list : Listing]) /\ SeenWritten'
<1> DEFINE x == [name |-> name, list |-> <<>>]
           M == [name : Path, list : Listing]
<1>1. archive \in Seq(M) /\ x \in M
  BY DEF MaterializeTypeOK, Listing
<1>2. x.name = name /\ Len(x.list) = 0
  OBVIOUS
<1> HIDE DEF M, x
<1>3. /\ archive' \in Seq(M)
      /\ DOMAIN archive' = DOMAIN archive \cup {Len(archive) + 1}
      /\ Len(archive) + 1 \notin DOMAIN archive
      /\ \A i \in DOMAIN archive : archive'[i] = archive[i]
      /\ archive'[Len(archive) + 1] = x
  BY <1>1, AppendKeeps DEF x
<1>4. (\A n \in seen : \E i \in DOMAIN archive : archive[i].name = n)'
  BY <1>3 DEF SeenWritten
<1>5. (\A i \in DOMAIN archive :
         /\ IsKustomization(archive[i].name) => archive[i].name \in seen
         /\ Len(archive[i].list) > 0 => Len(archive[i].name) > 0)'
  BY <1>2, <1>3 DEF SeenWritten
<1>6. WalkedOnce'
  BY <1>2, <1>3 DEF SeenWritten, WalkedOnce
<1> QED BY <1>3, <1>4, <1>5, <1>6 DEF SeenWritten, M

\* At an entry, the frame on top points at a kustomization and at an entry of it.
LEMMA AtType ==
  ASSUME WalkInv, Walking, Left
  PROVE  /\ Top.item \in DOMAIN archive
         /\ Here.name \in Path /\ Len(Here.name) > 0
         /\ At \in Entries
<1>1. Len(stack) \in DOMAIN stack /\ Top = stack[Len(stack)]
  BY AdvancedIs DEF WalkInv, Walking, Top
<1>2. Top.item \in DOMAIN archive /\ Top.next \in Nat \ {0}
  BY <1>1, FrameType DEF WalkInv, Walking, StackPoints
<1>3. Here.name \in Path /\ Len(Here.list) \in Nat
      /\ DOMAIN Here.list = 1 .. Len(Here.list)
      /\ \A j \in DOMAIN Here.list : Here.list[j] \in Entries
  BY <1>2, MemberType DEF WalkInv, Here
<1>4. Top.next \in DOMAIN Here.list
  BY <1>2, <1>3 DEF Left
<1>5. Len(Here.list) > 0
  BY <1>2, <1>3, <1>4 DEF Left
<1> QED BY <1>2, <1>3, <1>4, <1>5 DEF At, Here, WalkInv, Walking, SeenWritten

\* Every step of the walk, whatever the site answers, keeps the invariant.
THEOREM WalkInvInductive == WalkInv /\ [MaterializeNext]_mvars => WalkInv'
<1> SUFFICES ASSUME WalkInv, [MaterializeNext]_mvars PROVE WalkInv'
  OBVIOUS
<1> USE DEF WalkInv
<1>1. ASSUME NEW root \in Path, NEW list \in Listing,
             IsKustomization(root), Start(root, list)
      PROVE  WalkInv'
  <2>1. /\ stack = <<>> /\ archive = <<>> /\ seen = {}
        /\ seen' = seen \cup {root}
        /\ archive' = Append(archive, [name |-> root, list |-> list])
        /\ stack' = <<[item |-> 1, next |-> 1]>>
        /\ walk' = "walking"
    BY <1>1 DEF Start, Enter
  <2>a. MaterializeTypeOK /\ SeenWritten /\ root \notin seen
    BY <1>1, <2>1 DEF Start
  <2>2. archive' \in Seq([name : Path, list : Listing]) /\ SeenWritten'
    BY <1>1, <2>1, <2>a, EnterKeepsSeen
  <2>3. DOMAIN stack' = {1} /\ stack'[1] = [item |-> 1, next |-> 1]
        /\ DOMAIN archive' = {1}
    BY <2>1
  <2>4. MaterializeTypeOK'
    BY <2>1, <2>2 DEF MaterializeTypeOK
  <2>5. AllServed'
    <3> SUFFICES ASSUME NEW i \in DOMAIN archive',
                        NEW j \in DOMAIN archive'[i].list
                 PROVE  Pending(i, j)'
      BY DEF AllServed
    <3>1. i = 1 /\ archive'[i].list = list /\ j \in 1 .. Len(list)
      BY <2>1, <2>3 DEF Listing
    <3> QED BY <2>3, <3>1 DEF Pending, Listing
  <2> QED BY <2>1, <2>2, <2>3, <2>4, <2>5 DEF StackPoints
<1>2. CASE SkipAbsolute
  <2>1. Walking /\ Left /\ At.abs /\ stack' = Advanced
        /\ seen' = seen /\ archive' = archive /\ walk' = walk
    BY <1>2 DEF SkipAbsolute
  <2>2. DOMAIN stack' = DOMAIN stack
        /\ \A f \in DOMAIN stack : stack'[f] = Advanced[f]
    BY <2>1, AdvancedIs DEF Walking
  <2>3. AllServed'
    BY <2>1, <2>2, AdvanceKeepsServed DEF Walking
  <2>4. StackPoints'
    BY <2>1, <2>2, AdvancedIs, AtType DEF StackPoints, Walking
  <2>5. MaterializeTypeOK'
    BY <2>1, AdvancedIs DEF MaterializeTypeOK, Walking
  <2>6. SeenWritten'
    BY <2>1 DEF SeenWritten, WalkedOnce, Walking
  <2> QED BY <2>1, <2>3, <2>4, <2>5, <2>6 DEF Walking
<1>3. ASSUME NEW list \in Listing, FetchNested(list)
      PROVE  WalkInv'
  <2> DEFINE name == Nested(Here.name, At)
  <2>1. Walking /\ Left /\ ~At.abs /\ walk' = walk
    BY <1>3 DEF FetchNested
  <2>2. name \in Path /\ IsKustomization(name)
        /\ name = Resolved(Here.name, At) \o <<KFile>>
    BY <2>1, AtType, ResolvedType DEF Nested
  <2>3. CASE name \in seen
    <3>1. stack' = Advanced /\ seen' = seen /\ archive' = archive
      BY <1>3, <2>3 DEF FetchNested
    <3>2. DOMAIN stack' = DOMAIN stack
          /\ \A f \in DOMAIN stack : stack'[f] = Advanced[f]
      BY <2>1, <3>1, AdvancedIs DEF Walking
    <3>3. \E i \in DOMAIN archive : archive[i].name = name
      BY <2>1, <2>3 DEF SeenWritten, Walking
    <3>4. AllServed'
      BY <2>1, <2>2, <3>1, <3>2, <3>3, NamesAssumption, AdvanceKeepsServed
      DEF Walking
    <3>5. StackPoints'
      BY <2>1, <3>1, <3>2, AdvancedIs, AtType DEF StackPoints, Walking
    <3>6. MaterializeTypeOK'
      BY <2>1, <3>1, AdvancedIs DEF MaterializeTypeOK, Walking
    <3>7. SeenWritten'
      BY <2>1, <3>1 DEF SeenWritten, WalkedOnce, Walking
    <3> QED BY <2>1, <3>4, <3>5, <3>6, <3>7 DEF Walking
  <2>4. CASE name \notin seen
    <3> DEFINE x == [name |-> name, list |-> list]
               fr == [item |-> Len(archive) + 1, next |-> 1]
    <3>1. /\ seen' = seen \cup {name}
          /\ archive' = Append(archive, x)
          /\ stack' = Append(Advanced, fr)
      BY <1>3, <2>4 DEF FetchNested, Enter
    <3>2. archive' \in Seq([name : Path, list : Listing]) /\ SeenWritten'
      BY <2>1, <2>2, <2>4, <3>1, EnterKeepsSeen DEF Walking
    <3>3. /\ DOMAIN archive' = DOMAIN archive \cup {Len(archive) + 1}
          /\ \A i \in DOMAIN archive : archive'[i] = archive[i]
          /\ archive'[Len(archive) + 1] = x
      <4>1. x \in [name : Path, list : Listing]
        BY <2>2
      <4> QED BY <3>1, <4>1, AppendKeeps DEF MaterializeTypeOK
    <3>4. fr \in [item : Nat \ {0}, next : Nat \ {0}]
      BY DEF MaterializeTypeOK
    <3>5. /\ stack' \in Seq([item : Nat \ {0}, next : Nat \ {0}])
          /\ DOMAIN stack' = DOMAIN stack \cup {Len(Advanced) + 1}
          /\ \A f \in DOMAIN stack : stack'[f] = Advanced[f]
          /\ stack'[Len(Advanced) + 1] = fr
      BY <2>1, <3>1, <3>4, AdvancedIs, AppendKeeps DEF Walking
    <3>6. AllServed'
      <4>1. ASSUME NEW i \in DOMAIN archive' \ DOMAIN archive,
                   NEW j \in DOMAIN archive'[i].list
            PROVE  Pending(i, j)'
        <5>1. i = Len(archive) + 1 /\ j \in 1 .. Len(list)
          BY <3>3, <4>1 DEF Listing
        <5>2. 1 <= j
          BY <5>1 DEF Listing
        <5> QED BY <3>5, <5>1, <5>2 DEF Pending
      <4>2. archive'[Len(archive) + 1].name = name
        BY <3>3
      <4>3. \E i \in DOMAIN archive' :
              archive'[i].name \in
                {Resolved(Here.name, At)} \cup
                {Resolved(Here.name, At) \o <<k>> : k \in KFiles}
        BY <2>2, <3>3, <4>2, NamesAssumption
      <4>4. MaterializeTypeOK /\ AllServed /\ StackPoints
        BY <2>1 DEF Walking
      <4>5. DOMAIN archive \subseteq DOMAIN archive'
            /\ DOMAIN stack \subseteq DOMAIN stack'
        BY <3>3, <3>5
      <4> HIDE DEF x, fr, name, WalkInv
      <4> QED
        BY <2>1, <3>3, <3>5, <4>1, <4>3, <4>4, <4>5, AdvanceKeepsServed
    <3>7. StackPoints'
      <4>1. fr.item \in DOMAIN archive'
        BY <3>3
      <4>2. ASSUME NEW f \in DOMAIN stack
            PROVE  Advanced[f].item \in DOMAIN archive
        BY <2>1, AdvancedIs, AtType DEF StackPoints, Walking
      <4> HIDE DEF x, fr, name, WalkInv
      <4> QED BY <3>3, <3>5, <4>1, <4>2 DEF StackPoints
    <3>8. MaterializeTypeOK'
      BY <2>1, <2>2, <3>1, <3>2, <3>5 DEF MaterializeTypeOK
    <3> QED BY <2>1, <3>2, <3>6, <3>7, <3>8 DEF Walking
  <2> QED BY <2>3, <2>4
<1>4. CASE FetchFile
  <2> DEFINE name == Resolved(Here.name, At)
             x == [name |-> name, list |-> <<>>]
  <2>1. /\ Walking /\ Left /\ ~At.abs /\ ~IsDirectory(At)
        /\ archive' = Append(archive, x)
        /\ stack' = Advanced /\ seen' = seen /\ walk' = walk
    BY <1>4 DEF FetchFile
  <2>2. name \in Path /\ ~IsKustomization(name)
    BY <2>1, AtType, ResolvedType, FileIsNoKustomization
  <2>3. archive' \in Seq([name : Path, list : Listing]) /\ SeenWritten'
    BY <2>1, <2>2, FileKeepsSeen DEF Walking
  <2>4. /\ DOMAIN archive' = DOMAIN archive \cup {Len(archive) + 1}
        /\ \A i \in DOMAIN archive : archive'[i] = archive[i]
        /\ archive'[Len(archive) + 1] = x
    <3>1. x \in [name : Path, list : Listing]
      BY <2>2 DEF Listing
    <3> QED BY <2>1, <3>1, AppendKeeps DEF MaterializeTypeOK
  <2>5. DOMAIN stack' = DOMAIN stack
        /\ \A f \in DOMAIN stack : stack'[f] = Advanced[f]
    BY <2>1, AdvancedIs DEF Walking
  <2>6. AllServed'
    <3>1. archive'[Len(archive) + 1].name = name
          /\ DOMAIN archive'[Len(archive) + 1].list = {}
      BY <2>4
    <3> HIDE DEF x
    <3> QED BY <2>1, <2>4, <2>5, <3>1, AdvanceKeepsServed DEF Walking
  <2>7. StackPoints'
    BY <2>1, <2>4, <2>5, AdvancedIs, AtType DEF StackPoints, Walking
  <2>8. MaterializeTypeOK'
    BY <2>1, <2>3, AdvancedIs DEF MaterializeTypeOK, Walking
  <2> QED BY <2>1, <2>3, <2>6, <2>7, <2>8 DEF Walking
<1>5. CASE FetchFails
  BY <1>5 DEF FetchFails, MaterializeTypeOK
<1>6. CASE Leave
  <2>1. /\ Walking /\ ~Left
        /\ stack' = SubSeq(stack, 1, Len(stack) - 1)
        /\ walk' = IF Len(stack) = 1 THEN "ok" ELSE walk
        /\ seen' = seen /\ archive' = archive
    BY <1>6 DEF Leave
  <2>2. /\ stack' \in Seq([item : Nat \ {0}, next : Nat \ {0}])
        /\ Len(stack) \in Nat /\ Len(stack') = Len(stack) - 1
        /\ DOMAIN stack = 1 .. Len(stack)
        /\ DOMAIN stack' = 1 .. (Len(stack) - 1)
        /\ \A f \in DOMAIN stack' : stack'[f] = stack[f]
    <3> DEFINE F == [item : Nat \ {0}, next : Nat \ {0}]
    <3>1. stack \in Seq(F) /\ Len(stack) > 0
      BY <2>1 DEF MaterializeTypeOK, Walking
    <3> HIDE DEF F
    <3>2. Len(stack) \in Nat /\ DOMAIN stack = 1 .. Len(stack)
      BY <3>1
    <3>3. stack' = [f \in 1 .. (Len(stack) - 1) |-> stack[f]]
      BY <2>1, <3>1, <3>2
    <3>4. Len(stack) - 1 \in Nat
      BY <3>1, <3>2
    <3>5. stack' \in [1 .. (Len(stack) - 1) -> F]
      BY <3>1, <3>2, <3>3, <3>4
    <3>6. stack' \in Seq(F) /\ Len(stack') = Len(stack) - 1
      BY <3>4, <3>5
    <3> QED BY <3>2, <3>3, <3>6 DEF F
  <2>3. AllServed'
    <3> SUFFICES ASSUME NEW i \in DOMAIN archive,
                        NEW j \in DOMAIN archive[i].list
                 PROVE  (Done(i, j) \/ Pending(i, j))'
      BY <2>1 DEF AllServed
    <3>1. CASE Done(i, j)
      BY <2>1, <3>1 DEF Done, Present
    <3>2. CASE Pending(i, j)
      <4>1. PICK f \in DOMAIN stack : stack[f].item = i /\ stack[f].next <= j
        BY <3>2 DEF Pending
      <4>2. f # Len(stack)
        <5>1. j \in Nat /\ j <= Len(archive[i].list)
              /\ Len(archive[i].list) \in Nat
          BY MemberType
        <5>2. stack[f].next \in Nat
          BY FrameType
        <5>3. SUFFICES ASSUME f = Len(stack) PROVE FALSE
          OBVIOUS
        <5>4. Top = stack[f]
          BY <5>3 DEF Top
        <5>5. Here = archive[i]
          BY <4>1, <5>4 DEF Here
        <5>6. Top.next <= Len(Here.list)
          <6> HIDE DEF WalkInv
          <6>1. stack[f].next <= Len(archive[i].list)
            BY <4>1, <5>1, <5>2
          <6> QED BY <5>4, <5>5, <6>1
        <5> QED BY <2>1, <5>6 DEF Left
      <4>3. f \in DOMAIN stack' /\ stack'[f] = stack[f]
        <5> HIDE DEF WalkInv
        <5>1. f \in 1 .. Len(stack) /\ f # Len(stack) /\ Len(stack) \in Nat
          BY <2>2, <4>2
        <5>2. f \in 1 .. (Len(stack) - 1)
          BY <5>1
        <5> QED BY <2>2, <5>2
      <4>4. Pending(i, j)'
        BY <4>1, <4>3 DEF Pending
      <4> QED BY <4>4
    <3> QED BY <2>1, <3>1, <3>2 DEF AllServed, Walking
  <2>4. StackPoints'
    BY <2>1, <2>2 DEF StackPoints, Walking
  <2>5. SeenWritten'
    BY <2>1 DEF SeenWritten, WalkedOnce, Walking
  <2>6. MaterializeTypeOK'
    BY <2>1, <2>2 DEF MaterializeTypeOK
  <2>7. walk' = "ok" => stack' = <<>>
    BY <2>1, <2>2 DEF Walking
  <2> QED BY <2>1, <2>3, <2>4, <2>5, <2>6, <2>7 DEF Walking
<1>7. CASE UNCHANGED mvars
  <2>1. stack' = stack /\ seen' = seen /\ archive' = archive /\ walk' = walk
    BY <1>7 DEF mvars
  <2>2. MaterializeTypeOK'
    BY <2>1 DEF MaterializeTypeOK
  <2>3. StackPoints' = StackPoints /\ AllServed' = AllServed
    BY <2>1 DEF StackPoints, AllServed, Done, Pending, Present
  <2>4. SeenWritten' = SeenWritten
    BY <2>1 DEF SeenWritten, WalkedOnce
  <2> QED BY <2>1, <2>2, <2>3, <2>4
<1> QED
  BY <1>1, <1>2, <1>3, <1>4, <1>5, <1>6, <1>7 DEF MaterializeNext

(***************************************************************************)
(* Whatever the kustomizations list and however the site changes, a walk   *)
(* that ends without an error leaves an archive in which the builder finds *)
(* every relative reference that stays below the unpacking directory.      *)
(***************************************************************************)
THEOREM ArchiveCanBeBuilt == MaterializeSpec => []BuilderFinds
<1>1. WalkInv => BuilderFinds
  <2> SUFFICES ASSUME WalkInv, walk = "ok",
                      NEW i \in DOMAIN archive,
                      NEW j \in DOMAIN archive[i].list,
                      ~archive[i].list[j].abs,
                      StaysInside(archive[i].name, archive[i].list[j])
               PROVE  Present(BuilderPath(archive[i].name, archive[i].list[j]))
    BY DEF BuilderFinds
  <2>1. ~Pending(i, j)
    BY DEF WalkInv, Pending
  <2>2. Done(i, j)
    BY <2>1 DEF WalkInv, AllServed
  <2>3. archive[i].name \in Path /\ archive[i].list[j] \in Entries
        /\ Len(archive[i].list) > 0
    BY MemberType DEF WalkInv
  <2>4. Len(archive[i].name) > 0
    BY <2>3 DEF WalkInv, SeenWritten
  <2> QED BY <2>2, <2>3, <2>4, BuilderPathResolves DEF Done
<1> QED
  BY <1>1, WalkInvInitially, WalkInvInductive, PTL DEF MaterializeSpec

(***************************************************************************)
(* No kustomization is written or walked twice, in any graph of            *)
(* references.                                                             *)
(***************************************************************************)
THEOREM KustomizationsWalkedOnce == MaterializeSpec => []WalkedOnce
<1>1. WalkInv => WalkedOnce
  BY DEF WalkInv, SeenWritten, WalkedOnce
<1> QED
  BY <1>1, WalkInvInitially, WalkInvInductive, PTL DEF MaterializeSpec

-----------------------------------------------------------------------------
(* What the resolvers settle on.                                           *)

\* Min of the community modules, on positions in a sequence.
LEMMA Least ==
  ASSUME NEW S, S \subseteq Nat, S # {}
  PROVE  Min(S) \in S /\ \A y \in S : Min(S) <= y
<1>1. \E x \in S : \A y \in S : ~(<<y, x>> \in OpToRel(<, Nat))
  BY NatLessThanWellFounded, WFMin
<1>2. PICK x \in S : \A y \in S : ~(<<y, x>> \in OpToRel(<, Nat))
  BY <1>1
<1>3. ASSUME NEW y \in S PROVE x <= y
  <2>1. x \in Nat /\ y \in Nat
    OBVIOUS
  <2>2. ~(y < x)
    BY <1>2, <2>1 DEF OpToRel
  <2> QED BY <2>1, <2>2
<1> QED BY <1>3 DEF Min

\* A resolution to a kustomization addresses one.
Proper(r) == r.format = "kustomize" => r.url \in Path /\ IsKustomization(r.url)

LEMMA RawURLKeeps ==
  ASSUME NEW p \in Path
  PROVE  /\ RawURL(p) \in Path
         /\ IsKustomization(p) => IsKustomization(RawURL(p))
<1>1. RawURL(p) \in Path
  BY AddRunAssumption DEF RawURL, Path
<1>2. Len(RawURL(p)) = 1 + Len(p) /\ Len(p) \in Nat
  BY DEF RawURL, RawRoot, Path
<1>3. Len(p) > 0 => RawURL(p)[Len(RawURL(p))] = p[Len(p)]
  BY <1>2 DEF RawURL, RawRoot, Path
<1> QED BY <1>1, <1>2, <1>3 DEF IsKustomization

\* The names that are looked for are those a kustomization may have.
LEMMA KustomizationNamed ==
  /\ \A n : Contains(KustomizationNames, n) <=> n \in KFiles
  /\ \A i \in DOMAIN KustomizationNames : KustomizationNames[i] \in KFiles
  /\ KFiles \subseteq Names
  /\ "." \notin KFiles
<1>1. KFiles = {KustomizationNames[i] : i \in DOMAIN KustomizationNames}
  BY AddRunAssumption DEF ToSet
<1>2. DOMAIN KustomizationNames = 1 .. 3 /\ Len(KustomizationNames) = 3
  BY DEF KustomizationNames
<1>3. \A i \in 1 .. 3 : KustomizationNames[i] # "."
  BY DEF KustomizationNames
<1> QED BY <1>1, <1>2, <1>3, NamesAssumption DEF Contains

LEMMA FileProper ==
  ASSUME NEW p \in Path
  PROVE  Proper(FileResolution(p))
<1> DEFINE r == FileResolution(p)
<1>1. CASE Contains(KustomizationNames, BaseOf(p))
  <2>1. BaseOf(p) \in KFiles
    BY <1>1, KustomizationNamed
  <2>2. p # <<>> /\ p[Len(p)] \in KFiles
    BY <2>1, KustomizationNamed DEF BaseOf, Last
  <2>3. IsKustomization(p)
    BY <2>2 DEF IsKustomization, Path
  <2>4. r \in {Resolution("helm", RawURL(p)), Resolution("kustomize", RawURL(p))}
    BY <1>1 DEF FileResolution
  <2> QED BY <2>3, <2>4, RawURLKeeps DEF Resolution, Proper
<1>2. CASE ~Contains(KustomizationNames, BaseOf(p))
  <2>1. r \in {Resolution("helm", RawURL(p)), Resolution("yaml", RawURL(p)), Unsupported}
    BY <1>2 DEF FileResolution
  <2> QED BY <2>1 DEF Resolution, Unsupported, Proper
<1> QED BY <1>1, <1>2

LEMMA KustomizationProper ==
  ASSUME NEW ps, NEW dir \in Path
  PROVE  Proper(KustomizationIn(ps, dir))
<1> DEFINE Name(i) == dir \o <<KustomizationNames[i]>>
           found == {i \in DOMAIN KustomizationNames : Contains(ps, Name(i))}
<1>1. CASE found = {}
  BY <1>1 DEF KustomizationIn, Unsupported, Proper
<1>2. CASE found # {}
  <2>1. found \subseteq Nat
    BY DEF KustomizationNames
  <2>2. PICK i \in DOMAIN KustomizationNames : i = Min(found)
    <3>1. Min(found) \in found
      <4> HIDE DEF found
      <4> QED BY <1>2, <2>1, Least
    <3> QED BY <3>1
  <2>3. KustomizationIn(ps, dir) = Resolution("kustomize", RawURL(Name(i)))
    BY <1>2, <2>2 DEF KustomizationIn
  <2>4. KustomizationNames[i] \in KFiles /\ KustomizationNames[i] \in Names
    BY <2>2, KustomizationNamed
  <2>5. Name(i) \in Path /\ IsKustomization(Name(i))
    BY <2>4 DEF Path, IsKustomization
  <2> QED BY <2>3, <2>5, RawURLKeeps DEF Resolution, Proper
<1> QED BY <1>1, <1>2

LEMMA RouteProper ==
  ASSUME NEW ps, NEW sub \in Path, NEW name
  PROVE  Proper(RouteSubpath(ps, sub)) /\ Proper(RouteRepo(ps, name))
<1>1. \A d : Proper(ChartResolution(d, ps))
  BY DEF ChartResolution, Proper
<1>2. <<>> \in Path
  BY DEF Path
<1> QED BY <1>1, <1>2, FileProper, KustomizationProper DEF RouteSubpath, RouteRepo

\* What is behind a marker is part of the URL.
LEMMA AfterType ==
  ASSUME NEW url \in Path, NEW mark, Len(mark) \in {1, 2}, MarkedAt(url, mark) # {}
  PROVE  After(url, mark) \in Path /\ After(url, mark) # <<>>
<1>1. MarkedAt(url, mark) \subseteq Nat
  BY DEF MarkedAt, Path
<1>2. PICK i \in MarkedAt(url, mark) : i = Min(MarkedAt(url, mark))
  BY <1>1, Least
<1>3. i \in 1 .. Len(url) - Len(mark) /\ Len(url) \in Nat
  BY <1>2 DEF MarkedAt, Path
<1>4. After(url, mark) = SubSeq(url, i + Len(mark), Len(url))
  BY <1>2 DEF After
<1>5. i + Len(mark) \in 1 .. Len(url)
  BY <1>3
<1>6. SubSeq(url, i + Len(mark), Len(url)) \in Seq(Names)
  <2>1. \A j \in (i + Len(mark)) .. Len(url) : url[j] \in Names
    BY <1>3, <1>5 DEF Path
  <2> QED BY <1>3, <1>5, <2>1
<1>7. Len(SubSeq(url, i + Len(mark), Len(url))) > 0
  BY <1>3, <1>5 DEF Path
<1>8. PICK t : t = SubSeq(url, i + Len(mark), Len(url))
  OBVIOUS
<1>9. t \in Seq(Names) /\ t # <<>>
  <2>1. t \in Seq(Names) /\ Len(t) > 0
    BY <1>6, <1>7, <1>8, Zenon
  <2> QED BY <2>1
<1> QED BY <1>4, <1>8, <1>9 DEF Path

LEMMA ParsedType ==
  ASSUME NEW url \in Path, NEW host \in {"github", "gitlab", "bitbucket"}
  PROVE  ParseRef(host, url).sub \in Path
<1>1. Len(BlobMark(host)) \in {1, 2} /\ Len(TreeMark(host)) \in {1, 2}
  BY DEF BlobMark, TreeMark
<1>2. ASSUME NEW rest \in Path, rest # <<>>, NEW b PROVE SplitRef(rest, b).sub \in Path
  BY <1>2 DEF SplitRef, Path
<1>3. NoRef.sub \in Path
  BY DEF NoRef, Path
<1>4. CASE host # "bitbucket" /\ MarkedAt(url, BlobMark(host)) # {}
  <2>1. After(url, BlobMark(host)) \in Path /\ After(url, BlobMark(host)) # <<>>
    BY <1>1, <1>4, AfterType
  <2>2. ParseRef(host, url) = SplitRef(After(url, BlobMark(host)), TRUE)
    BY <1>4 DEF ParseRef
  <2> QED BY <1>2, <2>1, <2>2
<1>5. CASE /\ ~(host # "bitbucket" /\ MarkedAt(url, BlobMark(host)) # {})
           /\ MarkedAt(url, TreeMark(host)) # {}
  <2>1. After(url, TreeMark(host)) \in Path /\ After(url, TreeMark(host)) # <<>>
    BY <1>1, <1>5, AfterType
  <2>2. ParseRef(host, url) = SplitRef(After(url, TreeMark(host)), FALSE)
    BY <1>5 DEF ParseRef
  <2> QED BY <1>2, <2>1, <2>2
<1>6. CASE /\ ~(host # "bitbucket" /\ MarkedAt(url, BlobMark(host)) # {})
           /\ MarkedAt(url, TreeMark(host)) = {}
  BY <1>3, <1>6 DEF ParseRef
<1> QED BY <1>4, <1>5, <1>6

-----------------------------------------------------------------------------
(* The command. *)

(***************************************************************************)
(* The command is about one resource, and what it resolves to is a         *)
(* kustomization if it says so.                                            *)
(***************************************************************************)
Asked == \E w \in Worlds : res = w.res
RouteInv == Asked /\ Proper(target)

\* A resolver that returns keeps RouteInv if what it returns is proper.
LEMMA ResolvesProper ==
  ASSUME RouteInv, NEW r, Proper(r), Resolves(r), UNCHANGED res
  PROVE  RouteInv'
  BY DEF RouteInv, Asked, Proper, Resolves

LEMMA RouteInitially == Init => RouteInv
  BY DEF Init, RouteInv, Asked, Proper, Unsupported

LEMMA RouteInductive == RouteInv /\ [Next]_vars => RouteInv'
<1> SUFFICES ASSUME RouteInv, [Next]_vars PROVE RouteInv'
  OBVIOUS
<1>1. /\ res.path \in Path /\ res.host \in {"github", "gitlab", "bitbucket"}
      /\ Parsed.sub \in Path
  <2>1. res.path \in Path /\ res.host \in {"github", "gitlab", "bitbucket"}
    BY AddRunAssumption DEF RouteInv, Asked
  <2> QED BY <2>1, ParsedType DEF Parsed
<1>2. ASSUME target' = target, res' = res PROVE RouteInv'
  BY <1>2 DEF RouteInv, Asked, Proper
<1>3. ASSUME NEW r, WithRef(r), UNCHANGED res PROVE RouteInv'
  <2>1. CASE Parsed.blob
    BY <1>1, <1>3, <2>1, FileProper, ResolvesProper DEF WithRef
  <2>2. CASE ~Parsed.blob
    BY <1>2, <1>3, <2>2 DEF WithRef
  <2> QED BY <2>1, <2>2
<1>4. CASE GitResolve
  BY <1>2, <1>3, <1>4 DEF GitResolve, local
<1>5. CASE LatestRelease
  BY <1>3, <1>5 DEF LatestRelease
<1>6. CASE Route
  BY <1>1, <1>6, RouteProper, ResolvesProper DEF Route
<1>7. CASE HttpResolve
  <2>1. Contains(KustomizationNames, Base) => IsKustomization(res.path)
    BY <1>1, KustomizationNamed DEF Base, BaseOf, Last, IsKustomization, Path
  <2>2. Proper(Resolution("helm", res.path)) /\ Proper(Resolution("yaml", res.path))
    BY DEF Proper, Resolution
  <2>3. Contains(KustomizationNames, Base) => Proper(Resolution("kustomize", res.path))
    BY <1>1, <2>1 DEF Proper, Resolution
  <2>4. CASE res.form = "bare" /\ UNCHANGED local /\ UNCHANGED res
    BY <1>2, <2>4 DEF local
  <2>5. CASE ~(res.form = "bare" /\ UNCHANGED local)
    <3>1. PICK r : Resolves(r) /\ Proper(r) /\ UNCHANGED res
      BY <1>7, <2>2, <2>3, <2>5 DEF HttpResolve
    <3> QED BY <3>1, ResolvesProper
  <2> QED BY <1>7, <2>4, <2>5 DEF HttpResolve
<1>8. CASE Probe \/ ImageResolve
  <2>1. Proper(Resolution("helm", res.path)) /\ Proper(Resolution("yaml", res.path))
    BY DEF Proper, Resolution
  <2> QED BY <1>8, <2>1, ResolvesProper DEF Probe, ImageResolve
<1>9. CASE UnknownResource \/ LatestReleaseFails \/ ListFails \/ DispatchFails
           \/ FetchChartYamlFails \/ FetchMemberFails \/ FetchIndexFails
           \/ FetchArchiveFails \/ FetchManifestFails
  BY <1>2, <1>9 DEF UnknownResource, LatestReleaseFails, ListFails, DispatchFails,
     FetchChartYamlFails, FetchMemberFails, FetchIndexFails, FetchArchiveFails,
     FetchManifestFails, Fail, local
<1>10. CASE ListPage \/ Dispatch \/ FetchChartYaml \/ FetchMember \/ LoadChart
            \/ ReviewValues \/ FetchArchive
  BY <1>2, <1>10 DEF ListPage, Dispatch, FetchChartYaml, FetchMember, LoadChart,
     ReviewValues, FetchArchive, local
<1>11. CASE FetchIndex
  BY <1>2, <1>11 DEF FetchIndex, local
<1>12. CASE FetchManifest \/ Walk \/ WalkFails \/ Materialized \/ Move
  BY <1>2, <1>12 DEF FetchManifest, Walk, WalkFails, Materialized, Move, local
<1>13. CASE UNCHANGED vars
  BY <1>2, <1>13 DEF vars, local
<1> QED
  BY <1>4, <1>5, <1>6, <1>7, <1>8, <1>9, <1>10, <1>11, <1>12, <1>13 DEF Next, Step

(***************************************************************************)
(* kubectl add implements Materialize: whatever it is asked for, and while *)
(* the site changes, the only thing it does to an archive is one walk from *)
(* a kustomization.  Every walk therefore starts at what a resolver took   *)
(* for a kustomization, of which Proper says that it is named like one.    *)
(***************************************************************************)
THEOREM WalksAsMaterialize == Spec => MaterializeSpec
<1>1. Init => MaterializeInit
  BY DEF Init
<1>2. RouteInv /\ [Next]_vars => [MaterializeNext]_mvars
  <2> SUFFICES ASSUME RouteInv, [Next]_vars, ~UNCHANGED mvars PROVE MaterializeNext
    OBVIOUS
  <2>1. CASE FetchManifest
    <3>1. PICK list \in Listings : target.format = "kustomize" /\ Start(target.url, list)
      BY <2>1 DEF FetchManifest
    <3>2. target.url \in Path /\ IsKustomization(target.url)
      BY <3>1 DEF RouteInv, Proper
    <3>3. list \in Listing
      BY AddRunAssumption
    <3> QED BY <3>1, <3>2, <3>3 DEF MaterializeNext
  <2>2. CASE Walk
    BY <2>2, AddRunAssumption DEF Walk, MaterializeNext
  <2>3. CASE WalkFails
    BY <2>3 DEF WalkFails, MaterializeNext
  <2>4. CASE UnknownResource \/ LatestReleaseFails \/ ListFails \/ DispatchFails
             \/ FetchChartYamlFails \/ FetchMemberFails \/ FetchIndexFails
             \/ FetchArchiveFails \/ FetchManifestFails
    BY <2>4 DEF UnknownResource, LatestReleaseFails, ListFails, DispatchFails,
       FetchChartYamlFails, FetchMemberFails, FetchIndexFails, FetchArchiveFails,
       FetchManifestFails, Fail
  <2>5. CASE GitResolve \/ LatestRelease \/ ListPage \/ Route \/ HttpResolve \/ Probe
             \/ ImageResolve \/ Dispatch \/ FetchChartYaml \/ FetchMember \/ LoadChart
             \/ ReviewValues \/ FetchIndex \/ FetchArchive \/ Materialized \/ Move
    BY <2>5 DEF GitResolve, LatestRelease, ListPage, Route, HttpResolve, Probe,
       ImageResolve, Dispatch, FetchChartYaml, FetchMember, LoadChart, ReviewValues,
       FetchIndex, FetchArchive, Materialized, Move
  <2>6. CASE UNCHANGED vars
    BY <2>6 DEF vars
  <2> QED BY <2>1, <2>2, <2>3, <2>4, <2>5, <2>6 DEF Next, Step
<1> QED
  BY <1>1, <1>2, RouteInitially, RouteInductive, PTL DEF Spec, MaterializeSpec

(***************************************************************************)
(* What kubectl add hands to the builder can be built, whatever it was     *)
(* asked for and however the site changes.                                 *)
(***************************************************************************)
THEOREM HandsOverWhatBuilds == Spec => []BuilderFinds
  BY WalksAsMaterialize, ArchiveCanBeBuilt, PTL

(***************************************************************************)
(* kubectl add writes no kustomization twice.                              *)
(***************************************************************************)
THEOREM WalksOnce == Spec => []WalkedOnce
  BY WalksAsMaterialize, KustomizationsWalkedOnce, PTL

-----------------------------------------------------------------------------
(* What a URL leads to. *)

\* m elements of a sequence, from the i-th on.
LEMMA Segment ==
  ASSUME NEW S, NEW s \in Seq(S), NEW i \in Nat \ {0}, NEW m \in Nat,
         i + m - 1 <= Len(s), NEW t, t = SubSeq(s, i, i + m - 1)
  PROVE  t \in Seq(S) /\ Len(t) = m /\ \A j \in 1 .. m : t[j] = s[i + j - 1]
<1>1. PICK e : e = i + m - 1
  OBVIOUS
<1>2. i \in Int /\ e \in Int /\ Len(s) \in Nat
  BY <1>1
<1>3. \A j \in i .. e : s[j] \in S
  BY <1>1, <1>2
<1>4. t = SubSeq(s, i, e)
  BY <1>1
<1>5. /\ t \in Seq(S) /\ Len(t) = IF i <= e THEN e - i + 1 ELSE 0
      /\ \A j \in 1 .. e - i + 1 : t[j] = s[i + j - 1]
  BY <1>2, <1>3, <1>4, SubSeqProperties
<1>6. e - i + 1 = m /\ (i <= e \/ m = 0)
  BY <1>1
<1>7. Len(t) = m /\ \A j \in 1 .. m : t[j] = s[i + j - 1]
  BY <1>5, <1>6
<1> QED BY <1>5, <1>7

\* A URL that is a project, a marker and the rest, position by position.
LEMMA Laid ==
  ASSUME NEW S, NEW a \in Seq(S), NEW mark \in Seq(S), NEW rest \in Seq(S),
         NEW n, n = Len(a), NEW m, m = Len(mark), NEW url
  PROVE  url = a \o mark \o rest =>
           /\ url \in Seq(S) /\ Len(url) = n + m + Len(rest)
           /\ n \in Nat /\ m \in Nat /\ Len(rest) \in Nat
           /\ \A i \in 1 .. n : url[i] = a[i]
           /\ \A j \in 1 .. m : url[n + j] = mark[j]
           /\ \A k \in 1 .. Len(rest) : url[n + m + k] = rest[k]
<1>0. HAVE url = a \o mark \o rest
<1>1. n \in Nat /\ m \in Nat /\ Len(rest) \in Nat
  OBVIOUS
<1>2. PICK b : b = a \o mark
  OBVIOUS
<1>3. /\ b \in Seq(S) /\ Len(b) = n + m
      /\ \A j \in 1 .. n : b[j] = a[j]
      /\ \A j \in 1 .. m : b[n + j] = mark[j]
  <2>1. /\ b \in Seq(S) /\ Len(b) = n + m
        /\ \A j \in 1 .. n + m : b[j] = IF j <= n THEN a[j] ELSE mark[j - n]
    BY <1>2, ConcatProperties
  <2>2. ASSUME NEW j \in 1 .. m PROVE b[n + j] = mark[j]
    <3>1. n + j \in 1 .. n + m /\ ~(n + j <= n) /\ (n + j) - n = j
      BY <1>1
    <3> QED BY <2>1, <3>1
  <2>3. ASSUME NEW j \in 1 .. n PROVE b[j] = a[j]
    BY <1>1, <2>1
  <2> QED BY <2>1, <2>2, <2>3
<1>4. url = b \o rest
  BY <1>0, <1>2
<1>5. /\ url \in Seq(S) /\ Len(url) = n + m + Len(rest)
      /\ \A j \in 1 .. n + m + Len(rest) :
           url[j] = IF j <= n + m THEN b[j] ELSE rest[j - (n + m)]
  <2>1. /\ url \in Seq(S) /\ Len(url) = Len(b) + Len(rest)
        /\ \A j \in 1 .. Len(b) + Len(rest) :
             url[j] = IF j <= Len(b) THEN b[j] ELSE rest[j - Len(b)]
    <3>1. b \in Seq(S)
      BY <1>3
    <3> QED BY <1>4, <3>1, ConcatProperties
  <2> QED BY <1>3, <2>1
<1>6. ASSUME NEW i \in 1 .. n PROVE url[i] = a[i]
  BY <1>1, <1>3, <1>5
<1>7. ASSUME NEW j \in 1 .. m PROVE url[n + j] = mark[j]
  <2>1. n + j \in 1 .. n + m + Len(rest) /\ n + j <= n + m
    BY <1>1
  <2> QED BY <1>3, <1>5, <2>1
<1>8. ASSUME NEW k \in 1 .. Len(rest) PROVE url[n + m + k] = rest[k]
  <2>1. /\ n + m + k \in 1 .. n + m + Len(rest) /\ ~(n + m + k <= n + m)
        /\ (n + m + k) - (n + m) = k
    BY <1>1
  <2> QED BY <1>5, <2>1
<1> QED BY <1>1, <1>5, <1>6, <1>7, <1>8

\* A URL of a project, a marker and something behind it.
LaidOut(S, url, a, mark, rest) ==
  /\ a \in Seq(S) /\ mark \in Seq(S) /\ rest \in Seq(S) /\ Len(rest) > 0
  /\ url = a \o mark \o rest

\* A project that cannot be taken for the marker behind it.
Unmarked(a, mark) ==
  Len(mark) \in {1, 2} /\ \A i \in 1 .. Len(a) : a[i] # mark[1]

\* The first marker is the one behind the project.
LEMMA BehindTheMark ==
  ASSUME NEW S, NEW url, NEW a, NEW mark, NEW rest,
         LaidOut(S, url, a, mark, rest), Unmarked(a, mark)
  PROVE  MarkedAt(url, mark) # {} /\ After(url, mark) = rest /\ Before(url, mark) = a
<1>seq. a \in Seq(S) /\ mark \in Seq(S) /\ rest \in Seq(S) /\ Len(rest) > 0
  BY DEF LaidOut
<1>0. url = a \o mark \o rest
  BY DEF LaidOut
<1>1. PICK m, n : m = Len(mark) /\ n = Len(a)
  OBVIOUS
<1>2. PICK M : M = MarkedAt(url, mark)
  OBVIOUS
<1>3. /\ url \in Seq(S) /\ Len(url) = n + m + Len(rest)
      /\ Len(rest) \in Nat \ {0} /\ m \in {1, 2} /\ n \in Nat /\ Len(url) \in Nat
      /\ \A i \in 1 .. n : url[i] # mark[1] /\ url[i] = a[i]
      /\ \A j \in 1 .. m : url[n + j] = mark[j]
      /\ \A k \in 1 .. Len(rest) : url[n + m + k] = rest[k]
  <2>1. /\ url \in Seq(S) /\ Len(url) = n + m + Len(rest)
        /\ n \in Nat /\ m \in Nat /\ Len(rest) \in Nat
        /\ \A i \in 1 .. n : url[i] = a[i]
        /\ \A j \in 1 .. m : url[n + j] = mark[j]
        /\ \A k \in 1 .. Len(rest) : url[n + m + k] = rest[k]
    BY <1>0, <1>1, <1>seq, Laid
  <2>2. Len(rest) \in Nat \ {0} /\ Len(url) \in Nat
    BY <1>seq, <2>1
  <2> QED BY <1>1, <2>1, <2>2 DEF Unmarked
<1>4. ASSUME NEW i \in 1 .. Len(url) - m, NEW t, t = SubSeq(url, i, i + m - 1)
      PROVE  t \in Seq(S) /\ Len(t) = m /\ \A j \in 1 .. m : t[j] = url[i + j - 1]
  <2>1. i \in Nat \ {0} /\ i + m - 1 <= Len(url) /\ m \in Nat /\ url \in Seq(S)
    BY <1>3
  <2> QED BY <1>4, <2>1, Segment
<1>5. n + 1 \in M
  <2>1. n + 1 \in 1 .. Len(url) - m
    BY <1>3
  <2>2. PICK t : t = SubSeq(url, n + 1, n + 1 + m - 1)
    OBVIOUS
  <2>3. t \in Seq(S) /\ Len(t) = m /\ \A j \in 1 .. m : t[j] = url[n + 1 + j - 1]
    BY <1>4, <2>1, <2>2
  <2>4. ASSUME NEW j \in 1 .. m PROVE t[j] = mark[j]
    <3>1. n + 1 + j - 1 = n + j
      BY <1>3
    <3> QED BY <1>3, <2>3, <3>1
  <2>5. t = mark
    BY <1>1, <1>seq, <2>3, <2>4, SeqEqual
  <2> QED BY <1>1, <1>2, <2>1, <2>2, <2>5 DEF MarkedAt
<1>6. ASSUME NEW i \in M PROVE i \in Nat /\ n + 1 <= i
  <2>1. i \in 1 .. Len(url) - m /\ SubSeq(url, i, i + m - 1) = mark
    BY <1>1, <1>2 DEF MarkedAt
  <2>2. mark[1] = url[i]
    <3>1. 1 \in 1 .. m /\ i + 1 - 1 = i
      BY <1>3, <2>1
    <3>2. \A j \in 1 .. m : mark[j] = url[i + j - 1]
      BY <1>4, <2>1, Zenon
    <3>3. mark[1] = url[i + 1 - 1]
      BY <3>1, <3>2, Zenon
    <3> QED BY <3>1, <3>3, Zenon
  <2>3. ~(i <= n)
    BY <1>3, <2>1, <2>2
  <2> QED BY <1>3, <2>1, <2>3
<1>7. Min(M) = n + 1
  <2>1. M \subseteq Nat /\ M # {}
    BY <1>5, <1>6
  <2>2. Min(M) \in M /\ Min(M) <= n + 1
    BY <1>5, <2>1, Least
  <2> QED BY <1>3, <1>6, <2>2
<1>8. PICK p, l : p = n + 1 + m /\ l = Len(rest)
  OBVIOUS
<1>9. p \in Nat \ {0} /\ l \in Nat /\ p + l - 1 = Len(url)
  BY <1>3, <1>8
<1>10. PICK t : t = SubSeq(url, p, p + l - 1)
  OBVIOUS
<1>11. t = After(url, mark)
  BY <1>1, <1>2, <1>7, <1>8, <1>9, <1>10 DEF After
<1>12. t \in Seq(S) /\ Len(t) = l /\ \A k \in 1 .. l : t[k] = url[p + k - 1]
  <2>1. p + l - 1 <= Len(url) /\ p \in Nat \ {0} /\ l \in Nat /\ url \in Seq(S)
    BY <1>3, <1>9
  <2> QED BY <1>10, <2>1, Segment
<1>13. ASSUME NEW k \in 1 .. l PROVE t[k] = rest[k]
  <2>1. p + k - 1 = n + m + k
    BY <1>3, <1>8
  <2> QED BY <1>3, <1>8, <1>12, <2>1
<1>14. t = rest
  BY <1>8, <1>12, <1>13, <1>seq, SeqEqual
<1>15. PICK b : b = SubSeq(url, 1, 1 + n - 1)
  OBVIOUS
<1>16. b \in Seq(S) /\ Len(b) = n /\ \A i \in 1 .. n : b[i] = url[1 + i - 1]
  <2>1. 1 \in Nat \ {0} /\ n \in Nat /\ 1 + n - 1 <= Len(url) /\ url \in Seq(S)
    BY <1>3
  <2> QED BY <1>15, <2>1, Segment
<1>17. b = a
  <2>1. \A i \in 1 .. n : 1 + i - 1 = i
    BY <1>3
  <2>2. \A i \in 1 .. n : b[i] = a[i]
    BY <1>3, <1>16, <2>1
  <2> QED BY <1>1, <1>16, <1>seq, <2>2, SeqEqual
<1>18. Before(url, mark) = b
  <2>1. Min(M) - 1 = n /\ 1 + n - 1 = n
    BY <1>3, <1>7
  <2> QED BY <1>2, <1>5, <1>15, <2>1 DEF Before
<1> QED BY <1>2, <1>5, <1>11, <1>14, <1>17, <1>18

\* No blob marker in a URL that shows a directory, if its path has no such segment.
LEMMA NoBlob ==
  ASSUME NEW S, NEW host \in {"github", "gitlab"}, NEW a \in Seq(S),
         \A i \in 1 .. Len(a) : a[i] \notin Marks(host),
         NEW url, NEW mark, mark = TreeMark(host), NEW rest,
         LaidOut(S, url, a, mark, rest), ~Contains(rest, "blob")
  PROVE  MarkedAt(url, BlobMark(host)) = {}
<1>0. mark \in Seq(S) /\ rest \in Seq(S) /\ url = a \o mark \o rest
  BY DEF LaidOut
<1>1. PICK n, m : n = Len(a) /\ m = Len(mark)
  OBVIOUS
<1>2. /\ url \in Seq(S) /\ Len(url) = n + m + Len(rest)
      /\ n \in Nat /\ m \in Nat /\ Len(rest) \in Nat
      /\ \A i \in 1 .. n : url[i] = a[i]
      /\ \A j \in 1 .. m : url[n + j] = mark[j]
      /\ \A k \in 1 .. Len(rest) : url[n + m + k] = rest[k]
  BY <1>0, <1>1, Laid
<1>3. Len(url) \in Nat
  BY <1>2
<1>4. ASSUME NEW q \in 1 .. Len(url), url[q] = "blob" PROVE q <= n
  <2>1. CASE q \in n + 1 .. n + m
    <3>1. \A j \in 1 .. m : mark[j] # "blob"
      BY <1>1 DEF TreeMark
    <3>2. q - n \in 1 .. m /\ n + (q - n) = q
      BY <1>2, <2>1
    <3>3. url[n + (q - n)] = mark[q - n]
      BY <1>2, <3>2
    <3> QED BY <1>4, <3>1, <3>2, <3>3
  <2>2. CASE q > n + m
    <3>1. q - (n + m) \in 1 .. Len(rest) /\ n + m + (q - (n + m)) = q
      BY <1>2, <1>3, <2>2
    <3>2. url[n + m + (q - (n + m))] # "blob"
      BY <1>2, <3>1 DEF Contains
    <3> QED BY <1>4, <3>1, <3>2
  <2> QED BY <1>2, <2>1, <2>2
<1>5. ASSUME NEW i \in MarkedAt(url, BlobMark(host)) PROVE FALSE
  <2>1. PICK l : l = Len(BlobMark(host))
    OBVIOUS
  <2>2. l \in {1, 2} /\ BlobMark(host)[l] = "blob" /\ BlobMark(host)[1] \in Marks(host)
    BY <2>1 DEF BlobMark, Marks
  <2>3. i \in 1 .. Len(url) - l /\ BlobMark(host) = SubSeq(url, i, i + l - 1)
    BY <2>1 DEF MarkedAt
  <2>4. \A j \in 1 .. l : BlobMark(host)[j] = url[i + j - 1]
    <3>1. i \in Nat \ {0} /\ l \in Nat /\ i + l - 1 <= Len(url)
      BY <1>3, <2>2, <2>3
    <3> QED BY <1>2, <2>3, <3>1, Segment
  <2>5. url[i + l - 1] = "blob" /\ i + l - 1 \in 1 .. Len(url)
    BY <1>3, <2>2, <2>3, <2>4
  <2>6. i + l - 1 <= n
    BY <1>4, <2>5
  <2>7. i \in 1 .. n /\ i + 1 - 1 = i /\ 1 \in 1 .. l
    BY <1>2, <2>2, <2>3, <2>6
  <2>8. url[i] \in Marks(host)
    BY <2>2, <2>4, <2>7
  <2> QED BY <1>1, <1>2, <2>7, <2>8
<1> QED BY <1>5

\* The markers are segments, and begin with one that no project is named.
LEMMA MarksType ==
  ASSUME NEW S, {"-", "blob", "tree", "src"} \subseteq S,
         NEW host \in {"github", "gitlab", "bitbucket"}
  PROVE  /\ TreeMark(host) \in Seq(S) /\ Len(TreeMark(host)) \in {1, 2}
         /\ TreeMark(host)[1] \in Marks(host)
         /\ host # "bitbucket" =>
              /\ BlobMark(host) \in Seq(S) /\ Len(BlobMark(host)) \in {1, 2}
              /\ BlobMark(host)[1] \in Marks(host)
<1>1. ASSUME NEW x \in S
      PROVE  <<x>> \in Seq(S) /\ Len(<<x>>) = 1 /\ <<x>>[1] = x
  OBVIOUS
<1>2. ASSUME NEW x \in S, NEW y \in S
      PROVE  <<x, y>> \in Seq(S) /\ Len(<<x, y>>) = 2 /\ <<x, y>>[1] = x
  OBVIOUS
<1>3. "-" \in S /\ "blob" \in S /\ "tree" \in S /\ "src" \in S
  OBVIOUS
<1>4. CASE host = "github"
  <2>1. BlobMark(host) = <<"blob">> /\ TreeMark(host) = <<"tree">>
    BY <1>4 DEF BlobMark, TreeMark
  <2>2. "blob" \in Marks(host) /\ "tree" \in Marks(host)
    BY <1>4 DEF Marks
  <2>3. /\ <<"blob">> \in Seq(S) /\ Len(<<"blob">>) = 1 /\ <<"blob">>[1] = "blob"
        /\ <<"tree">> \in Seq(S) /\ Len(<<"tree">>) = 1 /\ <<"tree">>[1] = "tree"
    BY <1>1, <1>3, Zenon
  <2> QED BY <2>1, <2>2, <2>3, Zenon
<1>5. CASE host = "gitlab"
  <2>1. BlobMark(host) = <<"-", "blob">> /\ TreeMark(host) = <<"-", "tree">>
    BY <1>5 DEF BlobMark, TreeMark
  <2>2. "-" \in Marks(host)
    BY <1>5 DEF Marks
  <2>3. /\ <<"-", "blob">> \in Seq(S) /\ Len(<<"-", "blob">>) = 2
        /\ <<"-", "blob">>[1] = "-"
        /\ <<"-", "tree">> \in Seq(S) /\ Len(<<"-", "tree">>) = 2
        /\ <<"-", "tree">>[1] = "-"
    BY <1>2, <1>3, Zenon
  <2> QED BY <2>1, <2>2, <2>3, Zenon
<1>6. CASE host = "bitbucket"
  <2>1. TreeMark(host) = <<"src">> /\ "src" \in Marks(host)
    BY <1>6 DEF TreeMark, Marks
  <2>2. <<"src">> \in Seq(S) /\ Len(<<"src">>) = 1 /\ <<"src">>[1] = "src"
    BY <1>1, <1>3, Zenon
  <2> QED BY <1>6, <2>1, <2>2, Zenon
<1> QED BY <1>4, <1>5, <1>6, Zenon

(***************************************************************************)
(* parseRef reads in a URL what the host shows there.                      *)
(***************************************************************************)
Readable(S, host, a) ==
  /\ {"-", "blob", "tree", "src"} \subseteq S
  /\ host \in {"github", "gitlab", "bitbucket"}
  /\ \A i \in 1 .. Len(a) : a[i] \notin Marks(host)

LEMMA ReadsBlob ==
  ASSUME NEW S, NEW url, NEW host, NEW a, NEW rest, Readable(S, host, a),
         host # "bitbucket", LaidOut(S, url, a, BlobMark(host), rest)
  PROVE  ParseRef(host, url) = SplitRef(rest, TRUE)
<1>1. PICK mark : mark = BlobMark(host)
  OBVIOUS
<1>2. LaidOut(S, url, a, mark, rest)
  BY <1>1
<1>3. mark \in Seq(S) /\ Len(mark) \in {1, 2} /\ mark[1] \in Marks(host)
  BY <1>1, MarksType DEF Readable
<1>4. Unmarked(a, mark)
  BY <1>3 DEF Unmarked, Readable
<1>5. MarkedAt(url, mark) # {} /\ After(url, mark) = rest
  BY <1>2, <1>4, BehindTheMark, Zenon
<1> QED BY <1>1, <1>5 DEF ParseRef

LEMMA ReadsTree ==
  ASSUME NEW S, NEW url, NEW host, NEW a, NEW rest, Readable(S, host, a),
         ~Contains(rest, "blob"), LaidOut(S, url, a, TreeMark(host), rest)
  PROVE  ParseRef(host, url) = SplitRef(rest, FALSE)
<1>1. PICK mark : mark = TreeMark(host)
  OBVIOUS
<1>2. LaidOut(S, url, a, mark, rest)
  BY <1>1
<1>3. mark \in Seq(S) /\ Len(mark) \in {1, 2} /\ mark[1] \in Marks(host)
  BY <1>1, MarksType DEF Readable
<1>4. Unmarked(a, mark)
  BY <1>3 DEF Unmarked, Readable
<1>5. MarkedAt(url, mark) # {} /\ After(url, mark) = rest
  BY <1>2, <1>4, BehindTheMark, Zenon
<1>6. host # "bitbucket" => MarkedAt(url, BlobMark(host)) = {}
  BY <1>1, <1>2, NoBlob DEF Readable, LaidOut
<1> QED BY <1>1, <1>5, <1>6 DEF ParseRef

\* A URL as the host writes it, n segments of it the project's.
Writes(host, path, n, blob, rest) ==
  path = SubSeq(path, 1, n) \o (IF blob THEN BlobMark(host) ELSE TreeMark(host)) \o rest

\* What parseRef makes of a URL with a ref in it is what was asked for.
LEMMA ReadsWhatIsAsked ==
  ASSUME NEW host \in {"github", "gitlab", "bitbucket"}, NEW path \in Path,
         NEW at \in {"tag", "branch"}, NEW sub \in Path,
         NEW blob \in BOOLEAN, blob => host # "bitbucket",
         NEW n \in 0 .. Len(path), \A i \in 1 .. n : path[i] \notin Marks(host),
         Writes(host, path, n, blob, <<at>> \o sub), ~blob => ~Contains(sub, "blob")
  PROVE  ParseRef(host, path) = [ref |-> at, sub |-> sub, blob |-> blob]
<1>1. PICK S : S = Names \cup {"-", "blob", "tree", "src", "tag", "branch"}
  OBVIOUS
<1>2. PICK a : a = SubSeq(path, 1, n)
  OBVIOUS
<1>3. a \in Seq(S) /\ Len(a) = n /\ \A i \in 1 .. n : a[i] = path[i]
  <2>1. path \in Seq(S)
    BY <1>1 DEF Path
  <2>2. n \in Nat /\ 1 \in Nat \ {0} /\ 1 + n - 1 <= Len(path) /\ 1 + n - 1 = n
    BY <2>1
  <2>3. a = SubSeq(path, 1, 1 + n - 1)
    BY <1>2, <2>2
  <2>4. a \in Seq(S) /\ Len(a) = n /\ \A i \in 1 .. n : a[i] = path[1 + i - 1]
    BY <2>1, <2>2, <2>3, Segment
  <2>5. \A i \in 1 .. n : 1 + i - 1 = i
    BY <2>2
  <2> QED BY <2>4, <2>5
<1>4. Readable(S, host, a)
  BY <1>1, <1>3 DEF Readable
<1>5. PICK rest : rest = <<at>> \o sub
  OBVIOUS
<1>6. /\ rest \in Seq(S) /\ Len(rest) = 1 + Len(sub) /\ Len(sub) \in Nat
      /\ rest[1] = at /\ \A i \in 1 .. Len(sub) : rest[1 + i] = sub[i]
  <2>1. sub \in Seq(S) /\ at \in S
    BY <1>1 DEF Path
  <2> QED BY <1>5, <2>1
<1>7. Head(rest) = at /\ Tail(rest) = sub
  BY <1>5 DEF Path
<1>8. ~blob => ~Contains(rest, "blob")
  <2>1. SUFFICES ASSUME ~blob, NEW i \in 1 .. Len(rest), rest[i] = "blob" PROVE FALSE
    BY DEF Contains
  <2>2. i # 1
    BY <1>6, <2>1
  <2>3. i - 1 \in 1 .. Len(sub) /\ 1 + (i - 1) = i
    BY <1>6, <2>1, <2>2
  <2>4. rest[1 + (i - 1)] = sub[i - 1]
    BY <1>6, <2>3
  <2> QED BY <2>1, <2>3, <2>4 DEF Contains
<1>9. Len(rest) > 0
  BY <1>6
<1>10. PICK url : url = path
  OBVIOUS
<1>11. PICK mark : mark = IF blob THEN BlobMark(host) ELSE TreeMark(host)
  OBVIOUS
<1>12. mark \in Seq(S)
  BY <1>1, <1>11, MarksType
<1>13. url = a \o mark \o rest
  BY <1>2, <1>5, <1>10, <1>11, Zenon DEF Writes
<1>14. LaidOut(S, url, a, mark, rest)
  BY <1>3, <1>6, <1>9, <1>12, <1>13 DEF LaidOut
<1>15. CASE blob
  <2>1. ParseRef(host, url) = SplitRef(rest, TRUE)
    <3>1. mark = BlobMark(host)
      BY <1>11, <1>15
    <3> QED BY <1>4, <1>14, <1>15, <3>1, ReadsBlob, Zenon
  <2> QED BY <1>7, <1>10, <1>15, <2>1 DEF SplitRef
<1>16. CASE ~blob
  <2>1. ParseRef(host, url) = SplitRef(rest, FALSE)
    <3>1. mark = TreeMark(host)
      BY <1>11, <1>16
    <3> QED BY <1>4, <1>8, <1>14, <1>16, <3>1, ReadsTree, Zenon
  <2> QED BY <1>7, <1>10, <1>16, <2>1 DEF SplitRef
<1> QED BY <1>15, <1>16

\* No marker where no segment begins one: the URL of a repository is its project.
LEMMA Unread ==
  ASSUME NEW host \in {"github", "gitlab", "bitbucket"}, NEW path \in Path,
         \A i \in 1 .. Len(path) : path[i] \notin Marks(host)
  PROVE  /\ ParseRef(host, path) = NoRef
         /\ host = "gitlab" => Before(path, <<"-">>) = path
         /\ host = "bitbucket" => Before(path, <<"src">>) = path
<1>1. ASSUME NEW mark, Len(mark) \in {1, 2}, mark[1] \in Marks(host)
      PROVE  MarkedAt(path, mark) = {}
  <2>1. SUFFICES ASSUME NEW i \in MarkedAt(path, mark) PROVE FALSE
    OBVIOUS
  <2>2. PICK m : m = Len(mark)
    OBVIOUS
  <2>3. i \in 1 .. Len(path) - m /\ mark = SubSeq(path, i, i + m - 1)
    BY <2>2 DEF MarkedAt
  <2>4. i \in Nat \ {0} /\ m \in Nat /\ i + m - 1 <= Len(path) /\ 1 \in 1 .. m
        /\ i \in 1 .. Len(path) /\ i + 1 - 1 = i
    BY <1>1, <2>2, <2>3 DEF Path
  <2>5. \A j \in 1 .. m : mark[j] = path[i + j - 1]
    BY <2>3, <2>4, Segment DEF Path
  <2>6. mark[1] = path[i]
    BY <2>4, <2>5
  <2> QED BY <1>1, <2>4, <2>6
<1>2. Len(TreeMark(host)) \in {1, 2} /\ TreeMark(host)[1] \in Marks(host)
  BY DEF TreeMark, Marks
<1>3. host # "bitbucket" =>
        Len(BlobMark(host)) \in {1, 2} /\ BlobMark(host)[1] \in Marks(host)
  BY DEF BlobMark, Marks
<1>4. ParseRef(host, path) = NoRef
  <2>1. MarkedAt(path, TreeMark(host)) = {}
    BY <1>1, <1>2
  <2>2. host # "bitbucket" => MarkedAt(path, BlobMark(host)) = {}
    BY <1>1, <1>3
  <2> QED BY <2>1, <2>2 DEF ParseRef
<1>5. host = "gitlab" => MarkedAt(path, <<"-">>) = {}
  BY <1>1 DEF Marks
<1>6. host = "bitbucket" => MarkedAt(path, <<"src">>) = {}
  BY <1>1 DEF Marks
<1> QED BY <1>4, <1>5, <1>6 DEF Before

\* The repository's name is the last segment of the project.
LEMMA RepoIsRead ==
  ASSUME NEW host \in {"github", "gitlab", "bitbucket"}, NEW path \in Path,
         NEW blob \in BOOLEAN, blob => host # "bitbucket",
         NEW n \in 2 .. Len(path), \A i \in 1 .. n : path[i] \notin Marks(host),
         n = 2 \/ host = "gitlab", NEW at, NEW sub \in Path,
         n = Len(path) \/ Writes(host, path, n, blob, <<at>> \o sub)
  PROVE  Last(RepoOf(host, path)) = path[n]
<1>1. PICK S : S = Names \cup {"-", "blob", "tree", "src", at}
  OBVIOUS
<1>2. PICK a : a = SubSeq(path, 1, n)
  OBVIOUS
<1>3. path \in Seq(S) /\ Len(path) \in Nat /\ n \in Nat
  BY <1>1 DEF Path
<1>4. a \in Seq(S) /\ Len(a) = n /\ \A i \in 1 .. n : a[i] = path[i]
  <2>1. 1 \in Nat \ {0} /\ 1 + n - 1 <= Len(path) /\ 1 + n - 1 = n
    BY <1>3
  <2>2. a = SubSeq(path, 1, 1 + n - 1)
    BY <1>2, <2>1
  <2>3. a \in Seq(S) /\ Len(a) = n /\ \A i \in 1 .. n : a[i] = path[1 + i - 1]
    BY <1>3, <2>1, <2>2, Segment
  <2>4. \A i \in 1 .. n : 1 + i - 1 = i
    BY <1>3
  <2> QED BY <2>3, <2>4
<1>5. ASSUME n = Len(path) PROVE a = path
  <2>1. \A i \in 1 .. n : a[i] = path[i]
    BY <1>4
  <2> QED BY <1>3, <1>4, <1>5, <2>1, SeqEqual
<1>6. PICK project : project = CASE host = "gitlab" -> Before(path, <<"-">>)
                                 [] host = "bitbucket" -> Before(path, <<"src">>)
                                 [] host = "github" -> path
  OBVIOUS
<1>7. project = a \/ (host = "github" /\ project = path)
  <2>1. CASE host = "github"
    BY <1>6, <2>1
  <2>2. CASE host # "github" /\ n = Len(path)
    BY <1>5, <1>6, <2>2, Unread
  <2>3. CASE host # "github" /\ Writes(host, path, n, blob, <<at>> \o sub)
    <3>1. PICK first : first = IF host = "gitlab" THEN "-" ELSE "src"
      OBVIOUS
    <3>2. project = Before(path, <<first>>)
      BY <1>6, <2>3, <3>1
    <3>3. PICK rest :
            /\ rest \in Seq(S) /\ Len(rest) > 0
            /\ path = a \o <<first>> \o rest
      <4>1. <<at>> \o sub \in Seq(S) /\ Len(<<at>> \o sub) > 0
        BY <1>1 DEF Path
      <4>2. CASE host = "bitbucket"
        <5>1. path = a \o <<first>> \o (<<at>> \o sub)
          BY <1>2, <2>3, <3>1, <4>2 DEF Writes, TreeMark
        <5> QED BY <4>1, <5>1
      <4>3. CASE host = "gitlab"
        <5>1. PICK x, t :
                x \in {"blob", "tree"} /\ t = <<at>> \o sub /\ path = a \o <<first, x>> \o t
          <6>1. CASE blob
            BY <1>2, <2>3, <3>1, <4>3, <6>1 DEF Writes, BlobMark
          <6>2. CASE ~blob
            BY <1>2, <2>3, <3>1, <4>3, <6>2 DEF Writes, TreeMark
          <6> QED BY <6>1, <6>2
        <5>2. x \in S /\ first \in S /\ t \in Seq(S)
          BY <1>1, <3>1, <4>1, <5>1
        <5>3. <<x>> \o t \in Seq(S) /\ Len(<<x>> \o t) > 0
          BY <5>2
        <5>4. a \o <<first, x>> \o t = a \o <<first>> \o (<<x>> \o t)
          BY <1>4, <5>2
        <5> QED BY <5>1, <5>3, <5>4
      <4> QED BY <2>3, <4>2, <4>3
    <3>4. PICK mark : mark = <<first>>
      OBVIOUS
    <3>5. mark \in Seq(S) /\ Len(mark) = 1 /\ mark[1] \in Marks(host)
      BY <1>1, <2>3, <3>1, <3>4 DEF Marks
    <3>6. LaidOut(S, path, a, mark, rest)
      BY <1>4, <3>3, <3>4, <3>5 DEF LaidOut
    <3>7. Unmarked(a, mark)
      BY <1>4, <3>5 DEF Unmarked
    <3>8. PICK url : url = path
      OBVIOUS
    <3>9. Before(url, mark) = a
      <4>1. LaidOut(S, url, a, mark, rest)
        BY <3>6, <3>8
      <4> QED BY <3>7, <4>1, BehindTheMark
    <3> QED BY <3>2, <3>4, <3>8, <3>9
  <2> QED BY <2>1, <2>2, <2>3
<1>8. Len(project) >= n /\ project[n] = path[n] /\ project \in Seq(S)
  BY <1>3, <1>4, <1>7
<1>9. RepoOf(host, path) = IF host = "gitlab" THEN project ELSE SubSeq(project, 1, 2)
  <2>1. ~(Len(project) < 2)
    BY <1>3, <1>8
  <2> QED BY <1>6, <2>1 DEF RepoOf
<1>10. CASE host = "gitlab"
  BY <1>4, <1>7, <1>8, <1>9, <1>10 DEF Last
<1>11. CASE host # "gitlab"
  <2>1. n = 2
    BY <1>11
  <2>2. Len(SubSeq(project, 1, 2)) = 2 /\ SubSeq(project, 1, 2)[2] = project[2]
    BY <1>3, <1>8, <2>1
  <2> QED BY <1>8, <1>9, <1>11, <2>1, <2>2 DEF Last
<1> QED BY <1>10, <1>11

\* What the git resolver detects and takes for a repository's URL, and no
\* directory's path with the blob marker in it.
OfRepo == Uses("git") /\ Repo # <<>>
Clear == ~res.asked.blob => ~Contains(res.asked.path, "blob")

\* The URLs LeadsWhereAsked is about: they name a ref.
Named == Uses("git") /\ res.asked.ref # "" /\ Clear

LEMMA Detects == Uses("git") => "git" \in res.detect
<1> SUFFICES ASSUME Uses("git") PROVE "git" \in res.detect
  OBVIOUS
<1>1. Detected # {} /\ Resolvers[Min(Detected)] = "git"
  BY DEF Uses
<1>2. Detected \subseteq Nat
  BY DEF Detected, Resolvers
<1>3. Min(Detected) \in Detected
  BY <1>1, <1>2, Least
<1> QED BY <1>1, <1>3 DEF Detected

LEMMA ParsedAsAsked ==
  ASSUME Asked, OfRepo, Clear
  PROVE  /\ Parsed.ref = res.asked.ref /\ Parsed.sub = res.asked.path
         /\ Parsed.blob = res.asked.blob
         /\ res.asked.path \in Path /\ res.asked.ref \in {"", "tag", "branch"}
         /\ Last(Repo) = res.asked.name
<1>1. PICK r : r = res
  OBVIOUS
<1>2. PICK host, path, at, sub, blob :
        /\ host = r.host /\ path = r.path
        /\ at = r.asked.ref /\ sub = r.asked.path /\ blob = r.asked.blob
  OBVIOUS
<1>3. PICK w \in Worlds : res = w.res
  BY DEF Asked
<1>4. host \in {"github", "gitlab", "bitbucket"} /\ path \in Path
  BY <1>1, <1>2, <1>3, AddRunAssumption
<1>5. /\ at \in {"", "tag", "branch"} /\ sub \in Path /\ blob \in BOOLEAN
      /\ blob => host # "bitbucket"
      /\ AsHostWrites(res)
  <2>1. "git" \in res.detect /\ RepoOf(res.host, res.path) # <<>>
    BY Detects DEF OfRepo, Repo
  <2> QED BY <1>1, <1>2, <1>3, <2>1, URLAssumption
<1>6. PICK n \in 2 .. Len(path) :
        /\ n = 2 \/ host = "gitlab"
        /\ \A i \in 1 .. n : path[i] \notin Marks(host)
        /\ path[n] = r.asked.name
        /\ at = "" => n = Len(path) /\ sub = <<>> /\ ~blob
        /\ at # "" => Writes(host, path, n, blob, <<at>> \o sub)
  BY <1>1, <1>2, <1>5, Zenon DEF AsHostWrites, Writes
<1>7. ~blob => ~Contains(sub, "blob")
  BY <1>1, <1>2 DEF Clear
<1>8. ParseRef(host, path) = [ref |-> at, sub |-> sub, blob |-> blob]
  <2>1. CASE at = ""
    BY <1>4, <1>5, <1>6, <2>1, Unread DEF NoRef
  <2>2. CASE at # ""
    <3>1. n \in 0 .. Len(path) /\ at \in {"tag", "branch"}
      <4>1. Len(path) \in Nat
        BY <1>4 DEF Path
      <4>2. n \in 2 .. Len(path)
        OBVIOUS
      <4>3. n \in 0 .. Len(path)
        BY <4>1, <4>2
      <4>4. at \in {"tag", "branch"}
        BY <1>5, <2>2
      <4> QED BY <4>3, <4>4
    <3>2. Writes(host, path, n, blob, <<at>> \o sub)
      BY <1>6, <2>2
    <3>3. \A i \in 1 .. n : path[i] \notin Marks(host)
      BY <1>6
    <3>4. sub \in Path /\ blob \in BOOLEAN /\ (blob => host # "bitbucket")
      BY <1>5
    <3> QED BY <1>4, <1>7, <3>1, <3>2, <3>3, <3>4, ReadsWhatIsAsked
  <2> QED BY <2>1, <2>2
<1>9. Parsed = [ref |-> at, sub |-> sub, blob |-> blob]
  BY <1>1, <1>2, <1>8 DEF Parsed
<1>10. Last(Repo) = r.asked.name
  <2>1. Last(RepoOf(host, path)) = path[n]
    <3>1. n = Len(path) \/ Writes(host, path, n, blob, <<at>> \o sub)
      BY <1>6
    <3>2. \A i \in 1 .. n : path[i] \notin Marks(host)
      BY <1>6
    <3>3. n = 2 \/ host = "gitlab"
      BY <1>6
    <3>4. sub \in Path /\ blob \in BOOLEAN /\ (blob => host # "bitbucket")
      BY <1>5
    <3>5. n \in 2 .. Len(path)
      OBVIOUS
    <3> QED BY <1>4, <3>1, <3>2, <3>3, <3>4, <3>5, RepoIsRead
  <2> QED BY <1>1, <1>2, <1>6, <2>1 DEF Repo
<1> QED BY <1>1, <1>2, <1>5, <1>9, <1>10

\* What the listed paths lead to is at the subpath, or an artifact in it.
LeadsTo(r, sub) ==
  r.format # "none" =>
    r.url \in {RawURL(sub)} \cup
      {RawURL(sub \o <<n>>) : n \in {"Chart.yaml"} \cup ToSet(KustomizationNames)}

LEMMA RoutesBelow ==
  ASSUME NEW ps, NEW sub \in Path
  PROVE  LeadsTo(FileResolution(sub), sub) /\ LeadsTo(RouteSubpath(ps, sub), sub)
<1>1. LeadsTo(FileResolution(sub), sub)
  <2>1. FileResolution(sub) \in {Unsupported} \cup
          {Resolution(f, RawURL(sub)) : f \in {"helm", "kustomize", "yaml"}}
    BY DEF FileResolution
  <2> QED BY <2>1 DEF LeadsTo, Resolution, Unsupported
<1>2. LeadsTo(ChartResolution(sub, ps), sub)
  BY DEF LeadsTo, ChartResolution
<1>3. LeadsTo(KustomizationIn(ps, sub), sub)
  <2> DEFINE Name(i) == sub \o <<KustomizationNames[i]>>
             found == {i \in DOMAIN KustomizationNames : Contains(ps, Name(i))}
  <2>1. CASE found = {}
    BY <2>1 DEF KustomizationIn, LeadsTo, Unsupported
  <2>2. CASE found # {}
    <3>1. found \subseteq Nat
      BY DEF KustomizationNames
    <3>2. PICK i \in DOMAIN KustomizationNames : i = Min(found)
      <4>1. Min(found) \in found
        <5> HIDE DEF found
        <5> QED BY <2>2, <3>1, Least
      <4> QED BY <4>1
    <3>3. KustomizationIn(ps, sub) = Resolution("kustomize", RawURL(Name(i)))
      BY <2>2, <3>2 DEF KustomizationIn
    <3>4. KustomizationNames[i] \in ToSet(KustomizationNames)
      BY <3>2 DEF ToSet
    <3> QED BY <3>3, <3>4 DEF LeadsTo, Resolution
  <2> QED BY <2>1, <2>2
<1> QED BY <1>1, <1>2, <1>3 DEF RouteSubpath

(***************************************************************************)
(* LeadsWhereAsked is not inductive: it must also be known that the ref is *)
(* settled before the listing starts, and that such a URL never comes to   *)
(* the question for the latest release or to the probe of a site.          *)
(***************************************************************************)
LeadInv ==
  Named => /\ Repo = <<>> => pc \in {"resolve", "failed"} /\ target = Unsupported
           /\ pc \notin {"release", "probe"}
           /\ pc \notin {"resolve", "failed"} \/ target.format # "none"
                => ref = res.asked.ref
           /\ res.asked.path # <<>> => LeadsTo(target, res.asked.path)

LEMMA NamedStays == UNCHANGED res => (Named' <=> Named)
<1> SUFFICES ASSUME res' = res PROVE Named' <=> Named
  OBVIOUS
<1>1. Detected' = Detected
  BY DEF Detected
<1>2. Uses("git")' <=> Uses("git")
  BY <1>1, Zenon DEF Uses
<1> QED BY <1>2, Zenon DEF Named, Clear

LEMMA LeadInitially == Init => LeadInv
  BY DEF Init, LeadInv, LeadsTo, Unsupported

LEMMA LeadInductive == RouteInv /\ LeadInv /\ [Next]_vars => LeadInv'
<1> SUFFICES ASSUME RouteInv, LeadInv, [Next]_vars, Named' PROVE LeadInv'
  BY DEF LeadInv
<1>1. res' = res
  BY DEF Next, Step, UnknownResource, GitResolve, LatestRelease, LatestReleaseFails,
     ListPage, ListFails, Route, HttpResolve, Probe, ImageResolve, Dispatch,
     DispatchFails, FetchChartYaml, FetchChartYamlFails, FetchMember,
     FetchMemberFails, LoadChart, ReviewValues, FetchIndex, FetchIndexFails,
     FetchArchive, FetchArchiveFails, FetchManifest, FetchManifestFails, Walk, WalkFails,
     Materialized, Move, Fail, vars
<1> Named
  BY <1>1, NamedStays
<1>2. Repo # <<>> => /\ Parsed.ref = res.asked.ref /\ Parsed.sub = res.asked.path
                     /\ res.asked.path \in Path
  BY ParsedAsAsked DEF RouteInv, Named, OfRepo
<1>3. Uses("git") /\ ~Uses("http") /\ ~Uses("image")
  BY DEF Named, Uses
<1>4. /\ Repo = <<>> => pc \in {"resolve", "failed"} /\ target = Unsupported
      /\ pc \notin {"release", "probe"}
      /\ pc \notin {"resolve", "failed"} \/ target.format # "none" => ref = res.asked.ref
      /\ res.asked.path # <<>> => LeadsTo(target, res.asked.path)
  BY DEF LeadInv
<1>5. ASSUME NEW r, Resolves(r), ref' = res.asked.ref,
             res.asked.path # <<>> => LeadsTo(r, res.asked.path), Repo # <<>>
      PROVE  LeadInv'
  BY <1>1, <1>5 DEF Resolves, LeadInv, LeadsTo, Repo
<1>6. CASE GitResolve
  <2>1. WithRef(res.asked.ref) /\ Repo # <<>>
    BY <1>2, <1>6 DEF GitResolve, Named
  <2>2. CASE Parsed.blob
    BY <1>2, <1>5, <2>1, <2>2, RoutesBelow DEF WithRef
  <2>3. CASE ~Parsed.blob
    BY <1>1, <1>4, <2>1, <2>3 DEF WithRef, LeadInv, LeadsTo, Repo
  <2> QED BY <2>2, <2>3
<1>7. CASE Route
  <2>1. ref' = res.asked.ref /\ Repo # <<>>
    BY <1>4, <1>7 DEF Route
  <2>2. PICK r : /\ Resolves(r)
                 /\ res.asked.path # <<>> => LeadsTo(r, res.asked.path)
    BY <1>2, <1>7, <2>1, RoutesBelow DEF Route
  <2> QED BY <1>5, <2>1, <2>2
<1>8. ASSUME ref' = ref, target' = target,
             pc' \notin {"release", "probe"},
             pc' \in {"resolve", "failed"} \/ pc \notin {"resolve", "failed"}
      PROVE  LeadInv'
  BY <1>1, <1>4, <1>8 DEF LeadInv, LeadsTo, Repo
<1>9. CASE UnknownResource \/ LatestReleaseFails \/ ListFails \/ DispatchFails
           \/ FetchChartYamlFails \/ FetchMemberFails \/ FetchIndexFails
           \/ FetchArchiveFails \/ FetchManifestFails
  BY <1>8, <1>9 DEF UnknownResource, LatestReleaseFails, ListFails, DispatchFails,
     FetchChartYamlFails, FetchMemberFails, FetchIndexFails, FetchArchiveFails,
     FetchManifestFails, Fail, local
<1>10. CASE ListPage \/ Dispatch \/ FetchChartYaml \/ FetchMember \/ LoadChart
            \/ ReviewValues \/ FetchArchive
  BY <1>4, <1>8, <1>10 DEF ListPage, Dispatch, FetchChartYaml, FetchMember,
     LoadChart, ReviewValues, FetchArchive, local
<1>11. CASE FetchIndex
  BY <1>8, <1>11 DEF FetchIndex, local
<1>12. CASE FetchManifest \/ Walk \/ WalkFails \/ Materialized \/ Move
  BY <1>4, <1>8, <1>12 DEF FetchManifest, Walk, WalkFails, Materialized, Move, local
<1>13. CASE LatestRelease \/ HttpResolve \/ Probe \/ ImageResolve
  BY <1>3, <1>4, <1>13 DEF LatestRelease, HttpResolve, Probe, ImageResolve
<1>14. CASE UNCHANGED vars
  BY <1>4, <1>8, <1>14 DEF vars, local
<1> QED
  BY <1>6, <1>7, <1>9, <1>10, <1>11, <1>12, <1>13, <1>14 DEF Next, Step

(***************************************************************************)
(* A URL that names a ref leads to what it shows on the host, however the  *)
(* listing goes and whoever pushes meanwhile: parseRef finds the host's    *)
(* marker and nothing that looks like it, and the routes stay at or        *)
(* directly below the path.                                                *)
(***************************************************************************)
THEOREM URLLeadsWhereAsked == Spec => []LeadsWhereAsked
<1>1. RouteInv /\ LeadInv => LeadsWhereAsked
  BY DEF LeadInv, LeadsTo, LeadsWhereAsked, Named, Clear
<1> QED
  BY <1>1, RouteInitially, RouteInductive, LeadInitially, LeadInductive, PTL DEF Spec

-----------------------------------------------------------------------------
(* Recursive functions over positions.                                     *)

(***************************************************************************)
(* Induction over the natural numbers, on a set: were one of them missing, *)
(* so would the least be.                                                  *)
(***************************************************************************)
LEMMA Induction ==
  ASSUME NEW S, 0 \in S, \A n \in Nat : n \in S => n + 1 \in S
  PROVE  \A n \in Nat : n \in S
<1> DEFINE T == {n \in Nat : n \notin S}
<1>1. SUFFICES ASSUME T # {} PROVE FALSE
  OBVIOUS
<1>2. T \subseteq Nat
  OBVIOUS
<1>3. PICK m : m = Min(T)
  OBVIOUS
<1>4. m \in T /\ \A y \in T : m <= y
  <2> HIDE DEF T
  <2> QED BY <1>1, <1>2, <1>3, Least
<1>5. m - 1 \in Nat /\ m - 1 + 1 = m
  BY <1>4
<1>6. m - 1 \notin T
  BY <1>4, <1>5
<1> QED BY <1>4, <1>5, <1>6

\* A function given by its first value and what each value makes of the last.
Steps(f, L, v0, g) ==
  f = [n \in 0 .. L |-> IF n = 0 THEN v0 ELSE g[<<n, f[n - 1]>>]]

LEMMA StepsExist ==
  ASSUME NEW V, NEW v0 \in V, NEW g \in [Nat \X V -> V]
  PROVE  \A L \in Nat : \E f \in [0 .. L -> V] : Steps(f, L, v0, g)
<1> DEFINE S == {L \in Nat : \E f \in [0 .. L -> V] : Steps(f, L, v0, g)}
<1>1. 0 \in S
  <2>1. PICK f : f = [n \in 0 .. 0 |-> v0]
    OBVIOUS
  <2>2. f \in [0 .. 0 -> V]
    BY <2>1
  <2>3. Steps(f, 0, v0, g)
    BY <2>1 DEF Steps
  <2> QED BY <2>2, <2>3
<1>2. ASSUME NEW L \in Nat, L \in S PROVE L + 1 \in S
  <2>1. PICK f \in [0 .. L -> V] : Steps(f, L, v0, g)
    BY <1>2
  <2>2. PICK h : h = [n \in 0 .. L + 1 |-> IF n <= L THEN f[n] ELSE g[<<L + 1, f[L]>>]]
    OBVIOUS
  <2>3. h \in [0 .. L + 1 -> V]
    <3>1. g[<<L + 1, f[L]>>] \in V
      OBVIOUS
    <3>2. \A n \in 0 .. L + 1 : n <= L => n \in 0 .. L
      OBVIOUS
    <3> QED BY <2>2, <3>1, <3>2
  <2>4. ASSUME NEW n \in 0 .. L + 1
        PROVE  h[n] = IF n = 0 THEN v0 ELSE g[<<n, h[n - 1]>>]
    <3>1. CASE n = 0
      BY <2>1, <2>2, <3>1 DEF Steps
    <3>2. CASE n \in 1 .. L
      <4>1. n - 1 \in 0 .. L + 1 /\ n - 1 <= L /\ n \in 0 .. L /\ n <= L /\ n # 0
        BY <3>2
      <4>2. h[n] = f[n] /\ h[n - 1] = f[n - 1]
        BY <2>2, <4>1
      <4>3. f[n] = g[<<n, f[n - 1]>>]
        BY <2>1, <4>1 DEF Steps
      <4> QED BY <4>1, <4>2, <4>3
    <3>3. CASE n = L + 1
      <4>1. ~(n <= L) /\ n - 1 = L /\ n # 0 /\ L \in 0 .. L + 1 /\ L <= L
        BY <3>3
      <4>2. h[n] = g[<<L + 1, f[L]>>] /\ h[n - 1] = f[L]
        BY <2>2, <4>1
      <4> QED BY <3>3, <4>1, <4>2
    <3> QED BY <3>1, <3>2, <3>3
  <2>5. Steps(h, L + 1, v0, g)
    <3>1. h = [n \in 0 .. L + 1 |-> h[n]]
      BY <2>3
    <3> QED BY <2>4, <3>1 DEF Steps
  <2> QED BY <2>3, <2>5
<1>3. \A n \in Nat : n \in S
  <2> HIDE DEF S
  <2> QED BY <1>1, <1>2, Induction
<1> QED BY <1>3

\* What a path, a page or a listing keeps is in it, and nothing else is.
LEMMA KeptIs ==
  ASSUME NEW X, NEW s \in Seq(X), NEW S
  PROVE  Kept(s, S) \in Seq(X) /\ ToSet(Kept(s, S)) = ToSet(s) \cap S
<1>1. PICK L \in Nat : L = Len(s) /\ DOMAIN s = 1 .. L
  OBVIOUS
<1> DEFINE P(k) == k = [n \in 0 .. L |->
                         IF n = 0 THEN <<>>
                         ELSE IF s[n] \in S THEN Append(k[n - 1], s[n])
                         ELSE k[n - 1]]
           kept == CHOOSE k : P(k)
           g == [a \in Nat \X Seq(X) |->
                   IF a[1] \in 1 .. L /\ s[a[1]] \in S
                     THEN Append(a[2], s[a[1]]) ELSE a[2]]
<1>2. g \in [Nat \X Seq(X) -> Seq(X)]
  <2>1. ASSUME NEW a \in Nat \X Seq(X), a[1] \in 1 .. L
        PROVE  Append(a[2], s[a[1]]) \in Seq(X)
    <3>1. s[a[1]] \in X /\ a[2] \in Seq(X)
      BY <1>1, <2>1
    <3> QED BY <3>1
  <2>2. \A a \in Nat \X Seq(X) : a[2] \in Seq(X)
    OBVIOUS
  <2> QED BY <2>1, <2>2
<1>3. PICK f \in [0 .. L -> Seq(X)] : Steps(f, L, <<>>, g)
  <2>1. <<>> \in Seq(X)
    OBVIOUS
  <2> HIDE DEF g
  <2> QED BY <1>2, <2>1, StepsExist
<1>4. P(f)
  <2>1. ASSUME NEW n \in 0 .. L, n # 0
        PROVE  g[<<n, f[n - 1]>>] = IF s[n] \in S THEN Append(f[n - 1], s[n])
                                     ELSE f[n - 1]
    <3>1. n \in Nat /\ n \in 1 .. L /\ n - 1 \in 0 .. L
      BY <2>1
    <3>2. <<n, f[n - 1]>> \in Nat \X Seq(X)
      BY <3>1
    <3> QED BY <3>1, <3>2
  <2>2. f = [n \in 0 .. L |-> IF n = 0 THEN <<>> ELSE g[<<n, f[n - 1]>>]]
    BY <1>3 DEF Steps
  <2> HIDE DEF g
  <2> QED BY <2>1, <2>2
<1>5. P(kept)
  <2> HIDE DEF P
  <2> QED BY <1>4
<1>6. Kept(s, S) = kept[L]
  BY <1>1 DEF Kept
<1> HIDE DEF kept
<1>7. /\ kept[0] = <<>>
      /\ \A n \in 1 .. L : kept[n] = IF s[n] \in S THEN Append(kept[n - 1], s[n])
                                      ELSE kept[n - 1]
  <2>1. PICK k : k = kept
    OBVIOUS
  <2>2. k = [n \in 0 .. L |->
               IF n = 0 THEN <<>>
               ELSE IF s[n] \in S THEN Append(k[n - 1], s[n])
               ELSE k[n - 1]]
    BY <1>5, <2>1
  <2> HIDE DEF P
  <2>3. 0 \in 0 .. L /\ \A n \in 1 .. L : n \in 0 .. L /\ n # 0
    OBVIOUS
  <2>4. k[0] = <<>>
    BY <2>2, <2>3, Zenon
  <2>5. \A n \in 1 .. L : k[n] = IF s[n] \in S THEN Append(k[n - 1], s[n])
                                  ELSE k[n - 1]
    BY <2>2, <2>3, Zenon
  <2> QED BY <2>1, <2>4, <2>5
<1> DEFINE I == {n \in Nat : n <= L =>
                   /\ kept[n] \in Seq(X)
                   /\ ToSet(kept[n]) = {s[i] : i \in 1 .. n} \cap S}
<1>8. 0 \in I
  <2>1. ToSet(<<>>) = {}
    BY DEF ToSet
  <2>2. {s[i] : i \in 1 .. 0} = {}
    OBVIOUS
  <2>3. kept[0] \in Seq(X) /\ ToSet(kept[0]) = {s[i] : i \in 1 .. 0} \cap S
    BY <1>7, <2>1, <2>2
  <2> QED BY <2>3
<1>9. ASSUME NEW n \in Nat, n \in I PROVE n + 1 \in I
  <2> SUFFICES ASSUME n + 1 <= L
               PROVE  /\ kept[n + 1] \in Seq(X)
                      /\ ToSet(kept[n + 1]) = {s[i] : i \in 1 .. n + 1} \cap S
    OBVIOUS
  <2>1. n + 1 \in 1 .. L /\ n + 1 - 1 = n /\ n <= L
    OBVIOUS
  <2>2. kept[n] \in Seq(X) /\ ToSet(kept[n]) = {s[i] : i \in 1 .. n} \cap S
    BY <1>9, <2>1
  <2>3. {s[i] : i \in 1 .. n + 1} = {s[i] : i \in 1 .. n} \cup {s[n + 1]}
    <3>1. 1 .. n + 1 = 1 .. n \cup {n + 1}
      OBVIOUS
    <3> QED BY <3>1
  <2>4. s[n + 1] \in X
    BY <1>1, <2>1
  <2>5. CASE s[n + 1] \in S
    <3>1. kept[n + 1] = Append(kept[n], s[n + 1])
      <4>1. PICK m : m = n + 1
        OBVIOUS
      <4>2. m \in 1 .. L /\ m - 1 = n /\ s[m] \in S
        BY <2>1, <2>5, <4>1
      <4>3. kept[m] = IF s[m] \in S THEN Append(kept[m - 1], s[m]) ELSE kept[m - 1]
        BY <1>7, <4>2, Zenon
      <4>4. kept[m] = Append(kept[n], s[m])
        BY <4>2, <4>3, Zenon
      <4> QED BY <4>1, <4>4, Zenon
    <3>2. PICK k : k = kept[n]
      OBVIOUS
    <3>3. Append(k, s[n + 1]) \in Seq(X)
          /\ ToSet(Append(k, s[n + 1])) = ToSet(k) \cup {s[n + 1]}
      <4>1. k \in Seq(X)
        BY <2>2, <3>2
      <4>2. /\ Append(k, s[n + 1]) \in Seq(X)
            /\ DOMAIN Append(k, s[n + 1]) = DOMAIN k \cup {Len(k) + 1}
            /\ \A i \in DOMAIN k : Append(k, s[n + 1])[i] = k[i]
            /\ Append(k, s[n + 1])[Len(k) + 1] = s[n + 1]
        <5>1. PICK x : x = s[n + 1]
          OBVIOUS
        <5>2. k \in Seq(X) /\ x \in X
          BY <2>4, <4>1, <5>1
        <5>3. /\ Append(k, x) \in Seq(X)
              /\ DOMAIN Append(k, x) = DOMAIN k \cup {Len(k) + 1}
              /\ \A i \in DOMAIN k : Append(k, x)[i] = k[i]
              /\ Append(k, x)[Len(k) + 1] = x
          BY <5>2, AppendKeeps
        <5> QED BY <5>1, <5>3
      <4>3. PICK t : t = Append(k, s[n + 1])
        OBVIOUS
      <4>4. {t[i] : i \in DOMAIN t} = {k[i] : i \in DOMAIN k} \cup {s[n + 1]}
        BY <4>2, <4>3
      <4> QED BY <4>2, <4>3, <4>4 DEF ToSet
    <3> QED BY <2>2, <2>3, <2>5, <3>1, <3>2, <3>3
  <2>6. CASE s[n + 1] \notin S
    <3>1. kept[n + 1] = kept[n]
      BY <1>7, <2>1, <2>6
    <3> QED BY <2>2, <2>3, <2>6, <3>1
  <2> QED BY <2>5, <2>6
<1>10. L \in I
  <2>1. \A n \in Nat : n \in I
    <3> HIDE DEF I
    <3> QED BY <1>8, <1>9, Induction
  <2> QED BY <2>1
<1>11. ToSet(s) = {s[i] : i \in 1 .. L}
  BY <1>1 DEF ToSet
<1> QED BY <1>6, <1>10, <1>11

-----------------------------------------------------------------------------
(* Which version is taken.                                                 *)

\* A version is a string, and none of the strings that stand for its absence.
LEMMA VersionType ==
  /\ \A v \in Version : v.sem \in Nat /\ v.raw # "" /\ v # NoVersion
  /\ NoVersion.sem = 0 /\ NoVersion.raw = ""
<1>1. NoVersion.sem = 0 /\ NoVersion.raw = ""
  BY DEF NoVersion
<1>2. ASSUME NEW v \in Version PROVE v.sem \in Nat /\ v.raw # ""
  BY DEF Version
<1> QED BY <1>1, <1>2

\* Newest first.
NewestFirst(s) == \A i, j \in DOMAIN s : i < j => s[i].sem >= s[j].sem

LEMMA CanBeSorted ==
  \A n \in Nat : \A V \in SUBSET Version :
    IsFiniteSet(V) /\ Cardinality(V) = n =>
      \E s \in [1 .. n -> V] : ToSet(s) = V /\ NewestFirst(s)
<1> DEFINE S == {n \in Nat : \A V \in SUBSET Version :
                   IsFiniteSet(V) /\ Cardinality(V) = n =>
                     \E s \in [1 .. n -> V] : ToSet(s) = V /\ NewestFirst(s)}
<1>1. 0 \in S
  <2> SUFFICES ASSUME NEW V \in SUBSET Version, IsFiniteSet(V), Cardinality(V) = 0
               PROVE  \E s \in [1 .. 0 -> V] : ToSet(s) = V /\ NewestFirst(s)
    OBVIOUS
  <2>1. V = {}
    BY FS_EmptySet
  <2>2. PICK s : s = [i \in 1 .. 0 |-> i]
    OBVIOUS
  <2>3. DOMAIN s = {} /\ s \in [1 .. 0 -> V]
    BY <2>2
  <2> QED BY <2>1, <2>3 DEF ToSet, NewestFirst
<1>2. ASSUME NEW n \in Nat, n \in S PROVE n + 1 \in S
  <2> SUFFICES ASSUME NEW V \in SUBSET Version, IsFiniteSet(V), Cardinality(V) = n + 1
               PROVE  \E s \in [1 .. n + 1 -> V] : ToSet(s) = V /\ NewestFirst(s)
    OBVIOUS
  <2>1. PICK v \in V : \A w \in V : v.sem <= w.sem
    <3>1. PICK T : T = {w.sem : w \in V}
      OBVIOUS
    <3>2. V # {}
      BY FS_EmptySet
    <3>3. T \subseteq Nat /\ T # {}
      BY <3>1, <3>2, VersionType
    <3>4. Min(T) \in T /\ \A y \in T : Min(T) <= y
      BY <3>3, Least
    <3>5. PICK v \in V : v.sem = Min(T)
      BY <3>1, <3>4
    <3>6. \A w \in V : v.sem <= w.sem
      BY <3>1, <3>4, <3>5
    <3> QED BY <3>6
  <2>2. PICK W : W = V \ {v}
    OBVIOUS
  <2>3. W \in SUBSET Version /\ IsFiniteSet(W) /\ Cardinality(W) = n
    <3>1. IsFiniteSet(W) /\ Cardinality(W) = Cardinality(V) - 1
      BY <2>2, FS_RemoveElement
    <3> QED BY <2>2, <3>1
  <2>4. PICK s \in [1 .. n -> W] : ToSet(s) = W /\ NewestFirst(s)
    BY <1>2, <2>3
  <2>5. PICK t : t = [i \in 1 .. n + 1 |-> IF i <= n THEN s[i] ELSE v]
    OBVIOUS
  <2>6. /\ DOMAIN t = 1 .. n + 1 /\ t[n + 1] = v
        /\ \A i \in 1 .. n : i \in 1 .. n + 1 /\ t[i] = s[i] /\ s[i] \in W
    BY <2>5
  <2>7. t \in [1 .. n + 1 -> V]
    BY <2>2, <2>5
  <2>8. ToSet(t) = V
    <3>1. {s[i] : i \in 1 .. n} = W
      BY <2>4 DEF ToSet
    <3>2. {t[i] : i \in 1 .. n + 1} = {s[i] : i \in 1 .. n} \cup {v}
      <4>1. 1 .. n + 1 = 1 .. n \cup {n + 1}
        OBVIOUS
      <4> QED BY <2>6, <4>1
    <3> QED BY <2>2, <2>6, <3>1, <3>2 DEF ToSet
  <2>9. NewestFirst(t)
    <3> SUFFICES ASSUME NEW i \in 1 .. n + 1, NEW j \in 1 .. n + 1, i < j
                 PROVE  t[i].sem >= t[j].sem
      BY <2>6 DEF NewestFirst
    <3>1. i \in 1 .. n /\ (j \in 1 .. n \/ j = n + 1)
      OBVIOUS
    <3>2. CASE j \in 1 .. n
      <4>1. s[i].sem >= s[j].sem
        BY <2>4, <3>1, <3>2 DEF NewestFirst
      <4> QED BY <2>6, <3>1, <3>2, <4>1
    <3>3. CASE j = n + 1
      <4>1. t[i] \in V /\ t[i].sem \in Nat /\ v.sem \in Nat
        BY <2>2, <2>6, <3>1, VersionType
      <4>2. v.sem <= t[i].sem /\ t[j] = v
        BY <2>1, <2>6, <3>3, <4>1
      <4> QED BY <4>1, <4>2
    <3> QED BY <3>1, <3>2, <3>3
  <2> QED BY <2>7, <2>8, <2>9
<1> QED
  <2>1. \A n \in Nat : n \in S
    <3> HIDE DEF S
    <3> QED BY <1>1, <1>2, Induction
  <2> QED BY <2>1

\* index.SortEntries sorts: it loses no version and puts the newest first.
LEMMA SortEntriesSorts ==
  ASSUME NEW V \in SUBSET Version, IsFiniteSet(V)
  PROVE  /\ SortEntries(V) \in Seq(Version) /\ ToSet(SortEntries(V)) = V
         /\ NewestFirst(SortEntries(V))
<1>1. PICK n \in Nat : n = Cardinality(V)
  BY FS_CardinalityType
<1>2. \E s \in [1 .. n -> V] : ToSet(s) = V /\ NewestFirst(s)
  BY <1>1, CanBeSorted
<1>3. SortEntries(V) = CHOOSE s \in [1 .. n -> V] : ToSet(s) = V /\ NewestFirst(s)
  BY <1>1 DEF SortEntries, NewestFirst
<1>4. /\ SortEntries(V) \in [1 .. n -> V]
      /\ ToSet(SortEntries(V)) = V /\ NewestFirst(SortEntries(V))
  BY <1>2, <1>3
<1>5. SortEntries(V) \in Seq(Version)
  <2>1. PICK s \in [1 .. n -> V] : s = SortEntries(V)
    BY <1>4
  <2>2. s \in [1 .. n -> Version]
    OBVIOUS
  <2>3. s \in Seq(Version)
    BY <2>2
  <2> QED BY <2>1, <2>3
<1> QED BY <1>4, <1>5

\* The version taken from an index: the one asked for, or the newest.
LEMMA SelectVersionSelects ==
  ASSUME NEW V \in SUBSET Version, IsFiniteSet(V), NEW want, NEW v,
         v = SelectVersion(SortEntries(V), want)
  PROVE  /\ v.sem \in Nat
         /\ v # NoVersion =>
              /\ v \in V /\ (want # "" => v.raw = want)
              /\ want = "" => \A w \in V : w.sem <= v.sem
<1>1. PICK s : s = SortEntries(V)
  OBVIOUS
<1>2. s \in Seq(Version) /\ ToSet(s) = V /\ NewestFirst(s)
  BY <1>1, SortEntriesSorts
<1>3. PICK n \in Nat : n = Len(s) /\ DOMAIN s = 1 .. n
  BY <1>2
<1>4. PICK fit : fit = {i \in 1 .. n : want = "" \/ s[i].raw = want}
  OBVIOUS
<1>5. v = IF fit = {} THEN NoVersion ELSE s[Min(fit)]
  BY <1>1, <1>3, <1>4 DEF SelectVersion
<1>6. CASE fit = {}
  <2>1. v = NoVersion
    BY <1>5, <1>6, Zenon
  <2>2. v.sem = 0
    BY <2>1, VersionType, Zenon
  <2> QED BY <2>1, <2>2
<1>7. CASE fit # {}
  <2>1. fit \subseteq Nat
    <3>1. fit \subseteq 1 .. n
      BY <1>4, Zenon
    <3> QED BY <3>1
  <2>2. PICK m : m = Min(fit)
    OBVIOUS
  <2>3. m \in fit /\ \A i \in fit : m <= i
    BY <1>7, <2>1, <2>2, Least
  <2>4. m \in 1 .. n /\ v = s[m] /\ (want = "" \/ s[m].raw = want)
    BY <1>4, <1>5, <1>7, <2>2, <2>3, Zenon
  <2>5. V = {s[i] : i \in 1 .. n}
    BY <1>2, <1>3 DEF ToSet
  <2>6. v \in V /\ v \in Version
    BY <2>4, <2>5
  <2>7. ASSUME want = "", NEW w \in V PROVE w.sem <= v.sem
    <3>1. PICK i \in 1 .. n : w = s[i]
      BY <2>5
    <3>2. m <= i
      <4>1. i \in fit
        BY <1>4, <2>7, Zenon
      <4> QED BY <2>3, <4>1
    <3>3. w.sem \in Nat /\ v.sem \in Nat
      BY <2>6, VersionType
    <3>4. CASE m = i
      <4>1. w = v
        BY <2>4, <3>1, <3>4, Zenon
      <4> QED BY <3>3, <4>1
    <3>5. CASE m # i
      <4>1. m < i
        <5>1. m \in 1 .. n
          BY <2>4, Zenon
        <5> QED BY <3>2, <3>5, <5>1
      <4>2. s[m].sem >= s[i].sem
        BY <1>2, <1>3, <2>4, <4>1 DEF NewestFirst
      <4>3. s[m] = v
        BY <2>4, Zenon
      <4> QED BY <3>1, <3>3, <4>2, <4>3
    <3> QED BY <3>4, <3>5
  <2> QED BY <2>4, <2>6, <2>7, VersionType
<1> QED BY <1>6, <1>7

\* The highest of a registry's tags is one of them, and none is higher.
LEMMA HighestSemverIs ==
  ASSUME NEW tags \in Seq(Version), tags # <<>>, NEW v, v = HighestSemver(tags)
  PROVE  v \in ToSet(tags) /\ v.sem \in Nat /\ \A w \in ToSet(tags) : w.sem <= v.sem
<1>1. PICK L \in Nat : L = Len(tags) /\ DOMAIN tags = 1 .. L
  OBVIOUS
<1>2. L # 0 /\ \A i \in 1 .. L : tags[i] \in Version
  BY <1>1
<1> DEFINE V == Version \cup {NoVersion}
           P(b) == b = [n \in 0 .. L |->
                         IF n = 0 THEN NoVersion
                         ELSE IF tags[n].sem > b[n - 1].sem THEN tags[n] ELSE b[n - 1]]
           best == CHOOSE b : P(b)
           g == [a \in Nat \X V |->
                   IF a[1] \in 1 .. L /\ tags[a[1]].sem > a[2].sem
                     THEN tags[a[1]] ELSE a[2]]
<1>3. g \in [Nat \X V -> V]
  <2>1. \A a \in Nat \X V : a[1] \in 1 .. L => tags[a[1]] \in V
    BY <1>2
  <2>2. \A a \in Nat \X V : a[2] \in V
    OBVIOUS
  <2> HIDE DEF V
  <2> QED BY <2>1, <2>2
<1>4. PICK f \in [0 .. L -> V] : Steps(f, L, NoVersion, g)
  <2>1. NoVersion \in V
    OBVIOUS
  <2> HIDE DEF g, V
  <2> QED BY <1>3, <2>1, StepsExist
<1>5. P(f)
  <2>1. ASSUME NEW n \in 0 .. L, n # 0
        PROVE  g[<<n, f[n - 1]>>] =
                 IF tags[n].sem > f[n - 1].sem THEN tags[n] ELSE f[n - 1]
    <3>1. n \in Nat /\ n \in 1 .. L /\ n - 1 \in 0 .. L
      BY <2>1
    <3>2. <<n, f[n - 1]>> \in Nat \X V
      <4> HIDE DEF V
      <4> QED BY <3>1
    <3> HIDE DEF V
    <3> QED BY <3>1, <3>2
  <2>2. f = [n \in 0 .. L |-> IF n = 0 THEN NoVersion ELSE g[<<n, f[n - 1]>>]]
    BY <1>4 DEF Steps
  <2> HIDE DEF g
  <2> QED BY <2>1, <2>2
<1>6. P(best)
  <2> HIDE DEF P
  <2> QED BY <1>5
<1>7. v = IF best[L].raw = "" THEN Head(tags) ELSE best[L]
  <2>1. v = LET bb == CHOOSE b : b = [n \in 0 .. Len(tags) |->
                         IF n = 0 THEN NoVersion
                         ELSE IF tags[n].sem > b[n - 1].sem THEN tags[n] ELSE b[n - 1]]
            IN  IF bb[Len(tags)].raw = "" THEN Head(tags) ELSE bb[Len(tags)]
    BY Zenon DEF HighestSemver
  <2> QED BY <1>1, <2>1, Zenon
<1> HIDE DEF best
<1>8. /\ best[0] = NoVersion
      /\ \A n \in 1 .. L : best[n] = IF tags[n].sem > best[n - 1].sem THEN tags[n]
                                      ELSE best[n - 1]
  <2>1. PICK b : b = best
    OBVIOUS
  <2>2. b = [n \in 0 .. L |->
               IF n = 0 THEN NoVersion
               ELSE IF tags[n].sem > b[n - 1].sem THEN tags[n] ELSE b[n - 1]]
    BY <1>6, <2>1
  <2> HIDE DEF P
  <2>3. 0 \in 0 .. L /\ \A n \in 1 .. L : n \in 0 .. L /\ n # 0
    OBVIOUS
  <2>4. b[0] = NoVersion
    BY <2>2, <2>3, Zenon
  <2>5. \A n \in 1 .. L : b[n] = IF tags[n].sem > b[n - 1].sem THEN tags[n]
                                  ELSE b[n - 1]
    BY <2>2, <2>3, Zenon
  <2> QED BY <2>1, <2>4, <2>5
<1> DEFINE I == {n \in Nat : n <= L =>
                   /\ best[n] \in {NoVersion} \cup {tags[i] : i \in 1 .. n}
                   /\ best[n].sem \in Nat
                   /\ \A i \in 1 .. n : tags[i].sem <= best[n].sem}
<1>9. 0 \in I
  <2>1. best[0].sem \in Nat
    <3>1. best[0].sem = 0
      BY <1>8, VersionType, Zenon
    <3> QED BY <3>1
  <2> QED BY <1>8, <2>1
<1>10. ASSUME NEW n \in Nat, n \in I PROVE n + 1 \in I
  <2> SUFFICES ASSUME n + 1 <= L
               PROVE  /\ best[n + 1] \in {NoVersion} \cup {tags[i] : i \in 1 .. n + 1}
                      /\ best[n + 1].sem \in Nat
                      /\ \A i \in 1 .. n + 1 : tags[i].sem <= best[n + 1].sem
    OBVIOUS
  <2>1. PICK m : m = n + 1
    OBVIOUS
  <2>2. m \in 1 .. L /\ m - 1 = n /\ n <= L /\ \A i \in 1 .. m : i \in 1 .. n \/ i = m
    BY <2>1
  <2>3. /\ best[n] \in {NoVersion} \cup {tags[i] : i \in 1 .. n}
        /\ best[n].sem \in Nat
        /\ \A i \in 1 .. n : tags[i].sem <= best[n].sem
    BY <1>10, <2>2
  <2>4. best[m] = IF tags[m].sem > best[n].sem THEN tags[m] ELSE best[n]
    <3>1. best[m] = IF tags[m].sem > best[m - 1].sem THEN tags[m] ELSE best[m - 1]
      BY <1>8, <2>2, Zenon
    <3> QED BY <2>2, <3>1, Zenon
  <2>5. \A i \in 1 .. m : tags[i].sem \in Nat
    <3>1. \A i \in 1 .. m : i \in 1 .. L
      BY <2>2
    <3> QED BY <1>2, <3>1, VersionType, Zenon
  <2>6. {tags[i] : i \in 1 .. n} \subseteq {tags[i] : i \in 1 .. m} /\ m \in 1 .. m
    BY <2>1
  <2>7. best[m] \in {NoVersion} \cup {tags[i] : i \in 1 .. m}
    BY <2>3, <2>4, <2>6
  <2>8. best[m].sem \in Nat
    BY <2>3, <2>4, <2>5, <2>6
  <2>9. ASSUME NEW i \in 1 .. m PROVE tags[i].sem <= best[m].sem
    <3>1. tags[i].sem \in Nat /\ tags[m].sem \in Nat /\ best[n].sem \in Nat
      BY <2>3, <2>5, <2>6
    <3>2. i = m \/ tags[i].sem <= best[n].sem
      BY <2>2, <2>3
    <3> QED BY <2>4, <3>1, <3>2
  <2> QED BY <2>1, <2>7, <2>8, <2>9
<1>11. L \in I
  <2>1. \A n \in Nat : n \in I
    <3> HIDE DEF I
    <3> QED BY <1>9, <1>10, Induction
  <2> QED BY <2>1
<1>12. ToSet(tags) = {tags[i] : i \in 1 .. L}
  BY <1>1 DEF ToSet
<1>13. CASE best[L].raw = ""
  <2>1. best[L] = NoVersion
    <3>1. best[L] \in {NoVersion} \cup {tags[i] : i \in 1 .. L}
      BY <1>11
    <3> QED BY <1>2, <1>13, <3>1, VersionType, Zenon
  <2>2. v = tags[1] /\ 1 \in 1 .. L
    <3>1. v = Head(tags)
      BY <1>7, <1>13, Zenon
    <3>2. L \in Nat \ {0}
      BY <1>2
    <3> QED BY <1>1, <3>1, <3>2
  <2>3. v \in Version /\ v.sem \in Nat
    BY <1>2, <2>2, VersionType
  <2>4. ASSUME NEW i \in 1 .. L PROVE tags[i].sem <= v.sem
    <3>1. tags[i].sem \in Nat
      BY <1>2, VersionType, Zenon
    <3>2. tags[i].sem <= best[L].sem
      BY <1>11
    <3>3. best[L].sem = 0
      BY <2>1, VersionType, Zenon
    <3> QED BY <2>3, <3>1, <3>2, <3>3
  <2> QED BY <1>12, <2>2, <2>3, <2>4
<1>14. CASE best[L].raw # ""
  <2>1. v = best[L] /\ best[L] # NoVersion
    BY <1>7, <1>14, VersionType
  <2> QED BY <1>11, <1>12, <2>1
<1> QED BY <1>13, <1>14

-----------------------------------------------------------------------------
(* What is asked for stays, and what an index or a registry yields is it.  *)

\* Nobody but Move changes what the command is about, and Move only a branch.
LEMMA WorldStays ==
  [Next]_vars =>
    /\ res' = res /\ catalog' = catalog
    /\ site' = site \/ \E tree \in Heads : site' = [site EXCEPT !.branch = tree]
  BY DEF Next, Step, UnknownResource, GitResolve, LatestRelease, LatestReleaseFails,
     ListPage, ListFails, Route, HttpResolve, Probe, ImageResolve, Dispatch,
     DispatchFails, FetchChartYaml, FetchChartYamlFails, FetchMember,
     FetchMemberFails, LoadChart, ReviewValues, FetchIndex, FetchIndexFails,
     FetchArchive, FetchArchiveFails, FetchManifest, FetchManifestFails, Walk, WalkFails,
     Materialized, Move, Fail, vars

\* Where a version may have been taken, and where a step other than taking one
\* leads from there.
Late == {"archive", "values", "handed", "failed"}
Passed == \/ pc' = pc
          \/ pc' = "failed"
          \/ pc = "values" /\ pc' = "handed"
          \/ pc \notin Late

\* Only two steps take a version, and a failed command takes no step.
LEMMA OnlyTheseChoose ==
  [Next]_vars => \/ chosen' = chosen /\ Passed /\ (pc = "failed" => pc' = "failed")
                 \/ FetchIndex \/ FetchArchive
<1> SUFFICES ASSUME [Next]_vars, ~FetchIndex, ~FetchArchive
             PROVE  chosen' = chosen /\ Passed /\ (pc = "failed" => pc' = "failed")
  OBVIOUS
<1> USE DEF Passed, Late
<1>1. CASE UnknownResource \/ LatestReleaseFails \/ ListFails \/ DispatchFails
           \/ FetchChartYamlFails \/ FetchMemberFails \/ FetchIndexFails
           \/ FetchArchiveFails \/ FetchManifestFails
  BY <1>1 DEF UnknownResource, LatestReleaseFails, ListFails, DispatchFails,
     FetchChartYamlFails, FetchMemberFails, FetchIndexFails, FetchArchiveFails,
     FetchManifestFails, Fail, local
<1>2. CASE GitResolve \/ LatestRelease \/ ListPage \/ Route \/ HttpResolve \/ Probe
           \/ ImageResolve
  BY <1>2 DEF GitResolve, LatestRelease, ListPage, Route, HttpResolve, Probe,
     ImageResolve, WithRef, Resolves, local
<1>3. CASE Dispatch \/ FetchChartYaml \/ FetchMember \/ LoadChart \/ ReviewValues
           \/ FetchManifest \/ Walk \/ WalkFails \/ Materialized \/ Move
  BY <1>3 DEF Dispatch, FetchChartYaml, FetchMember, LoadChart, ReviewValues,
     FetchManifest, Walk, WalkFails, Materialized, Move, Over, local
<1>4. CASE UNCHANGED vars
  BY <1>4 DEF vars, local
<1> QED BY <1>1, <1>2, <1>3, <1>4 DEF Next, Step

\* The command is about one resource and one catalog.
Looked == \E w \in Worlds : res = w.res /\ catalog = w.catalog

LEMMA LookedStays == (Init => Looked) /\ (Looked /\ [Next]_vars => Looked')
  BY WorldStays DEF Init, Looked

\* ChooseChart names an entry of the index.
LEMMA ChooseChartChooses ==
  ASSUME NEW names, NEW base, NEW want
  PROVE  ChooseChart(names, base, want) = "" \/
           \E n \in names : /\ n = ChooseChart(names, base, want)
                            /\ n \in {want, base} \/ (want = "" /\ names = {n})
<1>0. PICK n : n = ChooseChart(names, base, want)
  OBVIOUS
<1>1. PICK sole : sole = {x \in names : names = {x}}
  OBVIOUS
<1>2. n = IF want # "" THEN IF want \in names THEN want ELSE ""
          ELSE IF base \in names THEN base
          ELSE IF sole # {} THEN CHOOSE x \in sole : TRUE
          ELSE ""
  BY <1>0, <1>1, Zenon DEF ChooseChart
<1>3. sole # {} => (CHOOSE x \in sole : TRUE) \in sole
  OBVIOUS
<1>4. n = "" \/ (n \in {want, base} /\ n \in names) \/ (want = "" /\ n \in sole)
  BY <1>2, <1>3
<1> QED BY <1>0, <1>1, <1>4

\* PinnedOrNewest: the chart, ...
InIndex ==
  \/ chosen.chart \in {res.chart, Base}
  \/ res.chart = "" /\ DOMAIN catalog.index = {chosen.chart}

\* ... its version in the index, ...
Taken ==
  /\ res.version # "" => chosen.version.raw = res.version
  /\ res.version = "" =>
       chosen.version \in catalog.index[chosen.chart]
       /\ \A v \in catalog.index[chosen.chart] : v.sem <= chosen.version.sem

\* ... and the version that is fetched.
Picked ==
  LET offered == IF Indexed /\ ~NoTag THEN catalog.index[chosen.chart]
                 ELSE ToSet(catalog.tags)
      pinned == res.version # "" /\ ~(Indexed /\ FromRegistry /\ NoTag)
  IN  /\ pinned => chosen.version.raw = res.version
      /\ ~pinned /\ ~(res.tagged /\ ~Indexed) =>
           chosen.version \in offered
           /\ \A v \in offered : v.sem <= chosen.version.sem

ChosenInv ==
  /\ chosen.version.sem \in Nat
  /\ chosen # Nothing => pc \in Late
  /\ Indexed /\ pc # "failed" => InIndex
  /\ chosen # Nothing /\ pc = "archive" => Indexed /\ Taken
  /\ chosen # Nothing /\ pc \in {"values", "handed"} => Picked

LEMMA ChosenInitially == Init => ChosenInv
<1>1. Nothing.version.sem = 0 /\ Nothing.chart = ""
  BY DEF Nothing, NoVersion
<1> SUFFICES ASSUME Init PROVE ChosenInv
  OBVIOUS
<1>2. chosen = Nothing
  BY DEF Init
<1>3. chosen.version.sem \in Nat
  <2>1. 0 \in Nat
    OBVIOUS
  <2> QED BY <1>1, <1>2, <2>1, Zenon
<1>4. chosen.chart = ""
  BY <1>1, <1>2
<1>5. ~Indexed
  BY <1>4 DEF Indexed
<1> QED BY <1>2, <1>3, <1>5, Zenon DEF ChosenInv

\* The URL and the way to it stay what they are while a chart is fetched.
LEMMA WayStays ==
  ASSUME res' = res, catalog' = catalog, chosen'.chart = chosen.chart
  PROVE  /\ Indexed' <=> Indexed
         /\ FromRegistry' <=> FromRegistry
         /\ NoTag' <=> NoTag
         /\ InIndex' <=> InIndex
  BY DEF Indexed, FromRegistry, NoTag, InIndex, Base

LEMMA ChosenInductive == Looked /\ ChosenInv /\ [Next]_vars => ChosenInv'
<1> SUFFICES ASSUME Looked, ChosenInv, [Next]_vars PROVE ChosenInv'
  OBVIOUS
<1>0. Indexed => chosen # Nothing
  <2>1. Nothing.chart = ""
    BY DEF Nothing
  <2> QED BY <2>1 DEF Indexed
<1>1. res' = res /\ catalog' = catalog
  BY WorldStays
<1>2. CASE chosen' = chosen /\ Passed /\ (pc = "failed" => pc' = "failed")
  <2>1. /\ Indexed' <=> Indexed
        /\ FromRegistry' <=> FromRegistry
        /\ NoTag' <=> NoTag
        /\ InIndex' <=> InIndex
    BY <1>1, <1>2, WayStays
  <2>2. Taken' <=> Taken
    BY <1>1, <1>2 DEF Taken
  <2>3. Picked' <=> Picked
    BY <1>1, <1>2, <2>1 DEF Picked
  <2>4. Nothing' = Nothing
    BY DEF Nothing
  <2>5. /\ chosen # Nothing => pc' \in Late
        /\ chosen # Nothing /\ pc' = "archive" => pc = "archive"
        /\ chosen # Nothing /\ pc' \in {"values", "handed"} => pc \in {"values", "handed"}
    BY <1>2 DEF ChosenInv, Passed, Late
  <2>6. chosen'.version.sem \in Nat
    BY <1>2 DEF ChosenInv
  <2>7. Indexed' /\ pc' # "failed" => InIndex'
    BY <1>2, <2>1 DEF ChosenInv
  <2>8. chosen' # Nothing' /\ pc' = "archive" => Indexed' /\ Taken'
    BY <1>2, <2>1, <2>2, <2>4, <2>5 DEF ChosenInv
  <2>9. chosen' # Nothing' /\ pc' \in {"values", "handed"} => Picked'
    BY <1>2, <2>3, <2>4, <2>5 DEF ChosenInv
  <2>10. chosen' # Nothing' => pc' \in Late
    BY <1>2, <2>4, <2>5
  <2> QED BY <2>6, <2>7, <2>8, <2>9, <2>10 DEF ChosenInv, Late
<1>3. CASE FetchIndex
  <2>1. PICK name : name = ChooseChart(DOMAIN catalog.index, Base, res.chart)
    OBVIOUS
  <2>2. CASE name = ""
    BY <1>2, <1>3, <2>1, <2>2 DEF FetchIndex, local, Passed
  <2>3. CASE name # ""
    <3>1. PICK V, version :
            /\ V = catalog.index[name]
            /\ version = SelectVersion(SortEntries(V), res.version)
      OBVIOUS
    <3>2. /\ chosen' = [chart |-> name, version |-> version]
          /\ pc' = IF version = NoVersion THEN "failed" ELSE "archive"
      BY <1>3, <2>1, <2>3, <3>1 DEF FetchIndex
    <3>3. /\ name \in DOMAIN catalog.index
          /\ \/ name \in {res.chart, Base}
             \/ res.chart = "" /\ DOMAIN catalog.index = {name}
      <4>1. PICK names, base, want :
              names = DOMAIN catalog.index /\ base = Base /\ want = res.chart
        OBVIOUS
      <4>2. name = ChooseChart(names, base, want)
        BY <2>1, <4>1
      <4>3. \E n \in names : /\ n = ChooseChart(names, base, want)
                             /\ n \in {want, base} \/ (want = "" /\ names = {n})
        <5>1. ChooseChart(names, base, want) # ""
          BY <2>3, <4>2
        <5> QED BY <5>1, ChooseChartChooses
      <4>4. name \in names /\ (name \in {want, base} \/ (want = "" /\ names = {name}))
        BY <4>2, <4>3
      <4> QED BY <4>1, <4>4
    <3>4. V \in SUBSET Version /\ IsFiniteSet(V)
      BY <3>1, <3>3, CatalogAssumption DEF Looked
    <3>5. /\ version.sem \in Nat
          /\ version # NoVersion =>
               /\ version \in V /\ (res.version # "" => version.raw = res.version)
               /\ res.version = "" => \A w \in V : w.sem <= version.sem
      BY <3>1, <3>4, SelectVersionSelects
    <3>6. chosen'.chart = name /\ chosen'.version = version
      BY <3>2
    <3>7. Indexed' /\ InIndex'
      BY <1>1, <2>3, <3>3, <3>6 DEF Indexed, InIndex, Base
    <3>8. version # NoVersion => Taken'
      BY <1>1, <3>1, <3>5, <3>6 DEF Taken
    <3> QED BY <3>2, <3>5, <3>6, <3>7, <3>8 DEF ChosenInv, Late
  <2> QED BY <2>2, <2>3
<1>4. CASE FetchArchive
  <2>1. /\ pc = "archive" /\ pc' = "values"
        /\ chosen' = IF FromRegistry THEN [chart |-> chosen.chart, version |-> OciTag] ELSE chosen
    BY <1>4 DEF FetchArchive
  <2>2. Indexed => Taken /\ InIndex
    BY <1>0, <2>1 DEF ChosenInv
  <2>3. ASSUME chosen'.chart = chosen.chart, chosen'.version.sem \in Nat,
               chosen' # Nothing => Picked'
        PROVE  ChosenInv'
    <3>1. (Indexed' <=> Indexed) /\ (InIndex' <=> InIndex)
      BY <1>1, <2>3, WayStays
    <3> QED BY <2>1, <2>2, <2>3, <3>1 DEF ChosenInv, Late
  <2>4. CASE ~FromRegistry
    <3>1. chosen' = chosen
      BY <2>1, <2>4
    <3>2. (Indexed' <=> Indexed) /\ ~FromRegistry' /\ (NoTag' <=> NoTag)
      BY <1>1, <2>4, <3>1, WayStays
    <3>3. ASSUME chosen # Nothing PROVE Picked'
      <4>1. Indexed /\ Taken
        BY <2>1, <3>3 DEF ChosenInv
      <4>2. ~NoTag
        BY <2>4, <4>1 DEF NoTag, FromRegistry
      <4> QED BY <1>1, <3>1, <3>2, <4>1, <4>2 DEF Picked, Taken
    <3>4. Nothing' = Nothing
      BY DEF Nothing
    <3> QED BY <2>3, <3>1, <3>3, <3>4 DEF ChosenInv
  <2>5. CASE FromRegistry
    <3>1. chosen'.chart = chosen.chart /\ chosen'.version = OciTag
      BY <2>1, <2>5
    <3>2. (Indexed' <=> Indexed) /\ FromRegistry' /\ (NoTag' <=> NoTag)
      BY <1>1, <2>5, <3>1, WayStays
    <3>3. CASE NoTag
      <4>1. PICK tags : tags = catalog.tags
        OBVIOUS
      <4>2. tags \in Seq(Version) /\ tags # <<>>
        BY <1>4, <2>5, <3>3, <4>1, CatalogAssumption DEF Looked, FetchArchive
      <4>3. OciTag = HighestSemver(tags)
        BY <3>3, <4>1 DEF OciTag
      <4>4. /\ OciTag \in ToSet(tags) /\ OciTag.sem \in Nat
            /\ \A w \in ToSet(tags) : w.sem <= OciTag.sem
        BY <4>2, <4>3, HighestSemverIs
      <4>5. ~Indexed => res.version = ""
        BY <3>3 DEF NoTag
      <4>6. Picked'
        BY <1>1, <3>1, <3>2, <3>3, <4>1, <4>4, <4>5 DEF Picked
      <4> QED BY <2>3, <3>1, <4>4, <4>6
    <3>4. CASE ~NoTag /\ Indexed
      <4>1. OciTag = chosen.version
        BY <3>4 DEF OciTag
      <4>2. Picked'
        BY <1>1, <2>2, <3>1, <3>2, <3>4, <4>1 DEF Picked, Taken
      <4> QED BY <2>3, <3>1, <4>1, <4>2 DEF ChosenInv
    <3>5. CASE ~NoTag /\ ~Indexed
      <4>1. /\ OciTag.sem = 0
            /\ res.version # "" => OciTag.raw = res.version
            /\ res.version # "" \/ res.tagged
        BY <3>5 DEF OciTag, NoTag
      <4>2. /\ chosen'.version.sem = 0
            /\ res.version # "" => chosen'.version.raw = res.version
        BY <3>1, <4>1, Zenon
      <4>3. Picked'
        BY <1>1, <3>1, <3>2, <3>5, <4>1, <4>2, Zenon DEF Picked
      <4>4. chosen'.version.sem \in Nat
        <5>1. 0 \in Nat
          OBVIOUS
        <5> QED BY <4>2, <5>1, Zenon
      <4> QED BY <2>3, <3>1, <4>3, <4>4
    <3> QED BY <3>3, <3>4, <3>5
  <2> QED BY <2>4, <2>5
<1> QED BY <1>2, <1>3, <1>4, OnlyTheseChoose

(***************************************************************************)
(* Whatever an index or a registry offers, and in whatever order it lists  *)
(* it: what is taken is what the query parameters ask for, and without     *)
(* them the newest version of the only chart that can be meant; but the    *)
(* newest in the registry where the index's reference has no tag.          *)
(***************************************************************************)
THEOREM TakesPinnedOrNewest == Spec => []PinnedOrNewest
<1>1. ChosenInv => PinnedOrNewest
  BY DEF ChosenInv, Picked, InIndex, PinnedOrNewest
<1> QED
  BY <1>1, LookedStays, ChosenInitially, ChosenInductive, PTL DEF Spec

-----------------------------------------------------------------------------
(* Listings.                                                               *)

Request == [dir : Path, from : Nat \ {0}]

\* A stretch of a sequence.
LEMMA Cut ==
  ASSUME NEW X, NEW s \in Seq(X), NEW i \in Nat \ {0}, NEW k \in Nat, k <= Len(s),
         NEW t, t = SubSeq(s, i, k)
  PROVE  /\ t \in Seq(X) /\ ToSet(t) \subseteq ToSet(s)
         /\ \A j \in i .. k : s[j] \in ToSet(t)
<1>1. i \in Int /\ k \in Int /\ Len(s) \in Nat /\ DOMAIN s = 1 .. Len(s)
  OBVIOUS
<1>2. \A j \in i .. k : s[j] \in X
  BY <1>1
<1>3. /\ t \in Seq(X) /\ Len(t) = IF i <= k THEN k - i + 1 ELSE 0
      /\ \A j \in 1 .. k - i + 1 : t[j] = s[i + j - 1]
  BY <1>1, <1>2, SubSeqProperties
<1>4. DOMAIN t = 1 .. Len(t)
  BY <1>3
<1>5. ASSUME NEW j \in i .. k PROVE s[j] \in ToSet(t)
  <2>1. j - i + 1 \in 1 .. k - i + 1 /\ i <= k /\ i + (j - i + 1) - 1 = j
    BY <1>1
  <2>2. t[j - i + 1] = s[j] /\ j - i + 1 \in DOMAIN t
    BY <1>3, <1>4, <2>1
  <2> QED BY <2>2 DEF ToSet
<1>6. ASSUME NEW j \in DOMAIN t PROVE t[j] \in ToSet(s)
  <2>1. j \in 1 .. k - i + 1
    BY <1>1, <1>3, <1>4
  <2>2. i + j - 1 \in DOMAIN s /\ t[j] = s[i + j - 1]
    BY <1>1, <1>3, <2>1
  <2> QED BY <2>2 DEF ToSet
<1>7. ToSet(t) \subseteq ToSet(s)
  BY <1>6 DEF ToSet
<1> QED BY <1>3, <1>5, <1>7

\* A page has what is listed from its first entry on, but for what the request
\* for the next page is for.
LEMMA PageIs ==
  ASSUME NEW X, NEW all \in Seq(X), NEW req \in Request
  PROVE  /\ PageOf(all, req.from) \in Seq(X)
         /\ ToSet(PageOf(all, req.from)) \subseteq ToSet(all)
         /\ NextPage(all, req) \in Seq(Request)
         /\ \A i \in DOMAIN all :
              i >= req.from =>
                \/ all[i] \in ToSet(PageOf(all, req.from))
                \/ /\ NextPage(all, req) = <<[dir |-> req.dir, from |-> req.from + PageSize]>>
                   /\ i >= req.from + PageSize
<1>1. PICK from, L, n : /\ from = req.from /\ L = Len(all)
                        /\ n = Upto(all, from + PageSize - 1)
  OBVIOUS
<1>2. /\ from \in Nat \ {0} /\ L \in Nat /\ PageSize \in Nat \ {0} /\ DOMAIN all = 1 .. L
      /\ req.dir \in Path
  BY <1>1, GitTreeAssumption DEF Request
<1>3. /\ n \in Nat /\ n <= L
      /\ n = IF from + PageSize - 1 < L THEN from + PageSize - 1 ELSE L
  BY <1>1, <1>2 DEF Upto
<1>4. PICK t : t = SubSeq(all, from, n)
  OBVIOUS
<1>5. PageOf(all, req.from) = t
  BY <1>1, <1>4 DEF PageOf
<1>6. /\ t \in Seq(X) /\ ToSet(t) \subseteq ToSet(all)
      /\ \A j \in from .. n : all[j] \in ToSet(t)
  <2>1. from \in Nat \ {0} /\ n \in Nat /\ n <= Len(all)
    BY <1>1, <1>2, <1>3
  <2> QED BY <1>4, <2>1, Cut
<1>7. PICK next : next = [dir |-> req.dir, from |-> from + PageSize]
  OBVIOUS
<1>8. next \in Request
  BY <1>2, <1>7 DEF Request
<1>9. NextPage(all, req) = IF from + PageSize > L THEN <<>> ELSE <<next>>
  BY <1>1, <1>7 DEF NextPage
<1>10. NextPage(all, req) \in Seq(Request)
  BY <1>8, <1>9
<1>11. ASSUME NEW i \in DOMAIN all, i >= from, ~(i <= n)
       PROVE  ~(from + PageSize > L) /\ i >= from + PageSize
  BY <1>2, <1>3, <1>11
<1>12. ASSUME NEW i \in DOMAIN all, i >= from
       PROVE  \/ all[i] \in ToSet(t)
              \/ NextPage(all, req) = <<next>> /\ i >= from + PageSize
  <2>1. CASE i <= n
    <3>1. i \in from .. n
      BY <1>2, <1>3, <1>12, <2>1
    <3> QED BY <1>6, <3>1
  <2>2. CASE ~(i <= n)
    BY <1>9, <1>11, <1>12, <2>2
  <2> QED BY <2>1, <2>2
<1> QED BY <1>1, <1>5, <1>6, <1>7, <1>10, <1>12

\* What is listed of a tree are its files and directories.
LEMMA EntriesAre ==
  ASSUME NEW T, IsTree(T)
  PROVE  /\ T \cup Directories(T) \subseteq Path
         /\ TreeEntries(T) \in Seq(Path) /\ ToSet(TreeEntries(T)) = T \cup Directories(T)
         /\ \A dir : /\ Children(T, dir) \in Seq(Path)
                     /\ ToSet(Children(T, dir)) = {p \in T \cup Directories(T) : Front(p) = dir}
<1>1. PICK all : all = T \cup Directories(T)
  OBVIOUS
<1>2. Order \in Seq(Path) /\ all \subseteq ToSet(Order)
  BY <1>1, TreesAssumption DEF IsTree
<1>3. all \subseteq Path
  BY <1>2 DEF ToSet
<1>4. TreeEntries(T) = Kept(Order, all)
  BY <1>1 DEF TreeEntries
<1>5. TreeEntries(T) \in Seq(Path) /\ ToSet(TreeEntries(T)) = all
  <2>1. Kept(Order, all) \in Seq(Path) /\ ToSet(Kept(Order, all)) = ToSet(Order) \cap all
    BY <1>2, KeptIs
  <2> QED BY <1>2, <1>4, <2>1
<1>6. ASSUME NEW dir
      PROVE  /\ Children(T, dir) \in Seq(Path)
             /\ ToSet(Children(T, dir)) = {p \in all : Front(p) = dir}
  <2>1. PICK S : S = {p \in all : Front(p) = dir}
    OBVIOUS
  <2>2. Children(T, dir) = Kept(Order, S)
    BY <1>1, <2>1 DEF Children
  <2>3. S \subseteq ToSet(Order)
    BY <1>2, <2>1
  <2> QED BY <1>2, <2>1, <2>2, <2>3, KeptIs
<1> QED BY <1>1, <1>3, <1>5, <1>6

LEMMA Joined ==
  ASSUME NEW X, NEW s \in Seq(X), NEW t \in Seq(X)
  PROVE  s \o t \in Seq(X) /\ ToSet(s \o t) = ToSet(s) \cup ToSet(t)
<1>1. PICK u, m, n : u = s \o t /\ m = Len(s) /\ n = Len(t)
  OBVIOUS
<1>2. /\ m \in Nat /\ n \in Nat /\ DOMAIN s = 1 .. m /\ DOMAIN t = 1 .. n
      /\ u \in Seq(X) /\ DOMAIN u = 1 .. m + n
      /\ \A i \in 1 .. m + n : u[i] = IF i <= m THEN s[i] ELSE t[i - m]
  <2>1. /\ s \o t \in Seq(X) /\ Len(s \o t) = Len(s) + Len(t)
        /\ \A i \in 1 .. Len(s) + Len(t) :
             (s \o t)[i] = IF i <= Len(s) THEN s[i] ELSE t[i - Len(s)]
    BY ConcatProperties
  <2> QED BY <1>1, <2>1
<1>3. ASSUME NEW i \in DOMAIN u PROVE u[i] \in ToSet(s) \cup ToSet(t)
  <2>1. CASE i <= m
    <3>1. i \in DOMAIN s /\ u[i] = s[i]
      BY <1>2, <2>1
    <3> QED BY <3>1 DEF ToSet
  <2>2. CASE ~(i <= m)
    <3>1. i - m \in DOMAIN t /\ u[i] = t[i - m]
      BY <1>2, <2>2
    <3> QED BY <3>1 DEF ToSet
  <2> QED BY <2>1, <2>2
<1>4. ASSUME NEW i \in DOMAIN s PROVE s[i] \in ToSet(u)
  <2>1. i \in DOMAIN u /\ u[i] = s[i]
    BY <1>2
  <2> QED BY <2>1 DEF ToSet
<1>5. ASSUME NEW i \in DOMAIN t PROVE t[i] \in ToSet(u)
  <2>1. m + i \in DOMAIN u /\ ~(m + i <= m) /\ (m + i) - m = i
    BY <1>2
  <2>2. u[m + i] = t[i]
    BY <1>2, <2>1
  <2> QED BY <2>1, <2>2 DEF ToSet
<1>6. ToSet(u) = ToSet(s) \cup ToSet(t)
  BY <1>3, <1>4, <1>5 DEF ToSet
<1> QED BY <1>1, <1>2, <1>6

\* What a request still brings of a tree.
Covers(host, T, req, p) ==
  /\ host = "gitlab" =>
       \E i \in DOMAIN TreeEntries(T) : i >= req.from /\ TreeEntries(T)[i] = p
  /\ host = "bitbucket" =>
       /\ Len(req.dir) < Len(p) /\ SubSeq(p, 1, Len(req.dir)) = req.dir
       /\ \E i \in DOMAIN Children(T, req.dir) :
            /\ i >= req.from
            /\ Children(T, req.dir)[i] = SubSeq(p, 1, Len(req.dir) + 1)

\* An answer has files of the tree only, and all that the request was to bring,
\* but for what the requests it leads to will.
Brings(host, T, req, a) ==
  /\ a.files \in Seq(Path) /\ ToSet(a.files) \subseteq T
  /\ a.more \in Seq(Request)
  /\ (host = "github" => Len(TreeEntries(T)) <= TreeLimit) =>
       \A p \in T : Covers(host, T, req, p) =>
         p \in ToSet(a.files) \/ \E q \in ToSet(a.more) : Covers(host, T, q, p)

LEMMA OneOf == ASSUME NEW x PROVE x \in ToSet(<<x>>)
  BY DEF ToSet

LEMMA GitHubBrings ==
  ASSUME NEW T, IsTree(T), NEW req \in Request
  PROVE  Brings("github", T, req, GitHubPage(T, req))
<1>1. PICK all : all = TreeEntries(T)
  OBVIOUS
<1>2. all \in Seq(Path) /\ T \subseteq ToSet(all)
  BY <1>1, EntriesAre
<1>3. PICK n, t : n = Upto(all, TreeLimit) /\ t = SubSeq(all, 1, n)
  OBVIOUS
<1>4. /\ n \in Nat /\ n <= Len(all) /\ 1 \in Nat \ {0}
      /\ Len(all) <= TreeLimit => n = Len(all)
  <2>1. Len(all) \in Nat /\ TreeLimit \in Nat
    BY <1>2, GitTreeAssumption
  <2> QED BY <1>3, <2>1 DEF Upto
<1>5. t \in Seq(Path)
  BY <1>2, <1>3, <1>4, Cut
<1>6. Len(all) <= TreeLimit => t = all
  BY <1>2, <1>3, <1>4, SubSeqFull
<1>7. PICK f : f = Kept(t, T)
  OBVIOUS
<1>8. f \in Seq(Path) /\ ToSet(f) = ToSet(t) \cap T
  BY <1>5, <1>7, KeptIs
<1>9. GitHubPage(T, req) = [files |-> f, more |-> <<>>]
  BY <1>1, <1>3, <1>7 DEF GitHubPage, FilesIn
<1> QED BY <1>1, <1>2, <1>6, <1>8, <1>9 DEF Brings

LEMMA GitLabBrings ==
  ASSUME NEW T, IsTree(T), NEW req \in Request
  PROVE  Brings("gitlab", T, req, GitLabPage(T, req))
<1>1. PICK all : all = TreeEntries(T)
  OBVIOUS
<1>2. all \in Seq(Path)
  BY <1>1, EntriesAre
<1>3. PICK t, next : t = PageOf(all, req.from) /\ next = NextPage(all, req)
  OBVIOUS
<1>4. /\ t \in Seq(Path) /\ next \in Seq(Request)
      /\ \A i \in DOMAIN all :
           i >= req.from =>
             \/ all[i] \in ToSet(t)
             \/ /\ next = <<[dir |-> req.dir, from |-> req.from + PageSize]>>
                /\ i >= req.from + PageSize
  BY <1>2, <1>3, PageIs
<1>5. PICK f : f = Kept(t, T)
  OBVIOUS
<1>6. f \in Seq(Path) /\ ToSet(f) = ToSet(t) \cap T
  BY <1>4, <1>5, KeptIs
<1>7. GitLabPage(T, req) = [files |-> f, more |-> next]
  BY <1>1, <1>3, <1>5 DEF GitLabPage, FilesIn
<1>8. ASSUME NEW p \in T, Covers("gitlab", T, req, p)
      PROVE  p \in ToSet(f) \/ \E q \in ToSet(next) : Covers("gitlab", T, q, p)
  <2>1. PICK i \in DOMAIN all : i >= req.from /\ all[i] = p
    BY <1>1, <1>8 DEF Covers
  <2>2. CASE p \in ToSet(t)
    BY <1>6, <2>2
  <2>3. CASE p \notin ToSet(t)
    <3>1. PICK q : q = [dir |-> req.dir, from |-> req.from + PageSize]
      OBVIOUS
    <3>2. next = <<q>> /\ i >= q.from
      BY <1>4, <2>1, <2>3, <3>1
    <3>3. Covers("gitlab", T, q, p)
      BY <1>1, <2>1, <3>2 DEF Covers
    <3> QED BY <3>2, <3>3, OneOf
  <2> QED BY <2>2, <2>3
<1> QED BY <1>4, <1>6, <1>7, <1>8 DEF Brings

\* The directories above a file.
LEMMA Ancestor ==
  ASSUME NEW T, IsTree(T), NEW p \in T, NEW n \in Nat, n < Len(p)
  PROVE  \E c \in T \cup Directories(T) :
           /\ c = SubSeq(p, 1, n + 1) /\ Len(c) = n + 1 /\ Front(c) = SubSeq(p, 1, n)
           /\ c = p \/ (c \in Directories(T) /\ Len(c) < Len(p) /\ SubSeq(p, 1, Len(c)) = c)
<1>1. PICK c : c = SubSeq(p, 1, n + 1)
  OBVIOUS
<1>2. p \in Path /\ p \in Seq(Names) /\ Len(p) \in Nat /\ DOMAIN p = 1 .. Len(p)
  <2>1. p \in Path
    BY DEF IsTree
  <2> QED BY <2>1 DEF Path
<1>3. c \in Seq(Names) /\ Len(c) = n + 1
  <2>1. 1 + (n + 1) - 1 <= Len(p) /\ 1 \in Nat \ {0} /\ n + 1 \in Nat
    BY <1>2
  <2>2. c = SubSeq(p, 1, 1 + (n + 1) - 1)
    BY <1>1
  <2> QED BY <1>2, <2>1, <2>2, Segment
<1>4. Front(c) = SubSeq(p, 1, n)
  <2>1. Front(c) = SubSeq(SubSeq(p, 1, n + 1), 1, n)
    BY <1>1, <1>3 DEF Front
  <2>2. CASE n = 0
    BY <2>1, <2>2, SubSeqEmpty
  <2>3. CASE n # 0
    <3>1. /\ 1 \in 1 .. Len(p) /\ n + 1 \in 1 .. Len(p)
          /\ 1 \in 1 .. (n + 1) - 1 + 1 /\ n \in 1 .. (n + 1) - 1 + 1
          /\ 1 + 1 - 1 = 1 /\ 1 + n - 1 = n
      BY <1>2, <2>3
    <3>2. SubSeq(SubSeq(p, 1, n + 1), 1, n) = SubSeq(p, 1 + 1 - 1, 1 + n - 1)
      BY <1>2, <3>1, SubSeqOfSubSeq
    <3> QED BY <2>1, <3>1, <3>2
  <2> QED BY <2>2, <2>3
<1>5. CASE n + 1 = Len(p)
  <2>1. c = p
    BY <1>1, <1>2, <1>5, SubSeqFull
  <2>2. c \in T \cup Directories(T)
    BY <2>1
  <2> QED BY <1>1, <1>3, <1>4, <2>1, <2>2, Zenon
<1>6. CASE n + 1 # Len(p)
  <2>1. n + 1 \in 1 .. Len(p) - 1 /\ n + 1 < Len(p)
    <3>1. PICK L : L = Len(p)
      OBVIOUS
    <3>2. L \in Nat /\ n < L /\ n + 1 # L
      BY <1>2, <1>6, <3>1
    <3>3. n + 1 \in 1 .. L - 1 /\ n + 1 < L
      BY <3>2
    <3> QED BY <3>1, <3>3
  <2>2. c \in Directories(T)
    BY <1>1, <2>1 DEF Directories
  <2> QED BY <1>1, <1>3, <1>4, <2>1, <2>2
<1> QED BY <1>5, <1>6

LEMMA BitbucketBrings ==
  ASSUME NEW T, IsTree(T), NEW req \in Request
  PROVE  Brings("bitbucket", T, req, BitbucketPage(T, req))
<1>1. PICK all : all = Children(T, req.dir)
  OBVIOUS
<1>2. all \in Seq(Path) /\ req.dir \in Path /\ req.from \in Nat \ {0}
  BY <1>1, EntriesAre DEF Request
<1>3. PICK t, next : t = PageOf(all, req.from) /\ next = NextPage(all, req)
  OBVIOUS
<1>4. /\ t \in Seq(Path) /\ next \in Seq(Request)
      /\ \A i \in DOMAIN all :
           i >= req.from =>
             \/ all[i] \in ToSet(t)
             \/ /\ next = <<[dir |-> req.dir, from |-> req.from + PageSize]>>
                /\ i >= req.from + PageSize
  BY <1>2, <1>3, PageIs
<1>5. PICK f, dirs : f = Kept(t, T) /\ dirs = Kept(t, Directories(T))
  OBVIOUS
<1>6. f \in Seq(Path) /\ ToSet(f) = ToSet(t) \cap T
  BY <1>4, <1>5, KeptIs
<1>7. dirs \in Seq(Path) /\ ToSet(dirs) = ToSet(t) \cap Directories(T)
  BY <1>4, <1>5, KeptIs
<1>8. PICK subs : subs = [i \in DOMAIN dirs |-> [dir |-> dirs[i], from |-> 1]]
  OBVIOUS
<1>9. subs \in Seq(Request)
  <2>1. DOMAIN dirs = 1 .. Len(dirs) /\ Len(dirs) \in Nat
    BY <1>7
  <2>2. ASSUME NEW i \in DOMAIN dirs PROVE [dir |-> dirs[i], from |-> 1] \in Request
    BY <1>7 DEF Request
  <2>3. subs \in [1 .. Len(dirs) -> Request]
    BY <1>8, <2>1, <2>2
  <2> QED BY <2>1, <2>3
<1>10. ASSUME NEW c \in ToSet(dirs) PROVE [dir |-> c, from |-> 1] \in ToSet(subs)
  <2>1. PICK j \in DOMAIN dirs : dirs[j] = c
    BY DEF ToSet
  <2>2. j \in DOMAIN subs /\ subs[j] = [dir |-> c, from |-> 1]
    BY <1>8, <2>1
  <2> QED BY <2>2 DEF ToSet
<1>11. PICK more : more = subs \o next
  OBVIOUS
<1>12. more \in Seq(Request) /\ ToSet(more) = ToSet(subs) \cup ToSet(next)
  BY <1>4, <1>9, <1>11, Joined
<1>13. BitbucketPage(T, req) = [files |-> f, more |-> more]
  BY <1>1, <1>3, <1>5, <1>8, <1>11 DEF BitbucketPage, FilesIn
<1>14. ASSUME NEW p \in T, Covers("bitbucket", T, req, p)
       PROVE  p \in ToSet(f) \/ \E q \in ToSet(more) : Covers("bitbucket", T, q, p)
  <2>1. PICK n : n = Len(req.dir)
    OBVIOUS
  <2>2. n \in Nat /\ n < Len(p) /\ SubSeq(p, 1, n) = req.dir
    BY <1>2, <1>14, <2>1 DEF Covers, Path
  <2>3. PICK i \in DOMAIN all : i >= req.from /\ all[i] = SubSeq(p, 1, n + 1)
    BY <1>1, <1>14, <2>1 DEF Covers
  <2>4. PICK c \in T \cup Directories(T) :
          /\ c = SubSeq(p, 1, n + 1) /\ Len(c) = n + 1
          /\ c = p \/ (c \in Directories(T) /\ Len(c) < Len(p) /\ SubSeq(p, 1, Len(c)) = c)
    BY <2>2, Ancestor
  <2>5. CASE c \in ToSet(t) /\ c = p
    BY <1>6, <2>5
  <2>6. CASE c \in ToSet(t) /\ c # p
    <3>1. PICK q : q = [dir |-> c, from |-> 1]
      OBVIOUS
    <3>2. q \in ToSet(more)
      BY <1>7, <1>10, <1>12, <2>4, <2>6, <3>1
    <3>3. PICK m : m = n + 1
      OBVIOUS
    <3>4. m \in Nat /\ m < Len(p) /\ SubSeq(p, 1, m) = c /\ Len(c) = m
      BY <2>2, <2>4, <2>6, <3>3
    <3>5. PICK d \in T \cup Directories(T) : d = SubSeq(p, 1, m + 1) /\ Front(d) = c
      BY <3>4, Ancestor
    <3>6. PICK below : below = Children(T, c)
      OBVIOUS
    <3>7. below \in Seq(Path) /\ d \in ToSet(below)
      BY <3>5, <3>6, EntriesAre
    <3>8. PICK k \in DOMAIN below : below[k] = d
      BY <3>7 DEF ToSet
    <3>9. k >= 1
      BY <3>7
    <3>10. Covers("bitbucket", T, q, p)
      BY <3>1, <3>4, <3>5, <3>6, <3>8, <3>9 DEF Covers
    <3> QED BY <3>2, <3>10
  <2>7. CASE c \notin ToSet(t)
    <3>1. PICK q : q = [dir |-> req.dir, from |-> req.from + PageSize]
      OBVIOUS
    <3>2. next = <<q>> /\ i >= q.from
      BY <1>4, <2>3, <2>4, <2>7, <3>1
    <3>3. q \in ToSet(more)
      BY <1>12, <3>2, OneOf
    <3>4. Covers("bitbucket", T, q, p)
      BY <1>1, <2>1, <2>2, <2>3, <3>1, <3>2 DEF Covers
    <3> QED BY <3>3, <3>4
  <2> QED BY <2>5, <2>6, <2>7
<1> QED BY <1>6, <1>12, <1>13, <1>14 DEF Brings

\* Every host's answer brings what the request was for.
LEMMA AnswerBrings ==
  ASSUME NEW host \in {"github", "gitlab", "bitbucket"}, NEW T, IsTree(T),
         NEW req \in Request
  PROVE  Brings(host, T, req, Answer(host, T, req))
<1>1. CASE host = "github"
  <2>1. Answer(host, T, req) = GitHubPage(T, req)
    BY <1>1 DEF Answer
  <2> QED BY <1>1, <2>1, GitHubBrings
<1>2. CASE host = "gitlab"
  <2>1. Answer(host, T, req) = GitLabPage(T, req)
    BY <1>2 DEF Answer
  <2> QED BY <1>2, <2>1, GitLabBrings
<1>3. CASE host = "bitbucket"
  <2>1. Answer(host, T, req) = BitbucketPage(T, req)
    BY <1>3 DEF Answer
  <2> QED BY <1>3, <2>1, BitbucketBrings
<1> QED BY <1>1, <1>2, <1>3

\* The first request is for the whole tree.
LEMMA FirstCovers ==
  ASSUME NEW host \in {"github", "gitlab", "bitbucket"}, NEW T, IsTree(T), NEW p \in T
  PROVE  FirstRequest \in Request /\ Covers(host, T, FirstRequest, p)
<1>1. FirstRequest = [dir |-> <<>>, from |-> 1] /\ <<>> \in Path /\ 0 \in Nat
  BY DEF FirstRequest, Path
<1>2. FirstRequest \in Request
  BY <1>1 DEF Request
<1>3. p \in Path /\ p # <<>>
  BY DEF IsTree
<1>4. \E i \in DOMAIN TreeEntries(T) : i >= 1 /\ TreeEntries(T)[i] = p
  <2>1. PICK all : all = TreeEntries(T)
    OBVIOUS
  <2>2. all \in Seq(Path) /\ p \in ToSet(all)
    BY <2>1, EntriesAre
  <2>3. PICK i \in DOMAIN all : all[i] = p
    BY <2>2 DEF ToSet
  <2>4. i >= 1
    BY <2>2
  <2> QED BY <2>1, <2>3, <2>4
<1>5. /\ 0 < Len(p) /\ SubSeq(p, 1, 0) = <<>>
      /\ \E i \in DOMAIN Children(T, <<>>) : i >= 1 /\ Children(T, <<>>)[i] = SubSeq(p, 1, 0 + 1)
  <2>1. 0 < Len(p) /\ SubSeq(p, 1, 0) = <<>>
    BY <1>3, SubSeqEmpty DEF Path
  <2>2. PICK d \in T \cup Directories(T) : d = SubSeq(p, 1, 0 + 1) /\ Front(d) = SubSeq(p, 1, 0)
    BY <1>1, <2>1, Ancestor
  <2>3. PICK below : below = Children(T, <<>>)
    OBVIOUS
  <2>4. below \in Seq(Path) /\ d \in ToSet(below)
    BY <2>1, <2>2, <2>3, EntriesAre
  <2>5. PICK k \in DOMAIN below : below[k] = d
    BY <2>4 DEF ToSet
  <2>6. k >= 1
    BY <2>4
  <2> QED BY <2>1, <2>2, <2>3, <2>5, <2>6
<1>6. Len(<<>>) = 0
  OBVIOUS
<1> QED BY <1>1, <1>2, <1>4, <1>5, <1>6 DEF Covers

-----------------------------------------------------------------------------
(* Paths in directories.                                                   *)

\* A path is its directory and its last segment.
LEMMA Split ==
  ASSUME NEW p \in Path, p # <<>>
  PROVE  /\ Front(p) \in Path /\ Last(p) \in Names
         /\ Len(Front(p)) = Len(p) - 1 /\ Front(p) \o <<Last(p)>> = p
<1>1. PICK n : n = Len(p)
  OBVIOUS
<1>2. p \in Seq(Names) /\ n \in Nat \ {0} /\ DOMAIN p = 1 .. n
  <2>1. p \in Seq(Names)
    BY DEF Path
  <2> QED BY <1>1, <2>1
<1>3. PICK f : f = SubSeq(p, 1, n - 1)
  OBVIOUS
<1>4. f \in Seq(Names) /\ Len(f) = n - 1
  <2>1. 1 \in Nat \ {0} /\ n - 1 \in Nat /\ 1 + (n - 1) - 1 = n - 1 /\ n - 1 <= Len(p)
    BY <1>1, <1>2
  <2>2. 1 + (n - 1) - 1 <= Len(p) /\ f = SubSeq(p, 1, 1 + (n - 1) - 1)
    BY <1>3, <2>1
  <2>3. PICK m : m = n - 1
    OBVIOUS
  <2>4. m \in Nat /\ 1 + m - 1 <= Len(p) /\ f = SubSeq(p, 1, 1 + m - 1)
    BY <2>1, <2>2, <2>3
  <2>5. f \in Seq(Names) /\ Len(f) = m
    BY <1>2, <2>1, <2>4, Segment
  <2> QED BY <2>3, <2>5
<1>5. p[n] \in Names
  BY <1>2
<1>6. f \o <<p[n]>> = p
  <2>1. n \in 1 .. Len(p) /\ 1 \in 1 .. Len(p) /\ n \in 1 .. n
    BY <1>1, <1>2
  <2>2. SubSeq(p, 1, n) = SubSeq(p, 1, n - 1) \o <<p[n]>>
    BY <1>2, <2>1, SubSeqRecursiveSecond
  <2>3. SubSeq(p, 1, n) = p
    BY <1>1, <1>2, SubSeqFull
  <2> QED BY <1>3, <2>2, <2>3
<1>7. Front(p) = f /\ Last(p) = p[n]
  BY <1>1, <1>3 DEF Front, Last
<1> QED BY <1>1, <1>4, <1>5, <1>6, <1>7 DEF Path

\* What follows a directory is the path relative to it.
LEMMA Appended ==
  ASSUME NEW X, NEW dir \in Seq(X), NEW rel \in Seq(X)
  PROVE  /\ dir \o rel \in Seq(X) /\ Len(dir \o rel) = Len(dir) + Len(rel)
         /\ SubSeq(dir \o rel, 1, Len(dir)) = dir
         /\ Relative(dir, dir \o rel) = rel
<1>1. PICK p, m, n : p = dir \o rel /\ m = Len(dir) /\ n = Len(rel)
  OBVIOUS
<1>2. /\ p \in Seq(X) /\ Len(p) = m + n /\ m \in Nat /\ n \in Nat
      /\ \A i \in 1 .. m + n : p[i] = IF i <= m THEN dir[i] ELSE rel[i - m]
  <2>1. /\ dir \o rel \in Seq(X) /\ Len(dir \o rel) = Len(dir) + Len(rel)
        /\ \A i \in 1 .. Len(dir) + Len(rel) :
             (dir \o rel)[i] = IF i <= Len(dir) THEN dir[i] ELSE rel[i - Len(dir)]
    BY ConcatProperties
  <2> QED BY <1>1, <2>1
<1>3. PICK d : d = SubSeq(p, 1, m)
  OBVIOUS
<1>4. d = dir
  <2>1. 1 + m - 1 <= Len(p) /\ 1 \in Nat \ {0} /\ 1 + m - 1 = m
    BY <1>2
  <2>2. d = SubSeq(p, 1, 1 + m - 1)
    BY <1>3, <2>1
  <2>3. d \in Seq(X) /\ Len(d) = m /\ \A j \in 1 .. m : d[j] = p[1 + j - 1]
    BY <1>2, <2>1, <2>2, Segment
  <2>4. \A j \in 1 .. m : d[j] = dir[j]
    BY <1>2, <2>3
  <2> QED BY <1>1, <2>3, <2>4, SeqEqual
<1>5. PICK r : r = SubSeq(p, m + 1, m + n)
  OBVIOUS
<1>6. r = rel
  <2>1. (m + 1) + n - 1 <= Len(p) /\ m + 1 \in Nat \ {0} /\ (m + 1) + n - 1 = m + n
    BY <1>2
  <2>2. r = SubSeq(p, m + 1, (m + 1) + n - 1)
    BY <1>5, <2>1
  <2>3. PICK k : k = m + 1
    OBVIOUS
  <2>4. k \in Nat \ {0} /\ k + n - 1 <= Len(p) /\ r = SubSeq(p, k, k + n - 1)
    BY <2>1, <2>2, <2>3
  <2>5. r \in Seq(X) /\ Len(r) = n /\ \A j \in 1 .. n : r[j] = p[k + j - 1]
    BY <1>2, <2>4, Segment
  <2>6. ASSUME NEW j \in 1 .. n PROVE r[j] = rel[j]
    <3>1. k + j - 1 = m + j /\ m + j \in 1 .. m + n /\ ~(m + j <= m) /\ (m + j) - m = j
      BY <1>2, <2>3
    <3>2. r[j] = p[m + j] /\ p[m + j] = rel[(m + j) - m]
      BY <1>2, <2>5, <3>1
    <3> QED BY <3>1, <3>2
  <2> QED BY <1>1, <2>5, <2>6, SeqEqual
<1>7. Relative(dir, p) = r
  BY <1>1, <1>2, <1>5 DEF Relative
<1> QED BY <1>1, <1>2, <1>3, <1>4, <1>6, <1>7

\* A path below a directory is the directory and something.
LEMMA BelowIs ==
  ASSUME NEW dir \in Path, NEW p \in Path
  PROVE  Below(dir, p) => /\ Relative(dir, p) \in Path \ {<<>>}
                          /\ dir \o Relative(dir, p) = p
<1> SUFFICES ASSUME Below(dir, p)
             PROVE  Relative(dir, p) \in Path \ {<<>>} /\ dir \o Relative(dir, p) = p
  OBVIOUS
<1>1. PICK m, n, rel : m = Len(dir) /\ n = Len(p) /\ rel = SubSeq(p, m + 1, n)
  OBVIOUS
<1>2. dir \in Seq(Names) /\ p \in Seq(Names) /\ m \in Nat /\ n \in Nat
  <2>1. dir \in Seq(Names) /\ p \in Seq(Names)
    BY DEF Path
  <2> QED BY <1>1, <2>1
<1>3. m <= n /\ SubSeq(dir, 1, m) = SubSeq(p, 1, m) /\ dir # p
  BY <1>1 DEF Below, IsStrictPrefix, IsPrefix
<1>4. SubSeq(p, 1, m) = dir /\ SubSeq(p, 1, n) = p
  BY <1>1, <1>2, <1>3, SubSeqFull
<1>5. dir \o rel = p
  <2>1. 1 \in 1 .. Len(p) + 1 /\ m \in 1 - 1 .. Len(p) /\ n \in m .. Len(p)
    BY <1>1, <1>2, <1>3
  <2>2. SubSeq(p, 1, m) \o SubSeq(p, m + 1, n) = SubSeq(p, 1, n)
    BY <1>2, <2>1, ConcatAdjacentSubSeq
  <2> QED BY <1>1, <1>4, <2>2
<1>6. rel \in Seq(Names)
  <2>1. \A i \in m + 1 .. n : p[i] \in Names
    <3>1. \A i \in m + 1 .. n : i \in 1 .. Len(p)
      BY <1>1, <1>2
    <3> QED BY <1>2, <3>1
  <2>2. m + 1 \in Int /\ n \in Int
    BY <1>2
  <2> QED BY <1>1, <2>1, <2>2, SubSeqProperties
<1>7. rel # <<>>
  <2>1. dir \o <<>> = dir
    BY <1>2
  <2> QED BY <1>3, <1>5, <2>1
<1>8. Relative(dir, p) = rel
  BY <1>1 DEF Relative
<1> QED BY <1>5, <1>6, <1>7, <1>8 DEF Path

LEMMA BelowHas ==
  ASSUME NEW dir \in Path, NEW rel \in Path, rel # <<>>
  PROVE  Below(dir, dir \o rel) /\ Relative(dir, dir \o rel) = rel
<1>1. dir \in Seq(Names) /\ rel \in Seq(Names)
  BY DEF Path
<1>2. PICK p : p = dir \o rel
  OBVIOUS
<1>3. /\ p \in Seq(Names) /\ Len(p) = Len(dir) + Len(rel)
      /\ SubSeq(p, 1, Len(dir)) = dir /\ Relative(dir, p) = rel
  BY <1>1, <1>2, Appended
<1>4. SubSeq(dir, 1, Len(dir)) = dir
  BY <1>1, SubSeqFull
<1>5. Len(rel) \in Nat \ {0} /\ Len(dir) \in Nat
  BY <1>1
<1>6. Len(dir) <= Len(p) /\ dir # p
  BY <1>3, <1>5
<1> QED BY <1>2, <1>3, <1>4, <1>6 DEF Below, IsStrictPrefix, IsPrefix

\* The chart that is looked for in what was listed: none, when there is none.
LEMMA FindChartIs ==
  ASSUME NEW ps \in Seq(Path), NEW name
  PROVE  LET own == <<"charts", name, "Chart.yaml">>
             dir == FindChart(ps, name)
         IN  \/ /\ dir = <<>> /\ own \notin ToSet(ps)
                /\ \A p \in ToSet(ps) : ~IsChartYaml(p)
             \/ \E p \in ToSet(ps) :
                  /\ IsChartYaml(p) /\ dir \in Path \ {<<>>}
                  /\ p = dir \o <<"Chart.yaml">>
                  /\ own \in ToSet(ps) => p = own
<1>1. PICK own, dir : own = <<"charts", name, "Chart.yaml">> /\ dir = FindChart(ps, name)
  OBVIOUS
<1>2. Len(own) = 3 /\ own[1] = "charts" /\ own[3] = "Chart.yaml"
  BY <1>1
<1>3. IsChartYaml(own)
  BY <1>2 DEF IsChartYaml, Last
<1>4. DOMAIN ps = 1 .. Len(ps)
  OBVIOUS
<1>5. Contains(ps, own) <=> own \in ToSet(ps)
  BY <1>4 DEF Contains, ToSet
<1>6. ASSUME NEW p \in ToSet(ps), IsChartYaml(p)
      PROVE  Front(p) \in Path \ {<<>>} /\ p = Front(p) \o <<"Chart.yaml">>
  <2>1. p \in Path
    BY DEF ToSet
  <2>2. Len(p) > 1 /\ Last(p) = "Chart.yaml"
    BY <1>6 DEF IsChartYaml
  <2>3. p # <<>> /\ Len(p) \in Nat
    BY <2>1, <2>2 DEF Path
  <2>4. Front(p) \in Path /\ Len(Front(p)) = Len(p) - 1 /\ Front(p) \o <<Last(p)>> = p
    BY <2>1, <2>3, Split
  <2>5. Front(p) # <<>>
    BY <2>2, <2>3, <2>4
  <2> QED BY <2>2, <2>4, <2>5
<1>7. PICK charts : charts = {i \in DOMAIN ps : IsChartYaml(ps[i])}
  OBVIOUS
<1>8. CASE own \in ToSet(ps)
  <2>1. dir = Front(own)
    BY <1>1, <1>5, <1>8 DEF FindChart
  <2> QED BY <1>1, <1>3, <1>6, <1>8, <2>1
<1>9. CASE own \notin ToSet(ps) /\ charts # {}
  <2>1. charts \subseteq Nat
    BY <1>4, <1>7
  <2>2. PICK i : i = Min(charts)
    OBVIOUS
  <2>3. i \in charts
    BY <1>9, <2>1, <2>2, Least
  <2>4. ps[i] \in ToSet(ps) /\ IsChartYaml(ps[i])
    BY <1>7, <2>3 DEF ToSet
  <2>5. dir = Front(ps[i])
    BY <1>1, <1>5, <1>7, <1>9, <2>2 DEF FindChart
  <2> QED BY <1>1, <1>6, <1>9, <2>4, <2>5
<1>10. CASE own \notin ToSet(ps) /\ charts = {}
  <2>1. dir = <<>>
    BY <1>1, <1>5, <1>7, <1>10 DEF FindChart
  <2>2. \A p \in ToSet(ps) : ~IsChartYaml(p)
    BY <1>7, <1>10 DEF ToSet
  <2> QED BY <1>1, <1>10, <2>1, <2>2
<1> QED BY <1>8, <1>9, <1>10

\* The files of a chart that its resolution lists: those isChartFile keeps.
Members(T, dir) ==
  {rel \in {Relative(dir, p) : p \in {q \in T : Below(dir, q)}} :
     rel # <<"Chart.yaml">> /\ IsChartFile(rel)}

LEMMA MembersAre ==
  ASSUME NEW T, T \subseteq Path, NEW dir \in Path, NEW rel
  PROVE  rel \in Members(T, dir) <=>
           /\ rel \in Path \ {<<>>} /\ dir \o rel \in T
           /\ rel # <<"Chart.yaml">> /\ IsChartFile(rel)
<1>1. ASSUME rel \in Members(T, dir)
      PROVE  /\ rel \in Path \ {<<>>} /\ dir \o rel \in T
             /\ rel # <<"Chart.yaml">> /\ IsChartFile(rel)
  <2>1. PICK p \in T : Below(dir, p) /\ rel = Relative(dir, p)
    BY <1>1 DEF Members
  <2>2. rel \in Path \ {<<>>} /\ dir \o rel = p
    BY <2>1, BelowIs
  <2> QED BY <1>1, <2>2 DEF Members
<1>2. ASSUME rel \in Path \ {<<>>}, dir \o rel \in T,
             rel # <<"Chart.yaml">>, IsChartFile(rel)
      PROVE  rel \in Members(T, dir)
  <2>1. Below(dir, dir \o rel) /\ Relative(dir, dir \o rel) = rel
    BY <1>2, BelowHas
  <2> QED BY <1>2, <2>1 DEF Members
<1> QED BY <1>1, <1>2

\* A chart's resolution names its Chart.yaml and all that was listed of it.
LEMMA ChartResolutionIs ==
  ASSUME NEW ps \in Seq(Path), NEW dir \in Path
  PROVE  LET r == ChartResolution(dir, ps)
         IN  /\ r.format = "helm" /\ r.url = RawURL(dir \o <<"Chart.yaml">>)
             /\ r.files \in Seq(Path) /\ ToSet(r.files) = Members(ToSet(ps), dir)
<1>1. PICK S : S = {p \in ToSet(ps) : Below(dir, p)
                                      /\ Relative(dir, p) # <<"Chart.yaml">>
                                      /\ IsChartFile(Relative(dir, p))}
  OBVIOUS
<1>2. PICK members : members = Kept(ps, S)
  OBVIOUS
<1>3. members \in Seq(Path) /\ ToSet(members) = ToSet(ps) \cap S
  BY <1>2, KeptIs
<1>4. PICK files : files = [i \in DOMAIN members |-> Relative(dir, members[i])]
  OBVIOUS
<1>5. ChartResolution(dir, ps) =
        [format |-> "helm", url |-> RawURL(dir \o <<"Chart.yaml">>), files |-> files]
  BY <1>1, <1>2, <1>4 DEF ChartResolution
<1>6. ToSet(ps) \subseteq Path
  BY DEF ToSet
<1>7. ASSUME NEW p \in S PROVE p \in Path /\ Relative(dir, p) \in Path
  BY <1>1, <1>6, BelowIs
<1>8. DOMAIN members = 1 .. Len(members) /\ Len(members) \in Nat
  BY <1>3
<1>9. files \in Seq(Path)
  <2>1. ASSUME NEW i \in DOMAIN members PROVE Relative(dir, members[i]) \in Path
    <3>1. members[i] \in ToSet(members)
      BY DEF ToSet
    <3> QED BY <1>3, <1>7, <3>1
  <2>2. files \in [1 .. Len(members) -> Path]
    BY <1>4, <1>8, <2>1
  <2> QED BY <1>8, <2>2
<1>10. ToSet(files) = {Relative(dir, p) : p \in ToSet(members)}
  <2>1. DOMAIN files = DOMAIN members /\ \A i \in DOMAIN members : files[i] = Relative(dir, members[i])
    BY <1>4
  <2> QED BY <2>1 DEF ToSet
<1>11. ToSet(files) = Members(ToSet(ps), dir)
  <2>1. ToSet(members) = S
    BY <1>1, <1>3
  <2> QED BY <1>1, <1>10, <2>1 DEF Members
<1> QED BY <1>5, <1>9, <1>11

-----------------------------------------------------------------------------
(* Types.                                                                  *)

Formats == {"none", "helm", "kustomize", "yaml"}
Typed(r) == r.format \in Formats /\ r.files \in Seq(Path)

LEMMA TypedResolutions ==
  /\ \A u : \A f \in Formats : Typed(Resolution(f, u))
  /\ Typed(Unsupported)
<1>1. <<>> \in Seq(Path)
  OBVIOUS
<1> QED BY <1>1 DEF Typed, Resolution, Unsupported, Formats

LEMMA RoutedType ==
  ASSUME NEW ps \in Seq(Path), NEW sub \in Path, NEW name
  PROVE  /\ Typed(FileResolution(sub)) /\ Typed(RouteSubpath(ps, sub))
         /\ Typed(RouteRepo(ps, name))
<1>1. Typed(FileResolution(sub))
  <2>1. FileResolution(sub) \in {Unsupported} \cup
          {Resolution(f, RawURL(sub)) : f \in {"helm", "kustomize", "yaml"}}
    BY DEF FileResolution
  <2> QED BY <2>1, TypedResolutions DEF Formats
<1>2. ASSUME NEW dir \in Path PROVE Typed(ChartResolution(dir, ps))
  BY ChartResolutionIs DEF Typed, Formats
<1>3. ASSUME NEW dir PROVE Typed(KustomizationIn(ps, dir))
  <2>1. KustomizationIn(ps, dir) = Unsupported \/
          \E u : KustomizationIn(ps, dir) = Resolution("kustomize", u)
    BY DEF KustomizationIn
  <2> QED BY <2>1, TypedResolutions DEF Formats
<1>4. Typed(RouteSubpath(ps, sub))
  BY <1>1, <1>2, <1>3 DEF RouteSubpath
<1>5. FindChart(ps, name) # <<>> => FindChart(ps, name) \in Path
  BY FindChartIs
<1>6. Typed(RouteRepo(ps, name))
  BY <1>2, <1>3, <1>5 DEF RouteRepo
<1> QED BY <1>1, <1>4, <1>6

\* What is taken for the ref is a segment of the URL.
LEMMA RefType ==
  ASSUME NEW url \in Path, NEW host \in {"github", "gitlab", "bitbucket"}
  PROVE  ParseRef(host, url).ref \in Names \cup {""}
<1>1. Len(BlobMark(host)) \in {1, 2} /\ Len(TreeMark(host)) \in {1, 2}
  BY DEF BlobMark, TreeMark
<1>2. ASSUME NEW rest \in Path, rest # <<>>, NEW b PROVE SplitRef(rest, b).ref \in Names
  <2>1. rest \in Seq(Names)
    BY DEF Path
  <2>2. Head(rest) \in Names
    BY <1>2, <2>1, HeadTailProperties
  <2> QED BY <2>2 DEF SplitRef
<1>3. NoRef.ref = ""
  BY DEF NoRef
<1>4. CASE host # "bitbucket" /\ MarkedAt(url, BlobMark(host)) # {}
  <2>1. After(url, BlobMark(host)) \in Path /\ After(url, BlobMark(host)) # <<>>
    BY <1>1, <1>4, AfterType
  <2>2. ParseRef(host, url) = SplitRef(After(url, BlobMark(host)), TRUE)
    BY <1>4 DEF ParseRef
  <2> QED BY <1>2, <2>1, <2>2
<1>5. CASE /\ ~(host # "bitbucket" /\ MarkedAt(url, BlobMark(host)) # {})
           /\ MarkedAt(url, TreeMark(host)) # {}
  <2>1. After(url, TreeMark(host)) \in Path /\ After(url, TreeMark(host)) # <<>>
    BY <1>1, <1>5, AfterType
  <2>2. ParseRef(host, url) = SplitRef(After(url, TreeMark(host)), FALSE)
    BY <1>5 DEF ParseRef
  <2> QED BY <1>2, <2>1, <2>2
<1>6. CASE /\ ~(host # "bitbucket" /\ MarkedAt(url, BlobMark(host)) # {})
           /\ MarkedAt(url, TreeMark(host)) = {}
  BY <1>3, <1>6 DEF ParseRef
<1> QED BY <1>4, <1>5, <1>6

\* What is there is at any time two trees of what there may come to be.
SiteInv ==
  /\ site = [tag |-> site.tag, branch |-> site.branch]
  /\ \A tree \in {site.tag, site.branch} : IsTree(tree) /\ tree \subseteq AllFiles

Stages == {"resolve", "release", "list", "probe", "dispatch", "chart", "members",
           "index", "archive", "manifest", "materialize", "values", "handed",
           "failed"}

\* TypeOK, with what it takes to keep it: the queue, and the lists of paths.
TypeInv ==
  /\ Looked /\ SiteInv
  /\ ref \in {"tag", "branch"} \cup Names
  /\ pc \in Stages
  /\ queue \in Seq(Request)
  /\ paths \in Seq(Path) /\ ToSet(paths) \subseteq AllFiles
  /\ Typed(target)
  /\ todo \in Seq(Path) /\ got \subseteq Path

LEMMA SiteStays == (Init => SiteInv) /\ (SiteInv /\ [Next]_vars => SiteInv')
<1>1. ASSUME Init PROVE SiteInv
  <2>1. PICK w \in Worlds : site = w.site
    BY <1>1 DEF Init
  <2>2. /\ w.site = [tag |-> w.site.tag, branch |-> w.site.branch]
        /\ IsTree(w.site.tag) /\ IsTree(w.site.branch)
    BY TreesAssumption
  <2>3. w.site.tag \subseteq AllFiles /\ w.site.branch \subseteq AllFiles
    BY DEF AllFiles
  <2> QED BY <2>1, <2>2, <2>3 DEF SiteInv
<1>2. ASSUME SiteInv, [Next]_vars PROVE SiteInv'
  <2>1. CASE site' = site
    BY <1>2, <2>1 DEF SiteInv, AllFiles
  <2>2. ASSUME NEW tree \in Heads, site' = [site EXCEPT !.branch = tree] PROVE SiteInv'
    <3>1. PICK s, t : s = site.tag /\ t = site.branch
      OBVIOUS
    <3>2. site = [tag |-> s, branch |-> t] /\ IsTree(s) /\ s \subseteq AllFiles
      BY <1>2, <3>1 DEF SiteInv
    <3>3. site' = [tag |-> s, branch |-> tree]
      BY <2>2, <3>2
    <3>4. site'.tag = s /\ site'.branch = tree
      BY <3>3
    <3>5. IsTree(tree) /\ tree \subseteq AllFiles
      BY TreesAssumption DEF AllFiles
    <3>6. AllFiles' = AllFiles
      BY DEF AllFiles
    <3>7. site' = [tag |-> site'.tag, branch |-> site'.branch]
      BY <3>3, <3>4, Zenon
    <3> QED BY <3>2, <3>4, <3>5, <3>6, <3>7 DEF SiteInv
  <2> QED BY <1>2, <2>1, <2>2, WorldStays
<1> QED BY <1>1, <1>2

LEMMA TypeInitially == Init => TypeInv
<1> SUFFICES ASSUME Init PROVE TypeInv
  OBVIOUS
<1>1. <<>> \in Seq(Path) /\ <<>> \in Seq(Request) /\ ToSet(<<>>) = {}
  BY DEF ToSet
<1>2. Looked /\ SiteInv
  BY LookedStays, SiteStays
<1> QED BY <1>1, <1>2, TypedResolutions DEF Init, TypeInv, Stages

LEMMA TypeInductive == RouteInv /\ TypeInv /\ [Next]_vars => TypeInv'
<1> SUFFICES ASSUME RouteInv, TypeInv, [Next]_vars PROVE TypeInv'
  OBVIOUS
<1>1. /\ res.path \in Path /\ res.host \in {"github", "gitlab", "bitbucket"}
      /\ Parsed.sub \in Path /\ Parsed.ref \in Names \cup {""}
  <2>1. res.path \in Path /\ res.host \in {"github", "gitlab", "bitbucket"}
    BY AddRunAssumption DEF RouteInv, Asked
  <2> QED BY <2>1, ParsedType, RefType DEF Parsed
<1>2. Looked' /\ SiteInv'
  BY LookedStays, SiteStays DEF TypeInv
<1>3. /\ ref \in {"tag", "branch"} \cup Names /\ pc \in Stages
      /\ queue \in Seq(Request)
      /\ paths \in Seq(Path) /\ ToSet(paths) \subseteq AllFiles
      /\ Typed(target)
      /\ todo \in Seq(Path) /\ got \subseteq Path
  BY DEF TypeInv
<1>4. /\ <<>> \in Seq(Path) /\ <<>> \in Seq(Request) /\ ToSet(<<>>) \subseteq AllFiles
      /\ AllFiles' = AllFiles
  BY DEF ToSet, AllFiles
<1>5. ASSUME ref' \in {"tag", "branch"} \cup Names, pc' \in Stages,
             queue' \in Seq(Request), paths' \in Seq(Path), ToSet(paths') \subseteq AllFiles,
             Typed(target'), todo' \in Seq(Path), got' \subseteq Path
      PROVE  TypeInv'
  BY <1>2, <1>4, <1>5 DEF TypeInv, Typed
<1>6. ASSUME NEW r, Resolves(r), Typed(r), ref' \in {"tag", "branch"} \cup Names
      PROVE  TypeInv'
  <2>1. /\ target' = r /\ queue' = <<>> /\ paths' = <<>> /\ pc' \in {"failed", "dispatch"}
        /\ todo' = todo /\ got' = got
    BY <1>6 DEF Resolves
  <2> QED BY <1>3, <1>4, <1>5, <1>6, <2>1 DEF Stages
<1>7. ASSUME NEW r \in {"tag", "branch"} \cup Names, WithRef(r) PROVE TypeInv'
  <2>1. CASE Parsed.blob
    <3>1. Typed(FileResolution(Parsed.sub))
      BY <1>1, <1>3, RoutedType
    <3> QED BY <1>6, <1>7, <2>1, <3>1 DEF WithRef
  <2>2. CASE ~Parsed.blob
    <3>1. /\ ref' = r /\ pc' = "list" /\ queue' = <<FirstRequest>>
          /\ UNCHANGED <<paths, target, todo, got, chosen>>
      BY <1>7, <2>2 DEF WithRef
    <3>2. <<FirstRequest>> \in Seq(Request)
      <4>1. FirstRequest \in Request
        BY DEF FirstRequest, Request, Path
      <4> QED BY <4>1
    <3> QED BY <1>3, <1>5, <3>1, <3>2 DEF Stages
  <2> QED BY <2>1, <2>2
<1>8. ASSUME ref' = ref, pc' \in Stages,
             UNCHANGED <<queue, paths, target, todo, got>>
      PROVE  TypeInv'
  BY <1>3, <1>5, <1>8
<1>9. CASE GitResolve
  <2>1. CASE Parsed.ref # ""
    BY <1>1, <1>7, <1>9, <2>1 DEF GitResolve
  <2>2. CASE Parsed.ref = ""
    BY <1>8, <1>9, <2>2 DEF GitResolve, local, Stages
  <2> QED BY <2>1, <2>2
<1>10. CASE LatestRelease
  BY <1>7, <1>10 DEF LatestRelease
<1>11. CASE ListPage
  <2>1. PICK T, req, a : T = Tree /\ req = Head(queue) /\ a = Answer(res.host, T, req)
    OBVIOUS
  <2>2. IsTree(T) /\ T \subseteq AllFiles
    <3>1. T \in {site.tag, site.branch}
      BY <1>11, <2>1 DEF ListPage, Tree, TypeInv, SiteInv
    <3> QED BY <3>1 DEF TypeInv, SiteInv
  <2>3. req \in Request /\ Tail(queue) \in Seq(Request)
    BY <1>3, <1>11, <2>1, HeadTailProperties DEF ListPage
  <2>4. Brings(res.host, T, req, a)
    BY <1>1, <2>1, <2>2, <2>3, AnswerBrings
  <2>5. a.files \in Seq(Path) /\ ToSet(a.files) \subseteq T /\ a.more \in Seq(Request)
    BY <2>4 DEF Brings
  <2>6. /\ paths' = paths \o a.files /\ queue' = Tail(queue) \o a.more
        /\ UNCHANGED <<pc, ref, target, todo, got>>
    BY <1>11, <2>1 DEF ListPage
  <2>7. paths' \in Seq(Path) /\ ToSet(paths') = ToSet(paths) \cup ToSet(a.files)
    BY <1>3, <2>5, <2>6, Joined
  <2>8. queue' \in Seq(Request)
    BY <2>3, <2>5, <2>6
  <2> QED BY <1>3, <1>5, <2>2, <2>5, <2>6, <2>7, <2>8
<1>12. CASE Route
  <2>1. PICK r : Resolves(r) /\ Typed(r)
    BY <1>1, <1>3, <1>12, RoutedType DEF Route
  <2> QED BY <1>3, <1>6, <1>12, <2>1 DEF Route
<1>13. CASE HttpResolve \/ Probe \/ ImageResolve
  <2>1. /\ Typed(Resolution("helm", res.path)) /\ Typed(Resolution("yaml", res.path))
        /\ Typed(Resolution("kustomize", res.path))
    BY TypedResolutions DEF Formats
  <2>2. CASE pc' = "probe" /\ UNCHANGED local
    BY <1>8, <1>13, <2>2 DEF HttpResolve, Probe, ImageResolve, local, Stages
  <2>3. CASE ~(pc' = "probe" /\ UNCHANGED local)
    <3>1. PICK r : Resolves(r) /\ Typed(r)
      BY <1>13, <2>1, <2>3 DEF HttpResolve, Probe, ImageResolve
    <3>2. ref' = ref
      BY <1>13 DEF HttpResolve, Probe, ImageResolve
    <3> QED BY <1>3, <1>6, <3>1, <3>2
  <2> QED BY <2>2, <2>3
<1>14. CASE UnknownResource \/ LatestReleaseFails \/ ListFails \/ DispatchFails
           \/ FetchChartYamlFails \/ FetchMemberFails \/ FetchIndexFails
           \/ FetchArchiveFails \/ FetchManifestFails
  BY <1>8, <1>14 DEF UnknownResource, LatestReleaseFails, ListFails, DispatchFails,
     FetchChartYamlFails, FetchMemberFails, FetchIndexFails, FetchArchiveFails,
     FetchManifestFails, Fail, local, Stages
<1>15. CASE Dispatch \/ LoadChart \/ ReviewValues \/ FetchArchive \/ FetchIndex
  BY <1>8, <1>15 DEF Dispatch, LoadChart, ReviewValues, FetchArchive, FetchIndex, local,
     Stages
<1>16. CASE FetchChartYaml
  <2>1. todo' \in Seq(Path)
    BY <1>3, <1>16, ConventionalAssumption DEF FetchChartYaml, Typed
  <2> QED BY <1>3, <1>5, <1>16, <2>1 DEF FetchChartYaml, Stages
<1>17. CASE FetchMember
  <2>1. Head(todo) \in Path /\ Tail(todo) \in Seq(Path)
    BY <1>3, <1>17, HeadTailProperties DEF FetchMember
  <2>2. got' \subseteq Path /\ todo' \in Seq(Path)
    BY <1>3, <1>17, <2>1 DEF FetchMember
  <2> QED BY <1>3, <1>5, <1>17, <2>2 DEF FetchMember
<1>18. CASE FetchManifest \/ Walk \/ WalkFails \/ Materialized \/ Move
  BY <1>3, <1>8, <1>18 DEF FetchManifest, Walk, WalkFails, Materialized, Move, local, Stages
<1>19. CASE UNCHANGED vars
  BY <1>3, <1>8, <1>19 DEF vars, local
<1> QED
  BY <1>9, <1>10, <1>11, <1>12, <1>13, <1>14, <1>15, <1>16, <1>17, <1>18, <1>19
     DEF Next, Step

(***************************************************************************)
(* Whatever is asked for, served, listed and pushed: the program's state   *)
(* stays within its types, and what is listed is what is or was there.     *)
(***************************************************************************)
THEOREM AddTypeCorrect == Spec => []TypeOK
<1>1. ASSUME TypeInv, ChosenInv, WalkInv PROVE TypeOK
  <2>1. stack \in Seq([item : Nat, next : Nat])
    <3>1. stack \in Seq([item : Nat \ {0}, next : Nat \ {0}])
      BY <1>1 DEF WalkInv, MaterializeTypeOK
    <3>2. PICK A, B : A = [item : Nat \ {0}, next : Nat \ {0}]
                      /\ B = [item : Nat, next : Nat]
      OBVIOUS
    <3>3. A \subseteq B
      BY <3>2
    <3>4. Seq(A) \subseteq Seq(B)
      BY <3>3, SeqMonotonic
    <3> QED BY <3>1, <3>2, <3>4
  <2>2. walk \in {"idle", "walking", "ok", "failed"}
    BY <1>1 DEF WalkInv, MaterializeTypeOK
  <2>3. chosen.version.sem \in Nat
    BY <1>1 DEF ChosenInv
  <2>4. site.tag \subseteq AllFiles /\ site.branch \subseteq AllFiles
    BY <1>1 DEF TypeInv, SiteInv
  <2> QED
    BY <1>1, <2>1, <2>2, <2>3, <2>4 DEF TypeInv, TypeOK, Looked, Typed, Formats, Stages
<1>2. Spec => []TypeInv
  BY RouteInitially, RouteInductive, TypeInitially, TypeInductive, PTL DEF Spec
<1>3. Spec => []ChosenInv
  BY LookedStays, ChosenInitially, ChosenInductive, PTL DEF Spec
<1>4. Spec => []WalkInv
  BY WalksAsMaterialize, WalkInvInitially, WalkInvInductive, PTL DEF MaterializeSpec
<1> QED BY <1>1, <1>2, <1>3, <1>4, PTL

-----------------------------------------------------------------------------
(* What is listed of a tag, and what that leads to.                        *)

\* Every file of the tag is listed, or will be by one of the requests to make.
Listed ==
  /\ ToSet(paths) \subseteq site.tag
  /\ \A p \in site.tag :
       p \in ToSet(paths) \/ \E q \in ToSet(queue) : Covers(res.host, site.tag, q, p)

\* What the resolver settled on is what all files of the tag lead to.
Found ==
  \E ps \in Seq(Path) :
    /\ ToSet(ps) = site.tag
    /\ target = IF res.asked.path # <<>> THEN RouteSubpath(ps, res.asked.path)
                ELSE RouteRepo(ps, res.asked.name)

TagInv ==
  /\ pc \in {"resolve", "release", "list", "probe"} => target = Unsupported
  /\ pc \in {"resolve", "release"} => paths = <<>>
  /\ Uses("git") => pc # "probe"
  /\ Uses("git") /\ Repo = <<>> => pc \in {"resolve", "failed"} /\ target = Unsupported
  /\ FixedListing /\ pc = "list" => Listed
  /\ FixedListing /\ target # Unsupported => Found

LEMMA HeadOrTail ==
  ASSUME NEW X, NEW s \in Seq(X), s # <<>>, NEW x \in ToSet(s)
  PROVE  x = Head(s) \/ x \in ToSet(Tail(s))
<1>1. PICK i \in DOMAIN s : x = s[i]
  BY DEF ToSet
<1>2. PICK t : t = Tail(s)
  OBVIOUS
<1>3. /\ t \in Seq(X) /\ Len(t) = Len(s) - 1
      /\ \A j \in 1 .. Len(t) : t[j] = s[j + 1]
  BY <1>2, HeadTailProperties
<1>4. i \in 1 .. Len(s) /\ Head(s) = s[1] /\ DOMAIN t = 1 .. Len(t)
  BY <1>3
<1>5. CASE i = 1
  BY <1>1, <1>4, <1>5
<1>6. CASE i # 1
  <2>1. i - 1 \in DOMAIN t /\ t[i - 1] = s[i]
    BY <1>3, <1>4, <1>6
  <2> QED BY <1>1, <1>2, <2>1 DEF ToSet
<1> QED BY <1>5, <1>6

LEMMA UsesStay == UNCHANGED res => (Uses("git")' <=> Uses("git"))
<1> SUFFICES ASSUME res' = res PROVE Uses("git")' <=> Uses("git")
  OBVIOUS
<1>1. Detected' = Detected
  BY DEF Detected
<1> QED BY <1>1, Zenon DEF Uses

\* A tag and what is asked for stay.
LEMMA TagStays ==
  ASSUME SiteInv, [Next]_vars
  PROVE  /\ res' = res /\ site'.tag = site.tag
         /\ Repo' = Repo /\ (Uses("git")' <=> Uses("git"))
         /\ ref' = ref => (FixedListing' <=> FixedListing)
<1>1. res' = res
  BY WorldStays
<1>2. site'.tag = site.tag
  <2>1. ASSUME NEW tree, site' = [site EXCEPT !.branch = tree] PROVE site'.tag = site.tag
    <3>1. PICK s, t : s = site.tag /\ t = site.branch
      OBVIOUS
    <3>2. site = [tag |-> s, branch |-> t]
      BY <3>1 DEF SiteInv
    <3>3. site' = [tag |-> s, branch |-> tree]
      BY <2>1, <3>2
    <3> QED BY <3>1, <3>3
  <2> QED BY <2>1, WorldStays
<1>3. Uses("git")' <=> Uses("git")
  BY <1>1, UsesStay
<1>4. Repo' = Repo
  BY <1>1 DEF Repo
<1>5. ASSUME ref' = ref PROVE FixedListing' <=> FixedListing
  BY <1>1, <1>2, <1>3, <1>5 DEF FixedListing
<1> QED BY <1>1, <1>2, <1>3, <1>4, <1>5

LEMMA TagInitially == Init => TagInv
  BY DEF Init, TagInv, Unsupported

LEMMA ParsedFixed ==
  ASSUME Asked, FixedListing, Repo # <<>>
  PROVE  /\ Parsed.sub = res.asked.path /\ ~Parsed.blob
         /\ Last(Repo) = res.asked.name
<1>1. OfRepo /\ Clear /\ ~res.asked.blob
  BY DEF FixedListing, OfRepo, Clear
<1> QED BY <1>1, ParsedAsAsked

LEMMA TagInductive == TypeInv /\ TagInv /\ [Next]_vars => TagInv'
<1> SUFFICES ASSUME TypeInv, TagInv, [Next]_vars PROVE TagInv'
  OBVIOUS
<1>1. /\ SiteInv /\ Asked /\ queue \in Seq(Request) /\ paths \in Seq(Path)
      /\ res.host \in {"github", "gitlab", "bitbucket"}
      /\ IsTree(site.tag)
  <2>1. Asked
    BY DEF TypeInv, Looked, Asked
  <2>2. res.host \in {"github", "gitlab", "bitbucket"}
    BY <2>1, AddRunAssumption DEF Asked
  <2> QED BY <2>1, <2>2 DEF TypeInv, SiteInv
<1>2. /\ res' = res /\ site'.tag = site.tag
      /\ Repo' = Repo /\ (Uses("git")' <=> Uses("git"))
      /\ ref' = ref => (FixedListing' <=> FixedListing)
  BY <1>1, TagStays
<1>3. Asked' /\ (FixedListing' => Uses("git"))
  BY <1>1, <1>2 DEF Asked, FixedListing
<1>4. /\ pc \in {"resolve", "release", "list", "probe"} => target = Unsupported
      /\ pc \in {"resolve", "release"} => paths = <<>>
      /\ Uses("git") => pc # "probe"
      /\ Uses("git") /\ Repo = <<>> => pc \in {"resolve", "failed"} /\ target = Unsupported
      /\ FixedListing /\ pc = "list" => Listed
      /\ FixedListing /\ target # Unsupported => Found
  BY DEF TagInv
<1>5. ASSUME ref' = ref, target' = target, UNCHANGED <<queue, paths>>,
             pc' = pc \/ pc' \notin {"resolve", "release", "list", "probe"},
             pc' \in {"resolve", "failed"} \/ pc \notin {"resolve", "failed"}
      PROVE  TagInv'
  BY <1>2, <1>4, <1>5 DEF TagInv, Listed, Found
<1>6. ASSUME NEW r, Resolves(r), Uses("git") => Repo # <<>>,
             FixedListing' /\ r # Unsupported =>
               \E ps \in Seq(Path) :
                 /\ ToSet(ps) = site.tag
                 /\ r = IF res.asked.path # <<>> THEN RouteSubpath(ps, res.asked.path)
                        ELSE RouteRepo(ps, res.asked.name)
      PROVE  TagInv'
  <2>1. target' = r /\ pc' \in {"failed", "dispatch"} /\ paths' = <<>>
    BY <1>6 DEF Resolves
  <2> QED BY <1>2, <1>6, <2>1 DEF TagInv, Found
<1>7. ASSUME NEW r, WithRef(r), Uses("git") => Repo # <<>>,
             pc \in {"resolve", "release"}
      PROVE  TagInv'
  <2>1. CASE Parsed.blob
    <3>1. FixedListing' => FALSE
      <4>1. SUFFICES ASSUME FixedListing' PROVE FALSE
        OBVIOUS
      <4>2. OfRepo /\ Clear /\ ~res.asked.blob
        BY <1>2, <1>3, <1>7, <4>1 DEF FixedListing, OfRepo, Clear
      <4> QED BY <1>1, <2>1, <4>2, ParsedAsAsked
    <3> QED BY <1>6, <1>7, <2>1, <3>1 DEF WithRef
  <2>2. CASE ~Parsed.blob
    <3>1. /\ pc' = "list" /\ queue' = <<FirstRequest>>
          /\ paths' = <<>> /\ target' = Unsupported
      BY <1>4, <1>7, <2>2 DEF WithRef
    <3>2. ASSUME NEW p \in site.tag
          PROVE  \E q \in ToSet(queue') : Covers(res.host, site.tag, q, p)
      <4>1. Covers(res.host, site.tag, FirstRequest, p)
        BY <1>1, FirstCovers
      <4>2. FirstRequest \in ToSet(queue')
        BY <3>1, OneOf
      <4> QED BY <4>1, <4>2
    <3>3. ToSet(paths') = {}
      BY <3>1 DEF ToSet
    <3>4. Listed'
      BY <1>2, <3>2, <3>3 DEF Listed
    <3> QED BY <1>2, <1>7, <3>1, <3>4 DEF TagInv
  <2> QED BY <2>1, <2>2
<1>8. CASE GitResolve
  <2>1. CASE Parsed.ref # ""
    BY <1>7, <1>8, <2>1 DEF GitResolve
  <2>2. CASE Parsed.ref = ""
    <3>1. /\ pc' = "release" /\ target' = Unsupported /\ paths' = <<>>
          /\ Repo # <<>>
      BY <1>4, <1>8, <2>2 DEF GitResolve, local
    <3> QED BY <1>2, <3>1 DEF TagInv
  <2> QED BY <2>1, <2>2
<1>9. CASE LatestRelease
  <2>1. pc = "release" /\ (Uses("git") => Repo # <<>>)
    BY <1>4, <1>9 DEF LatestRelease
  <2> QED BY <1>7, <1>9, <2>1 DEF LatestRelease
<1>10. CASE ListPage
  <2>1. /\ pc = "list" /\ pc' = "list" /\ queue # <<>> /\ target' = target /\ ref' = ref
        /\ Uses("git") => Repo # <<>>
    BY <1>4, <1>10 DEF ListPage
  <2>2. ASSUME FixedListing PROVE Listed'
    <3>1. PICK T, req, a : T = site.tag /\ req = Head(queue) /\ a = Answer(res.host, T, req)
      OBVIOUS
    <3>2. Tree = T
      <4>1. ref = "tag"
        BY <2>2 DEF FixedListing
      <4>2. ref \in DOMAIN site
        BY <1>10 DEF ListPage
      <4> QED BY <3>1, <4>1, <4>2 DEF Tree
    <3>3. paths' = paths \o a.files /\ queue' = Tail(queue) \o a.more
      BY <1>10, <3>1, <3>2 DEF ListPage
    <3>4. req \in Request /\ Tail(queue) \in Seq(Request)
      BY <1>1, <2>1, <3>1, HeadTailProperties
    <3>5. Brings(res.host, T, req, a)
      BY <1>1, <3>1, <3>4, AnswerBrings
    <3>6. res.host = "github" => Len(TreeEntries(T)) <= TreeLimit
      BY <2>2, <3>1 DEF FixedListing
    <3>7. /\ a.files \in Seq(Path) /\ ToSet(a.files) \subseteq T /\ a.more \in Seq(Request)
          /\ \A p \in T : Covers(res.host, T, req, p) =>
               p \in ToSet(a.files) \/ \E q \in ToSet(a.more) : Covers(res.host, T, q, p)
      BY <3>5, <3>6 DEF Brings
    <3>8. ToSet(paths') = ToSet(paths) \cup ToSet(a.files)
      BY <1>1, <3>3, <3>7, Joined
    <3>9. ToSet(queue') = ToSet(Tail(queue)) \cup ToSet(a.more)
      BY <3>3, <3>4, <3>7, Joined
    <3>10. /\ ToSet(paths) \subseteq T
           /\ \A p \in T :
                p \in ToSet(paths) \/ \E q \in ToSet(queue) : Covers(res.host, T, q, p)
      BY <1>4, <2>1, <2>2, <3>1 DEF Listed
    <3>11. \A q \in ToSet(queue) : q = req \/ q \in ToSet(Tail(queue))
      BY <1>1, <2>1, <3>1, HeadOrTail
    <3>12. ASSUME NEW p \in T
           PROVE  p \in ToSet(paths') \/ \E q \in ToSet(queue') : Covers(res.host, T, q, p)
      BY <3>7, <3>8, <3>9, <3>10, <3>11
    <3> QED BY <1>2, <3>1, <3>7, <3>8, <3>10, <3>12 DEF Listed
  <2> QED BY <1>2, <1>4, <2>1, <2>2 DEF TagInv, Found
<1>11. CASE Route
  <2>1. /\ pc = "list" /\ queue = <<>> /\ ref' = ref
        /\ Uses("git") => Repo # <<>>
    BY <1>4, <1>11 DEF Route
  <2>2. PICK r : /\ Resolves(r)
                 /\ r = IF Parsed.sub # <<>> THEN RouteSubpath(paths, Parsed.sub)
                        ELSE RouteRepo(paths, Last(Repo))
    BY <1>11 DEF Route
  <2>3. ASSUME FixedListing'
        PROVE  /\ ToSet(paths) = site.tag
               /\ r = IF res.asked.path # <<>> THEN RouteSubpath(paths, res.asked.path)
                      ELSE RouteRepo(paths, res.asked.name)
    <3>1. FixedListing /\ Repo # <<>>
      BY <1>2, <1>3, <2>1, <2>3
    <3>2. ToSet(queue) = {}
      BY <2>1 DEF ToSet
    <3>3. ToSet(paths) = site.tag
      BY <1>4, <2>1, <3>1, <3>2 DEF Listed
    <3> QED BY <1>1, <2>2, <3>1, <3>3, ParsedFixed
  <2> QED BY <1>1, <1>6, <2>1, <2>2, <2>3
<1>12. CASE HttpResolve \/ Probe \/ ImageResolve
  <2>1. ~Uses("git")
    <3>1. CASE HttpResolve \/ ImageResolve
      BY <3>1 DEF HttpResolve, ImageResolve, Uses
    <3>2. CASE Probe
      BY <1>4, <3>2 DEF Probe
    <3> QED BY <1>12, <3>1, <3>2
  <2>2. CASE pc' = "probe" /\ UNCHANGED local
    <3>1. pc \in {"resolve", "probe"}
      BY <1>12 DEF HttpResolve, Probe, ImageResolve
    <3>2. target' = Unsupported
      BY <1>4, <2>2, <3>1 DEF local
    <3> QED BY <1>2, <1>3, <2>1, <2>2, <3>2 DEF TagInv
  <2>3. CASE ~(pc' = "probe" /\ UNCHANGED local)
    <3>1. PICK r : Resolves(r)
      BY <1>12, <2>3 DEF HttpResolve, Probe, ImageResolve
    <3> QED BY <1>3, <1>6, <2>1, <3>1
  <2> QED BY <2>2, <2>3
<1>13. CASE UnknownResource \/ LatestReleaseFails \/ ListFails \/ DispatchFails
           \/ FetchChartYamlFails \/ FetchMemberFails \/ FetchIndexFails
           \/ FetchArchiveFails \/ FetchManifestFails
  BY <1>5, <1>13 DEF UnknownResource, LatestReleaseFails, ListFails, DispatchFails,
     FetchChartYamlFails, FetchMemberFails, FetchIndexFails, FetchArchiveFails,
     FetchManifestFails, Fail, local
<1>14. CASE Dispatch \/ FetchChartYaml \/ FetchMember \/ LoadChart
            \/ ReviewValues \/ FetchArchive \/ FetchIndex
  BY <1>5, <1>14 DEF Dispatch, FetchChartYaml, FetchMember, LoadChart,
     ReviewValues, FetchArchive, FetchIndex, local
<1>15. CASE FetchManifest \/ Walk \/ WalkFails \/ Materialized \/ Move
  BY <1>5, <1>15 DEF FetchManifest, Walk, WalkFails, Materialized, Move, local
<1>16. CASE UNCHANGED vars
  BY <1>5, <1>16 DEF vars, local
<1> QED
  BY <1>8, <1>9, <1>10, <1>11, <1>12, <1>13, <1>14, <1>15, <1>16 DEF Next, Step

(***************************************************************************)
(* At a tag, whatever the host, its page size and the shape of the tree:   *)
(* every file is listed or still covered by a request to make, nothing     *)
(* else is listed, and what the resolver settles on is what all the files  *)
(* lead to.                                                                *)
(***************************************************************************)
THEOREM ListsWholeTag == Spec => [](TypeInv /\ TagInv)
<1>1. Spec => []TypeInv
  BY RouteInitially, RouteInductive, TypeInitially, TypeInductive, PTL DEF Spec
<1> QED
  BY <1>1, TagInitially, TagInductive, PTL DEF Spec

\* Where the files of a repository lead: to its own chart, to some chart, or,
\* when there is none, to its kustomization.
LEMMA RoutesRight ==
  ASSUME NEW ps \in Seq(Path), NEW T, T = ToSet(ps), IsTree(T), NEW name,
         NEW own, own = <<"charts", name, "Chart.yaml">>,
         NEW charts, charts = {p \in T : p[1] = "charts" /\ Last(p) = "Chart.yaml"},
         NEW r, r = RouteRepo(ps, name), r.format # "none"
  PROVE  /\ own \in charts => r.url = RawURL(own)
         /\ own \notin charts /\ charts # {} => r.url \in {RawURL(p) : p \in charts}
         /\ charts = {} => r.format = "kustomize"
<1>1. Len(own) = 3 /\ own[1] = "charts" /\ own[3] = "Chart.yaml"
  OBVIOUS
<1>2. own[1] = "charts" /\ Last(own) = "Chart.yaml"
  BY <1>1 DEF Last
<1>3. own \in charts <=> own \in T
  BY <1>2
<1>4. \A p \in T : p \in charts <=> IsChartYaml(p)
  <2>1. SUFFICES ASSUME NEW p \in T, p[1] = "charts", Last(p) = "Chart.yaml"
                 PROVE  Len(p) > 1
    BY DEF IsChartYaml
  <2>2. p \in Path /\ p # <<>>
    BY DEF IsTree
  <2>3. PICK n : n = Len(p)
    OBVIOUS
  <2>4. n \in Nat \ {0}
    BY <2>2, <2>3 DEF Path
  <2>5. n # 1
    BY <2>1, <2>3 DEF Last
  <2>6. n > 1
    BY <2>4, <2>5
  <2> QED BY <2>3, <2>6
<1>5. PICK dir : dir = FindChart(ps, name)
  OBVIOUS
<1>6. \/ /\ dir = <<>> /\ own \notin T
         /\ \A p \in T : ~IsChartYaml(p)
      \/ \E p \in T : /\ IsChartYaml(p) /\ dir \in Path \ {<<>>}
                      /\ p = dir \o <<"Chart.yaml">>
                      /\ own \in T => p = own
  BY <1>5, FindChartIs
<1>7. CASE dir = <<>>
  <2>1. charts = {}
    BY <1>4, <1>6, <1>7
  <2>2. r = KustomizationIn(ps, <<>>)
    BY <1>5, <1>7 DEF RouteRepo
  <2>3. r = Unsupported \/ \E u : r = Resolution("kustomize", u)
    BY <2>2 DEF KustomizationIn
  <2>4. r.format = "kustomize"
    BY <2>3 DEF Unsupported, Resolution
  <2> QED BY <2>1, <2>4
<1>8. CASE dir # <<>>
  <2>1. PICK p \in T : /\ IsChartYaml(p) /\ dir \in Path
                       /\ p = dir \o <<"Chart.yaml">>
                       /\ own \in T => p = own
    BY <1>6, <1>8
  <2>2. r = ChartResolution(dir, ps)
    BY <1>5, <1>8 DEF RouteRepo
  <2>3. r.url = RawURL(p)
    BY <2>1, <2>2, ChartResolutionIs
  <2>4. p \in charts
    BY <1>4, <2>1
  <2> QED BY <1>3, <2>1, <2>3, <2>4
<1> QED BY <1>7, <1>8

(***************************************************************************)
(* However a host pages and orders what it lists: a bare repository at a   *)
(* tag leads to charts/<its own name> if there is one, else to some chart  *)
(* under charts/, and to a kustomization only without one.                 *)
(***************************************************************************)
THEOREM InstallsRightArtifact == Spec => []RightArtifact
<1>1. ASSUME TypeInv, TagInv PROVE RightArtifact
  <2> SUFFICES ASSUME target.format # "none", FixedListing, res.asked.path = <<>>
               PROVE  RightArtifact
    BY DEF RightArtifact
  <2>1. target # Unsupported
    BY DEF Unsupported
  <2>2. PICK ps \in Seq(Path) :
          ToSet(ps) = site.tag /\ target = RouteRepo(ps, res.asked.name)
    BY <1>1, <2>1 DEF TagInv, Found
  <2>3. PICK T, name, own, charts, r :
          /\ T = site.tag /\ name = res.asked.name /\ r = target
          /\ own = <<"charts", name, "Chart.yaml">>
          /\ charts = {p \in T : p[1] = "charts" /\ Last(p) = "Chart.yaml"}
    OBVIOUS
  <2>4. IsTree(T)
    BY <1>1, <2>3 DEF TypeInv, SiteInv
  <2>5. T = ToSet(ps) /\ r = RouteRepo(ps, name) /\ r.format # "none"
    BY <2>2, <2>3
  <2>6. own = <<"charts", name, "Chart.yaml">>
    BY <2>3
  <2>7. charts = {p \in T : p[1] = "charts" /\ Last(p) = "Chart.yaml"}
    BY <2>3
  <2>8. /\ own \in charts => r.url = RawURL(own)
        /\ own \notin charts /\ charts # {} => r.url \in {RawURL(p) : p \in charts}
        /\ charts = {} => r.format = "kustomize"
    BY <2>4, <2>5, <2>6, <2>7, RoutesRight
  <2> QED BY <2>3, <2>8 DEF RightArtifact
<1> QED BY <1>1, ListsWholeTag, PTL

-----------------------------------------------------------------------------
(* What is fetched of a chart.                                             *)

\* The chart in dir, with all its files at the tag, is what is to be fetched.
IsChart(dir) ==
  /\ dir \in Path
  /\ target.url = RawURL(dir \o <<"Chart.yaml">>)
  /\ target.files \in Seq(Path) /\ ToSet(target.files) = Members(site.tag, dir)

LEMMA FoundChart ==
  ASSUME TypeInv, TagInv, FixedListing, target.format = "helm"
  PROVE  \E dir : IsChart(dir)
<1>1. target # Unsupported
  BY DEF Unsupported
<1>2. PICK ps \in Seq(Path) :
        /\ ToSet(ps) = site.tag
        /\ target = IF res.asked.path # <<>> THEN RouteSubpath(ps, res.asked.path)
                    ELSE RouteRepo(ps, res.asked.name)
  BY <1>1 DEF TagInv, Found
<1>3. PICK sub : sub = res.asked.path
  OBVIOUS
<1>4. sub \in Path /\ sub \notin site.tag
  <2>1. Asked /\ OfRepo /\ Clear
    BY <1>1 DEF TypeInv, Looked, Asked, TagInv, FixedListing, OfRepo, Clear
  <2> QED BY <1>3, <2>1, ParsedAsAsked DEF FixedListing
<1>5. \A dir : KustomizationIn(ps, dir).format # "helm"
  <2>1. ASSUME NEW dir PROVE KustomizationIn(ps, dir).format # "helm"
    <3>1. KustomizationIn(ps, dir) = Unsupported \/
            \E u : KustomizationIn(ps, dir) = Resolution("kustomize", u)
      BY DEF KustomizationIn
    <3> QED BY <3>1 DEF Unsupported, Resolution
  <2> QED BY <2>1
<1>6. \E dir \in Path : target = ChartResolution(dir, ps)
  <2>1. CASE sub # <<>>
    <3>1. DOMAIN ps = 1 .. Len(ps)
      OBVIOUS
    <3>2. ~Contains(ps, sub)
      BY <1>2, <1>4, <3>1 DEF Contains, ToSet
    <3>3. target \in {ChartResolution(sub, ps), KustomizationIn(ps, sub)}
      BY <1>2, <1>3, <2>1, <3>2 DEF RouteSubpath
    <3> QED BY <1>4, <1>5, <3>3
  <2>2. CASE sub = <<>>
    <3>1. PICK dir : dir = FindChart(ps, res.asked.name)
      OBVIOUS
    <3>2. dir # <<>> => dir \in Path
      BY <3>1, FindChartIs
    <3>3. target = IF dir # <<>> THEN ChartResolution(dir, ps) ELSE KustomizationIn(ps, <<>>)
      BY <1>2, <1>3, <2>2, <3>1 DEF RouteRepo
    <3> QED BY <1>5, <3>2, <3>3
  <2> QED BY <2>1, <2>2
<1>7. PICK dir \in Path : target = ChartResolution(dir, ps)
  BY <1>6
<1> QED BY <1>2, <1>7, ChartResolutionIs DEF IsChart

LEMMA FrontOf ==
  ASSUME NEW X, NEW s \in Seq(X), NEW x \in X
  PROVE  Front(s \o <<x>>) = s /\ BaseOf(s \o <<x>>) = x
<1>1. PICK t, m : t = s \o <<x>> /\ m = Len(s)
  OBVIOUS
<1>2. <<x>> \in Seq(X) /\ Len(<<x>>) = 1 /\ <<x>>[1] = x /\ m \in Nat
  BY <1>1
<1>3. t \in Seq(X) /\ Len(t) = m + 1 /\ SubSeq(t, 1, m) = s
  BY <1>1, <1>2, Appended
<1>4. t[m + 1] = x
  BY <1>1, <1>2
<1>5. Len(t) - 1 = m /\ t # <<>>
  BY <1>2, <1>3
<1> QED BY <1>1, <1>3, <1>4, <1>5 DEF Front, BaseOf, Last

\* Where the members of a chart are asked for.
LEMMA ChartURL ==
  ASSUME NEW dir, IsChart(dir)
  PROVE  /\ Front(target.url) = RawRoot \o dir /\ BaseOf(target.url) = "Chart.yaml"
         /\ Relative(RawRoot, Front(target.url)) = dir
<1>1. PICK X : X = Names \cup {"Chart.yaml"}
  OBVIOUS
<1>2. dir \in Seq(X) /\ RawRoot \in Seq(X) /\ "Chart.yaml" \in X
  <2>1. dir \in Seq(Names) /\ RawRoot \in Seq(Names)
    BY AddRunAssumption DEF IsChart, Path
  <2>2. Names \subseteq X /\ "Chart.yaml" \in X
    BY <1>1
  <2> QED BY <2>1, <2>2, SeqMonotonic
<1>3. PICK s : s = RawRoot \o dir
  OBVIOUS
<1>4. s \in Seq(X) /\ Relative(RawRoot, s) = dir
  BY <1>2, <1>3, Appended
<1>5. target.url = s \o <<"Chart.yaml">>
  <2>1. target.url = RawRoot \o (dir \o <<"Chart.yaml">>)
    BY DEF IsChart, RawURL
  <2>2. <<"Chart.yaml">> \in Seq(X)
    BY <1>2
  <2>3. (RawRoot \o dir) \o <<"Chart.yaml">> = RawRoot \o (dir \o <<"Chart.yaml">>)
    BY <1>2, <2>2, ConcatAssociative
  <2> QED BY <1>3, <2>1, <2>3
<1>6. Front(s \o <<"Chart.yaml">>) = s /\ BaseOf(s \o <<"Chart.yaml">>) = "Chart.yaml"
  BY <1>2, <1>4, FrontOf
<1> QED BY <1>3, <1>4, <1>5, <1>6

\* A member is served when it is at the tag, and nothing else is taken for it.
LEMMA MemberServed ==
  ASSUME SiteInv, Uses("git"), ref = "tag", NEW dir, IsChart(dir), NEW rel \in Path
  PROVE  Served(Front(target.url) \o rel) <=> dir \o rel \in site.tag
<1>1. Tree = site.tag
  <2>1. PICK s, b : s = site.tag /\ b = site.branch
    OBVIOUS
  <2>2. site = [tag |-> s, branch |-> b]
    BY <2>1 DEF SiteInv
  <2>3. "tag" \in DOMAIN site
    BY <2>2
  <2> QED BY <2>3 DEF Tree
<1>2. PICK url : url = Front(target.url) \o rel
  OBVIOUS
<1>3. url = RawURL(dir \o rel)
  <2>1. dir \in Seq(Names) /\ RawRoot \in Seq(Names) /\ rel \in Seq(Names)
    BY AddRunAssumption DEF IsChart, Path
  <2>2. (RawRoot \o dir) \o rel = RawRoot \o (dir \o rel)
    BY <2>1, ConcatAssociative
  <2>3. Front(target.url) = RawRoot \o dir
    BY ChartURL
  <2> QED BY <1>2, <2>2, <2>3 DEF RawURL
<1>4. Served(url) <=> \E p \in site.tag : url = RawURL(p)
  BY <1>1 DEF Served
<1>5. dir \o rel \in Path /\ site.tag \subseteq Path
  <2>1. dir \in Seq(Names) /\ rel \in Seq(Names)
    BY DEF IsChart, Path
  <2>2. dir \o rel \in Seq(Names)
    BY <2>1
  <2> QED BY <2>2 DEF SiteInv, IsTree, Path
<1>6. ASSUME NEW p \in Path, NEW q \in Path, RawURL(p) = RawURL(q) PROVE p = q
  <2>1. p \in Seq(Names) /\ q \in Seq(Names) /\ RawRoot \in Seq(Names)
    BY AddRunAssumption DEF Path
  <2>2. Relative(RawRoot, RawRoot \o p) = p /\ Relative(RawRoot, RawRoot \o q) = q
    BY <2>1, Appended
  <2> QED BY <1>6, <2>2 DEF RawURL
<1> QED BY <1>2, <1>3, <1>4, <1>5, <1>6

\* What may be fetched as a file of a chart.
Fetchable == {rel \in Path \ {<<>>} : IsChartFile(rel) /\ rel # <<"Chart.yaml">>}

\* How far the members of the chart in dir are fetched.
Fetching(dir) ==
  /\ pc = "members" =>
       /\ ToSet(todo) \subseteq Fetchable
       /\ got \subseteq Members(site.tag, dir)
       /\ Members(site.tag, dir) \subseteq got \cup ToSet(todo)
  /\ pc \in {"values", "handed"} => got = Members(site.tag, dir)

ChartInv ==
  /\ pc \notin {"members", "values", "handed", "failed"} => got = {}
  /\ FixedListing /\ target.format = "helm" =>
       /\ pc \in {"dispatch", "chart", "members", "values", "handed", "failed"}
       /\ \A dir : IsChart(dir) => Fetching(dir)

LEMMA ChartInitially == Init => ChartInv
  BY DEF Init, ChartInv, Unsupported

\* The conventional paths, or the files that were found, may all be fetched.
LEMMA TodoFetchable ==
  ASSUME SiteInv, NEW dir, IsChart(dir),
         NEW list, list = IF target.files # <<>> THEN target.files ELSE Conventional
  PROVE  /\ ToSet(list) \subseteq Fetchable
         /\ Members(site.tag, dir) \subseteq ToSet(list)
<1>1. site.tag \subseteq Path /\ dir \in Path
  BY DEF SiteInv, IsTree, IsChart
<1>2. CASE target.files # <<>>
  <2>1. ToSet(list) = Members(site.tag, dir)
    BY <1>2 DEF IsChart
  <2>2. \A rel \in Members(site.tag, dir) : rel \in Fetchable
    BY <1>1, MembersAre DEF Fetchable
  <2> QED BY <2>1, <2>2
<1>3. CASE target.files = <<>>
  <2>1. Members(site.tag, dir) = {}
    BY <1>3 DEF IsChart, ToSet
  <2>2. list = Conventional /\ list \in Seq(Path)
    BY <1>3, ConventionalAssumption
  <2>3. \A rel \in ToSet(list) : rel \in Path
    BY <2>2 DEF ToSet
  <2>4. ToSet(list) \subseteq Fetchable
    BY <2>2, <2>3, ConventionalAssumption DEF Fetchable
  <2> QED BY <2>1, <2>4
<1> QED BY <1>2, <1>3

LEMMA ChartInductive ==
  TypeInv /\ TagInv /\ ChartInv /\ [Next]_vars => ChartInv'
<1> SUFFICES ASSUME TypeInv, TagInv, ChartInv, [Next]_vars PROVE ChartInv'
  OBVIOUS
<1>1. SiteInv /\ todo \in Seq(Path)
  BY DEF TypeInv
<1>2. /\ res' = res /\ site'.tag = site.tag
      /\ ref' = ref => (FixedListing' <=> FixedListing)
  BY <1>1, TagStays
<1>3. /\ pc \notin {"members", "values", "handed", "failed"} => got = {}
      /\ FixedListing /\ target.format = "helm" =>
           /\ pc \in {"dispatch", "chart", "members", "values", "handed", "failed"}
           /\ \A dir : IsChart(dir) => Fetching(dir)
  BY DEF ChartInv
<1>4. pc \in {"resolve", "release", "list", "probe"} => target.format = "none"
  BY DEF TagInv, Unsupported
<1>5. ASSUME target' = target PROVE \A dir : IsChart(dir)' <=> IsChart(dir)
  BY <1>2, <1>5 DEF IsChart
\* Nothing was fetched, and nothing is.
<1>6. ASSUME NEW r, Resolves(r), pc \in {"resolve", "release", "list", "probe"}
      PROVE  ChartInv'
  <2>1. /\ target' = r /\ got' = {}
        /\ pc' \in {"failed", "dispatch"}
    BY <1>3, <1>6 DEF Resolves
  <2> QED BY <2>1 DEF ChartInv, Fetching
<1>7. ASSUME target'.format # "helm", got' = got,
             pc \in {"members", "values", "handed", "failed"}
               => pc' \in {"members", "values", "handed", "failed"}
      PROVE  ChartInv'
  BY <1>3, <1>7 DEF ChartInv
<1>8. ASSUME NEW r, WithRef(r), pc \in {"resolve", "release"} PROVE ChartInv'
  <2>1. CASE Parsed.blob
    BY <1>6, <1>8, <2>1 DEF WithRef
  <2>2. CASE ~Parsed.blob
    BY <1>4, <1>7, <1>8, <2>2 DEF WithRef
  <2> QED BY <2>1, <2>2
<1>9. CASE GitResolve
  <2>1. CASE Parsed.ref # ""
    BY <1>8, <1>9, <2>1 DEF GitResolve
  <2>2. CASE Parsed.ref = ""
    BY <1>4, <1>7, <1>9, <2>2 DEF GitResolve, local
  <2> QED BY <2>1, <2>2
<1>10. CASE LatestRelease
  BY <1>8, <1>10 DEF LatestRelease
<1>11. CASE ListPage
  BY <1>4, <1>7, <1>11 DEF ListPage
<1>12. CASE Route
  BY <1>6, <1>12 DEF Route
<1>13. CASE HttpResolve \/ Probe \/ ImageResolve
  <2>1. pc \in {"resolve", "probe"}
    BY <1>13 DEF HttpResolve, Probe, ImageResolve
  <2>2. CASE pc' = "probe" /\ UNCHANGED local
    BY <1>4, <1>7, <2>1, <2>2 DEF local
  <2>3. CASE ~(pc' = "probe" /\ UNCHANGED local)
    <3>1. PICK r : Resolves(r)
      BY <1>13, <2>3 DEF HttpResolve, Probe, ImageResolve
    <3> QED BY <1>6, <2>1, <3>1
  <2> QED BY <2>2, <2>3
\* A request fails.
<1>14. ASSUME pc' = "failed", target' = target, ref' = ref, got' = got PROVE ChartInv'
  BY <1>14 DEF ChartInv, Fetching
<1>15. CASE UnknownResource \/ LatestReleaseFails \/ ListFails \/ DispatchFails
           \/ FetchChartYamlFails \/ FetchMemberFails \/ FetchIndexFails
           \/ FetchArchiveFails \/ FetchManifestFails
  BY <1>14, <1>15 DEF UnknownResource, LatestReleaseFails, ListFails, DispatchFails,
     FetchChartYamlFails, FetchMemberFails, FetchIndexFails, FetchArchiveFails,
     FetchManifestFails, Fail, local
\* The chart.
<1>16. CASE Dispatch
  <2>1. /\ pc = "dispatch" /\ target' = target /\ ref' = ref /\ got' = {}
        /\ pc' \in {"manifest", "archive", "chart", "index"}
    BY <1>3, <1>16 DEF Dispatch, local
  <2>2. ASSUME FixedListing, target.format = "helm" PROVE pc' = "chart"
    <3>1. PICK dir : IsChart(dir)
      BY <2>2, FoundChart
    <3>2. BaseOf(target.url) \in ChartNames
      BY <3>1, ChartURL DEF ChartNames
    <3>3. ~Packaged
      BY <2>2 DEF FixedListing, Packaged
    <3> QED BY <1>16, <2>2, <3>2, <3>3 DEF Dispatch
  <2> QED BY <1>2, <2>1, <2>2 DEF ChartInv, Fetching
<1>17. CASE FetchChartYaml
  <2>1. /\ pc = "chart" /\ pc' = "members" /\ target' = target /\ ref' = ref
        /\ got' = {}
        /\ todo' = IF target.files # <<>> THEN target.files ELSE Conventional
    BY <1>3, <1>17 DEF FetchChartYaml
  <2>2. ASSUME NEW dir, IsChart(dir) PROVE Fetching(dir)'
    <3>1. ToSet(todo') \subseteq Fetchable /\ Members(site.tag, dir) \subseteq ToSet(todo')
      BY <1>1, <2>1, <2>2, TodoFetchable
    <3> QED BY <1>2, <2>1, <3>1 DEF Fetching
  <2> QED BY <1>5, <2>1, <2>2 DEF ChartInv
<1>18. CASE FetchMember
  <2>1. PICK rel, rest : rel = Head(todo) /\ rest = Tail(todo)
    OBVIOUS
  <2>2. /\ pc = "members" /\ pc' = "members" /\ todo # <<>> /\ target' = target
        /\ ref' = ref /\ todo' = rest
        /\ got' = IF Served(Front(target.url) \o rel) THEN got \cup {rel} ELSE got
    BY <1>18, <2>1 DEF FetchMember
  <2>3. /\ rel \in ToSet(todo) /\ ToSet(rest) \subseteq ToSet(todo)
        /\ \A x \in ToSet(todo) : x = rel \/ x \in ToSet(rest)
    <3>1. \A x \in ToSet(todo) : x = rel \/ x \in ToSet(rest)
      BY <1>1, <2>1, <2>2, HeadOrTail
    <3>2. /\ rest \in Seq(Path) /\ Len(rest) = Len(todo) - 1
          /\ \A i \in 1 .. Len(rest) : rest[i] = todo[i + 1]
      BY <1>1, <2>1, <2>2, HeadTailProperties
    <3>3. /\ DOMAIN todo = 1 .. Len(todo) /\ DOMAIN rest = 1 .. Len(rest)
          /\ Len(todo) \in Nat \ {0} /\ rel = todo[1]
      BY <1>1, <2>1, <2>2, <3>2
    <3>4. rel \in ToSet(todo)
      BY <3>3 DEF ToSet
    <3>5. \A i \in DOMAIN rest : i + 1 \in DOMAIN todo /\ rest[i] = todo[i + 1]
      BY <3>2, <3>3
    <3>6. ToSet(rest) \subseteq ToSet(todo)
      BY <3>5 DEF ToSet
    <3> QED BY <3>1, <3>4, <3>6
  <2>4. ASSUME FixedListing, target.format = "helm", NEW dir, IsChart(dir)
        PROVE  Fetching(dir)'
    <3>1. PICK M : M = Members(site.tag, dir)
      OBVIOUS
    <3>2. /\ ToSet(todo) \subseteq Fetchable /\ got \subseteq M
          /\ M \subseteq got \cup ToSet(todo)
      BY <1>3, <2>2, <2>4, <3>1 DEF Fetching
    <3>3. rel \in Path \ {<<>>} /\ IsChartFile(rel) /\ rel # <<"Chart.yaml">>
      BY <2>3, <3>2 DEF Fetchable
    <3>4. Served(Front(target.url) \o rel) <=> dir \o rel \in site.tag
      BY <1>1, <2>4, <3>3, MemberServed DEF FixedListing
    <3>5. site.tag \subseteq Path /\ dir \in Path
      BY <1>1, <2>4 DEF SiteInv, IsTree, IsChart
    <3>6. rel \in M <=> dir \o rel \in site.tag
      BY <3>1, <3>3, <3>5, MembersAre
    <3>7. got' \subseteq M /\ M \subseteq got' \cup ToSet(rest)
      BY <2>2, <2>3, <3>2, <3>4, <3>6
    <3> QED BY <1>2, <2>2, <2>3, <3>1, <3>2, <3>7 DEF Fetching
  <2> QED BY <1>2, <1>5, <2>2, <2>4 DEF ChartInv
<1>19. CASE LoadChart
  <2>1. /\ pc = "members" /\ pc' \in {"values", "failed"} /\ todo = <<>>
        /\ target' = target /\ ref' = ref /\ got' = got
    BY <1>19 DEF LoadChart, local
  <2>2. ToSet(todo) = {}
    BY <2>1 DEF ToSet
  <2>3. ASSUME FixedListing, target.format = "helm", NEW dir, IsChart(dir)
        PROVE  Fetching(dir)'
    BY <1>2, <1>3, <2>1, <2>2, <2>3 DEF Fetching
  <2> QED BY <1>2, <1>5, <2>1, <2>3 DEF ChartInv
<1>24. CASE ReviewValues
  <2>1. /\ pc = "values" /\ pc' \in {"handed", "failed"}
        /\ target' = target /\ ref' = ref /\ got' = got
    BY <1>24 DEF ReviewValues, local
  <2>2. ASSUME FixedListing, target.format = "helm", NEW dir, IsChart(dir)
        PROVE  Fetching(dir)'
    BY <1>2, <1>3, <2>1, <2>2 DEF Fetching
  <2> QED BY <1>2, <1>5, <2>1, <2>2 DEF ChartInv
\* What is not a chart found in a repository.
<1>20. ASSUME pc \in {"index", "archive", "manifest", "materialize"},
              target' = target, ref' = ref, got' = got,
              pc' \in {"archive", "materialize", "values", "handed", "failed"}
       PROVE  ChartInv'
  BY <1>2, <1>3, <1>20 DEF ChartInv
<1>21. CASE FetchIndex \/ FetchArchive \/ FetchManifest \/ Walk \/ WalkFails \/ Materialized
  <2>1. /\ pc \in {"index", "archive", "manifest", "materialize"}
        /\ target' = target /\ ref' = ref /\ got' = got
        /\ pc' \in {"archive", "materialize", "values", "handed", "failed"}
    BY <1>21 DEF FetchIndex, FetchArchive, FetchManifest, Walk, WalkFails, Materialized, local
  <2> QED BY <1>20, <2>1
<1>22. CASE Move
  <2>1. pc' = pc /\ ref' = ref /\ got' = got /\ ref = "branch"
    BY <1>22 DEF Move, local
  <2> QED BY <1>2, <1>3, <2>1 DEF ChartInv, FixedListing
<1>23. CASE UNCHANGED vars
  <2>1. pc' = pc /\ ref' = ref /\ got' = got /\ target' = target /\ todo' = todo
    BY <1>23 DEF vars, local
  <2> QED BY <1>2, <1>3, <1>5, <2>1 DEF ChartInv, Fetching
<1> QED
  BY <1>9, <1>10, <1>11, <1>12, <1>13, <1>15, <1>16, <1>17, <1>18, <1>19, <1>21,
     <1>22, <1>23, <1>24 DEF Next, Step

(***************************************************************************)
(* A chart found in a repository at a tag is rendered with all of its      *)
(* templates, values, dependencies and CRDs: no page, directory or member  *)
(* is lost on the way, and nothing that is not of the chart comes in,      *)
(* however the tree looks and whatever the page size.                      *)
(***************************************************************************)
THEOREM RendersAllParts == Spec => []NoPartLost
<1>1. ASSUME TypeInv, TagInv, ChartInv PROVE NoPartLost
  <2> SUFFICES ASSUME pc \in {"values", "handed"}, target.format = "helm", FixedListing
               PROVE  NoPartLost
    BY DEF NoPartLost
  <2>1. PICK dir : IsChart(dir)
    BY <1>1, FoundChart
  <2>2. got = Members(site.tag, dir)
    BY <1>1, <2>1 DEF ChartInv, Fetching
  <2>3. Relative(RawRoot, Front(target.url)) = dir
    BY <2>1, ChartURL
  <2>4. \A rel : Rendered(rel) => rel # <<"Chart.yaml">> /\ IsChartFile(rel)
    BY DEF Rendered, IsChartFile
  <2> QED BY <2>2, <2>3, <2>4 DEF NoPartLost, Members
<1> QED
  BY <1>1, ListsWholeTag, ChartInitially, ChartInductive, PTL DEF Spec
=============================================================================
