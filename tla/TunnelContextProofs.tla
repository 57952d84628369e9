------------------------ MODULE TunnelContextProofs ------------------------
(***************************************************************************)
(* Safety of TunnelContext for any contexts and suffixes, and, but for     *)
(* DeadContextRetired, any number of tunnels that share the kubeconfig.    *)
(***************************************************************************)
EXTENDS TunnelContext, TLAPS

Preparing == {"mintServiceAccount", "mintClusterRole", "mintClusterRoleBinding",
              "mintToken", "write"}

Opening == {"idle", "connecting", "announce"} \cup Preparing

\* A process that is about to write its context, or to retire it, has one.
Named ==
  \A t \in Tunnels :
    /\ pc[t] \in Preparing => Suffixed(base[t]) \in Contexts
    /\ pc[t] \in {"revoke", "rewrite"} => name[t] # None

\* A process serves only without --install.
ServesLocally == \A t \in Tunnels : pc[t] = "serving" => t \notin install

(***************************************************************************)
(* Whose grants may exist: a process that is still minting or that will    *)
(* run the clean-up of its hook, one that was killed, or an installed one. *)
(***************************************************************************)
Holding(t) ==
  \/ t \in leaked
  \/ pc[t] \in Preparing \cup {"revoke", "dead"}
  \/ pc[t] = "serving" /\ name[t] # None
  \/ pc[t] = "returned" /\ t \in install

GrantsHeld == \A t \in Tunnels : Minted(t) # {} => Holding(t)

\* The selected context of a configuration is in it.
Selects(cfg) == cfg.entries[cfg.current] # None

(***************************************************************************)
(* Not only the file has the context it selects, so has every copy of it   *)
(* that a loader keeps and a process will write back.                      *)
(***************************************************************************)
NoneOverlays == \A t \in Tunnels : name[t] # raw[t].current

CopiesSelect ==
  /\ \A t \in Tunnels : pc[t] \in Opening => name[t] = None
  /\ NoneOverlays => Selects(file) /\ \A t \in Tunnels : Selects(raw[t])

(***************************************************************************)
(* The copy a process keeps does not have its own context, and the file    *)
(* has it from the write on until the clean-up has run.                    *)
(***************************************************************************)
OwnContext ==
  \A t \in Tunnels, c \in Contexts :
    /\ raw[t].entries[c] # t
    /\ file.entries[c] = t =>
         /\ name[t] = c
         /\ \/ pc[t] \in {"serving", "revoke", "rewrite", "dead"}
            \/ pc[t] = "returned" /\ (t \in install \/ t \in stuck)

-----------------------------------------------------------------------------
Clusters == {None, "user", "dead"} \cup Tunnels

\* What Set and Select make of a configuration.
LEMMA EditConfig ==
  ASSUME NEW cfg \in Config, NEW c \in Contexts, NEW value \in Clusters
  PROVE  /\ Set(cfg, c, value) \in Config
         /\ Set(cfg, c, value).current = cfg.current
         /\ Set(cfg, c, value).entries = [cfg.entries EXCEPT ![c] = value]
         /\ Select(cfg, c) \in Config
         /\ Select(cfg, c).current = c
         /\ Select(cfg, c).entries = cfg.entries
<1>1. /\ cfg.current \in Contexts
      /\ cfg.entries \in [Contexts -> Clusters]
      /\ cfg = [current |-> cfg.current, entries |-> cfg.entries]
  BY DEF Config, Clusters
<1>2. Set(cfg, c, value) = [current |-> cfg.current, entries |-> [cfg.entries EXCEPT ![c] = value]]
  BY <1>1 DEF Set
<1>3. Select(cfg, c) = [current |-> c, entries |-> cfg.entries]
  BY <1>1 DEF Select
<1> QED BY <1>1, <1>2, <1>3 DEF Config, Clusters

\* What the clean-up makes of the file: the copy, less the tunnel's context.
LEMMA RetiredFile ==
  ASSUME NEW t \in Tunnels, raw[t] \in Config, name[t] \in Contexts
  PROVE  /\ Retired(t) \in Config
         /\ Retired(t).current = raw[t].current
         /\ Retired(t).entries = [raw[t].entries EXCEPT ![name[t]] = None]
<1>1. raw[t].current \in Contexts /\ None \in Clusters
  BY DEF Config, Clusters
<1> QED BY <1>1, EditConfig DEF Retired

\* The kubeconfig the user starts with selects one of its contexts and has no tunnel's.
LEMMA FirstFile ==
  ASSUME NEW cfg \in InitialFiles
  PROVE  /\ cfg \in Config
         /\ Selects(cfg)
         /\ \A c \in Contexts : cfg.entries[c] \notin Tunnels
<1>1. PICK mine \in SUBSET UserContexts, left \in SUBSET UserContexts :
        /\ cfg.current \in Contexts /\ cfg.entries[cfg.current] # None
        /\ cfg.entries = [c \in Contexts |->
                            CASE c[2] = 0 /\ c[1] \in mine -> "user"
                              [] c[2] = 1 /\ c[1] \in left -> "dead"
                              [] OTHER -> None]
        /\ cfg = [current |-> cfg.current, entries |-> cfg.entries]
  BY DEF InitialFiles
<1>2. ASSUME NEW c \in Contexts PROVE cfg.entries[c] \in {None, "user", "dead"}
  BY <1>1
<1>3. cfg.entries \in [Contexts -> {None, "user", "dead"} \cup Tunnels]
  BY <1>1, <1>2
<1>4. cfg \in Config
  BY <1>1, <1>3 DEF Config
<1> QED BY <1>1, <1>2, <1>4, NoneAssumption DEF Selects

-----------------------------------------------------------------------------
TypeInv == TypeOK /\ Named

\* A minting process has the next thing to mint, or its context, before it.
LEMMA MintSteps ==
  ASSUME NEW t \in Tunnels, NEW kind \in Kinds
  PROVE  /\ Minting(t, kind) => pc[t] \in Preparing
         /\ AfterMint(kind) \in Preparing \ {"write"}
  BY DEF Kinds, Minting, AfterMint, Preparing

\* Before the first tunnel.
LEMMA TypeInitially == Init => TypeInv
<1> SUFFICES ASSUME Init PROVE TypeInv
  OBVIOUS
<1>1. file \in Config
  BY FirstFile DEF Init
<1>2. file.current \in Contexts
  BY <1>1 DEF Config
<1> QED BY <1>1, <1>2 DEF Init, TypeInv, TypeOK, Named, Preparing, Labels

\* Every step keeps the types and the names within their bound.
LEMMA TypeInductive == TypeInv /\ [Next]_vars => TypeInv'
<1> SUFFICES ASSUME TypeInv, [Next]_vars PROVE TypeInv'
  OBVIOUS
<1> USE DEF TypeInv, TypeOK, Named, Goto, own, Labels, Preparing
<1>0. ASSUME NEW t PROVE AfterAnnounce(t) \in {"returned", "serving"}
  BY DEF AfterAnnounce
<1>c. ASSUME NEW t \in Tunnels, CredCleanup(t)
      PROVE  grants' \subseteq Tunnels \X Kinds /\ leaked' \subseteq Tunnels
  BY <1>c DEF CredCleanup, Minted
<1>1. ASSUME NEW t \in Tunnels, Open(t) PROVE TypeInv'
  BY <1>1 DEF Open
<1>2. ASSUME NEW t \in Tunnels, Connect(t) PROVE TypeInv'
  BY <1>0, <1>2 DEF Connect
<1>3. ASSUME NEW t \in Tunnels, ConnectFails(t) PROVE TypeInv'
  BY <1>3 DEF ConnectFails
<1>4. ASSUME NEW t \in Tunnels, Announce(t) PROVE TypeInv'
  BY <1>4 DEF Announce, Present
<1>5. ASSUME NEW t \in Tunnels, AnnounceFails(t) PROVE TypeInv'
  BY <1>0, <1>5 DEF AnnounceFails
<1>6. ASSUME NEW t \in Tunnels, NEW kind \in Kinds, Mint(t, kind) PROVE TypeInv'
  BY <1>6, MintSteps DEF Mint
<1>7. ASSUME NEW t \in Tunnels, MintToken(t) PROVE TypeInv'
  BY <1>7 DEF MintToken
<1>8. ASSUME NEW t \in Tunnels, MintFails(t) PROVE TypeInv'
  BY <1>0, <1>8 DEF MintFails
<1>9. ASSUME NEW t \in Tunnels, WriteContext(t) PROVE TypeInv'
  <2>1. PICK ctx \in Contexts : ctx = Suffixed(base[t])
    BY <1>9 DEF WriteContext
  <2>2. t \in Clusters
    BY DEF Clusters
  <2>3. Select(Set(raw[t], ctx, t), ctx) \in Config
    BY <2>2, EditConfig
  <2> QED BY <1>0, <1>9, <2>1, <2>3, NoneAssumption DEF WriteContext
<1>10. ASSUME NEW t \in Tunnels, WriteFails(t) PROVE TypeInv'
  BY <1>0, <1>10, <1>c DEF WriteFails
<1>11. ASSUME NEW t \in Tunnels, Stop(t) PROVE TypeInv'
  BY <1>11 DEF Stop
<1>12. ASSUME NEW t \in Tunnels, Revoke(t) PROVE TypeInv'
  BY <1>12, <1>c DEF Revoke
<1>13. ASSUME NEW t \in Tunnels, Rewrite(t) PROVE TypeInv'
  <2>1. Retired(t) \in Config
    BY <1>13, RetiredFile DEF Rewrite
  <2> QED BY <1>13, <2>1 DEF Rewrite
<1>14. ASSUME NEW t \in Tunnels, CleanupFails(t) PROVE TypeInv'
  BY <1>14 DEF CleanupFails
<1>15. ASSUME NEW t \in Tunnels, Kill(t) PROVE TypeInv'
  BY <1>15 DEF Kill
<1>16. ASSUME NEW u \in UserContexts, UserAdds(u) PROVE TypeInv'
  <2>1. <<u, 0>> \in Contexts /\ "user" \in Clusters
    BY TunnelAssumption DEF Contexts, Clusters
  <2>2. Set(file, <<u, 0>>, "user") \in Config
    BY <2>1, EditConfig
  <2> QED BY <1>16, <2>1, <2>2 DEF UserAdds
<1>17. ASSUME NEW c \in Contexts, UserSelects(c) PROVE TypeInv'
  <2>1. Select(file, c) \in Config
    BY EditConfig DEF Clusters
  <2> QED BY <1>17, <2>1 DEF UserSelects
<1>18. CASE UNCHANGED vars
  BY <1>18 DEF vars
<1> HIDE DEF TypeInv
<1> QED
  BY <1>1, <1>2, <1>3, <1>4, <1>5, <1>6, <1>7, <1>8, <1>9, <1>10, <1>11, <1>12,
     <1>13, <1>14, <1>15, <1>16, <1>17, <1>18 DEF Next, Step

\* Type correctness of the kubeconfig, its copies, the processes and the RBAC objects.
THEOREM TypeCorrect == Spec => []TypeOK
<1>1. TypeInv => TypeOK
  BY DEF TypeInv
<1> QED BY <1>1, TypeInitially, TypeInductive, PTL DEF Spec

-----------------------------------------------------------------------------
GrantInv == ServesLocally /\ GrantsHeld

\* Steps of other processes, and of the user, leave a process its grants.
LEMMA OthersGrants ==
  ASSUME TypeInv, GrantInv, NEW t \in Tunnels, Step(t), NEW s \in Tunnels, s # t
  PROVE  /\ pc'[s] = "serving" => s \notin install'
         /\ Minted(s)' # {} => Holding(s)'
<1>1. /\ pc'[s] = pc[s] /\ name'[s] = name[s]
      /\ (s \in install') <=> (s \in install)
  BY DEF TypeInv, TypeOK, Step, Goto, own, Open, Connect, ConnectFails, Announce,
     AnnounceFails, Mint, MintToken, MintFails, WriteContext, WriteFails, Stop, Revoke,
     Rewrite, CleanupFails, Kill
<1>2. ASSUME CredCleanup(t)
      PROVE  leaked \subseteq leaked' /\ Minted(s)' = Minted(s)
  BY <1>2 DEF CredCleanup, Minted
<1>3. leaked \subseteq leaked' /\ Minted(s)' = Minted(s)
  BY <1>2 DEF Step, own, Open, Connect, ConnectFails, Announce, Minted,
     AnnounceFails, Mint, MintToken, MintFails, WriteContext, WriteFails, Stop, Revoke,
     Rewrite, CleanupFails, Kill
<1> QED BY <1>1, <1>3 DEF GrantInv, ServesLocally, GrantsHeld, Holding

\* A process's own steps drop its grants, or go where they are still accounted for.
LEMMA OwnGrants ==
  ASSUME TypeInv, GrantInv, NEW t \in Tunnels, Step(t)
  PROVE  /\ pc'[t] = "serving" => t \notin install'
         /\ Minted(t)' # {} => Holding(t)'
<1> DEFINE Kept == /\ pc'[t] = "serving" => t \notin install'
                   /\ Minted(t)' # {} => Holding(t)'
<1>0. /\ pc \in [Tunnels -> Labels] /\ name \in [Tunnels -> Contexts \cup {None}]
      /\ pc[t] = "serving" => t \notin install
      /\ Minted(t) # {} => Holding(t)
  BY DEF TypeInv, TypeOK, GrantInv, ServesLocally, GrantsHeld
<1>a. \/ AfterAnnounce(t) = "returned" /\ t \in install
      \/ AfterAnnounce(t) = "serving" /\ t \notin install
  BY DEF AfterAnnounce
<1>b. ASSUME CredCleanup(t) PROVE Minted(t)' # {} => t \in leaked'
  BY <1>b DEF CredCleanup, Minted
<1>c. ASSUME grants' = grants PROVE Minted(t)' = Minted(t)
  BY <1>c DEF Minted
<1> USE DEF Holding, Preparing, Goto, own
<1>1. CASE Open(t)
  BY <1>0, <1>c, <1>1 DEF Open
<1>2. CASE Connect(t)
  BY <1>0, <1>a, <1>c, <1>2 DEF Connect
<1>3. CASE ConnectFails(t)
  BY <1>0, <1>c, <1>3 DEF ConnectFails
<1>4. CASE Announce(t)
  BY <1>0, <1>c, <1>4 DEF Announce
<1>5. CASE AnnounceFails(t)
  BY <1>0, <1>a, <1>c, <1>5 DEF AnnounceFails
<1>6. ASSUME NEW kind \in Kinds, Mint(t, kind) PROVE Kept
  BY <1>0, <1>6, MintSteps DEF Mint
<1>7. CASE MintToken(t)
  BY <1>0, <1>c, <1>7 DEF MintToken
<1>8. CASE MintFails(t)
  BY <1>0, <1>a, <1>c, <1>8 DEF MintFails
<1>9. CASE WriteContext(t)
  <2>1. name'[t] # None
    BY <1>0, <1>9, NoneAssumption DEF WriteContext, TypeInv, Named
  <2> QED BY <1>0, <1>a, <1>c, <1>9, <2>1 DEF WriteContext
<1>10. CASE WriteFails(t)
  BY <1>0, <1>a, <1>b, <1>10 DEF WriteFails
<1>11. CASE Stop(t)
  BY <1>0, <1>c, <1>11 DEF Stop
<1>12. CASE Revoke(t)
  BY <1>0, <1>b, <1>12 DEF Revoke
<1>13. CASE Rewrite(t)
  BY <1>0, <1>c, <1>13 DEF Rewrite
<1>14. CASE CleanupFails(t)
  BY <1>0, <1>c, <1>14 DEF CleanupFails
<1>15. CASE Kill(t)
  BY <1>0, <1>c, <1>15 DEF Kill
<1> HIDE DEF Holding, Preparing
<1> QED
  BY <1>1, <1>2, <1>3, <1>4, <1>5, <1>6, <1>7, <1>8, <1>9, <1>10, <1>11, <1>12,
     <1>13, <1>14, <1>15 DEF Step

\* Every step keeps the grants with processes that will, or cannot, revoke them.
LEMMA GrantsInductive == TypeInv /\ GrantInv /\ [Next]_vars => GrantInv'
<1> SUFFICES ASSUME TypeInv, GrantInv, [Next]_vars PROVE GrantInv'
  OBVIOUS
<1>1. ASSUME NEW t \in Tunnels, Step(t) PROVE GrantInv'
  <2>1. ASSUME NEW s \in Tunnels
        PROVE  /\ pc'[s] = "serving" => s \notin install'
               /\ Minted(s)' # {} => Holding(s)'
    <3>1. CASE s = t
      BY <1>1, <3>1, OwnGrants
    <3>2. CASE s # t
      BY <1>1, <3>2, OthersGrants
    <3> QED BY <3>1, <3>2
  <2> QED BY <2>1 DEF GrantInv, ServesLocally, GrantsHeld
<1>2. CASE UNCHANGED <<pc, own, grants, leaked>>
  BY <1>2 DEF GrantInv, ServesLocally, GrantsHeld, Holding, Minted, own
<1> QED BY <1>1, <1>2 DEF Next, UserAdds, UserSelects, vars

(***************************************************************************)
(* A local tunnel that returns has taken back every RBAC object it minted, *)
(* unless MintImpersonation failed half-way or a delete did, however many  *)
(* tunnels run beside it.                                                  *)
(***************************************************************************)
THEOREM RevokesItsGrants == Spec => []GrantsRevoked
<1>1. Init => GrantInv
  BY DEF Init, GrantInv, ServesLocally, GrantsHeld, Minted
<1>2. GrantInv => GrantsRevoked
  BY DEF GrantInv, GrantsHeld, Holding, GrantsRevoked, Finished, Preparing
<1> QED BY <1>1, <1>2, TypeInitially, TypeInductive, GrantsInductive, PTL DEF Spec

-----------------------------------------------------------------------------
\* No process is opened, or writes its context, a second time.
LEMMA OpensOnce ==
  ASSUME TypeInv, NEW t \in Tunnels, Step(t), NEW s \in Tunnels, pc'[s] \in Opening
  PROVE  pc[s] \in Opening /\ name'[s] = name[s]
<1>1. /\ pc \in [Tunnels -> Labels] /\ AfterAnnounce(t) \notin Opening
      /\ name \in [Tunnels -> Contexts \cup {None}]
  BY DEF TypeInv, TypeOK, AfterAnnounce, Opening, Preparing
<1>2. ASSUME NEW kind \in Kinds, Mint(t, kind) PROVE pc[s] \in Opening /\ name' = name
  BY <1>1, <1>2, MintSteps DEF Mint, Goto, own, Opening
<1> QED
  BY <1>1, <1>2 DEF Step, Goto, Open, Connect, ConnectFails, Announce, AnnounceFails,
     MintToken, MintFails, WriteContext, WriteFails, Stop, Revoke, Rewrite, CleanupFails,
     Kill, Opening, Preparing, own

\* Every step leaves the file and its copies with the context they select.
LEMMA SelectsInductive == TypeInv /\ CopiesSelect /\ [Next]_vars => CopiesSelect'
<1> SUFFICES ASSUME TypeInv, CopiesSelect, [Next]_vars PROVE CopiesSelect'
  OBVIOUS
<1>0. /\ file \in Config /\ raw \in [Tunnels -> Config]
      /\ name \in [Tunnels -> Contexts \cup {None}]
      /\ \A t \in Tunnels : raw[t].current \in Contexts
      /\ file.current \in Contexts /\ file.entries \in [Contexts -> Clusters]
      /\ \A t \in Tunnels : t \in Clusters /\ t # None
  BY NoneAssumption DEF TypeInv, TypeOK, Config, Clusters
<1>a. ASSUME NEW t \in Tunnels, Step(t), NEW s \in Tunnels, pc'[s] \in Opening
      PROVE  name'[s] = None
  BY <1>a, OpensOnce DEF CopiesSelect
<1>1. ASSUME NEW t \in Tunnels, Open(t) PROVE CopiesSelect'
  <2>1. name[t] = None /\ None # raw[t].current /\ None # file.current
    BY <1>0, <1>1, NoneAssumption DEF Open, CopiesSelect, Opening
  <2>2. /\ raw' = [raw EXCEPT ![t] = file] /\ name' = name /\ file' = file
    BY <1>1 DEF Open
  <2>3. NoneOverlays' => NoneOverlays
    BY <1>0, <2>1, <2>2 DEF NoneOverlays
  <2>5. ASSUME NEW s \in Tunnels, NoneOverlays PROVE Selects(raw'[s]) /\ Selects(file')
    BY <1>0, <2>2, <2>5 DEF CopiesSelect
  <2> QED BY <1>a, <1>1, <2>2, <2>3, <2>5 DEF CopiesSelect, Step
<1>2. ASSUME NEW t \in Tunnels, WriteContext(t) PROVE CopiesSelect'
  <2>1. PICK ctx \in Contexts : ctx = Suffixed(base[t])
    BY <1>2 DEF WriteContext, TypeInv, Named, Preparing
  <2>2. /\ file' = Select(Set(raw[t], ctx, t), ctx) /\ raw' = raw
        /\ name' = [name EXCEPT ![t] = ctx]
    BY <1>2, <2>1 DEF WriteContext
  <2>3. file'.current = ctx /\ file'.entries = [raw[t].entries EXCEPT ![ctx] = t]
    BY <1>0, <2>2, EditConfig
  <2>4. Selects(file')
    BY <1>0, <2>3 DEF Selects, Config
  <2>5. name[t] = None /\ None # raw[t].current
    BY <1>0, <1>2, NoneAssumption DEF WriteContext, CopiesSelect, Opening, Preparing
  <2>7. NoneOverlays' => NoneOverlays
    BY <1>0, <2>2, <2>5 DEF NoneOverlays
  <2> QED BY <1>a, <1>2, <2>2, <2>4, <2>7 DEF CopiesSelect, Step
<1>3. ASSUME NEW t \in Tunnels, Rewrite(t) PROVE CopiesSelect'
  <2>1. name[t] \in Contexts
    BY <1>0, <1>3 DEF Rewrite, TypeInv, Named
  <2>2. file' = Retired(t) /\ raw' = raw /\ name' = name
    BY <1>3 DEF Rewrite, own
  <2>3. /\ file'.current = raw[t].current
        /\ file'.entries = [raw[t].entries EXCEPT ![name[t]] = None]
    BY <1>0, <2>1, <2>2, RetiredFile
  <2>4. NoneOverlays => Selects(file')
    BY <1>0, <2>1, <2>3 DEF NoneOverlays, CopiesSelect, Selects, Config
  <2> QED BY <1>a, <1>3, <2>2, <2>4 DEF CopiesSelect, NoneOverlays, Step
<1>4. ASSUME NEW t \in Tunnels, Step(t), ~Open(t), ~WriteContext(t), ~Rewrite(t)
      PROVE  CopiesSelect'
  <2>1. UNCHANGED <<file, raw, name>>
    BY <1>4 DEF Step, own, Connect, ConnectFails, Announce, AnnounceFails, Mint,
       MintToken, MintFails, WriteFails, Stop, Revoke, CleanupFails, Kill
  <2> QED BY <1>a, <1>4, <2>1 DEF CopiesSelect, NoneOverlays
<1>5. ASSUME NEW u \in UserContexts, UserAdds(u) PROVE CopiesSelect'
  <2>0. PICK c \in Contexts : c = <<u, 0>>
    <3>1. <<u, 0>> \in Contexts
      BY TunnelAssumption DEF Contexts
    <3> QED BY <3>1
  <2>1. "user" \in Clusters /\ "user" # None
    BY NoneAssumption DEF Clusters
  <2>2. file' = Set(file, c, "user") /\ UNCHANGED <<pc, raw, name>>
    BY <1>5, <2>0 DEF UserAdds, own
  <2>3. file'.current = file.current /\ file'.entries = [file.entries EXCEPT ![c] = "user"]
    BY <1>0, <2>1, <2>2, EditConfig
  <2>4. Selects(file) => Selects(file')
    BY <1>0, <2>1, <2>3 DEF Selects
  <2> QED BY <2>2, <2>4 DEF CopiesSelect, NoneOverlays
<1>6. ASSUME NEW c \in Contexts, UserSelects(c) PROVE CopiesSelect'
  <2>1. file' = Select(file, c) /\ UNCHANGED <<pc, raw, name>> /\ file.entries[c] # None
    BY <1>6 DEF UserSelects, Present, own
  <2>2. file'.current = c /\ file'.entries = file.entries
    BY <1>0, <2>1, EditConfig DEF Clusters
  <2>3. Selects(file')
    BY <2>1, <2>2 DEF Selects
  <2> QED BY <2>1, <2>3 DEF CopiesSelect, NoneOverlays
<1>7. CASE UNCHANGED vars
  BY <1>7 DEF CopiesSelect, NoneOverlays, vars, own
<1> QED
  BY <1>1, <1>2, <1>3, <1>4, <1>5, <1>6, <1>7 DEF Next

(***************************************************************************)
(* The context that is selected exists, however the writes of any number   *)
(* of tunnels and of the user interleave, short of the --context case that *)
(* SelectionExists names: the configurations that are written back late    *)
(* select a context of their own, whatever the file has become.            *)
(***************************************************************************)
THEOREM SelectsAContext == Spec => []SelectionExists
<1>1. Init => CopiesSelect
  <2> SUFFICES ASSUME Init PROVE CopiesSelect
    OBVIOUS
  <2> QED BY FirstFile DEF Init, CopiesSelect, NoneOverlays
<1>2. CopiesSelect => SelectionExists
  BY DEF CopiesSelect, NoneOverlays, Selects, SelectionExists
<1> QED BY <1>1, <1>2, TypeInitially, TypeInductive, SelectsInductive, PTL DEF Spec

-----------------------------------------------------------------------------
Alone == \A s, t \in Tunnels : s = t

\* The steps of the one tunnel leave its context where the clean-up expects it.
LEMMA OwnStep ==
  ASSUME TypeInv, OwnContext, NEW t \in Tunnels, Step(t), NEW c \in Contexts
  PROVE  /\ raw'[t].entries[c] # t
         /\ file'.entries[c] = t =>
              /\ name'[t] = c
              /\ \/ pc'[t] \in {"serving", "revoke", "rewrite", "dead"}
                 \/ pc'[t] = "returned" /\ (t \in install' \/ t \in stuck')
<1> DEFINE Kept == /\ raw'[t].entries[c] # t
                   /\ file'.entries[c] = t =>
                        /\ name'[t] = c
                        /\ \/ pc'[t] \in {"serving", "revoke", "rewrite", "dead"}
                           \/ pc'[t] = "returned" /\ (t \in install' \/ t \in stuck')
<1>0. /\ raw[t].entries[c] # t
      /\ file.entries[c] = t =>
           /\ name[t] = c
           /\ \/ pc[t] \in {"serving", "revoke", "rewrite", "dead"}
              \/ pc[t] = "returned" /\ (t \in install \/ t \in stuck)
  BY DEF OwnContext
<1>a. /\ pc \in [Tunnels -> Labels] /\ raw \in [Tunnels -> Config]
      /\ name \in [Tunnels -> Contexts \cup {None}]
      /\ raw[t] \in Config /\ raw[t].entries \in [Contexts -> Clusters]
      /\ t \in Clusters /\ t # None /\ c # None
  BY NoneAssumption DEF TypeInv, TypeOK, Config, Clusters
<1>b. \/ AfterAnnounce(t) = "returned" /\ t \in install
      \/ AfterAnnounce(t) = "serving" /\ t \notin install
  BY DEF AfterAnnounce
<1> USE DEF Goto, own
<1>1. CASE Open(t)
  BY <1>0, <1>a, <1>1 DEF Open
<1>2. CASE WriteContext(t)
  <2>1. PICK ctx \in Contexts : ctx = Suffixed(base[t])
    BY <1>2 DEF WriteContext, TypeInv, Named, Preparing
  <2>2. /\ file' = Select(Set(raw[t], ctx, t), ctx) /\ raw' = raw /\ install' = install
        /\ name' = [name EXCEPT ![t] = ctx] /\ pc' = [pc EXCEPT ![t] = AfterAnnounce(t)]
    BY <1>2, <2>1 DEF WriteContext
  <2>3. file'.entries = [raw[t].entries EXCEPT ![ctx] = t]
    BY <1>a, <2>2, EditConfig
  <2> QED BY <1>0, <1>a, <1>b, <2>2, <2>3
<1>3. CASE Rewrite(t)
  <2>1. name[t] \in Contexts
    BY <1>a, <1>3 DEF Rewrite, TypeInv, Named
  <2>2. file'.entries = [raw[t].entries EXCEPT ![name[t]] = None] /\ raw' = raw
    BY <1>a, <1>3, <2>1, RetiredFile DEF Rewrite
  <2> QED BY <1>0, <1>a, <2>1, <2>2
<1>4. CASE Stop(t)
  BY <1>0, <1>a, <1>4 DEF Stop
<1>5. CASE CleanupFails(t)
  BY <1>0, <1>a, <1>5 DEF CleanupFails
<1>6. CASE Revoke(t) \/ Kill(t)
  BY <1>0, <1>a, <1>6 DEF Revoke, Kill
<1>7. CASE Connect(t) \/ ConnectFails(t) \/ Announce(t) \/ AnnounceFails(t)
  BY <1>0, <1>a, <1>7 DEF Connect, ConnectFails, Announce, AnnounceFails
<1>8. ASSUME NEW kind \in Kinds, Mint(t, kind) PROVE Kept
  BY <1>0, <1>a, <1>8, MintSteps DEF Mint, Preparing
<1>9. CASE MintToken(t) \/ MintFails(t) \/ WriteFails(t)
  BY <1>0, <1>a, <1>9 DEF MintToken, MintFails, WriteFails
<1> QED
  BY <1>1, <1>2, <1>3, <1>4, <1>5, <1>6, <1>7, <1>8, <1>9 DEF Step

\* Every step of a tunnel that is alone, or of the user, keeps the context its own.
LEMMA OwnInductive ==
  ASSUME Alone
  PROVE  TypeInv /\ OwnContext /\ [Next]_vars => OwnContext'
<1> SUFFICES ASSUME TypeInv, OwnContext, [Next]_vars PROVE OwnContext'
  OBVIOUS
<1>0. file \in Config /\ file.entries \in [Contexts -> Clusters]
  BY DEF TypeInv, TypeOK, Config, Clusters
<1>1. ASSUME NEW t \in Tunnels, Step(t) PROVE OwnContext'
  <2>1. \A s \in Tunnels : s = t
    BY DEF Alone
  <2> QED BY <1>1, <2>1, OwnStep DEF OwnContext
<1>2. ASSUME NEW u \in UserContexts, UserAdds(u) PROVE OwnContext'
  <2>0. PICK d \in Contexts : d = <<u, 0>>
    <3>1. <<u, 0>> \in Contexts
      BY TunnelAssumption DEF Contexts
    <3> QED BY <3>1
  <2>1. "user" \in Clusters /\ "user" \notin Tunnels
    BY NoneAssumption DEF Clusters
  <2>2. file' = Set(file, d, "user") /\ UNCHANGED <<pc, own, stuck>>
    BY <1>2, <2>0 DEF UserAdds
  <2>3. file'.entries = [file.entries EXCEPT ![d] = "user"]
    BY <1>0, <2>1, <2>2, EditConfig
  <2> QED BY <1>0, <2>1, <2>2, <2>3 DEF OwnContext, own
<1>3. ASSUME NEW d \in Contexts, UserSelects(d) PROVE OwnContext'
  <2>1. file'.entries = file.entries /\ UNCHANGED <<pc, own, stuck>>
    BY <1>0, <1>3, EditConfig DEF UserSelects, Clusters
  <2> QED BY <2>1 DEF OwnContext, own
<1>4. CASE UNCHANGED vars
  BY <1>4 DEF OwnContext, vars, own
<1> QED
  BY <1>1, <1>2, <1>3, <1>4 DEF Next

(***************************************************************************)
(* serve retires the context of a tunnel whose URL dies with it, whatever  *)
(* the user does to the file meanwhile, when no other tunnel shares it.    *)
(* Two that overlap write each other's contexts back, so that the property *)
(* does not hold of them.                                                  *)
(***************************************************************************)
THEOREM RetiresItsContext ==
  ASSUME Alone
  PROVE  Spec => []DeadContextRetired
<1>1. Init => OwnContext
  <2> SUFFICES ASSUME Init PROVE OwnContext
    OBVIOUS
  <2> QED BY FirstFile DEF Init, OwnContext
<1>2. OwnContext => DeadContextRetired
  BY DEF OwnContext, DeadContextRetired, Finished
<1>3. TypeInv /\ OwnContext /\ [Next]_vars => OwnContext'
  BY OwnInductive
<1> QED BY <1>1, <1>2, <1>3, TypeInitially, TypeInductive, PTL DEF Spec
=============================================================================
