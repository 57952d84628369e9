--------------------------- MODULE TunnelContext ---------------------------
(***************************************************************************)
(* The life of `kubectl add tunnel` (v1alpha1/tunnel/tunnel.go) together   *)
(* with the hook that points the kubeconfig at it (writeTunnelContext,     *)
(* v1alpha1/cmd/add/add.go) and the identity it mints for a caller with a  *)
(* client certificate (MintImpersonation, v1alpha1/tunnel/auth).  Tunnel   *)
(* processes, and the user, share one kubeconfig file.                     *)
(*                                                                         *)
(* A context is <<u, k>>: the user's context u with k times "-tunnel"      *)
(* appended.  The file maps each context to what its cluster points at:    *)
(* the user's cluster, the public URL of a tunnel, or one that is "dead".   *)
(***************************************************************************)
EXTENDS Naturals, FiniteSets

CONSTANTS Tunnels,      \* processes of `kubectl add tunnel`
          UserContexts, \* the contexts the user may have
          MaxSuffix,    \* bound on nested "-tunnel" suffixes
          None          \* "not in the file"

ASSUME TunnelAssumption == /\ UserContexts # {}
                           /\ MaxSuffix \in Nat

VARIABLES
  file,     \* the kubeconfig: [current, entries]
  foreign,  \* history: contexts the user added while a tunnel with one was open
  pc,       \* where each tunnel process is
  install,  \* the processes started with --install
  raw,      \* the kubeconfig as each process's loader read it, once and for all
  base,     \* the context its own is named after
  name,     \* the context it has written, None if it wrote none
  grants,   \* <<t, kind>>: the RBAC objects that exist in the cluster
  leaked,   \* history: processes whose mint failed half-way, or one of whose
            \* best-effort deletes failed
  stuck     \* history: processes whose clean-up could not edit the file

own  == <<install, raw, base, name>>
vars == <<file, foreign, pc, own, grants, leaked, stuck>>

Contexts == UserContexts \X (0..MaxSuffix)
Suffixed(c) == <<c[1], c[2] + 1>>
Kinds == {"ServiceAccount", "ClusterRole", "ClusterRoleBinding"}
Labels == {"idle", "connecting", "announce", "mintServiceAccount", "mintClusterRole",
           "mintClusterRoleBinding", "mintToken", "write", "serving", "revoke",
           "rewrite", "returned", "dead"}

\* None is no context, and a cluster is the user's, dead or a tunnel's.
ASSUME NoneAssumption == /\ None \notin Contexts
                         /\ None \notin {"user", "dead"} \cup Tunnels
                         /\ {"user", "dead"} \cap Tunnels = {}

Config == [current : Contexts, entries : [Contexts -> {None, "user", "dead"} \cup Tunnels]]

Present(cfg) == {c \in Contexts : cfg.entries[c] # None}
Set(cfg, c, value) == [cfg EXCEPT !.entries[c] = value]
Select(cfg, c) == [cfg EXCEPT !.current = c]

TypeOK ==
  /\ file \in Config
  /\ foreign \subseteq Contexts
  /\ pc \in [Tunnels -> Labels]
  /\ install \subseteq Tunnels
  /\ raw \in [Tunnels -> Config]
  /\ base \in [Tunnels -> Contexts]
  /\ name \in [Tunnels -> Contexts \cup {None}]
  /\ grants \subseteq Tunnels \X Kinds
  /\ leaked \subseteq Tunnels
  /\ stuck \subseteq Tunnels

\* The kubeconfig the user starts with: some contexts, beside some of them the
\* one that a tunnel left when it was killed, and one of all these selected.
InitialFiles ==
  UNION {{cfg \in [current : Contexts,
                   entries : {[c \in Contexts |->
                                 CASE c[2] = 0 /\ c[1] \in mine -> "user"
                                   [] c[2] = 1 /\ c[1] \in left -> "dead"
                                   [] OTHER -> None] : left \in SUBSET mine}] :
            cfg.entries[cfg.current] # None} : mine \in SUBSET UserContexts}

Init ==
  /\ file \in InitialFiles
  /\ foreign = {}
  /\ pc = [t \in Tunnels |-> "idle"]
  /\ install = {}
  /\ raw = [t \in Tunnels |-> file]
  /\ base = [t \in Tunnels |-> file.current]
  /\ name = [t \in Tunnels |-> None]
  /\ grants = {}
  /\ leaked = {}
  /\ stuck = {}

Goto(t, label) == pc' = [pc EXCEPT ![t] = label]

-----------------------------------------------------------------------------
(* Opening.                                                                *)

\* Execute resolves the connection, which makes the loader read the file, and
\* Run picks the mode.
Open(t) ==
  /\ pc[t] = "idle"
  /\ raw' = [raw EXCEPT ![t] = file]
  /\ install' \in {install, install \cup {t}}
  /\ Goto(t, "connecting")
  /\ UNCHANGED <<file, foreign, base, name, grants, leaked, stuck>>

\* announce has returned: a local tunnel serves, an installed one is left to
\* the cluster.
AfterAnnounce(t) == IF t \in install THEN "returned" ELSE "serving"

\* The public URL is there.  With --update-context=false there is no hook.
Connect(t) ==
  /\ pc[t] = "connecting"
  /\ \E next \in {"announce", AfterAnnounce(t)} : Goto(t, next)
  /\ UNCHANGED <<file, foreign, own, grants, leaked, stuck>>

\* tun.URL() is nil or the deployment's URL does not come; nothing to undo.
ConnectFails(t) ==
  /\ pc[t] = "connecting"
  /\ Goto(t, "returned")
  /\ UNCHANGED <<file, foreign, own, grants, leaked, stuck>>

\* writeTunnelContext reads the configuration and names the context after the
\* current one, or the one --context gives; a caller with only a client
\* certificate needs a minted identity.
Announce(t) ==
  /\ pc[t] = "announce"
  /\ \E c \in Present(raw[t]) :
       /\ Suffixed(c) \in Contexts     \* bound: MaxSuffix
       /\ base' = [base EXCEPT ![t] = c]
  /\ \E next \in {"mintServiceAccount", "write"} : Goto(t, next)
  /\ UNCHANGED <<file, foreign, raw, install, name, grants, leaked, stuck>>

\* An error of the hook is logged and leaves no clean-up.
AnnounceFails(t) ==
  /\ pc[t] = "announce"
  /\ Goto(t, AfterAnnounce(t))
  /\ UNCHANGED <<file, foreign, own, grants, leaked, stuck>>

Minting(t, kind) ==
  pc[t] = CASE kind = "ServiceAccount"     -> "mintServiceAccount"
            [] kind = "ClusterRole"        -> "mintClusterRole"
            [] kind = "ClusterRoleBinding" -> "mintClusterRoleBinding"

AfterMint(kind) ==
  CASE kind = "ServiceAccount"     -> "mintClusterRole"
    [] kind = "ClusterRole"        -> "mintClusterRoleBinding"
    [] kind = "ClusterRoleBinding" -> "mintToken"

Mint(t, kind) ==
  /\ Minting(t, kind)
  /\ grants' = grants \cup {<<t, kind>>}
  /\ Goto(t, AfterMint(kind))
  /\ UNCHANGED <<file, foreign, own, leaked, stuck>>

MintToken(t) ==
  /\ pc[t] = "mintToken"
  /\ Goto(t, "write")
  /\ UNCHANGED <<file, foreign, own, grants, leaked, stuck>>

\* MintImpersonation returns an error and no clean-up; what it created stays.
MintFails(t) ==
  /\ pc[t] \in {"mintServiceAccount", "mintClusterRole", "mintClusterRoleBinding",
                "mintToken"}
  /\ leaked' = leaked \cup {t}
  /\ Goto(t, AfterAnnounce(t))
  /\ UNCHANGED <<file, foreign, own, grants, stuck>>

Minted(t) == {g \in grants : g[1] = t}

\* Mutant: the ServiceAccount is deleted, its ClusterRole and binding are not.
DeletedAccount(t) == /\ grants' = grants \ {<<t, "ServiceAccount">>}
                     /\ UNCHANGED leaked

\* credCleanup deletes binding, role and account, each best effort.
CredCleanup(t) ==
  \E left \in SUBSET Minted(t) :
    /\ grants' = (grants \ Minted(t)) \cup left
    /\ leaked' = IF left = {} THEN leaked ELSE leaked \cup {t}

\* ModifyConfig makes the file what raw says, plus the tunnel's context, and
\* selects it.  client-go writes the selection and the sections one after the
\* other; here, and in the clean-up, they are one step.
WriteContext(t) ==
  LET ctx == Suffixed(base[t]) IN
  /\ pc[t] = "write"
  /\ name' = [name EXCEPT ![t] = ctx]
  /\ file' = Select(Set(raw[t], ctx, t), ctx)
  /\ Goto(t, AfterAnnounce(t))
  /\ UNCHANGED <<foreign, install, raw, base, grants, leaked, stuck>>

\* ModifyConfig fails: the minted identity is revoked at once.
WriteFails(t) ==
  /\ pc[t] = "write"
  /\ CredCleanup(t)
  /\ Goto(t, AfterAnnounce(t))
  /\ UNCHANGED <<file, foreign, own, stuck>>

-----------------------------------------------------------------------------
(* Serving and closing.                                                    *)

\* The context is done or the tunnel ends: serve runs the hook's clean-up, if
\* it returned one.  An installed tunnel returns without it.
Stop(t) ==
  /\ pc[t] = "serving"
  /\ Goto(t, IF name[t] # None THEN "revoke" ELSE "returned")
  /\ UNCHANGED <<file, foreign, own, grants, leaked, stuck>>

Revoke(t) ==
  /\ pc[t] = "revoke"
  /\ CredCleanup(t)
  /\ Goto(t, "rewrite")
  /\ UNCHANGED <<file, foreign, own, stuck>>

\* Mutant: current-context is cleared.
ClearedSelection(t) == [Set(raw[t], name[t], None) EXCEPT !.current = None]

\* Mutant: the selection is put back, the context stays.
KeptContext(t) == Select(file, raw[t].current)

\* Mutant: the context goes, the selection stays on it.
KeptSelection(t) == Select(Set(raw[t], name[t], None), file.current)

\* fresh, err := loader.RawConfig(), without the tunnel's context.  The loader
\* is the persistent one and answers with what it read when the tunnel opened;
\* prevContext is selected if that says the tunnel's is.
Retired(t) ==
  LET without == Set(raw[t], name[t], None)
  IN  IF raw[t].current = name[t] THEN Select(without, raw[t].current) ELSE without

\* ModifyConfig makes the file equal to that.
Rewrite(t) ==
  /\ pc[t] = "rewrite"
  /\ file' = Retired(t)
  /\ Goto(t, "returned")
  /\ UNCHANGED <<foreign, own, grants, leaked, stuck>>

\* ModifyConfig fails: the clean-up says so and gives up.
CleanupFails(t) ==
  /\ pc[t] = "rewrite"
  /\ Goto(t, "returned")
  /\ stuck' = stuck \cup {t}
  /\ UNCHANGED <<file, foreign, own, grants, leaked>>

-----------------------------------------------------------------------------
(* The environment.                                                        *)

Kill(t) ==
  /\ pc[t] \notin {"idle", "returned", "dead"}
  /\ Goto(t, "dead")
  /\ UNCHANGED <<file, foreign, own, grants, leaked, stuck>>

\* kubectl config set-context
UserAdds(u) ==
  /\ file.entries[<<u, 0>>] = None
  /\ file' = Set(file, <<u, 0>>, "user")
  /\ foreign' = IF \E t \in Tunnels : pc[t] = "serving" /\ name[t] # None THEN foreign \cup {<<u, 0>>} ELSE foreign
  /\ UNCHANGED <<pc, own, grants, leaked, stuck>>

\* kubectl config use-context
UserSelects(c) ==
  /\ c \in Present(file) \ {file.current}
  /\ file' = Select(file, c)
  /\ UNCHANGED <<foreign, pc, own, grants, leaked, stuck>>

Step(t) ==
  \/ Open(t) \/ Connect(t) \/ ConnectFails(t) \/ Announce(t) \/ AnnounceFails(t)
  \/ \E kind \in Kinds : Mint(t, kind)
  \/ MintToken(t) \/ MintFails(t) \/ WriteContext(t) \/ WriteFails(t) \/ Stop(t)
  \/ Revoke(t) \/ Rewrite(t) \/ CleanupFails(t) \/ Kill(t)

Next == \/ \E t \in Tunnels : Step(t)
        \/ \E u \in UserContexts : UserAdds(u)
        \/ \E c \in Contexts : UserSelects(c)

Spec == Init /\ [][Next]_vars

-----------------------------------------------------------------------------
Finished(t) == pc[t] = "returned" /\ t \notin install

\* tunnel.go, serve: "The local tunnel's public URL dies with the process, so
\* retire the kubeconfig context it added."
DeadContextRetired ==
  \A t \in Tunnels : Finished(t) /\ t \notin stuck => \A c \in Contexts : file.entries[c] # t

\* The selected context exists, whatever the tunnel and the user do: the
\* clean-up writes a configuration read long before, and the user may have
\* selected, or be left with, any context meanwhile.  Except where --context
\* gives the tunnel the name of the context that was selected, one a killed
\* tunnel left: then prevContext is the one the clean-up deletes.
SelectionExists ==
  (\A t \in Tunnels : name[t] # raw[t].current) => file.entries[file.current] # None

\* A tunnel that was not killed takes back what it minted, if its calls worked.
GrantsRevoked ==
  \A t \in Tunnels : Finished(t) /\ t \notin leaked => Minted(t) = {}

\* add.go:322: "Reload before editing so a concurrent kubeconfig change is not
\* clobbered."  A context the user adds while the tunnel is open outlives it.
ForeignChangesKept == \A c \in foreign : file.entries[c] = "user"
=============================================================================
