----------------------------- MODULE Credential -----------------------------
(***************************************************************************)
(* callerCredential (v1alpha1/remote/credential.go): which of the caller's *)
(* credentials is forwarded to the applier pod.  The REST configuration is *)
(* fixed for the run; the files it names are read one after the other, and *)
(* may be rotated (rewritten, emptied, removed) between two reads.         *)
(*                                                                         *)
(* A credential's text is abstracted to where it came from.                *)
(***************************************************************************)
EXTENDS Naturals

CONSTANTS MaxRotations   \* bound on the changes to the files during a run

ASSUME RotationAssumption == MaxRotations \in Nat

Parts == {"cert", "key", "token"}

\* What a file holds.  "blank" is white space only.
Contents == {"missing", "empty", "blank", "data"}

\* What a part of a credential is: nothing, the inline data, what the file
\* held, or what the auth plugin put in the Authorization header.
Values == {"none", "inline", "file", "plugin"}

Configs == [inline : SUBSET Parts, path : SUBSET Parts, plugin : BOOLEAN]

VARIABLES cfg,       \* the REST configuration
          disk,      \* the files it may name
          rotations, \* how often they have changed
          pc,        \* the next thing callerCredential does
          got,       \* what it has read so far
          failed     \* history: a read, or the plugin, has failed

vars == <<cfg, disk, rotations, pc, got, failed>>

Labels == {"cert", "key", "haveCert", "token", "plugin", "forward", "error"}

TypeOK ==
  /\ cfg \in Configs
  /\ disk \in [Parts -> Contents]
  /\ rotations \in 0..MaxRotations
  /\ pc \in Labels
  /\ got \in [Parts -> Values]
  /\ failed \in BOOLEAN

Init ==
  /\ cfg \in Configs
  /\ disk \in [Parts -> Contents]
  /\ rotations = 0
  /\ pc = "cert"
  /\ got = [p \in Parts |-> "none"]
  /\ failed = FALSE

\* The token file is trimmed, the PEM files are not.
IsEmpty(p) == disk[p] = "empty" \/ (p = "token" /\ disk[p] = "blank")

\* Inline data wins over the file; no path is no data; an unreadable file is
\* an error.
ReadsInline(p) == p \in cfg.inline
ReadFails(p)   == ~ReadsInline(p) /\ p \in cfg.path /\ disk[p] = "missing"
Read(p) ==
  CASE ReadsInline(p)                     -> "inline"
    [] p \in cfg.path /\ ~IsEmpty(p)      -> "file"
    [] OTHER                              -> "none"

Goto(label) == pc' = label

\* Mutant: a file that cannot be read counts as not configured.
LenientReadPart(p, next) ==
  /\ got' = [got EXCEPT ![p] = IF ReadFails(p) THEN "none" ELSE Read(p)]
  /\ failed' = (failed \/ ReadFails(p))
  /\ Goto(next)
  /\ UNCHANGED <<cfg, disk, rotations>>

ReadPart(p, next) ==
  /\ failed' = ReadFails(p)
  /\ got' = IF ReadFails(p) THEN got ELSE [got EXCEPT ![p] = Read(p)]
  /\ Goto(IF ReadFails(p) THEN "error" ELSE next)
  /\ UNCHANGED <<cfg, disk, rotations>>

ReadCert == pc = "cert" /\ ReadPart("cert", "key")
ReadKey  == pc = "key" /\ ReadPart("key", "haveCert")

HasPair == got["cert"] # "none" /\ got["key"] # "none"

\* Both parts, or the pair is dropped: the credential struct of a token has
\* neither.
UseCert ==
  /\ pc = "haveCert"
  /\ Goto(IF HasPair THEN "forward" ELSE "token")
  /\ got' = IF HasPair THEN got ELSE [got EXCEPT !["cert"] = "none", !["key"] = "none"]
  /\ UNCHANGED <<cfg, disk, rotations, failed>>

ReadToken ==
  /\ pc = "token"
  /\ ReadPart("token", IF Read("token") # "none" THEN "forward" ELSE "plugin")

\* Mutant: the header is forwarded with its "Bearer " prefix.
AskPluginUntrimmed ==
  /\ pc = "plugin"
  /\ cfg.plugin
  /\ got' = [got EXCEPT !["token"] = "Bearer plugin"]
  /\ Goto("forward")
  /\ UNCHANGED <<cfg, disk, rotations, failed>>

\* The stub round tripper sees the header the plugin set; the prefix is cut.
AskPlugin ==
  /\ pc = "plugin"
  /\ cfg.plugin
  /\ got' = [got EXCEPT !["token"] = "plugin"]
  /\ Goto("forward")
  /\ UNCHANGED <<cfg, disk, rotations, failed>>

\* No plugin, or the header is no bearer token.
NoBearer ==
  /\ pc = "plugin"
  /\ Goto("error")
  /\ UNCHANGED <<cfg, disk, rotations, got, failed>>

\* The transport cannot be built or the plugin fails.
PluginFails ==
  /\ pc = "plugin"
  /\ cfg.plugin
  /\ failed' = TRUE
  /\ Goto("error")
  /\ UNCHANGED <<cfg, disk, rotations, got>>

\* Another program changes a file.
Rotate(p, c) ==
  /\ rotations < MaxRotations
  /\ c # disk[p]
  /\ disk' = [disk EXCEPT ![p] = c]
  /\ rotations' = rotations + 1
  /\ UNCHANGED <<cfg, pc, got, failed>>

Next ==
  \/ ReadCert \/ ReadKey \/ UseCert \/ ReadToken
  \/ AskPlugin \/ NoBearer \/ PluginFails
  \/ \E p \in Parts, c \in Contents : Rotate(p, c)

Spec == Init /\ [][Next]_vars

-----------------------------------------------------------------------------
\* credential.go, "Exactly one of token or (certPEM, keyPEM) is set", and
\* wholly, whatever the files do between the reads; and "It fails closed rather
\* than falling back": after a read or the plugin has failed, no other credential
\* of the caller's is forwarded.
ExactlyOne ==
  pc = "forward" =>
    /\ ~failed
    /\ \/ HasPair /\ got["token"] = "none"
       \/ got["cert"] = "none" /\ got["key"] = "none" /\ got["token"] # "none"

=============================================================================
