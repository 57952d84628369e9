-------------------------- MODULE CredentialProofs --------------------------
(***************************************************************************)
(* Safety of Credential however often, and whenever, the files change.     *)
(***************************************************************************)
EXTENDS Credential, TLAPS

\* While callerCredential is looking, and when it has found, nothing has failed.
StillClosed == pc # "error" => ~failed

(***************************************************************************)
(* Where callerCredential is says what it has in hand: a token is only     *)
(* looked for once the pair has been dropped, the plugin is only asked     *)
(* when there was no token, and what it ends with is one of the two.       *)
(***************************************************************************)
InHand ==
  /\ pc \in {"cert", "key", "haveCert", "token", "plugin"} => got["token"] = "none"
  /\ pc \in {"token", "plugin"} => got["cert"] = "none" /\ got["key"] = "none"
  /\ pc = "forward" =>
       \/ HasPair /\ got["token"] = "none"
       \/ got["cert"] = "none" /\ got["key"] = "none" /\ got["token"] # "none"

IInv == TypeOK /\ StillClosed /\ InHand

\* Before the first read nothing is in hand.
LEMMA IInvInitially == Init => IInv
<1> SUFFICES ASSUME Init PROVE IInv
  OBVIOUS
<1>1. TypeOK
  <2>1. failed \in BOOLEAN
    BY DEF Init
  <2> QED BY <2>1, RotationAssumption DEF Init, TypeOK, Labels, Values
<1>2. StillClosed
  BY DEF Init, StillClosed
<1>3. InHand
  BY DEF Init, InHand, Parts
<1> QED BY <1>1, <1>2, <1>3 DEF IInv

\* Reading a part, inline or from its file, yields a value or nothing.
LEMMA ReadType ==
  ASSUME NEW p \in Parts
  PROVE  Read(p) \in Values
  BY DEF Read, Values

\* The parts of a credential and what they may come from.
LEMMA Names ==
  /\ "cert" \in Parts /\ "key" \in Parts /\ "token" \in Parts
  /\ "none" \in Values /\ "plugin" \in Values
  BY DEF Parts, Values

\* Every step keeps the types.
LEMMA TypeInductive == TypeOK /\ [Next]_vars => TypeOK'
<1> SUFFICES ASSUME TypeOK, [Next]_vars PROVE TypeOK'
  OBVIOUS
<1> USE RotationAssumption, Names, ReadType DEF TypeOK, Labels, Goto
<1>0. ASSUME NEW p \in Parts, NEW next \in Labels, ReadPart(p, next) PROVE TypeOK'
  <2>1. failed' \in BOOLEAN
    BY <1>0 DEF ReadPart, ReadFails
  <2> QED BY <1>0, <2>1 DEF ReadPart
<1>1. CASE ReadCert
  BY <1>0, <1>1 DEF ReadCert
<1>2. CASE ReadKey
  BY <1>0, <1>2 DEF ReadKey
<1>3. CASE UseCert
  BY <1>3 DEF UseCert
<1>4. CASE ReadToken
  BY <1>0, <1>4 DEF ReadToken
<1>5. CASE AskPlugin
  BY <1>5 DEF AskPlugin
<1>6. CASE NoBearer
  BY <1>6 DEF NoBearer
<1>7. CASE PluginFails
  BY <1>7 DEF PluginFails
<1>8. ASSUME NEW p \in Parts, NEW c \in Contents, Rotate(p, c) PROVE TypeOK'
  BY <1>8 DEF Rotate
<1>9. CASE UNCHANGED vars
  BY <1>9 DEF vars
<1> QED
  BY <1>1, <1>2, <1>3, <1>4, <1>5, <1>6, <1>7, <1>8, <1>9 DEF Next

\* A failure leads to the error at once, in every action that can fail.
LEMMA ClosedInductive == StillClosed /\ [Next]_vars => StillClosed'
<1> SUFFICES ASSUME StillClosed, [Next]_vars PROVE StillClosed'
  OBVIOUS
<1> USE DEF StillClosed, Goto
<1>0. ASSUME NEW p, NEW next, ReadPart(p, next) PROVE StillClosed'
  <2>1. CASE ReadFails(p)
    BY <1>0, <2>1 DEF ReadPart
  <2>2. CASE ~ReadFails(p)
    BY <1>0, <2>2 DEF ReadPart
  <2> QED BY <2>1, <2>2
<1>1. CASE ReadCert
  BY <1>0, <1>1 DEF ReadCert
<1>2. CASE ReadKey
  BY <1>0, <1>2 DEF ReadKey
<1>3. CASE UseCert
  BY <1>3 DEF UseCert
<1>4. CASE ReadToken
  BY <1>0, <1>4 DEF ReadToken
<1>5. CASE AskPlugin
  BY <1>5 DEF AskPlugin
<1>6. CASE NoBearer
  BY <1>6 DEF NoBearer
<1>7. CASE PluginFails
  BY <1>7 DEF PluginFails
<1>8. ASSUME NEW p \in Parts, NEW c \in Contents, Rotate(p, c) PROVE StillClosed'
  BY <1>8 DEF Rotate
<1>9. CASE UNCHANGED vars
  BY <1>9 DEF vars
<1> QED
  BY <1>1, <1>2, <1>3, <1>4, <1>5, <1>6, <1>7, <1>8, <1>9 DEF Next

\* Every read and the plugin's answer leave in hand what the next step expects.
LEMMA InHandInductive == TypeOK /\ InHand /\ [Next]_vars => InHand'
<1> SUFFICES ASSUME TypeOK, InHand, [Next]_vars PROVE InHand'
  OBVIOUS
<1>0. got \in [Parts -> Values] /\ pc \in Labels
  BY DEF TypeOK
<1> USE Names DEF InHand, HasPair, Goto
<1>1. CASE ReadCert
  BY <1>0, <1>1 DEF ReadCert, ReadPart
<1>2. CASE ReadKey
  BY <1>0, <1>2 DEF ReadKey, ReadPart
<1>3. CASE UseCert
  BY <1>0, <1>3 DEF UseCert
<1>4. CASE ReadToken
  BY <1>0, <1>4 DEF ReadToken, ReadPart
<1>5. CASE AskPlugin
  BY <1>0, <1>5 DEF AskPlugin
<1>6. CASE NoBearer
  BY <1>6 DEF NoBearer
<1>7. CASE PluginFails
  BY <1>7 DEF PluginFails
<1>8. ASSUME NEW p \in Parts, NEW c \in Contents, Rotate(p, c) PROVE InHand'
  BY <1>8 DEF Rotate
<1>9. CASE UNCHANGED vars
  BY <1>9 DEF vars
<1> QED
  BY <1>1, <1>2, <1>3, <1>4, <1>5, <1>6, <1>7, <1>8, <1>9 DEF Next

\* Type correctness of the configuration, the files and what was read of them.
THEOREM TypeCorrect == Spec => []TypeOK
<1>1. Init => TypeOK
  BY IInvInitially DEF IInv
<1> QED BY <1>1, TypeInductive, PTL DEF Spec

(***************************************************************************)
(* callerCredential forwards a certificate with a key, or a token, never   *)
(* both and never half a pair, and nothing after a failure, for any number *)
(* of changes to the files during its reads.  Certificate and key may come *)
(* from different places, or be of two generations of a rotated pair.      *)
(***************************************************************************)
THEOREM ForwardsExactlyOne == Spec => []ExactlyOne
<1>1. IInv /\ [Next]_vars => IInv'
  BY TypeInductive, ClosedInductive, InHandInductive DEF IInv
<1>2. IInv => ExactlyOne
  BY DEF IInv, StillClosed, InHand, ExactlyOne
<1> QED BY IInvInitially, <1>1, <1>2, PTL DEF Spec
=============================================================================
