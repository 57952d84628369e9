----------------------------- MODULE HelmSelect -----------------------------
(***************************************************************************)
(* Which chart and which version an index or a registry's tags yield.      *)
(* A version is [raw, sem]: the string, and its place in the semver order, *)
(* 0 when it does not parse.  The empty string stands for an absent query  *)
(* parameter.                                                              *)
(***************************************************************************)
EXTENDS Naturals, Sequences, FiniteSets, SequencesExt

NoVersion == [raw |-> "", sem |-> 0]

\* ?chart=, else the entry named like the URL's last segment, else the only one.
ChooseChart(names, base, want) ==
  LET sole == {n \in names : names = {n}} IN
  IF want # "" THEN IF want \in names THEN want ELSE ""
  ELSE IF base \in names THEN base
  ELSE IF sole # {} THEN CHOOSE n \in sole : TRUE
  ELSE ""

\* index.SortEntries: newest first, what does not parse last.
SortEntries(versions) ==
  CHOOSE s \in [1 .. Cardinality(versions) -> versions] :
    /\ ToSet(s) = versions
    /\ \A i, j \in DOMAIN s : i < j => s[i].sem >= s[j].sem

\* ?version=, else the head of the sorted versions.
SelectVersion(versions, want) ==
  LET fit == {i \in DOMAIN versions : want = "" \/ versions[i].raw = want}
  IN  IF fit = {} THEN NoVersion ELSE versions[Min(fit)]

\* Mutant: the tag listed last is taken for the newest.
LastTag(tags) == Last(tags)

\* The first of the highest tags that parse, else the first one.
HighestSemver(tags) ==
  LET best[n \in 0 .. Len(tags)] ==
        IF n = 0 THEN NoVersion
        ELSE LET b == best[n - 1] IN IF tags[n].sem > b.sem THEN tags[n] ELSE b
  IN  IF best[Len(tags)].raw = "" THEN Head(tags) ELSE best[Len(tags)]
=============================================================================
