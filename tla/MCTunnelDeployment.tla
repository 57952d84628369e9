------------------------- MODULE MCTunnelDeployment -------------------------
(***************************************************************************)
(* Slugs of at most two characters.  "A" is mapped to "a", "_" to "-"; the *)
(* Service "A" is called like the API server, "b-a" is cut to "b" like the *)
(* Service of no name, and "bb" has two ports.  "k" is "kubernetes", which *)
(* with a bare colon is the Service of that name.                          *)
(***************************************************************************)
EXTENDS TunnelDeployment

CONSTANTS i1, i2, r1

MCMapped == [c \in {"a", "A", "b", "k", "-", "_"} |->
               CASE c = "A" -> "a" [] c = "_" -> "-" [] OTHER -> c]

ApiServer == [name |-> <<>>, colon |-> FALSE, port |-> 0]
Svc(name, p) == [name |-> name, colon |-> p # 0, port |-> p]
Kubernetes == Svc(<<"k">>, 0)
KubernetesColon == [Kubernetes EXCEPT !.colon = TRUE]
NoPort == Svc(<<"_">>, 0)
A == Svc(<<"A">>, 80)
B80 == Svc(<<"b", "b">>, 80)
B90 == Svc(<<"b", "b">>, 90)
Long == Svc(<<"b", "-", "a">>, 80)
Asks(x, y, z) == [c \in {i1, i2, r1} |-> CASE c = i1 -> x [] c = i2 -> y [] c = r1 -> z]
MCAsked == {Asks(B80, B90, B80), Asks(B80, Long, B90), Asks(Long, NoPort, ApiServer),
            Asks(Kubernetes, A, ApiServer), Asks(ApiServer, B90, A),
            Asks(KubernetesColon, Kubernetes, KubernetesColon)}
MCPrior == {ApiServer, B90}
MCApiServerNames == {<<>>, Kubernetes.name}
MCApiServerSlug == <<"a">>
MCServiceSlug == <<"b">>
=============================================================================
