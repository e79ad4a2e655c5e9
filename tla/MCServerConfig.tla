--------------------------- MODULE MCServerConfig ---------------------------
(* The instances of ServerConfig that TLC checks. *)
EXTENDS ServerConfig

\* "/", "/a", "/a/b" and "/ab"
Slash == <<0>>
PathA == <<0, 1>>
PathAB == <<0, 1, 0, 2>>
PathAb == <<0, 1, 2>>
SomePaths == {Slash, PathA, PathAB, PathAb}
SomeUris == SomePaths \union {<<0, 2>>, <<0, 1, 0, 2, 0, 1>>}

AllKinds == [f \in Fields |-> IF f = "root" THEN "once" ELSE IF f = "methods" THEN "many"
                              ELSE IF f = "error404" THEN "code" ELSE "cgi"]
SomeDefaults == [f \in Fields |-> IF f \in {"root", "methods"} THEN {1} ELSE {}]
=============================================================================
