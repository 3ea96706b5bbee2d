---------------------------- MODULE MCSharedCheckout ----------------------------
(***************************************************************************)
(* Two invocations of w3cgen, two commits: the second lacks the collection *)
(* of merlinxmldsig and a key, and has a vector more.                      *)
(***************************************************************************)
EXTENDS SharedCheckout

CONSTANTS p1, p2, c1, c2

MCProc == {p1, p2}
MCCommit == {c1, c2}
MCPaths == <<
  <<"README.md", "README.md">>, <<"c14n11", "input">>, <<"c14n11", "output">>, <<"c14n11", "xpath">>,
  <<"certs", "balor">>, <<"core", "key.p12">>, <<"core", "v1">>, <<"core", "v2">>,
  <<"ext", "xml-stylesheet">>, <<"merlin", "b64">>, <<"merlin", "v1">>,
  <<"oracle", "v1">>, <<"oracle", "v2">>, <<"xmldsig", "v1">> >>
MCTree == [c \in {c1, c2} |->
  IF c = c1
  THEN {<<"oracle", "v1">>, <<"core", "v1">>, <<"core", "key.p12">>,
        <<"merlin", "v1">>, <<"merlin", "b64">>, <<"certs", "balor">>, <<"ext", "xml-stylesheet">>}
  ELSE {<<"oracle", "v1">>, <<"oracle", "v2">>, <<"core", "v1">>, <<"core", "v2">>}]
MCCommitted == {<<"c14n11", "xpath">>, <<"c14n11", "input">>, <<"c14n11", "output">>, <<"xmldsig", "v1">>,
                <<"README.md", "README.md">>}

AllAt(c) == [s \in Suite |-> c]
MCLocks == {AllAt(c1), [AllAt(c1) EXCEPT !["xmlenc11"] = c2], [merlinxmldsig |-> None, xmlenc11 |-> "unknown"]}
MCSelections == {<<"all">>, <<"xmlenc11">>, <<"xml">>}
=================================================================================
