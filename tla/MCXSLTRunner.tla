----------------------------- MODULE MCXSLTRunner -----------------------------
(***************************************************************************)
(* Three instances of XSLTRunner: cases that use the same stylesheet       *)
(* contend for fewer tokens than there are cases; cases                    *)
(* deliver secondary results of the same URIs; one case is of every shape  *)
(* the catalog has.                                                        *)
(***************************************************************************)
EXTENDS XSLTRunner

CONSTANTS s, x, m, p, q, n, h, e1, e2

\* Three files: a stylesheet, another document, one that was not fetched.
MCFile == {s, x, m}
MCPresent == {s, x}

Plain ==
  [skip |-> FALSE, source |-> NoSource, route |-> "cached", sheet |-> s,
   imports |-> {}, needs |-> {}, loads |-> {}, fetches |-> {}, expect |-> "result",
   accept |-> {}, asserts |-> <<>>]

MCShared == {[Plain EXCEPT !.asserts = <<"document">>]}

\* A case with an embedded stylesheet has the document it is embedded in.
MCShapes ==
  {[Plain EXCEPT !.source = src, !.route = "embedded", !.expect = w, !.accept = acc] :
     src \in {Inline, x, m}, w \in {"result", "error", "SE"}, acc \in {{}, {e1}}}
  \cup
  {[Plain EXCEPT !.source = src, !.route = r, !.sheet = f, !.imports = i,
                 !.expect = w, !.accept = acc] :
     src \in {NoSource, Inline, m}, r \in {"direct", "cached"}, f \in {s, m},
     i \in {{}, {x}, {m}}, w \in {"result", "error", "SE", "XTSE3430"}, acc \in {{}, {e1}}}
  \cup
  {[Plain EXCEPT !.skip = b, !.needs = d, !.fetches = u, !.expect = w, !.asserts = a] :
     b \in BOOLEAN, d \in {{}, {x}, {x, m}}, u \in {{}, {p}, {p, q}},
     w \in {"result", "error", "SE", "XTSE3430"},
     a \in {<<"plain">>, <<"raw">>, <<"either", "raw">>, <<"document", "plain">>,
            <<"plain", "skip", "plain">>}}
  \cup
  {[Plain EXCEPT !.source = x, !.route = r, !.sheet = f, !.loads = l, !.expect = w,
                 !.accept = acc, !.asserts = <<"plain">>] :
     r \in {"embedded", "direct", "cached"}, f \in {s, m},
     l \in {{x}, {m}}, w \in {"result", "error", "SE", "XTSE3430"}, acc \in {{}, {e1}}}
===============================================================================
