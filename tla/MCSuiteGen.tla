------------------------------- MODULE MCSuiteGen -------------------------------
(***************************************************************************)
(* Instances of SuiteGen: checkouts of one or two test sets, whose cases   *)
(* vary in one respect at a time (dependencies, environments, results).    *)
(***************************************************************************)
EXTENDS SuiteGen

A(type, what, file, children) == [type |-> type, what |-> what, file |-> file, children |-> children]
x == A("assert-eq", "x", "", {})
y == A("assert-type", "y", "", {})
fromFile == A("assert-xml", "x", "b", {})
err == A("error", "", "", {})
ser == A("assert-serialization", "", "", {})
AnyOf(s) == A("any-of", "", "", s)
AllOf(s) == A("all-of", "", "", s)

Atoms == {x, y, fromFile, err, ser}
Pairs == {{}, {x}, {err}, {x, y}, {x, err}, {x, ser}, {y, fromFile}, {ser, err}}
MCQT3Assertion ==
  LET flat == Atoms \cup {AnyOf(s) : s \in Pairs} \cup {AllOf(s) : s \in Pairs \ {{}}}
  IN flat \cup {AnyOf({AllOf({x, y}), y}), AnyOf({AllOf({x}), err}), AnyOf({AnyOf({x, y}), AllOf({x, y})}),
                AllOf({AnyOf({x, y}), y}), AllOf({AnyOf({x, err}), y}), AllOf({AnyOf({x, ser})}), AllOf({}), AnyOf({AnyOf({err}), y})}

MCOutcomes ==
  {[error |-> e, holds |-> {}, raw |-> FALSE] : e \in {"E", "F"}}
  \cup {[error |-> "", holds |-> h, raw |-> r] : h \in SUBSET {"x", "y"}, r \in BOOLEAN}

D(type, value, sat) == [type |-> type, value |-> value, tokens |-> {}, sat |-> sat]
Spec31 == [type |-> "spec", value |-> "", tokens |-> {"XP30+", "XQ30+"}, sat |-> TRUE]
Spec30 == [Spec31 EXCEPT !.tokens = {"XP30"}]
XQuery == [Spec31 EXCEPT !.tokens = {"XQ30+"}]

Deps ==
  {<<>>, <<Spec31>>, <<Spec30>>, <<XQuery>>, <<[Spec31 EXCEPT !.sat = FALSE]>>,
   <<Spec31, D("xsd-version", "1.1", FALSE)>>, <<D("unicode-normalization-form", "NFC", FALSE)>>,
   <<D("feature", "fn-transform-XSLT", FALSE)>>, <<D("feature", "remote_http", FALSE)>>,
   <<D("feature", "remote_http", TRUE)>>, <<D("feature", "staticTyping", TRUE)>>,
   <<D("xsd-version", "1.0", TRUE), D("feature", "staticTyping", TRUE)>>,
   <<D("feature", "xpath-1.0-compatibility", TRUE)>>, <<D("unicode-version", "14.0", TRUE)>>}

Names == {"plain", "fn-filter-006", "fn-unparsed-text-012", "fn-unparsed-text-available-008",
          "xs-double-005", "fn-transform-22"}

S(role, file, uri, validation) ==
  [role |-> role, file |-> file, uri |-> uri, validation |-> validation]
E(sources, schemas, collections, resources) ==
  [sources |-> sources, schemas |-> schemas, collections |-> collections, resources |-> resources]

Envs ==
  {QT3!EmptyEnv,
   E(<<S(".", "a", "", "")>>, <<>>, <<>>, <<>>),
   E(<<S(".", "a", "", ""), S(".", "b", "", ""), S("$v", "../a", "", "")>>, <<>>, <<>>, <<>>),
   E(<<S("", "a", "u", ""), S("", "b", "", "")>>, <<>>, <<>>, <<>>),
   E(<<S("other", "a", "", "")>>, <<>>, <<>>, <<>>),
   E(<<S(".", "a", "", "strict")>>, <<>>, <<>>, <<>>),
   E(<<S(".", "a", "", "lax")>>, <<S("", "s", "", "")>>, <<>>, <<>>),
   E(<<>>, <<S("import", "", "xpath-functions", "")>>, <<>>, <<>>),
   E(<<>>, <<>>, <<<<S("", "a", "", ""), S("", "b", "u", "")>>>>, <<>>),
   E(<<>>, <<>>, <<>>, <<S("", "b", "u", ""), S("", "a", "", "")>>),
   E(<<S(".", "", "", "")>>, <<>>, <<<<S("", "", "u", "")>>>>, <<S("", "", "u", "")>>)}

C(name, deps, ref, env, result) ==
  [name |-> name, deps |-> deps, ref |-> ref, env |-> env, result |-> result]
Plainest == C("plain", <<>>, "", QT3!EmptyEnv, {x})

DepCases == {C(n, d, "", E(<<S(".", "a", "", "strict")>>, <<S("", "s", "", "")>>, <<>>, <<>>), {x}) :
               n \in Names, d \in Deps}
EnvCases == {C("plain", <<>>, r, e, {x}) : r \in {"", "e", "g", "nil"}, e \in Envs}
ResultCases == {C("plain", d, "", QT3!EmptyEnv, {a}) : a \in MCQT3Assertion, d \in {<<>>, <<D("feature", "remote_http", TRUE)>>}}
FewCases == {Plainest, C("plain", <<Spec30>>, "", QT3!EmptyEnv, {x}),
             C("fn-filter-006", <<D("feature", "staticTyping", TRUE)>>, "", QT3!EmptyEnv, {fromFile}),
             C("plain", <<>>, "", E(<<S("other", "a", "", "")>>, <<>>, <<>>, <<>>), {ser})}

Set(deps, envs, cases) ==
  [category |-> "fn", path |-> <<"fn", "set">>, parses |-> TRUE, deps |-> deps, envs |-> envs, cases |-> cases]
Local == [n \in {"e"} |-> E(<<S(".", "a", "", "")>>, <<S("", "s", "", "")>>, <<>>, <<>>)]
NoEnvs == [n \in {} |-> QT3!EmptyEnv]

OneCase ==
  {<<Set(d, NoEnvs, <<c>>)>> : c \in DepCases, d \in {<<>>, <<Spec31>>, <<XQuery>>}}
  \cup {<<Set(<<>>, envs, <<c>>)>> : c \in EnvCases, envs \in {NoEnvs, Local}}
  \cup {<<Set(<<>>, NoEnvs, <<c>>)>> : c \in ResultCases}
OtherSet(c) ==
  {[Set(<<>>, NoEnvs, <<c>>) EXCEPT !.path = p, !.parses = b, !.category = "op"] :
     p \in {<<"op", "set">>, <<"..", "set">>}, b \in BOOLEAN}
SeveralCases ==
  UNION {{<<Set(<<>>, NoEnvs, <<c, d>>), t>> : t \in OtherSet(c)} : c \in FewCases, d \in FewCases}

Files == {<<"fn", "a">>, <<"fn", "b">>, <<"fn", "s">>, <<"fn", "t">>, <<".", "a">>, <<".", "s">>}
Refs == [p \in {<<"fn", "s">>, <<"fn", "t">>, <<".", "a">>} |->
           CASE p = <<"fn", "s">> -> {"t"} [] p = <<"fn", "t">> -> {"../a", "s"} [] OTHER -> {"gone"}]
Global == [n \in {"e", "g"} |->
            IF n = "e" THEN E(<<S(".", "b", "", "")>>, <<>>, <<>>, <<>>)
            ELSE E(<<S(".", "a", "", ""), S("$v", "s", "u", "")>>, <<S("", "s", "", "")>>, <<>>, <<>>)]

QT3Src(sets, top, stray, has) ==
  [suite |-> "qt3", dir |-> "dir", sets |-> sets, envs |-> Global, top |-> top, stray |-> stray,
   files |-> has, refs |-> Refs]
QT3Sources ==
  {QT3Src(sets, "good", "absent", has) : sets \in OneCase, has \in {Files, Files \ {<<"fn", "b">>, <<"fn", "t">>}}}
  \cup {QT3Src(sets, "good", "absent", Files) : sets \in SeveralCases}
  \cup {QT3Src(<<Set(<<>>, NoEnvs, <<Plainest>>)>>, top, stray, Files) :
          top \in {"absent", "good", "bad"}, stray \in {"absent", "good", "bad"}}
  \cup {QT3Src(<<Set(<<>>, NoEnvs, <<C("plain", <<>>, "", E(<<S(".", "../a", "", "")>>, <<>>, <<>>, <<>>), {x})>>)>>, "good", "absent", Files),
        [QT3Src(<<Set(<<>>, NoEnvs, <<C("plain", <<>>, "e", QT3!EmptyEnv, {x})>>)>>, "good", "absent", Files) EXCEPT
           !.envs = [n \in {"e"} |-> E(<<S(".", "../a", "", "")>>, <<>>, <<>>, <<>>)]]}

-------------------------------------------------------------------------------
(* xslt30.  An assertion's children are a sequence here. *)

Err(code) == A("error", code, "", <<>>)
T(type, what) == A(type, what, "", <<>>)
G(type, children) == A(type, "", "", children)
tx == T("assert-xml", "x")
ty == T("assert", "y")
rx == T("assert-eq", "x")
ry == T("assert-empty", "y")
fx == A("assert-serialization", "x", "b", <<>>)
posture == T("assert-posture-and-sweep", "")
XAtoms == {tx, ty, rx, ry, fx, posture, Err("E"), Err("F"), Err(""), Err("XTSE3430"), Err("XXXX9999"), T("assert-serialization-error", "F")}
Families ==
  {<<>>, <<tx>>, <<ty>>, <<rx>>, <<tx, ty>>, <<rx, tx>>, <<tx, Err("E")>>, <<Err(""), tx>>, <<Err("E"), Err("F")>>,
   <<posture, tx>>, <<posture>>, <<Err("XXXX9999"), Err("E")>>, <<ty, fx>>}
Flats == XAtoms \cup {G(t, c) : t \in {"all-of", "any-of", "not", "assert-message", "assert-result-document"}, c \in Families}
Nested ==
  {G("any-of", <<G("all-of", <<tx, ty>>), Err("E")>>), G("any-of", <<G("all-of", <<rx, tx>>), ry>>),
   G("any-of", <<G("not", <<tx>>), ty>>), G("all-of", <<G("any-of", <<tx, ty>>), posture>>),
   G("not", <<G("any-of", <<tx, Err("E")>>)>>), G("not", <<G("not", <<rx>>)>>),
   G("any-of", <<G("assert-result-document", <<tx>>), ty>>), G("assert-message", <<G("all-of", <<rx, tx>>)>>),
   G("any-of", <<G("any-of", <<rx, tx>>), G("assert-message", <<tx>>)>>),
   G("any-of", <<G("assert-message", <<ty>>), rx>>), G("any-of", <<G("assert-message", <<rx>>), ty>>),
   G("all-of", <<G("not", <<tx>>), G("assert-result-document", <<ty>>)>>)}
MCXSLTAssertion == Flats \cup Nested

XD(type, value, sat) == [type |-> type, value |-> value, tokens |-> {}, sat |-> sat]
XSpec(tokens) == [XD("spec", "", "") EXCEPT !.tokens = tokens]
XDeps ==
  {<<>>, <<XSpec({"XSLT30+", "XSLT10"})>>, <<XSpec({"XSLT40"})>>,
   <<XD("feature", "schema_aware", "true")>>, <<XD("feature", "schema-aware", "false")>>,
   <<XD("feature", "Saxon-PE", "true")>>, <<XD("feature", "Saxon-EE", "false"), XD("on-multiple-match", "error", "")>>,
   <<XD("year_component_values", "support year zero", "false")>>, <<XD("year_component_values", "other", "")>>,
   <<XD("enable_assertions", "", "false")>>, <<XD("ignore_doc_failure", "", "true")>>,
   <<XD("ignore_doc_failure", "", "false"), XD("package_version_resolution", "lowest_version", "")>>}

R(file, role) == [file |-> file, role |-> role]
Doc(file, role, embeds) == [file |-> file, role |-> role, embeds |-> embeds]
XE(sheets, packages, sources) ==
  [sheets |-> sheets, packages |-> packages, sources |-> sources, schemas |-> <<>>, collections |-> <<>>]
SheetLists == {<<>>, <<R("x", "")>>, <<R("z", "secondary")>>, <<R("x", "principal"), R("z", "secondary")>>, <<R("gone", ""), R("z", "")>>}
PackageLists == {<<>>, <<R("x", "principal"), R("z", "secondary")>>, <<R("z", "")>>}
XTests == {[sheets |-> h, packages |-> k] : h \in SheetLists, k \in PackageLists}
XEnvs ==
  {XE(h, k, <<>>) : h \in SheetLists, k \in PackageLists}
  \cup {XE(<<>>, <<>>, <<Doc("a", ".", b), Doc("../a", "", FALSE)>>) : b \in BOOLEAN}
  \cup {XE(<<R("z", "secondary")>>, <<>>, <<Doc("", ".", TRUE), Doc("b", ".", FALSE)>>)}
  \cup {[XE(<<>>, <<>>, <<>>) EXCEPT !.schemas = <<R("s", ""), R("t", "stylesheet-import")>>, !.collections = <<R("a#f", ""), R("gone", "")>>]}

XC(name, deps, ref, env, test, result) ==
  [name |-> name, deps |-> deps, ref |-> ref, env |-> env, test |-> test, result |-> result]
Simple == [sheets |-> <<R("x", "")>>, packages |-> <<>>]
NoSheet == [sheets |-> <<>>, packages |-> <<>>]
XPlain(deps, result) == XC("plain", deps, "", XSLT!EmptyEnv, Simple, result)

XSet(deps, envs, cases) ==
  [category |-> "fn", name |-> "set", path |-> <<"fn", "_set">>, parses |-> TRUE,
   deps |-> deps, envs |-> envs, cases |-> cases]
XNoEnvs == [n \in {} |-> XSLT!EmptyEnv]
XLocal == [n \in {"e"} |-> XE(<<R("x", "")>>, <<>>, <<Doc("a", ".", FALSE)>>)]

XOneCase ==
  {<<XSet(s, XNoEnvs, <<XPlain(d, <<r>>)>>)>> : s \in XDeps, d \in XDeps, r \in {tx, Err("XXXX9999")}}
  \cup {<<XSet(<<>>, XNoEnvs, <<XC("plain", <<>>, "", e, t, <<tx>>)>>)>> : e \in XEnvs, t \in XTests}
  \cup {<<XSet(<<>>, XLocal, <<XC("plain", <<>>, r, XSLT!EmptyEnv, t, <<tx>>)>>)>> : r \in {"e", "nil"}, t \in XTests}
  \cup {<<XSet(<<>>, XNoEnvs, <<XPlain(<<>>, <<a>>)>>)>> : a \in MCXSLTAssertion}
  \cup {<<XSet(<<>>, XNoEnvs, <<XPlain(<<>>, r)>>)>> : r \in {<<tx, posture>>, <<posture, posture>>, <<tx, Err("E")>>}}

XFew == {XPlain(<<>>, <<tx>>), XPlain(<<XSpec({"XSLT40"})>>, <<tx>>), XPlain(<<>>, <<posture>>),
         XC("unicode90-1", <<>>, "", XSLT!EmptyEnv, Simple, <<tx>>), XC("plain", <<>>, "", XSLT!EmptyEnv, NoSheet, <<tx>>)}
XOther == {[XSet(<<>>, XNoEnvs, <<XPlain(<<>>, <<ty>>)>>) EXCEPT !.name = n, !.path = p, !.parses = b, !.category = k] :
             n \in {"set", "catalog", "document", "load-xquery-module"},
             p \in {<<"strm", "_set">>, <<"..", "_set">>}, b \in BOOLEAN, k \in {"fn", "strm"}}
XSeveral ==
  {<<XSet(<<>>, XNoEnvs, <<c, d>>), t>> : c \in XFew, d \in XFew, t \in XOther}
  \cup {<<[XSet(<<>>, XNoEnvs, <<XPlain(d, <<tx>>), XPlain(<<>>, <<tx>>)>>) EXCEPT !.category = "strm"], t>> : d \in XDeps, t \in XOther}
  \cup {<<[XSet(<<>>, XNoEnvs, <<XC("plain", <<>>, "", e, NoSheet, <<tx>>)>>) EXCEPT !.path = <<p, "_set">>]>> :
          p \in {".", "import"}, e \in {[XE(<<>>, <<R("x", "principal")>>, <<Doc("../a", ".", TRUE)>>) EXCEPT !.schemas = <<R("inline.xsd", "")>>]}}

XFiles == {<<"fn", f>> : f \in {"a", "b", "v", "x", "y", "z", "s", "t", "u", "_set"}}
            \cup {<<".", "a">>, <<".", "x">>, <<"import", "s">>, <<"import", "x">>, <<"strm", "x">>, <<"strm", "d">>, <<".", "catalog.xml">>}
Ref(kind, to) == [kind |-> kind, to |-> to]
XRefs == [p \in {<<"fn", "a">>, <<"fn", "x">>, <<"fn", "y">>, <<"fn", "z">>, <<"fn", "s">>, <<"fn", "t">>, <<".", "a">>} |->
            CASE p = <<"fn", "x">> -> <<Ref("href", "y"), Ref("schema", "s"), Ref("document", "a#f")>>
              [] p = <<"fn", "y">> -> <<Ref("href", "x"), Ref("href", "../a"), Ref("href", "gone")>>
              [] p = <<"fn", "z">> -> <<Ref("href", "y"), Ref("href", "a#f")>>
              [] p = <<"fn", "a">> -> <<Ref("href", "v")>>
              [] p = <<"fn", "s">> -> <<Ref("location", "t")>>
              [] p = <<"fn", "t">> -> <<Ref("location", "s"), Ref("location", "u"), Ref("location", "gone")>>
              [] OTHER -> <<Ref("href", "../a"), Ref("document", "catalog.xml")>>]

XSrc(sets, top, stray, has) ==
  [suite |-> "xslt30", dir |-> "dir", sets |-> sets, envs |-> XNoEnvs, top |-> top, stray |-> stray,
   files |-> has, refs |-> XRefs]
XSLTSources ==
  {XSrc(sets, "good", "absent", has) : sets \in XOneCase, has \in {XFiles, XFiles \ {<<"fn", "b">>, <<"fn", "y">>}}}
  \cup {XSrc(sets, "good", "absent", XFiles) : sets \in XSeveral}
  \cup {XSrc(<<XSet(<<>>, XNoEnvs, <<XPlain(<<>>, <<tx>>)>>)>>, top, stray, XFiles) :
          top \in {"absent", "good", "bad"}, stray \in {"absent", "good", "bad"}}

-------------------------------------------------------------------------------
(* xsd11 *)

V(validity, version) == [validity |-> validity, version |-> version]
I(doc, expected) == [doc |-> <<doc>>, expected |-> expected]
Expectations ==
  {<<>>, <<V("valid", "")>>, <<V("maybe", "")>>, <<V("valid", "1.0")>>, <<V("invalid", "1.1")>>,
   <<V("valid", "1.0"), V("invalid", "1.1")>>, <<V("valid", ""), V("invalid", "1.1")>>,
   <<V("valid", ""), V("invalid", "1.0"), V("valid", "1.1")>>, <<V("maybe", "1.1"), V("invalid", "")>>}
Grp(name, version, docs, expected, instances) ==
  [name |-> name, version |-> version, docs |-> docs, expected |-> expected, instances |-> instances]
Good == <<V("valid", "")>>
Groups ==
  {Grp("g", v, <<<<"a">>>>, e, <<>>) : v \in {"", "1.0", "1.1"}, e \in Expectations}
  \cup {Grp("g", v, <<<<"a">>>>, Good, <<I("i", e), I("j", Good)>>) : v \in {"", "1.1"}, e \in Expectations}
  \cup {Grp("g", v, d, Good, <<I("gone", Good), [I("i", Good) EXCEPT !.doc = <<"..", "..", "i">>]>>) :
          v \in {"", "1.1"}, d \in {<<>>, <<<<"gone">>, <<"a">>>>, <<<<"a">>, <<"gone">>>>, <<<<"a">>, <<"..", "top">>>>}}
XSet11(href, version, parses, groups) == [href |-> href, version |-> version, parses |-> parses, groups |-> groups]
Later == Grp("h", "", <<<<"b">>>>, Good, <<I("i", Good)>>)
Sets11 ==
  {<<XSet11(h, v, TRUE, <<g, Later>>)>> : h \in {<<"m", "set">>, <<"m", "..", "m", "set">>}, v \in {"", "1.1"}, g \in Groups}
  \cup {<<XSet11(h, "", b, <<Later>>), XSet11(<<"m", "set">>, "1.1", TRUE, <<Later>>)>> :
          h \in {<<>>, <<"gone">>, <<"n", "set">>, <<"..", "set">>}, b \in BOOLEAN}

One(names) == [kind |-> "one", uri |-> names]
PairsOf(u, v) == [kind |-> "pairs", pairs |-> <<<<<<"http:", "x">>, u>>, <<<<"c">>, v>>>>]
Files11 ==
  {<<"suite.xml">>, <<"top">>} \cup {<<d, f>> : d \in {"m", "n"}, f \in {"set", "a", "b", "i", "j"}}
    \cup {<<"m", f>> : f \in {"c", "d", "e"}}
Refs11 ==
  [p \in {<<"m", "a">>, <<"m", "b">>, <<"m", "d">>, <<"m", "i">>, <<"top">>} |->
     CASE p = <<"m", "a">> -> {One(<<"..", "m", "b">>), One(<<"gone">>)}
       [] p = <<"m", "b">> -> {One(<<"a">>), One(<<"http:", "x">>), One(<<"..", "..", "a">>)}
       [] p = <<"m", "i">> -> {PairsOf(<<"d">>, <<"gone">>)}
       [] p = <<"m", "d">> -> {PairsOf(<<"http:", "y">>, <<"e">>)}
       [] p = <<"top">> -> {One(<<"n", "a">>)}]
XSTSSrc(sets, top, has) ==
  [suite |-> "xsd11", dir |-> "dir", top |-> top, sets |-> sets, files |-> has, refs |-> Refs11]
XSTSSources ==
  {XSTSSrc(sets, "good", has) : sets \in Sets11, has \in {Files11, Files11 \ {<<"m", "a">>}, Files11 \ {<<"m", "i">>, <<"m", "d">>}}}
  \cup {XSTSSrc(<<XSet11(<<"m", "set">>, "", TRUE, <<Later>>)>>, "bad", Files11),
        XSTSSrc(<<>>, "absent", {}), [XSTSSrc(<<>>, "absent", {}) EXCEPT !.dir = "absent"]}

-------------------------------------------------------------------------------
(* xml *)

XT(id, type, uri, output, bases) == [id |-> id, type |-> type, uri |-> uri, output |-> output, bases |-> bases]
XTests1 ==
  {XT("1", "valid", u, o, b) :
     u \in {<<"d.xml">>, <<"sub", "d.xml">>, <<"..", "d.xml">>, <<"gone.xml">>, <<"http:", "d.xml">>, <<"e.txt">>, <<"..", "..", "..", "d.xml">>},
     o \in {<<>>, <<"out", "d.xml">>, <<"gone">>}, b \in {<<>>, <<<<"sub">>>>, <<<<"sub">>, <<"..", "sub">>>>}}
XTests2 ==
  {XT(id, "error", u, <<>>, <<>>) : id \in {"", "1", "2"}, u \in {<<>>, <<"d.xml">>, <<"sub", "d.xml">>, <<"gone.xml">>}}
B(base, entities) == [base |-> base, entities |-> entities]
Blocks ==
  {<<B(<<"c">>, <<"k">>)>>, <<B(<<>>, <<"k">>)>>, <<B(<<"elsewhere">>, <<"k">>)>>, <<B(<<"c">>, <<"k", "l">>)>>,
   <<B(<<"c">>, <<"k">>), B(<<"c", "sub">>, <<"l">>)>>, <<B(<<"c">>, <<"k">>), B(<<"c">>, <<"k">>)>>}
BadBlocks == {<<>>, <<B(<<"c">>, <<>>)>>, <<B(<<"c">>, <<"k", "unknown">>)>>, <<B(<<"c">>, <<"k", "missing">>)>>, <<B(<<"c">>, <<"out">>)>>}
Entities ==
  [e \in {"k", "l", "missing", "out"} |->
     CASE e = "k" -> <<"c", "k.xml">> [] e = "l" -> <<"c", "sub", "..", "l.xml">>
       [] e = "missing" -> <<"c", "missing.xml">> [] OTHER -> <<"..", "k.xml">>]
FilesXML ==
  {<<"c", f>> : f \in {"k.xml", "l.xml", "d.xml", "d.dtd", "d.ent", "e.txt"}}
    \cup {<<"c", "sub", f>> : f \in {"d.xml", "s.ent"}} \cup {<<"c", "out", "d.xml">>, <<"d.xml">>, <<"elsewhere", "e.txt">>}
Ext == [p \in FilesXML |->
          CASE Last(p) = "d.dtd" -> ".dtd" [] Last(p) \in {"d.ent", "s.ent"} -> ".ent" [] Last(p) = "e.txt" -> ".txt" [] OTHER -> ".xml"]
RefsXML ==
  [p \in {<<"c", "d.xml">>, <<"c", "d.dtd">>, <<"c", "d.ent">>, <<"c", "sub", "d.xml">>, <<"c", "e.txt">>} |->
     CASE p = <<"c", "d.xml">> -> {<<"d.dtd">>, <<"gone.gif">>}
       [] p = <<"c", "d.dtd">> -> {<<"d.ent">>, <<"sub", "s.ent">>, <<"http:", "d.dtd">>}
       [] p = <<"c", "d.ent">> -> {<<"d.dtd">>, <<"e.txt">>, <<"..", "..", "d.ent">>}
       [] p = <<"c", "sub", "d.xml">> -> {<<"..", "d.dtd">>}
       [] OTHER -> {<<"..", "d.xml">>}]
XMLSrc(top, blocks, k, l) ==
  [suite |-> "xml", dir |-> "dir", top |-> top, blocks |-> blocks, entities |-> Entities, files |-> FilesXML,
   catalogs |-> [p \in {<<"c", "k.xml">>, <<"c", "l.xml">>} |-> IF Last(p) = "k.xml" THEN k ELSE l], refs |-> RefsXML, ext |-> Ext]
Second == XT("2", "not-wf", <<"d.xml">>, <<>>, <<>>)
XMLSources ==
  {XMLSrc("good", b, <<t>>, <<Second>>) : b \in Blocks, t \in XTests1}
  \cup {XMLSrc("good", b, <<XT("1", "valid", <<"d.xml">>, <<"out", "d.xml">>, <<>>), t>>, <<u>>) : b \in Blocks, t \in XTests2, u \in XTests2}
  \cup {XMLSrc(top, b, <<Second>>, <<>>) : top \in {"good", "absent"}, b \in BadBlocks}
  \cup {[XMLSrc("good", <<B(<<"c">>, <<"k">>)>>, <<Second>>, <<>>) EXCEPT !.catalogs = [p \in {} |-> <<>>]],
        [XMLSrc("absent", <<>>, <<>>, <<>>) EXCEPT !.dir = "absent", !.files = {}]}

NoDir == {[s EXCEPT !.dir = d] : d \in {"absent", "file"},
            s \in {QT3Src(<<>>, "absent", "absent", {}), XSrc(<<>>, "absent", "absent", {})}}
MCSources == QT3Sources \cup XSLTSources \cup XSTSSources \cup XMLSources \cup NoDir

MCOverlay == {<<"fn/json-to-xml", "schema-for-json.xsd">>, <<"fn", "b">>}
=================================================================================
