------------------------------ MODULE MCEngine ------------------------------
(***************************************************************************)
(* The catalogue of configs: every strategy, as written or as a promotion  *)
(* turns it around, with documents that leave fields out, spell values in  *)
(* several ways and carry fields no schema declares.                       *)
(***************************************************************************)
EXTENDS Engine

\* TLC computes CompiledCases once.
MCCompiled == LET compiled == CompiledCases IN compiled

MCKeyOrder == <<"a", "b", "c", "n">>
MCMaxNumber == 12

\* Objects whose field k is absent or one of choices[k].
Objects(choices) ==
    LET full == [DOMAIN choices -> UNION {choices[k] : k \in DOMAIN choices} \cup {Absent}]
        ok == {g \in full : \A k \in DOMAIN choices : g[k] \in choices[k] \cup {Absent}}
    IN  {Obj([k \in {k \in DOMAIN choices : g[k] # Absent} |-> g[k]]) : g \in ok}

Doc(spec) == Obj(("kind" :> Tok("X")) @@ ("metadata" :> Obj("name" :> Tok("m"))) @@ ("spec" :> spec))
Tagged(field, spec, key, s) ==
    Obj(("kind" :> Tok("X")) @@ ("spec" :> spec)
        @@ ("metadata" :> Obj(("name" :> Tok("m")) @@ (field :> Obj(key :> s)))))
Annotated(spec, key, s) == Tagged("annotations", spec, key, s)
Docs(choices) == {Doc(o) : o \in Objects(choices)}

Root(props, req) == Object("spec" :> Object(props, req), {})
Version(schema) == [schema |-> schema, served |-> TRUE, storage |-> TRUE]
SourceOf(versions) == [versions |-> versions, injected |-> {}, uncertain |-> FALSE]

Rule(strategy, params) == ConversionRule(strategy, params)
Ack(rule) == [rule EXCEPT !.ack = TRUE]
S(name) == <<"spec", name>>
Pair(hub, spoke) == [hub |-> S(hub), spoke |-> S(spoke)]

\* One hub, one spoke.
Two(hub, spoke, rules, hubDocs, spokeDocs) ==
    [source |-> SourceOf(("h" :> Version(hub)) @@ ("s" :> Version(spoke))),
     config |-> [hub |-> "h", policy |-> "", reason |-> "", spokes |-> <<[version |-> "s", rules |-> rules]>>],
     docs |-> ("h" :> hubDocs) @@ ("s" :> spokeDocs)]

Strings == {Tok("x"), Tok("y")}
Numbers == {Whole(1), Whole(2)}
Extra == "zz" :> {Tok("kept")}
F(name, type) == name :> Scalar(type)

----------------------------------------------------------------------------

Renames == Two(Root(F("a", "string") @@ F("c", "string"), {}), Root(F("b", "string") @@ F("c", "string"), {}),
    <<Rule("FieldRename", Pair("a", "b"))>>,
    Docs(("a" :> Strings) @@ ("c" :> {Tok("x")}) @@ Extra), Docs(("b" :> Strings) @@ Extra))

\* A swap: each name is declared on both sides and means the other field.
Swap == Two(Root(F("a", "string") @@ F("b", "string"), {}), Root(F("a", "string") @@ F("b", "string"), {}),
    <<Rule("FieldRename", Pair("a", "b")), Rule("FieldRename", Pair("b", "a"))>>,
    Docs(("a" :> Strings) @@ ("b" :> Strings)), Docs(("a" :> {Tok("x")}) @@ ("b" :> {Tok("y")})))

\* Two rules for one destination: refused.
Clash == Two(Root(F("a", "string") @@ F("c", "string"), {}), Root(F("b", "string"), {}),
    <<Rule("FieldRename", Pair("a", "b")), Rule("FieldRename", Pair("c", "b"))>>,
    Docs(("a" :> Strings) @@ ("c" :> Strings)), Docs("b" :> Strings))

Part(k, type) == Object(F(k, type), {})
ScalarObject == Two(Root(F("a", "string"), {}),
    Root("b" :> Object(F("k", "string") @@ F("l", "string"), {}), {}),
    <<Ack(Rule("ScalarToObject", Pair("a", "b") @@ [key |-> "k", defaults |-> "l" :> Tok("y")]))>>,
    Docs("a" :> Strings), Docs("b" :> Objects(("k" :> Strings) @@ ("l" :> {Tok("x")}))))
ObjectScalar == Two(Root("a" :> Part("k", "string"), {}), Root(F("b", "string"), {}),
    <<Rule("ObjectToScalar", Pair("a", "b") @@ [key |-> "k", defaults |-> NoFields])>>,
    Docs("a" :> Objects("k" :> Strings)), Docs("b" :> Strings))

Items == {Arr(<<>>), Arr(<<Tok("x")>>), Arr(<<Tok("x"), Tok("y")>>)}
First(array, items) == Two(Root("a" :> array, {}), Root(F("b", "string"), {}),
    <<Ack(Rule("SingletonArrayToObject", Pair("a", "b")))>>, Docs("a" :> items), Docs("b" :> Strings))
Singleton == First(ArrayOf(Scalar("string")), Items)
OnlyOne == First([ArrayOf(Scalar("string")) EXCEPT !.maxItems = 1], {i \in Items : Len(i[2]) <= 1})

MapParams == [onUnknown |-> "", keyNames |-> <<"spec", "a">> :> "n"]
FieldsMap == Two(Root(F("a", "string") @@ F("b", "string"), {}), Root("c" :> FreeMap, {}),
    <<Rule("FieldsToMap", [hub |-> <<S("a"), S("b")>>, spoke |-> S("c")] @@ MapParams)>>,
    Docs(("a" :> Strings) @@ ("b" :> {Tok("x")})),
    Docs("c" :> Objects(("n" :> Strings) @@ ("b" :> {Tok("x")}) @@ ("a" :> {Tok("y")}))))

Meta(strategy, params) == Rule(strategy, params @@ [key |-> "k", reverse |-> TRUE, serialization |-> ""])
Stashed == Two(Root(F("a", "integer"), {}), Root(F("c", "string"), {}),
    <<Meta("ToAnnotation", [hub |-> S("a"), spoke |-> <<>>]),
      Meta("FromAnnotation", [hub |-> <<>>, spoke |-> S("c"), key |-> "l", serialization |-> "String"])>>,
    Docs("a" :> Numbers) \cup {Annotated(EmptyObj, "l", Tok("x")), Annotated(Obj("a" :> Whole(1)), "k", Tok("1"))},
    Docs("c" :> Strings) \cup {Annotated(EmptyObj, "k", JSONText(Whole(1)))})

\* A label's text is checked, so a path is no value for one; a key may be taken.
Labels(serialization) == Two(Root(F("a", "string"), {}), Root(F("c", "string"), {}),
    <<Meta("ToLabel", [hub |-> S("a"), spoke |-> <<>>, serialization |-> serialization]),
      Meta("FromLabel", [hub |-> <<>>, spoke |-> S("c"), key |-> "l"])>>,
    Docs("a" :> {Tok("x"), Str(<<"x", "/", "y">>)}) \cup {Tagged("labels", Obj("a" :> Tok("x")), "k", Tok("y"))},
    Docs("c" :> Strings) \cup {Tagged("labels", EmptyObj, "k", Tok("x"))})
Labelled == Labels("String")
Unlabelled == Labels("")
Keyless == [Labelled EXCEPT !.config.spokes[1].rules[1].key = ""]

\* Stashed and never taken back: a promotion takes it back.
OneWay == Two(Root(F("a", "string"), {}), Root(NoFields, {}),
    <<Ack(Meta("ToAnnotation", [hub |-> S("a"), spoke |-> <<>>, reverse |-> FALSE]))>>,
    Docs("a" :> Strings), {})

\* Two fields kept under one key.
OneKey == Two(Root(F("a", "string") @@ F("c", "string"), {}), Root(NoFields, {}),
    <<Meta("ToAnnotation", [hub |-> S("a"), spoke |-> <<>>]), Meta("ToAnnotation", [hub |-> S("c"), spoke |-> <<>>])>>,
    Docs(("a" :> {Tok("x")}) @@ ("c" :> {Tok("y")})), {})

\* A required field that comes from an annotation which may not be there, or
\* whose text a client chose.
Noted == Two(Root(F("c", "string"), {}), Root(F("c", "string") @@ F("b", "integer"), {"b"}),
    <<Meta("FromAnnotation", [hub |-> <<>>, spoke |-> S("b")])>>,
    Docs("c" :> Strings) \cup {Annotated(EmptyObj, "k", Tok("1"))}, Docs("b" :> Numbers))

Enum(mapping, hubPolicy, spokePolicy) ==
    Rule("EnumRemap", [path |-> S("a"), mapping |-> mapping, onUnmappedHub |-> hubPolicy, onUnmappedSpoke |-> spokePolicy])
EnumCase == Two(Root(F("a", "string"), {}), Root(F("a", "string"), {}),
    <<Ack(Enum(<<<<Tok("x"), Tok("y")>>, <<Tok("y"), Tok("y")>>>>, "", "Drop"))>>,
    Docs("a" :> Strings), Docs("a" :> {Tok("x"), Tok("y"), Tok("z")}))

\* Required on both sides, where the policy is to drop, and where it is to fail.
EnumWith(mapping, policy) == Two(Root(F("a", "string"), {"a"}), Root(F("a", "string"), {"a"}),
    <<Ack(Enum(mapping, policy, ""))>>, Docs("a" :> {Tok("x"), Tok("z")}), Docs("a" :> {Tok("y")}))
EnumDrop == EnumWith(<<<<Tok("x"), Tok("y")>>>>, "Drop")
EnumFail == EnumWith(<<<<Tok("x"), Tok("y")>>>>, "")
\* x is listed twice and y goes back to z.
EnumTwice == [EnumWith(<<<<Tok("x"), Tok("w")>>, <<Tok("x"), Tok("y")>>, <<Tok("z"), Tok("y")>>>>, "")
              EXCEPT !.docs["s"] = Docs("a" :> {Tok("w")})]

OneSide(strategy, path, side, value) == Ack(Rule(strategy, [path |-> S(path), existsOn |-> side, value |-> value]))
Sided == Two(Root(F("a", "string") @@ F("d", "string"), {}), Root(F("b", "string") @@ F("c", "string"), {"b"}),
    <<OneSide("DefaultValue", "b", "Spoke", Tok("x")), OneSide("Constant", "c", "Spoke", Tok("y")),
      OneSide("Delete", "a", "Hub", Absent), OneSide("Delete", "d", "Hub", Absent)>>,
    Docs(("a" :> {Tok("x")}) @@ ("d" :> {Tok("y")})), Docs(("b" :> Strings) @@ ("c" :> Strings)))

Coerced == Two(Root(F("a", "integer"), {}), Root(F("a", "number"), {}),
    <<Ack(Rule("TypeCoerce", [path |-> S("a"), frac |-> "Round"]))>>,
    Docs("a" :> Numbers), Docs("a" :> {Num(5), Num(7)}))

\* Texts for scalars, and a Boolean kept as a number.
Typed(hub, spoke, hubValues, spokeValues) == Two(Root(F("a", hub), {}), Root(F("a", spoke), {}),
    <<Rule("TypeCoerce", [path |-> S("a"), frac |-> "Error"])>>, Docs("a" :> hubValues), Docs("a" :> spokeValues))
Spelled == Typed("boolean", "string", {Bool(TRUE), Bool(FALSE)}, {Tok("true"), Tok("1"), Tok("0"), Tok("x")})
Counted == Typed("integer", "string", Numbers, {Tok("1"), Tok("x")})
Flag == Typed("integer", "boolean", Numbers, {Bool(TRUE)})

Lists == Two(Root("a" :> ArrayOf(Scalar("integer")), {}), Root(F("b", "string"), {}),
    <<Rule("ListJoin", Pair("a", "b") @@ [separator |-> ","])>>,
    Docs("a" :> {Arr(<<>>), Arr(<<Whole(1)>>), Arr(<<Whole(1), Whole(2)>>)}),
    Docs("b" :> {Str(<<>>), Str(<<"1">>), Str(<<"2", ",", "1">>), Tok("x")}))

\* Elements that are empty or hold the separator.
Texts == Two(Root("a" :> ArrayOf(Scalar("string")), {}), Root(F("b", "string"), {}),
    <<Rule("ListJoin", Pair("a", "b") @@ [separator |-> ","])>>,
    Docs("a" :> Items \cup {Arr(<<Str(<<>>)>>), Arr(<<Str(<<"x", ",", "y">>)>>)}),
    Docs("b" :> {Str(<<>>), Str(<<"x", ",", "y">>), Str(<<",">>)}))

Keyed == Object(F("n", "string") @@ F("v", "string"), {"n"})
Elem(n) == Obj(("n" :> Tok(n)) @@ ("v" :> Tok("x")))
ByKey == Two(Root("a" :> ArrayOf(Keyed), {}), Root("b" :> FreeMap, {}),
    <<Ack(Rule("ArrayToMapByKey", Pair("a", "b") @@ [keyField |-> "n"]))>>,
    Docs("a" :> {Arr(<<>>), Arr(<<Elem("b"), Elem("a")>>), Arr(<<Elem("a"), Elem("a")>>)}),
    Docs("b" :> {EmptyObj, Obj(("b" :> Obj("v" :> Tok("x"))) @@ ("a" :> EmptyObj)),
                 Obj(("a" :> Elem("c")) @@ ("b" :> Elem("b")))}))

Scaled == Two(Root(F("a", "integer"), {}), Root(F("b", "integer"), {}),
    <<Ack(Rule("NumericScale", Pair("a", "b") @@ [factor |-> 2]))>>,
    Docs("a" :> {Whole(2), Whole(3)}), Docs("b" :> Numbers))
ScaledExactly == Two(Root(F("a", "number"), {}), Root(F("b", "number"), {}),
    <<Rule("NumericScale", Pair("a", "b") @@ [factor |-> 2])>>,
    Docs("a" :> {Whole(1), Num(2), Num(3)}), Docs("b" :> {Num(1)}))

Units == Two(Root(F("a", "string") @@ F("d", "integer"), {}), Root(F("a", "integer") @@ F("d", "string"), {}),
    <<Ack(Rule("Quantity", Pair("a", "a"))), Ack(Rule("Duration", Pair("d", "d")))>>,
    Docs(("a" :> {Tok("1m"), Tok("0.001"), Tok("x")}) @@ ("d" :> Numbers)),
    Docs(("a" :> Numbers) @@ ("d" :> {Tok("1s"), Tok("1000ms")})))

KeyRename == Rule("MapKeyRename", Pair("a", "b") @@ [renames |-> "a" :> "c"])
MapKeys == Two(Root("a" :> FreeMap, {}), Root("b" :> FreeMap, {}), <<KeyRename>>,
    Docs("a" :> Objects(("a" :> Strings) @@ ("b" :> {Tok("x")}) @@ ("c" :> {Tok("y")}))),
    Docs("b" :> Objects(("c" :> Strings) @@ ("b" :> {Tok("x")}) @@ ("a" :> {Tok("y")}))))

\* One key of a map nobody declared.
Picked == Two(Root("a" :> FreeMap, {}), Root(F("b", "string"), {}),
    <<Rule("ObjectToScalar", Pair("a", "b") @@ [key |-> "k", defaults |-> NoFields])>>,
    Docs("a" :> Objects(("k" :> Strings) @@ ("l" :> {Tok("x")}))), Docs("b" :> Strings))

Fields == ("f" :> S("b")) @@ ("g" :> S("c"))
SplitRule == Ack(Rule("ScalarToFields", [hub |-> S("a"), spoke |-> Fields, override |-> FALSE,
    pattern |-> <<<<"field", "f">>, <<"lit", "/">>, <<"field", "g">>>>,
    template |-> <<<<"field", "f">>, <<"lit", "/">>, <<"field", "g">>>>]))
Splits == Two(Root(F("a", "string"), {}), Root(F("b", "string") @@ F("c", "integer"), {}), <<SplitRule>>,
    Docs("a" :> {Str(<<"x", "/", "1">>), Str(<<"w", "x", "/", "1">>), Str(<<"x", "/", "y">>), Tok("x")}),
    Docs(("b" :> Strings) @@ ("c" :> {Whole(1)})))

Expr == Two(Root(F("a", "string"), {}), Root(F("b", "string"), {}),
    <<Ack(Rule("CEL", [hub |-> <<S("a")>>, spoke |-> <<S("b")>>, h2s |-> S("b") :> S("a"), s2h |-> S("a") :> S("b")]))>>,
    Docs("a" :> Strings), Docs("b" :> Strings))

\* Every trip exchanges two fields.
Cycle == Two(Root(F("a", "string") @@ F("b", "string"), {}), Root(F("a", "string") @@ F("b", "string"), {}),
    <<Ack(Rule("CEL", [hub |-> <<S("a"), S("b")>>, spoke |-> <<S("a"), S("b")>>,
                       h2s |-> (S("a") :> S("b")) @@ (S("b") :> S("a")), s2h |-> (S("a") :> S("a")) @@ (S("b") :> S("b"))]))>>,
    {Doc(Obj(("a" :> Tok("x")) @@ ("b" :> Tok("y"))))}, {Doc(Obj(("a" :> Tok("x")) @@ ("b" :> Tok("y"))))})

Move(from, to) == <<[kind |-> "move", path |-> S(to), from |-> S(from), value |-> Absent]>>
Patched == Two(Root(F("a", "string"), {}), Root(F("b", "string"), {}),
    <<Ack(Rule("JSONPatch", [h2s |-> Move("a", "b"), s2h |-> Move("b", "a"), override |-> TRUE]))>>,
    Docs("a" :> Strings), Docs("b" :> Strings))

Inner == <<Rule("FieldRename", [hub |-> <<"p">>, spoke |-> <<"q">>])>>
Element(k, more) == Obj((k :> Tok("x")) @@ more)
Loop == Two(Root("a" :> ArrayOf(Part("p", "string")), {}), Root("b" :> ArrayOf(Part("q", "string")), {}),
    <<Rule("ForEach", Pair("a", "b") @@ [rules |-> Inner])>>,
    Docs("a" :> {Arr(<<>>), Arr(<<Element("p", NoFields), EmptyObj>>), Arr(<<Element("p", "zz" :> Tok("x"))>>)}),
    Docs("b" :> {Arr(<<Element("q", NoFields)>>)}))

Branch(hub, spoke, rules) == [hub |-> hub, spoke |-> spoke, hubValue |-> "", spokeValue |-> "", rules |-> rules]
Unions == Two(
    Root("u" :> Object(("a" :> Part("p", "string")) @@ ("b" :> Part("p", "string")) @@ F("t", "string"), {}), {}),
    Root("w" :> Object(("c" :> Part("q", "string")) @@ F("t", "string"), {}), {}),
    <<Ack(Rule("BranchMap", Pair("u", "w") @@ [discriminator |-> "t",
        branches |-> <<Branch("a", "c", Inner), Branch("b", "c", Inner)>>]))>>,
    Docs("u" :> Objects(("a" :> {Element("p", NoFields)}) @@ ("b" :> {Element("p", NoFields)}) @@ ("t" :> {Tok("a")}))),
    Docs("w" :> Objects(("c" :> {Element("q", NoFields)}) @@ ("t" :> {Tok("c")}))))

\* The rename applies only to one kind of object.
Conditional == Two(Root(F("t", "string") @@ F("a", "string"), {}), Root(F("t", "string") @@ F("b", "string"), {}),
    <<[Rule("FieldRename", Pair("a", "b")) EXCEPT !.when = <<[path |-> S("t"), equals |-> Tok("x")]>>]>>,
    Docs(("t" :> Strings) @@ ("a" :> Strings)), Docs(("t" :> Strings) @@ ("b" :> {Tok("x")})))

\* The condition looks at a field that another rule converts.
Shifted == [Conditional EXCEPT !.config.spokes[1].rules = Append(@,
    Rule("EnumRemap", [path |-> S("t"), mapping |-> <<<<Tok("x"), Tok("y")>>, <<Tok("y"), Tok("x")>>>>,
                       onUnmappedHub |-> "", onUnmappedSpoke |-> ""]))]

\* A required field fed from an optional one: refused.
Demand(hubReq) == Two(Root(F("a", "string") @@ F("c", "string"), hubReq), Root(F("b", "string") @@ F("c", "string"), {"b"}),
    <<Rule("FieldRename", Pair("a", "b"))>>, Docs(("a" :> Strings) @@ ("c" :> Strings)), Docs("b" :> Strings))
Demanding == Demand({})
Provided == Demand({"a"})
Defaulted == [Demanding EXCEPT !.source.versions["s"].schema.props["spec"].props["b"].default = <<Tok("d")>>]

\* The spoke requires a field that the hub has only inside an optional object.
DeepSource == Two(Root(F("c", "string") @@ ("o" :> Object(F("a", "string"), {"a"})), {}), Root(F("c", "string") @@ F("b", "string"), {"b"}),
    <<Rule("FieldRename", [hub |-> <<"spec", "o", "a">>, spoke |-> S("b")])>>,
    Docs(("c" :> Strings) @@ ("o" :> {Obj("a" :> Tok("x"))})), Docs("b" :> Strings))

\* Required fields from several strategies at once, one of them carried.
Supplied == Two(
    Root(F("a", "string") @@ F("c", "string") @@ F("d", "integer") @@ ("l" :> ArrayOf(Scalar("integer"))), {"a", "c", "d", "l"}),
    Root(F("b", "string") @@ F("c", "string") @@ F("d", "string") @@ F("l", "string"), {"b", "c", "d", "l"}),
    <<Rule("FieldRename", Pair("a", "b")), Rule("TypeCoerce", [path |-> S("d"), frac |-> "Error"]),
      Rule("ListJoin", Pair("l", "l") @@ [separator |-> ","])>>,
    {Doc(Obj(("a" :> Tok("x")) @@ ("c" :> t) @@ ("d" :> Whole(1)) @@ ("l" :> Arr(l)))) : t \in Strings, l \in {<<>>, <<Whole(1)>>}},
    {Doc(Obj(("b" :> Tok("x")) @@ ("c" :> Tok("y")) @@ ("d" :> Tok("1")) @@ ("l" :> Str(<<>>))))})

\* One rule moves an object, another a field inside it.
Nested == Two(Root("o" :> Part("p", "string"), {}), Root("w" :> Part("q", "string"), {}),
    <<Rule("FieldRename", Pair("o", "w")), Rule("FieldRename", [hub |-> <<"spec", "o", "p">>, spoke |-> <<"spec", "w", "q">>])>>,
    Docs("o" :> Objects("p" :> Strings)), {})

\* A definition referred to from an allOf branch, resolved before anything else.
RefTo(pointer) == [Node EXCEPT !.ref = [kind |-> "local", pointer |-> pointer]]
Indirect == [Object("spec" :> [Object(NoFields, {}) EXCEPT
                !.allOf = <<Object("a" :> RefTo(<<"definitions", "d">>), {})>>], {}) EXCEPT
    !.defs = "d" :> [Scalar("string") EXCEPT !.allOf = <<[Node EXCEPT !.enum = {Tok("x")}]>>]]
Normalised == Two(Indirect, Root(F("b", "string"), {}),
    <<Rule("FieldRename", Pair("a", "b"))>>, Docs("a" :> Strings), Docs("b" :> Strings))

\* Three versions, for promotions: s renames a field, u carries it by name.
Three(rules, hub, spoke, other, otherRules, docs) ==
    [source |-> SourceOf(("h" :> Version(hub)) @@ ("s" :> Version(spoke)) @@ ("u" :> Version(other))),
     config |-> [hub |-> "h", policy |-> "", reason |-> "",
                 spokes |-> <<[version |-> "s", rules |-> rules], [version |-> "u", rules |-> otherRules]>>],
     docs |-> ("h" :> docs) @@ ("s" :> {}) @@ ("u" :> {})]
Chain == Three(<<Rule("FieldRename", Pair("a", "b"))>>,
    Root(F("a", "string") @@ F("c", "string"), {}), Root(F("b", "string") @@ F("c", "string"), {}),
    Root(F("a", "string") @@ F("d", "string"), {}), <<Rule("FieldRename", Pair("c", "d"))>>,
    Docs(("a" :> Strings) @@ ("c" :> Strings) @@ Extra))

\* A third version whose rules read the moved field, and one it carries by name
\* although its value changes on the way.
Rich == Three(<<Rule("FieldRename", Pair("a", "b"))>>,
    Root(F("a", "string") @@ F("c", "string"), {}), Root(F("b", "string") @@ F("c", "string"), {}),
    Root(F("c", "string") @@ F("d", "string"), {}),
    <<Meta("ToAnnotation", [hub |-> S("a"), spoke |-> <<>>]), OneSide("Constant", "d", "Spoke", Tok("y")),
      Rule("EnumRemap", [path |-> S("c"), mapping |-> <<<<Tok("x"), Tok("y")>>, <<Tok("y"), Tok("x")>>>>,
                         onUnmappedHub |-> "", onUnmappedSpoke |-> ""])>>,
    Docs(("a" :> Strings) @@ ("c" :> Strings)))
ThirdEnum == Three(<<Rule("EnumRemap", [path |-> S("c"), mapping |-> <<<<Tok("x"), Tok("y")>>, <<Tok("y"), Tok("x")>>>>,
                                        onUnmappedHub |-> "", onUnmappedSpoke |-> ""])>>,
    Root(F("c", "string"), {}), Root(F("c", "string"), {}), Root(F("c", "string"), {}), <<>>, Docs("c" :> Strings))
ThirdMap == Three(<<Rule("FieldRename", Pair("a", "b"))>>,
    Root(F("a", "string"), {}), Root(F("b", "string"), {}), Root("c" :> FreeMap, {}),
    <<Rule("FieldsToMap", [hub |-> <<S("a")>>, spoke |-> S("c"), onUnknown |-> "", keyNames |-> NoFields])>>,
    Docs("a" :> Strings))

\* A branch with two counterparts, a CEL rule nobody acknowledged, a rule whose
\* parameters are another strategy's, a policy without its reason: not admitted.
Twice == [Unions EXCEPT !.config.spokes[1].rules[1].branches = <<@[1], @[1]>>]
Silent == [Expr EXCEPT !.config.spokes[1].rules[1].ack = FALSE]
Mistaken == [Renames EXCEPT !.config.spokes[1].rules[1].set = {"Delete"}]
Unreasoned == [Renames EXCEPT !.config.policy = "Warn"]
Reasoned == [Unreasoned EXCEPT !.config.reason = "legacy"]
\* Under Warn a field that nothing covers is dropped.
Lenient == [Reasoned EXCEPT !.source.versions["h"].schema.props["spec"].props = @ @@ F("d", "string"),
                            !.docs["h"] = Docs(("a" :> Strings) @@ ("d" :> {Tok("y")}))]

\* A rule aimed at a field the platform owns: refused.
Shadowed == [Renames EXCEPT !.source.injected = {S("b")}]

Catalogue == <<
    Renames, Swap, Clash, Nested, ScalarObject, ObjectScalar, Picked, Singleton, OnlyOne, FieldsMap,
    Stashed, OneWay, OneKey, Noted, Labelled, Unlabelled, Keyless, EnumCase, EnumDrop, EnumFail, EnumTwice, Sided,
    Coerced, Spelled, Counted, Flag, Lists, Texts, ByKey, Scaled, ScaledExactly, Units, MapKeys,
    Splits, Expr, Cycle, Patched, Loop, Unions, Conditional, Shifted,
    Demanding, Provided, Defaulted, DeepSource, Supplied, Normalised, Chain, Rich, ThirdEnum, ThirdMap,
    Shadowed, Twice, Silent, Mistaken, Unreasoned, Reasoned, Lenient>>

----------------------------------------------------------------------------
(* Configs the analysis accepts and an unconditional statement of the      *)
(* engine's documentation is not true of.                                  *)

OptionalParent == <<DeepSource>>
NestedRenames == <<Nested>>
ScalePromoted == <<Scaled>>

============================================================================
