--------------------------- MODULE EngineCompile ---------------------------
(***************************************************************************)
(* Compiling a rule set against a hub and a spoke schema (compile.go) and  *)
(* judging the result (analyze.go, required.go).  A rule is a record       *)
(* [strategy, ack, when, ...] with its strategy's parameters.              *)
(*                                                                         *)
(* Resolving a rule gives its op in each direction, the direction-wise     *)
(* lossless verdict <<hub to spoke, spoke to hub>>, the errors found and   *)
(* the paths it claims on each side.                                       *)
(***************************************************************************)
EXTENDS EngineSchema

OpOf(type, fields) == [op |-> type] @@ fields

Diagnose(condition, code) == IF condition THEN {code} ELSE {}

Resolved(h2s, s2h, lossless, errors, hubClaims, spokeClaims) ==
    [h2s |-> h2s, s2h |-> s2h, lossless |-> lossless, errors |-> errors,
     hub |-> hubClaims, spoke |-> spokeClaims, uncovered |-> <<{}, {}>>]

Unknown(schema, paths) == Diagnose(\E i \in DOMAIN paths : lookupPath(schema, paths[i]) = NoNode, "path")

\* A strategy that consumes a whole object claims it and every leaf below.
claimSubtree(schema, prefix) ==
    LET node == lookupPath(schema, prefix)
        below == {l.path : l \in IF node = NoNode THEN {} ELSE flattenSchema(node)} \ {<<>>}
    IN  <<prefix>> \o SetToSeq({prefix \o p : p \in below})

----------------------------------------------------------------------------
(* One resolver per strategy.                                              *)

resolveFieldRename(r, hub, spoke) ==
    LET h == lookupPath(hub, r.hub)
        s == lookupPath(spoke, r.spoke)
    IN  Resolved(<<OpOf("rename", [from |-> r.hub, to |-> r.spoke])>>,
                 <<OpOf("rename", [from |-> r.spoke, to |-> r.hub])>>,
                 <<TRUE, TRUE>>,
                 Unknown(hub, <<r.hub>>) \cup Unknown(spoke, <<r.spoke>>)
                     \cup Diagnose(NoNode \notin {h, s} /\ KindOf(h) # KindOf(s), "kind"),
                 <<r.hub>>, <<r.spoke>>)

extraKeys(schema, path, key) == DOMAIN lookupPath(schema, path).props \ {key}

Wrap(scalar, object, r) ==
    OpOf("wrapScalar", [scalar |-> scalar, object |-> object, key |-> r.key, defaults |-> r.defaults])
Unwrap(object, scalar, r) == OpOf("unwrapScalar", [object |-> object, scalar |-> scalar, key |-> r.key])

resolveScalarToObject(r, hub, spoke) ==
    Resolved(<<Wrap(r.hub, r.spoke, r)>>, <<Unwrap(r.spoke, r.hub, r)>>,
             <<TRUE, extraKeys(spoke, r.spoke, r.key) = {}>>,
             Unknown(hub, <<r.hub>>) \cup Unknown(spoke, <<r.spoke>>),
             <<r.hub>>, claimSubtree(spoke, r.spoke))

resolveObjectToScalar(r, hub, spoke) ==
    Resolved(<<Unwrap(r.hub, r.spoke, r)>>, <<Wrap(r.spoke, r.hub, r)>>,
             <<extraKeys(hub, r.hub, r.key) = {}, TRUE>>,
             Unknown(hub, <<r.hub>>) \cup Unknown(spoke, <<r.spoke>>),
             claimSubtree(hub, r.hub), <<r.spoke>>)

\* Mutant: an array of any length counts as a singleton.
singletonAlwaysFits(array, object, arraySchema, objectSchema, arrayIsHub) ==
    LET first == <<OpOf("arrayFirstToObject", [array |-> array, object |-> object])>>
        wrap == <<OpOf("objectToSingletonArray", [object |-> object, array |-> array])>>
        whole == claimSubtree(objectSchema, object)
    IN  IF arrayIsHub THEN Resolved(first, wrap, <<TRUE, TRUE>>, {}, <<array>>, whole)
        ELSE Resolved(wrap, first, <<TRUE, TRUE>>, {}, whole, <<array>>)

\* Shared by both singleton strategies; the array side loses all but one element.
resolveSingletonArrayToObject(array, object, arraySchema, objectSchema, arrayIsHub) ==
    LET first == <<OpOf("arrayFirstToObject", [array |-> array, object |-> object])>>
        wrap == <<OpOf("objectToSingletonArray", [object |-> object, array |-> array])>>
        fits == lookupPath(arraySchema, array).maxItems <= 1
        errors == Unknown(arraySchema, <<array>>) \cup Unknown(objectSchema, <<object>>)
        whole == claimSubtree(objectSchema, object)
    IN  IF arrayIsHub THEN Resolved(first, wrap, <<fits, TRUE>>, errors, <<array>>, whole)
        ELSE Resolved(wrap, first, <<TRUE, fits>>, errors, whole, <<array>>)

Collapse(r, fields, map) == OpOf("collapseToMap", [fields |-> fields, map |-> map, keyNames |-> r.keyNames])
Expand(r, map, fields) ==
    OpOf("expandFromMap", [map |-> map, fields |-> fields, keyNames |-> r.keyNames, onUnknownKey |-> r.onUnknown])

resolveFieldsToMap(r, hub, spoke) ==
    Resolved(<<Collapse(r, r.hub, r.spoke)>>, <<Expand(r, r.spoke, r.hub)>>,
             <<TRUE, r.onUnknown = "Error">>,
             Unknown(hub, r.hub) \cup Unknown(spoke, <<r.spoke>>),
             r.hub, claimSubtree(spoke, r.spoke))

resolveMapToFields(r, hub, spoke) ==
    Resolved(<<Expand(r, r.hub, r.spoke)>>, <<Collapse(r, r.spoke, r.hub)>>,
             <<r.onUnknown = "Error", TRUE>>,
             Unknown(hub, <<r.hub>>) \cup Unknown(spoke, r.spoke),
             claimSubtree(hub, r.hub), r.spoke)

Metadata(type, path, field, r) ==
    OpOf(type, [path |-> path, field |-> field, key |-> r.key, serialization |-> r.serialization])
Strip(field, r) == OpOf("strip", [field |-> field, key |-> r.key])

resolveToMetadata(r, hub) ==
    LET field == IF r.strategy = "ToLabel" THEN "labels" ELSE "annotations"
    IN  Resolved(<<Metadata("stash", r.hub, field, r)>>,
                 <<IF r.reverse THEN Metadata("restore", r.hub, field, r) ELSE Strip(field, r)>>,
                 <<TRUE, r.reverse>>,
                 Unknown(hub, <<r.hub>>) \cup Diagnose(field = "labels" /\ ~IsQualifiedName(r.key), "key"),
                 claimSubtree(hub, r.hub), <<>>)

resolveFromMetadata(r, spoke) ==
    LET field == IF r.strategy = "FromLabel" THEN "labels" ELSE "annotations"
    IN  Resolved(<<Metadata("restore", r.spoke, field, r)>>,
                 <<IF r.reverse THEN Metadata("stash", r.spoke, field, r) ELSE Strip(field, r)>>,
                 <<TRUE, r.reverse>>,
                 Unknown(spoke, <<r.spoke>>)
                     \cup Diagnose(field = "labels" /\ r.serialization = "JSON", "serialization")
                     \cup Diagnose(field = "labels" /\ ~IsQualifiedName(r.key), "key"),
                 <<>>, claimSubtree(spoke, r.spoke))

\* Later pairs of the mapping overwrite earlier ones in each table.
Table(pairs, from, to) ==
    [k \in {p[from] : p \in Range(pairs)} |->
        pairs[Max({i \in DOMAIN pairs : pairs[i][from] = k})][to]]

resolveEnumRemap(r, hub, spoke) ==
    LET injective == \A i, j \in DOMAIN r.mapping : i # j => r.mapping[i][2] # r.mapping[j][2]
        remap(table, policy) == OpOf("remapEnum", [path |-> r.path, table |-> table, onUnmapped |-> policy])
    IN  Resolved(<<remap(Table(r.mapping, 1, 2), r.onUnmappedHub)>>,
                 <<remap(Table(r.mapping, 2, 1), r.onUnmappedSpoke)>>,
                 <<r.onUnmappedHub = "Error", r.onUnmappedSpoke = "Error" /\ injective>>,
                 Unknown(hub, <<r.path>>) \cup Unknown(spoke, <<r.path>>), <<r.path>>, <<r.path>>)

\* DefaultValue, Constant and Delete act on a field that only one side has.
OneSided(r, hub, spoke, there, lossless) ==
    LET drop == <<OpOf("drop", [path |-> r.path])>>
        onSpoke == r.existsOn = "Spoke"
    IN  IF onSpoke
        THEN Resolved(there, drop, lossless, Unknown(spoke, <<r.path>>), <<>>, <<r.path>>)
        ELSE Resolved(drop, there, <<lossless[2], lossless[1]>>, Unknown(hub, <<r.path>>), <<r.path>>, <<>>)

Inject(r) == <<OpOf("inject", [path |-> r.path, value |-> r.value])>>

resolveDefaultValue(r, hub, spoke) == OneSided(r, hub, spoke, Inject(r), <<TRUE, FALSE>>)
resolveConstant(r, hub, spoke) == OneSided(r, hub, spoke, Inject(r), <<TRUE, FALSE>>)
resolveDelete(r, hub, spoke) == OneSided(r, hub, spoke, <<OpOf("drop", [path |-> r.path])>>, <<TRUE, FALSE>>)

\* The destinations a patch writes, and every pointer it mentions.
parsePatch(patch) ==
    LET dest == {patch[i].path : i \in DOMAIN patch}
    IN  [dest |-> SetToSeq(dest), all |-> dest \cup ({patch[i].from : i \in DOMAIN patch} \ {<<>>})]

\* Every path either patch mentions is claimed on both sides; lossiness is the
\* author's word.
resolveJSONPatch(r) ==
    LET there == parsePatch(r.h2s)
        back == parsePatch(r.s2h)
        op(patch, parsed) == <<OpOf("jsonPatch", [patch |-> patch, touched |-> parsed.dest])>>
        all == SetToSeq(there.all \cup back.all)
    IN  Resolved(op(r.h2s, there), op(r.s2h, back), <<r.override, r.override>>, {}, all, all)

resolveTypeCoerce(r, hub, spoke) ==
    LET h == KindOf(lookupPath(hub, r.path))
        s == KindOf(lookupPath(spoke, r.path))
        coerce(kind) == <<OpOf("coerce", [path |-> r.path, toKind |-> kind, frac |-> r.frac])>>
        keeps(kind) == r.frac = "Error" \/ kind # "integer"
    IN  Resolved(coerce(s), coerce(h), <<keeps(s), keeps(h)>>,
                 Unknown(hub, <<r.path>>) \cup Unknown(spoke, <<r.path>>)
                     \cup Diagnose(~isCoercibleScalar(h) \/ ~isCoercibleScalar(s), "kind")
                     \cup Diagnose(r.frac \notin {"Error", "Truncate", "Round"}, "policy"),
                 <<r.path>>, <<r.path>>)

\* Every field needs a capture group and a scalar kind.
compileSplitJoin(r, fields, schema) ==
    Diagnose(\E n \in DOMAIN fields : <<"field", n>> \notin Range(r.pattern), "group")
        \cup Unknown(schema, SetToSeq(Range(fields)))
        \cup Diagnose(\E n \in DOMAIN fields : ~isCoercibleScalar(KindOf(lookupPath(schema, fields[n]))), "kind")

Split(r, source, fields, schema) ==
    <<OpOf("splitField", [source |-> source, pattern |-> r.pattern, fields |-> fields,
                          kinds |-> [n \in DOMAIN fields |-> KindOf(lookupPath(schema, fields[n]))]])>>
Join(r, fields, dest) == <<OpOf("joinFields", [fields |-> fields, dest |-> dest, template |-> r.template])>>

resolveScalarToFields(r, hub, spoke) ==
    Resolved(Split(r, r.hub, r.spoke, spoke), Join(r, r.spoke, r.hub), <<r.override, r.override>>,
             Unknown(hub, <<r.hub>>) \cup compileSplitJoin(r, r.spoke, spoke),
             <<r.hub>>, SetToSeq(Range(r.spoke)))

resolveFieldsToScalar(r, hub, spoke) ==
    Resolved(Join(r, r.hub, r.spoke), Split(r, r.spoke, r.hub, hub), <<r.override, r.override>>,
             Unknown(spoke, <<r.spoke>>) \cup compileSplitJoin(r, r.hub, hub),
             SetToSeq(Range(r.hub)), <<r.spoke>>)

\* The strategies whose two paths are looked up and claimed as they stand.
Plain(r, hub, spoke, h2s, s2h, lossless, errors) ==
    Resolved(h2s, s2h, lossless, errors \cup Unknown(hub, <<r.hub>>) \cup Unknown(spoke, <<r.spoke>>),
             <<r.hub>>, <<r.spoke>>)

ToMap(r, array, map) == <<OpOf("arrayToMapByKey", [array |-> array, map |-> map, keyField |-> r.keyField])>>
ToArray(r, map, array) == <<OpOf("mapToArrayByKey", [map |-> map, array |-> array, keyField |-> r.keyField])>>

resolveArrayToMapByKey(r, hub, spoke) ==
    Plain(r, hub, spoke, ToMap(r, r.hub, r.spoke), ToArray(r, r.spoke, r.hub), <<TRUE, FALSE>>, {})
resolveMapToArrayByKey(r, hub, spoke) ==
    Plain(r, hub, spoke, ToArray(r, r.hub, r.spoke), ToMap(r, r.spoke, r.hub), <<FALSE, TRUE>>, {})

resolveNumericScale(r, hub, spoke) ==
    LET h == KindOf(lookupPath(hub, r.hub))
        s == KindOf(lookupPath(spoke, r.spoke))
        scale(from, to, multiply, kind) ==
            <<OpOf("numericScale", [from |-> from, to |-> to, factor |-> r.factor, multiply |-> multiply,
                                    round |-> kind = "integer"])>>
    IN  Plain(r, hub, spoke, scale(r.hub, r.spoke, FALSE, s), scale(r.spoke, r.hub, TRUE, h),
              <<s = "number", h = "number">>,
              Diagnose(r.factor = 0, "factor") \cup Diagnose(~({h, s} \subseteq {"integer", "number"}), "kind"))

JoinList(r, array, string) == <<OpOf("joinList", [array |-> array, string |-> string, separator |-> r.separator])>>
SplitList(r, string, array, kind) ==
    <<OpOf("splitList", [string |-> string, array |-> array, separator |-> r.separator, itemKind |-> kind])>>
ItemKind(node) == IF node.items = <<>> THEN "unknown" ELSE KindOf(node.items[1])

resolveListJoin(r, hub, spoke) ==
    LET item == ItemKind(lookupPath(hub, r.hub))
    IN  Plain(r, hub, spoke, JoinList(r, r.hub, r.spoke), SplitList(r, r.spoke, r.hub, item), <<TRUE, TRUE>>,
              Diagnose(~isCoercibleScalar(item) \/ KindOf(lookupPath(spoke, r.spoke)) # "string", "kind"))
resolveListSplit(r, hub, spoke) ==
    LET item == ItemKind(lookupPath(spoke, r.spoke))
    IN  Plain(r, hub, spoke, SplitList(r, r.hub, r.spoke, item), JoinList(r, r.spoke, r.hub), <<TRUE, TRUE>>,
              Diagnose(~isCoercibleScalar(item) \/ KindOf(lookupPath(hub, r.hub)) # "string", "kind"))

\* Quantity and Duration: reading a spelling loses nothing, writing the
\* canonical one may.
resolveStringIntegerPair(r, type, hub, spoke) ==
    LET kinds == <<KindOf(lookupPath(hub, r.hub)), KindOf(lookupPath(spoke, r.spoke))>>
        op(src, dst, toInteger) == <<OpOf(type, [src |-> src, dst |-> dst, toInteger |-> toInteger])>>
        down == kinds = <<"string", "integer">>
        up == kinds = <<"integer", "string">>
    IN  IF down \/ up
        THEN Plain(r, hub, spoke, op(r.hub, r.spoke, down), op(r.spoke, r.hub, up), <<down, up>>, {})
        ELSE Plain(r, hub, spoke, <<>>, <<>>, <<FALSE, FALSE>>, {"kind"})

invertRenames(renames) ==
    [s \in Range(renames) |-> CHOOSE h \in DOMAIN renames : renames[h] = s]

requireOpaqueMap(schema, path) == Diagnose(classify(lookupPath(schema, path)) # <<"object", TRUE>>, "kind")

resolveMapKeyRename(r, hub, spoke) ==
    LET op(src, dst, renames) == <<OpOf("mapKeyRename", [src |-> src, dst |-> dst, renames |-> renames])>>
        injective == \A k, l \in DOMAIN r.renames : k # l => r.renames[k] # r.renames[l]
    IN  Plain(r, hub, spoke, op(r.hub, r.spoke, r.renames), op(r.spoke, r.hub, invertRenames(r.renames)),
              <<TRUE, TRUE>>,
              requireOpaqueMap(hub, r.hub) \cup requireOpaqueMap(spoke, r.spoke)
                  \cup Diagnose(DOMAIN r.renames = {} \/ ~injective, "renames"))

resolveCEL(r, hub, spoke) ==
    Resolved(<<OpOf("cel", [entries |-> r.h2s, dests |-> r.spoke])>>,
             <<OpOf("cel", [entries |-> r.s2h, dests |-> r.hub])>>, <<FALSE, FALSE>>,
             Unknown(hub, r.hub) \cup Unknown(spoke, r.spoke)
                 \cup Diagnose(r.hub = <<>> \/ r.spoke = <<>>, "path"),
             r.hub, r.spoke)

----------------------------------------------------------------------------
(* Strategies with rules of their own.                                     *)

MaxForEachDepth == 2
RECURSIVE resolveAndBuildOps(_, _, _, _, _)

NothingBuilt(errors, hubClaims, spokeClaims) ==
    Resolved(<<>>, <<>>, <<TRUE, TRUE>>, errors, hubClaims, spokeClaims)
and(v, w) == <<v[1] /\ w[1], v[2] /\ w[2]>>

\* Paths found uncovered inside an item are reported below the items path.
qualifyUnderItemsPath(hubPath, spokePath, uncovered) ==
    <<{hubPath \o p : p \in uncovered[1]}, {spokePath \o p : p \in uncovered[2]}>>

resolveForEach(r, hub, spoke, policy, depth) ==
    LET h == lookupPath(hub, r.hub)
        s == lookupPath(spoke, r.spoke)
        nested == resolveAndBuildOps(r.rules, h.items[1], s.items[1], policy, depth + 1)
        op(src, dst, ops) == <<OpOf("forEach", [src |-> src, dst |-> dst, nested |-> ops])>>
    IN  CASE depth >= MaxForEachDepth -> NothingBuilt({"depth"}, <<>>, <<>>)
          [] <<>> \in {h.items, s.items} -> NothingBuilt({"items"}, <<r.hub>>, <<r.spoke>>)
          [] OTHER -> [Resolved(op(r.hub, r.spoke, nested.h2s), op(r.spoke, r.hub, nested.s2h),
                                nested.lossless, nested.errors, <<r.hub>>, <<r.spoke>>)
                       EXCEPT !.uncovered = qualifyUnderItemsPath(r.hub, r.spoke, nested.uncovered)]

discriminatorValue(explicit, branch) == IF explicit = "" THEN branch ELSE explicit

\* Only the first mapping that names a branch claims it and converts from it: a
\* branch named again is a collapse, which loses the way back.
resolveBranchMap(r, hub, spoke, policy, depth) ==
    LET h == lookupPath(hub, r.hub)
        s == lookupPath(spoke, r.spoke)
        B == r.branches
        firstHub(i) == \A j \in 1 .. i - 1 : B[j].hub # B[i].hub
        firstSpoke(i) == \A j \in 1 .. i - 1 : B[j].spoke # B[i].spoke
        mapped == {i \in DOMAIN B : B[i].hub \in DOMAIN h.props /\ B[i].spoke \in DOMAIN s.props}
        nested == [i \in mapped |->
                     IF B[i].rules = <<>>
                     THEN [h2s |-> <<>>, s2h |-> <<>>, errors |-> {}, lossless |-> <<TRUE, TRUE>>,
                           uncovered |-> <<{}, {}>>]
                     ELSE resolveAndBuildOps(B[i].rules, h.props[B[i].hub], s.props[B[i].spoke], policy, depth)]
        below(i) == qualifyUnderItemsPath(Append(r.hub, B[i].hub), Append(r.spoke, B[i].spoke), nested[i].uncovered)
        there(i) == IF i \notin mapped \/ ~firstHub(i) THEN <<>>
                    ELSE <<[src |-> B[i].hub, dst |-> B[i].spoke, nested |-> nested[i].h2s,
                            dstValue |-> discriminatorValue(B[i].spokeValue, B[i].spoke)]>>
        back(i) == IF i \notin mapped \/ ~firstSpoke(i) THEN <<>>
                   ELSE <<[src |-> B[i].spoke, dst |-> B[i].hub, nested |-> nested[i].s2h,
                           dstValue |-> discriminatorValue(B[i].hubValue, B[i].hub)]>>
        each(f(_)) == FlattenSeq([i \in DOMAIN B |-> f(i)])
        op(src, dst, branches) ==
            IF each(there) = <<>> THEN <<>>
            ELSE <<OpOf("branchMap", [src |-> src, dst |-> dst, discriminator |-> r.discriminator,
                                      branches |-> branches])>>
        key(path) == IF r.discriminator = "" THEN <<>> ELSE <<Append(path, r.discriminator)>>
        hubClaims(i) == IF there(i) = <<>> THEN <<>> ELSE claimSubtree(hub, Append(r.hub, B[i].hub))
        spokeClaims(i) == IF back(i) = <<>> THEN <<>> ELSE claimSubtree(spoke, Append(r.spoke, B[i].spoke))
        errors == Diagnose(B = <<>> \/ mapped # DOMAIN B, "branches")
                  \cup Diagnose(r.discriminator \notin {""} \cup (DOMAIN h.props \cap DOMAIN s.props), "discriminator")
                  \cup UNION {nested[i].errors : i \in mapped}
    IN  IF ~HasProps(h) \/ ~HasProps(s) THEN NothingBuilt({"union"}, <<>>, <<>>)
        ELSE [Resolved(op(r.hub, r.spoke, each(there)), op(r.spoke, r.hub, each(back)),
                       <<\A i \in DOMAIN B : firstHub(i) /\ (i \in mapped => nested[i].lossless[1]),
                         \A i \in DOMAIN B : firstSpoke(i) /\ (i \in mapped => nested[i].lossless[2])>>,
                       errors, each(hubClaims) \o key(r.hub), each(spokeClaims) \o key(r.spoke))
              EXCEPT !.uncovered = <<UNION {below(i)[1] : i \in mapped}, UNION {below(i)[2] : i \in mapped}>>]

----------------------------------------------------------------------------
(* A rule list as a whole.                                                 *)

resolveStrategy(r, hub, spoke, policy, depth) ==
    CASE r.strategy = "FieldRename" -> resolveFieldRename(r, hub, spoke)
      [] r.strategy = "ScalarToObject" -> resolveScalarToObject(r, hub, spoke)
      [] r.strategy = "ObjectToScalar" -> resolveObjectToScalar(r, hub, spoke)
      [] r.strategy = "SingletonArrayToObject" -> resolveSingletonArrayToObject(r.hub, r.spoke, hub, spoke, TRUE)
      [] r.strategy = "ObjectToSingletonArray" -> resolveSingletonArrayToObject(r.spoke, r.hub, spoke, hub, FALSE)
      [] r.strategy = "FieldsToMap" -> resolveFieldsToMap(r, hub, spoke)
      [] r.strategy = "MapToFields" -> resolveMapToFields(r, hub, spoke)
      [] r.strategy \in {"ToAnnotation", "ToLabel"} -> resolveToMetadata(r, hub)
      [] r.strategy \in {"FromAnnotation", "FromLabel"} -> resolveFromMetadata(r, spoke)
      [] r.strategy = "EnumRemap" -> resolveEnumRemap(r, hub, spoke)
      [] r.strategy = "DefaultValue" -> resolveDefaultValue(r, hub, spoke)
      [] r.strategy = "Constant" -> resolveConstant(r, hub, spoke)
      [] r.strategy = "Delete" -> resolveDelete(r, hub, spoke)
      [] r.strategy = "JSONPatch" -> resolveJSONPatch(r)
      [] r.strategy = "ForEach" -> resolveForEach(r, hub, spoke, policy, depth)
      [] r.strategy = "TypeCoerce" -> resolveTypeCoerce(r, hub, spoke)
      [] r.strategy = "ScalarToFields" -> resolveScalarToFields(r, hub, spoke)
      [] r.strategy = "FieldsToScalar" -> resolveFieldsToScalar(r, hub, spoke)
      [] r.strategy = "ArrayToMapByKey" -> resolveArrayToMapByKey(r, hub, spoke)
      [] r.strategy = "MapToArrayByKey" -> resolveMapToArrayByKey(r, hub, spoke)
      [] r.strategy = "NumericScale" -> resolveNumericScale(r, hub, spoke)
      [] r.strategy = "ListJoin" -> resolveListJoin(r, hub, spoke)
      [] r.strategy = "ListSplit" -> resolveListSplit(r, hub, spoke)
      [] r.strategy = "Quantity" -> resolveStringIntegerPair(r, "quantity", hub, spoke)
      [] r.strategy = "Duration" -> resolveStringIntegerPair(r, "duration", hub, spoke)
      [] r.strategy = "MapKeyRename" -> resolveMapKeyRename(r, hub, spoke)
      [] r.strategy = "BranchMap" -> resolveBranchMap(r, hub, spoke, policy, depth)
      [] r.strategy = "CEL" -> resolveCEL(r, hub, spoke)
      [] OTHER -> NothingBuilt({"strategy"}, <<>>, <<>>)

\* The paths a rule is reported to touch on the hub and on the spoke.
Touches(r) ==
    CASE r.strategy \in {"EnumRemap", "DefaultValue", "Constant", "Delete", "TypeCoerce"} -> <<{r.path}, {r.path}>>
      [] r.strategy = "JSONPatch" -> <<{}, {}>>
      [] r.strategy \in {"ToAnnotation", "ToLabel"} -> <<{r.hub}, {}>>
      [] r.strategy \in {"FromAnnotation", "FromLabel"} -> <<{}, {r.spoke}>>
      [] r.strategy \in {"FieldsToMap", "FieldsToScalar"} -> <<Range(r.hub), {r.spoke}>>
      [] r.strategy \in {"MapToFields", "ScalarToFields"} -> <<{r.hub}, Range(r.spoke)>>
      [] r.strategy = "CEL" -> <<Range(r.hub), Range(r.spoke)>>
      [] OTHER -> <<{r.hub}, {r.spoke}>>

\* A rule's own verdict, with lossiness acknowledged or refused and its
\* condition, which both schemas must declare, around its ops.
resolveRule(r, hub, spoke, policy, depth) ==
    LET res == resolveStrategy(r, hub, spoke, policy, depth)
        lossy == Diagnose(res.lossless # <<TRUE, TRUE>> /\ ~r.ack, "lossy")
        cond == r.when[1]
        badWhen == IF r.when = <<>> THEN {}
                   ELSE Diagnose(cond.path = <<>>, "when") \cup Unknown(hub, <<cond.path>>) \cup Unknown(spoke, <<cond.path>>)
        guarded(ops) == IF r.when = <<>> \/ badWhen # {} THEN ops
                        ELSE [i \in DOMAIN ops |->
                                OpOf("when", [path |-> cond.path, equals |-> cond.equals, inner |-> ops[i]])]
    IN  [res EXCEPT !.errors = @ \cup lossy \cup badWhen, !.h2s = guarded(@), !.s2h = guarded(@)]

\* claim: a path claimed twice, by one rule or by two, is an error.
Claims(results, side) == FlattenSeq([i \in DOMAIN results |-> IF side = "hub" THEN results[i].hub ELSE results[i].spoke])
\* Mutant: the second claim of a path is not noticed.
claimFreely(claims) == {}

claim(claims) == Diagnose(\E i, j \in DOMAIN claims : i # j /\ claims[i] = claims[j], "claimed")

\* What no rule claims: a leaf of one shape on both sides is carried as it is,
\* any other is uncovered.
leftovers(hub, spoke, claimedHub, claimedSpoke) ==
    LET spokeLeaves == flattenSchema(spoke)
        shape(l) == <<l.path, l.kind, l.opaque, l.construct>>
        auto == {l.path : l \in {l \in flattenSchema(hub) :
                    l.path \notin claimedHub \cup claimedSpoke /\ \E k \in spokeLeaves : shape(k) = shape(l)}}
    IN  [auto |-> auto, uncovered |-> <<{l.path : l \in flattenSchema(hub)} \ (claimedHub \cup auto),
                                       {l.path : l \in spokeLeaves} \ (claimedSpoke \cup auto)>>]

\* Mutant: the names of one side only.
KnownOnHub(hub, spoke) == buildKnownTree(hub)

KnownNames(hub, spoke) == mergeKnownTrees(buildKnownTree(hub), buildKnownTree(spoke))

resolveAndBuildOps(rules, hub, spoke, policy, depth) ==
    LET results == [i \in DOMAIN rules |-> resolveRule(rules[i], hub, spoke, policy, depth)]
        hubClaims == Claims(results, "hub")
        spokeClaims == Claims(results, "spoke")
        rest == leftovers(hub, spoke, Range(hubClaims), Range(spokeClaims))
        carry == SetToSeq({[op |-> "identity", path |-> p] : p \in rest.auto})
        passthrough == <<[op |-> "passthrough", tree |-> KnownNames(hub, spoke)]>>
        strict == policy # "Warn"
    IN  [h2s |-> FlattenSeq([i \in DOMAIN results |-> results[i].h2s]) \o carry \o passthrough,
         s2h |-> FlattenSeq([i \in DOMAIN results |-> results[i].s2h]) \o carry \o passthrough,
         errors |-> UNION {results[i].errors : i \in DOMAIN results} \cup claim(hubClaims) \cup claim(spokeClaims)
                        \cup Diagnose(strict /\ rest.uncovered # <<{}, {}>>, "uncovered"),
         lossless |-> and(FoldLeft(LAMBDA v, res : and(v, res.lossless), <<TRUE, TRUE>>, results),
                          <<strict => rest.uncovered[1] = {}, strict => rest.uncovered[2] = {}>>),
         uncovered |-> <<rest.uncovered[1] \cup UNION {results[i].uncovered[1] : i \in DOMAIN results},
                         rest.uncovered[2] \cup UNION {results[i].uncovered[2] : i \in DOMAIN results}>>]

============================================================================
