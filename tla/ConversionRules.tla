-------------------------- MODULE ConversionRules --------------------------
(***************************************************************************)
(* The rules of a conversion config as its author writes them              *)
(* (api/v1alpha1): their translation for the engine                        *)
(* (xrdconversionconfig_convert.go) and the promotion of a spoke to hub    *)
(* (rehub.go), which rewrites every rule set around the new hub and has    *)
(* the analysis grade the draft (internal/cli/rehub.go).                   *)
(*                                                                         *)
(* An author's rule is the engine's record with set naming the strategies  *)
(* whose parameters are present and "" where a policy is left out.  What   *)
(* admission asks of its shape is validateOneRule (internal/webhook).      *)
(***************************************************************************)
EXTENDS EngineAnalyze

ConversionRule(strategy, params) == params @@ [strategy |-> strategy, set |-> {strategy}, ack |-> FALSE, when |-> <<>>]
Given(r) == r.strategy \in r.set
BadRule == [strategy |-> "invalid"]
IsBad(r) == r.strategy = "invalid"
AnyBad(rules) == \E i \in DOMAIN rules : IsBad(rules[i])

orDefault(v, def) == IF v = "" THEN def ELSE v

\* Each strategy and the one that converts the other way.
InverseStrategy ==
    LET pairs == {<<"FieldRename", "FieldRename">>, <<"ScalarToObject", "ObjectToScalar">>,
                  <<"SingletonArrayToObject", "ObjectToSingletonArray">>, <<"FieldsToMap", "MapToFields">>,
                  <<"ToAnnotation", "FromAnnotation">>, <<"ToLabel", "FromLabel">>,
                  <<"EnumRemap", "EnumRemap">>, <<"DefaultValue", "DefaultValue">>, <<"Constant", "Constant">>,
                  <<"Delete", "Delete">>, <<"JSONPatch", "JSONPatch">>, <<"ForEach", "ForEach">>,
                  <<"TypeCoerce", "TypeCoerce">>, <<"ScalarToFields", "FieldsToScalar">>,
                  <<"ArrayToMapByKey", "MapToArrayByKey">>, <<"NumericScale", "NumericScale">>,
                  <<"ListJoin", "ListSplit">>, <<"Quantity", "Quantity">>, <<"Duration", "Duration">>,
                  <<"MapKeyRename", "MapKeyRename">>, <<"CEL", "CEL">>}
        both == pairs \cup {<<p[2], p[1]>> : p \in pairs}
    IN  [s \in {p[1] : p \in both} |-> (CHOOSE p \in both : p[1] = s)[2]]

Strategies == DOMAIN InverseStrategy \cup {"BranchMap"}

\* Strategies with one path on each side.
OnePathEach ==
    {"ArrayToMapByKey", "MapToArrayByKey", "NumericScale", "ListJoin", "ListSplit", "Quantity", "Duration",
     "MapKeyRename"}

OneHubPath ==
    {"FieldRename", "ScalarToObject", "ObjectToScalar", "SingletonArrayToObject", "ObjectToSingletonArray",
     "MapToFields", "ToAnnotation", "ToLabel", "ForEach", "ScalarToFields"}

\* Strategies whose parameters are copied field by field.
CopiedParams == OnePathEach \cup {"TypeCoerce", "ScalarToFields", "FieldsToScalar"}

----------------------------------------------------------------------------
(* xrdconversionconfig_convert.go                                          *)

RECURSIVE convertRules(_)

rekeyByPath(paths, keyNames) == [p \in Range(paths) \cap DOMAIN keyNames |-> keyNames[p]]

convertBranches(branches) ==
    [i \in DOMAIN branches |-> [branches[i] EXCEPT !.rules = convertRules(@)]]

\* Missing parameters or an unknown strategy fail; absent policies default.
convertParams(r) ==
    LET s == r.strategy
        policy(p) == orDefault(p, "Error")
        nested == convertRules(r.rules)
        branches == convertBranches(r.branches)
    IN  CASE s \notin Strategies \/ ~Given(r) -> BadRule
          [] s \in CopiedParams -> r
          [] s = "FieldsToMap" -> [r EXCEPT !.onUnknown = policy(@), !.keyNames = rekeyByPath(r.hub, @)]
          [] s = "MapToFields" -> [r EXCEPT !.onUnknown = policy(@), !.keyNames = rekeyByPath(r.spoke, @)]
          [] s \in {"ToAnnotation", "ToLabel", "FromAnnotation"} -> [r EXCEPT !.serialization = orDefault(@, "JSON")]
          [] s = "FromLabel" -> IF r.serialization = "JSON" THEN BadRule
                                ELSE [r EXCEPT !.serialization = orDefault(@, "String")]
          [] s = "EnumRemap" -> [r EXCEPT !.onUnmappedHub = policy(@), !.onUnmappedSpoke = policy(@)]
          [] s = "ForEach" -> IF AnyBad(nested) THEN BadRule ELSE [r EXCEPT !.rules = nested]
          [] s = "BranchMap" -> IF \E i \in DOMAIN branches : AnyBad(branches[i].rules) THEN BadRule
                                ELSE [r EXCEPT !.branches = branches]
          [] OTHER -> r

convertRules(rules) == [i \in DOMAIN rules |-> convertParams(rules[i])]

\* A config is [hub, policy, spokes]; <<>> when some rule does not translate.
spokesToRuleSets(config) ==
    LET sets == [i \in DOMAIN config.spokes |->
                   [version |-> config.spokes[i].version, rules |-> convertRules(config.spokes[i].rules),
                    policy |-> orDefault(config.policy, "Error")]]
    IN  IF \E i \in DOMAIN sets : AnyBad(sets[i].rules) THEN <<>> ELSE sets

----------------------------------------------------------------------------
(* xrdconversionconfig_webhook.go: the shape of a config, before any       *)
(* schema is looked at.                                                    *)

RECURSIVE validateRules(_, _)

\* Parameters for exactly one strategy, which need not be the one named; a hub
\* branch has one counterpart; loops nest to the engine's depth; a CEL rule is
\* acknowledged; a label's key is a label key, and its value no JSON.
validateOneRule(r, depth) ==
    /\ Cardinality(r.set) = 1
    /\ "BranchMap" \in r.set =>
          /\ r.branches # <<>>
          /\ \A i \in DOMAIN r.branches :
                /\ r.branches[i].hub # "" /\ r.branches[i].spoke # ""
                /\ validateRules(r.branches[i].rules, depth)
          /\ IsInjective([i \in DOMAIN r.branches |-> r.branches[i].hub])
    /\ "ForEach" \in r.set => depth < MaxForEachDepth /\ validateRules(r.rules, depth + 1)
    /\ r.when # <<>> => r.when[1].path # <<>>
    /\ r.strategy = "CEL" => r.ack
    /\ r.set \cap {"ToLabel", "FromLabel"} # {} => IsQualifiedName(r.key)
    /\ r.strategy = "FromLabel" /\ Given(r) => r.serialization # "JSON"

validateRules(rules, depth) == \A i \in DOMAIN rules : validateOneRule(rules[i], depth)

validateUnmappedFieldReason(config) == config.policy = "Warn" => config.reason # ""

validateSpokesStructure(config) ==
    /\ config.spokes # <<>>
    /\ IsInjective([i \in DOMAIN config.spokes |-> config.spokes[i].version])
    /\ \A i \in DOMAIN config.spokes :
          config.spokes[i].version # config.hub /\ validateRules(config.spokes[i].rules, 0)

ValidateStructure(config) == validateUnmappedFieldReason(config) /\ validateSpokesStructure(config)

----------------------------------------------------------------------------
(* rehub.go: turning a rule around.                                        *)

flipSide(side) == IF side = "Hub" THEN "Spoke" ELSE "Hub"

RECURSIVE InvertRules(_)

\* Mutant: the value mapping is not turned around.
InvertPathsOnly(r) ==
    IF r.strategy \notin DOMAIN InverseStrategy \/ ~Given(r) THEN BadRule
    ELSE IF r.strategy \in {"EnumRemap", "TypeCoerce"} THEN r
    ELSE IF "hub" \in DOMAIN r
         THEN [r EXCEPT !.strategy = InverseStrategy[@], !.set = {InverseStrategy[r.strategy]}, !.hub = r.spoke, !.spoke = r.hub]
    ELSE BadRule

\* Swap the sides, and the strategy for the one that converts the other way.
InvertRule(r) ==
    LET swapped == IF r.strategy \notin DOMAIN InverseStrategy THEN BadRule
                   ELSE [r EXCEPT !.strategy = InverseStrategy[@], !.set = {InverseStrategy[r.strategy]}, !.hub = r.spoke, !.spoke = r.hub]
        turned(s) == [s EXCEPT !.h2s = r.s2h, !.s2h = r.h2s]
        nested == InvertRules(r.rules)
    IN  CASE r.strategy \notin DOMAIN InverseStrategy \/ ~Given(r) -> BadRule
          [] r.strategy = "ToLabel" ->
                IF r.serialization = "JSON" THEN BadRule
                ELSE [swapped EXCEPT !.serialization = orDefault(@, "String")]
          [] r.strategy = "EnumRemap" ->
                [r EXCEPT !.mapping = [i \in DOMAIN @ |-> <<@[i][2], @[i][1]>>],
                          !.onUnmappedHub = r.onUnmappedSpoke, !.onUnmappedSpoke = r.onUnmappedHub]
          [] r.strategy \in {"DefaultValue", "Constant", "Delete"} -> [r EXCEPT !.existsOn = flipSide(@)]
          [] r.strategy = "JSONPatch" -> turned(r)
          [] r.strategy = "CEL" -> turned(swapped)
          [] r.strategy = "ForEach" -> IF AnyBad(nested) THEN BadRule ELSE [swapped EXCEPT !.rules = nested]
          [] r.strategy = "TypeCoerce" -> r
          [] r.strategy = "MapKeyRename" -> [swapped EXCEPT !.renames = invertRenames(@)]
          [] OTHER -> swapped

InvertRules(rules) == [i \in DOMAIN rules |-> InvertRule(rules[i])]

----------------------------------------------------------------------------
(* rehub.go: where the old hub's paths went, and carrying the remaining    *)
(* spokes over.                                                            *)

\* The old-hub path and new-hub path of each field the rule moves; strategies
\* with several paths on one side keep the hub's own.
hubSpokePathPairs(r) ==
    CASE r.strategy \in {"TypeCoerce", "EnumRemap"} -> {<<r.path, r.path>>}
      [] r.strategy \in {"ScalarToFields", "MapToFields"} -> {<<r.hub, r.hub>>}
      [] r.strategy \in {"FieldsToScalar", "FieldsToMap"} -> {<<p, p>> : p \in Range(r.hub)}
      [] r.strategy \in {"ToAnnotation", "ToLabel", "FromAnnotation", "FromLabel",
                         "DefaultValue", "Constant", "Delete"} -> {}
      [] OTHER -> {<<r.hub, r.spoke>>}

CannotMap == {"CEL", "JSONPatch", "BranchMap"}
BadMap == {<<"conflict">>}

PathMapFromPromoteRules(rules) ==
    LET pairs == UNION {hubSpokePathPairs(rules[i]) : i \in {i \in DOMAIN rules : rules[i].strategy \notin CannotMap}}
        bad == \/ \E i \in DOMAIN rules : rules[i].strategy \in CannotMap
               \/ \E p, q \in pairs : p[1] = q[1] /\ p[2] # q[2]
    IN  IF bad THEN BadMap ELSE pairs

MapPath(pairs, p) == IF \E q \in pairs : q[1] = p THEN (CHOOSE q \in pairs : q[1] = p)[2] ELSE p

\* A path the promotion did not move stays what it is.
RewriteHubPaths(r, pairs) ==
    CASE r.strategy \in CannotMap -> BadRule
      [] r.strategy \in {"FromAnnotation", "FromLabel"} -> r
      [] r.strategy \in {"EnumRemap", "TypeCoerce"} -> [r EXCEPT !.path = MapPath(pairs, @)]
      [] r.strategy \in {"DefaultValue", "Constant", "Delete"} ->
            IF r.existsOn = "Hub" THEN [r EXCEPT !.path = MapPath(pairs, @)] ELSE r
      [] r.strategy \in {"FieldsToMap", "FieldsToScalar"} ->
            [r EXCEPT !.hub = [i \in DOMAIN @ |-> MapPath(pairs, @[i])]]
      [] r.strategy \in OnePathEach \cup OneHubPath -> [r EXCEPT !.hub = MapPath(pairs, @)]
      [] OTHER -> BadRule

spokePathsOf(r) ==
    CASE r.strategy \in {"DefaultValue", "Constant", "Delete"} -> IF r.existsOn = "Spoke" THEN {r.path} ELSE {}
      [] r.strategy = "BranchMap" -> {}
      [] OTHER -> Touches(r)[2]

\* Also lifts into a rename every leaf that used to be carried by its name and
\* now has another one on the hub.
ComposeSpokeRules(rules, pairs, leaves) ==
    LET rewritten == [i \in DOMAIN rules |-> RewriteHubPaths(rules[i], pairs)]
        claimed == UNION {spokePathsOf(rewritten[i]) : i \in DOMAIN rules}
        lifted == {p \in pairs : p[1] # p[2] /\ p[1] \in leaves \ claimed}
    IN  IF AnyBad(rewritten) THEN rewritten
        ELSE rewritten \o SetToSeq({ConversionRule("FieldRename", [hub |-> p[2], spoke |-> p[1]]) : p \in lifted})

NoConfig == [hub |-> "", policy |-> "", reason |-> "", spokes |-> <<>>]

\* The old hub becomes the first spoke, the others follow in their order.
RehubSpokes(config, newHub, leaves) ==
    LET at == {i \in DOMAIN config.spokes : config.spokes[i].version = newHub}
        promoted == config.spokes[CHOOSE i \in at : TRUE].rules
        inverted == InvertRules(promoted)
        pairs == PathMapFromPromoteRules(promoted)
        others == SelectSeq(config.spokes, LAMBDA s : s.version # newHub)
        composed == [i \in DOMAIN others |->
                       [others[i] EXCEPT !.rules = ComposeSpokeRules(@, pairs, leaves[others[i].version])]]
        refused == \/ newHub = config.hub \/ at = {}
                   \/ \E i \in DOMAIN others : others[i].version = config.hub
                   \/ AnyBad(inverted) \/ pairs = BadMap
                   \/ \E i \in DOMAIN composed : AnyBad(composed[i].rules)
    IN  IF refused THEN NoConfig
        ELSE [hub |-> newHub, policy |-> config.policy, reason |-> config.reason,
              spokes |-> <<[version |-> config.hub, rules |-> inverted]>> \o composed]

----------------------------------------------------------------------------
(* internal/cli/rehub.go: the draft is graded as if the new hub were the   *)
(* storage version, and withheld when the analysis finds an error.         *)

forceHubStorage(source, hub) ==
    [source EXCEPT !.versions = [v \in DOMAIN @ |-> [@[v] EXCEPT !.storage = v = hub]]]

versionLeafSets(source) ==
    [v \in DOMAIN source.versions |-> {l.path : l \in flattenSchema(NormalizeSchema(source.versions[v].schema))}]

AnalyzeConfig(source, config) == Analyze(source, config.hub, spokesToRuleSets(config))

RunRehub(source, config, newHub) ==
    LET draft == RehubSpokes(config, newHub, versionLeafSets(source))
    IN  IF draft = NoConfig \/ spokesToRuleSets(draft) = <<>>
           \/ HasErrors(AnalyzeConfig(forceHubStorage(source, newHub), draft))
        THEN NoConfig ELSE draft

============================================================================
