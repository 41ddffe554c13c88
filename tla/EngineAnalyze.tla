--------------------------- MODULE EngineAnalyze ---------------------------
(***************************************************************************)
(* Judging a whole configuration (analyze.go), the required-field analysis *)
(* (required.go) and the router that executes accepted plans (convert.go). *)
(*                                                                         *)
(* A source is [versions, injected, uncertain]: versions maps a name to    *)
(* [schema, served, storage], injected is what the platform adds.  A spoke *)
(* rule set is [version, rules, policy].                                   *)
(***************************************************************************)
EXTENDS EngineCompile

----------------------------------------------------------------------------
(* required.go                                                             *)

unprovableStrategies == {"CEL", "JSONPatch", "ScalarToFields"}

\* Every object above the path is required, or has something written into it,
\* or is itself written whole by a rule.
ancestorsPresent(schema, path, written) ==
    LET above(i) == SubSeq(path, 1, i)
        required(i) == path[i] \in lookupPath(schema, SubSeq(path, 1, i - 1)).req
        into(i) == \E w \in written : IsStrictPrefix(above(i), w)
    IN  [present |-> \A i \in 1 .. Len(path) - 1 : required(i) \/ into(i) \/ above(i) \in written,
         wholesale |-> \E i \in 1 .. Len(path) - 1 : ~required(i) /\ ~into(i)]

unconditionallyRequiredLeaves(schema, written) ==
    {l \in flattenSchema(schema) : l.required /\ ancestorsPresent(schema, l.path, written).present}

\* Mutant: an optional source is taken for a present one.
verdictIgnoringSource(r, srcPaths, srcRequired) ==
    IF r.when # <<>> THEN 2 ELSE IF r.strategy \in unprovableStrategies THEN 1 ELSE 0

\* Best first: 0 always, 1 unprovable, 2 only for some inputs, 3 never.
verdictForRule(r, srcPaths, srcRequired) ==
    CASE r.when # <<>> -> 2
      [] r.strategy \in unprovableStrategies -> 1
      [] r.strategy \in {"Constant", "DefaultValue"} -> 0
      [] srcPaths \subseteq srcRequired -> 0
      [] OTHER -> 2

bestVerdict(rules, writers, src, srcRequired) ==
    Min({3} \cup {verdictForRule(rules[i], Touches(rules[i])[src], srcRequired) : i \in writers})

\* Can the rules always produce every field the destination requires?  src and
\* dest are 1 for the hub and 2 for the spoke.
analyzeRequiredFields(destSchema, srcSchema, rules, src, dest) ==
    LET written == UNION {Touches(rules[i])[dest] : i \in DOMAIN rules}
        srcRequired == {l.path : l \in {l \in flattenSchema(srcSchema) : l.required}}
        writers(p) == {i \in DOMAIN rules : p \in Touches(rules[i])[dest]}
        unsatisfied(l) ==
            /\ l.default = <<>>
            /\ IF writers(l.path) = {}
               THEN l.path \notin srcRequired /\ ~ancestorsPresent(destSchema, l.path, written).wholesale
               ELSE bestVerdict(rules, writers(l.path), src, srcRequired) > 1
    IN  Diagnose(\E l \in unconditionallyRequiredLeaves(destSchema, written) : unsatisfied(l), "required")

----------------------------------------------------------------------------
(* analyze.go                                                              *)

NoPlan == [h2s |-> <<>>, s2h |-> <<>>]
Refused(errors) == [errors |-> errors, lossless |-> <<FALSE, FALSE>>, uncovered |-> <<{}, {}>>, plan |-> NoPlan]

NormalizedVersions(source) ==
    [v \in DOMAIN source.versions |->
        [source.versions[v] EXCEPT !.schema = NormalizeSchema(@)]]

\* The checks of one pair of schemas; a plan exists only without errors.
analyzeSpoke(source, hub, spoke, ruleSet) ==
    LET built == resolveAndBuildOps(ruleSet.rules, hub, spoke, ruleSet.policy, 0)
        touched == [i \in DOMAIN ruleSet.rules |->
                      [hub |-> SetToSeq(Touches(ruleSet.rules[i])[1]), spoke |-> SetToSeq(Touches(ruleSet.rules[i])[2])]]
        shadowed == ~source.uncertain
                    /\ (\/ checkAuthoredShadowing(source.injected, hub)
                        \/ checkAuthoredShadowing(source.injected, spoke)
                        \/ checkRuleTargets(source.injected, touched))
        errors == built.errors \cup Diagnose(shadowed, "platform")
                  \cup analyzeRequiredFields(spoke, hub, ruleSet.rules, 1, 2)
                  \cup analyzeRequiredFields(hub, spoke, ruleSet.rules, 2, 1)
    IN  [errors |-> errors, lossless |-> built.lossless, uncovered |-> built.uncovered,
         plan |-> IF errors = {} THEN [h2s |-> built.h2s, s2h |-> built.s2h] ELSE NoPlan]

\* The report maps each spoke to its outcome; it is empty when the analysis
\* could not start.
Analyze(source, hubVersion, spokes) ==
    LET versions == NormalizedVersions(source)
        ruleSet(v) == spokes[CHOOSE i \in DOMAIN spokes : spokes[i].version = v]
        unusable == \/ \E v \in DOMAIN versions : versions[v].schema = BadSchema
                    \/ hubVersion \notin DOMAIN versions
                    \/ ~versions[hubVersion].storage
    IN  IF unusable THEN [ok |-> FALSE, spokes |-> NoFields]
        ELSE [ok |-> TRUE, spokes |->
                [v \in {spokes[i].version : i \in DOMAIN spokes} |->
                    IF v \notin DOMAIN versions THEN Refused({"version"})
                    ELSE IF ~versions[v].served THEN Refused({"served"})
                    ELSE analyzeSpoke(source, versions[hubVersion].schema, versions[v].schema, ruleSet(v))]]

HasErrors(report) == ~report.ok \/ \E v \in DOMAIN report.spokes : report.spokes[v].errors # {}

----------------------------------------------------------------------------
(* convert.go: every conversion goes through the hub.                      *)

\* The legs of a conversion: towards the hub, then away from it.
legs(hubVersion, from, to) ==
    LET toHub == IF from = hubVersion THEN <<>> ELSE <<[spoke |-> from, way |-> "s2h"]>>
        fromHub == IF to = hubVersion THEN <<>> ELSE <<[spoke |-> to, way |-> "h2s"]>>
    IN  IF from = to THEN <<>> ELSE toHub \o fromHub

\* An error ends the conversion, and so does a spoke that has no plan.
RouterConvert(hubVersion, plans, object, from, to) ==
    FoldLeft(LAMBDA v, leg : IF v = Error \/ leg.spoke \notin DOMAIN plans THEN Error
                             ELSE Convert(plans[leg.spoke][leg.way], v),
             object, legs(hubVersion, from, to))

============================================================================
