------------------------------- MODULE Engine -------------------------------
(***************************************************************************)
(* The conversion engine at work on one stored object.  A config and the   *)
(* schemas it is written for come from a catalogue; clients create the     *)
(* object in any served version, write back what they read in any version, *)
(* and an administrator promotes a spoke to hub with convctl rehub.  The   *)
(* API server stores the object in the hub version and asks the router for *)
(* every other one.                                                        *)
(***************************************************************************)
EXTENDS ConversionRules

CONSTANTS
    Cases,      \* a sequence of [source, config, docs]: the catalogue.  A version's
                \* docs hold what the API server admits in it: fields of its own
                \* schema and, below the top level, fields that no version declares
    Compiled    \* per case and hub, the config in force, what it compiles to, and facts about that

VARIABLES
    case,       \* the entry of the catalogue this object lives under
    storage,    \* the hub version, which is also the storage version
    stored,     \* the object at rest in the hub version, Absent before Create
    through,    \* the version of the last write
    extra       \* what the object was created with that no schema declares

vars == <<case, storage, stored, through, extra>>

----------------------------------------------------------------------------
(* What the properties say of a plan on the strength of its rules and      *)
(* schemas alone.  Admission accepts more than the engine's own statements *)
(* cover; each property below says under which conditions on rules and     *)
(* values it holds of every accepted config, and the catalogue has configs *)
(* on both sides of each condition.                                        *)

RulesFor(config, v) ==
    convertRules(config.spokes[CHOOSE i \in DOMAIN config.spokes : config.spokes[i].version = v].rules)

ToMetadata == {"ToAnnotation", "ToLabel"}
UsesMetadata == ToMetadata \cup {"FromAnnotation", "FromLabel"}
MetadataKey(r) == <<"metadata", IF r.strategy \in {"ToLabel", "FromLabel"} THEN "labels" ELSE "annotations", r.key>>

\* What a rule, or the carrying of the leftovers, may write on one side.
Footprints(rules, hub, spoke, side) ==
    LET results == [i \in DOMAIN rules |-> resolveRule(rules[i], hub, spoke, "Error", 0)]
        carried == leftovers(hub, spoke, Range(Claims(results, "hub")), Range(Claims(results, "spoke"))).auto
    IN  [i \in DOMAIN rules |-> Range(results[i][side])
                                  \cup (IF rules[i].strategy \in UsesMetadata THEN {MetadataKey(rules[i])} ELSE {})]
        \o <<carried>>

\* No rule writes strictly inside what another one writes, and no two use one
\* metadata key.  claim (compile.go:380) refuses equal schema paths and neither
\* of these.
Apart(rules, hub, spoke) ==
    \A side \in {"hub", "spoke"} :
        LET prints == Footprints(rules, hub, spoke, side)
        IN  \A i, j \in DOMAIN prints : i # j =>
                \A p \in prints[i], q \in prints[j] : ~IsStrictPrefix(p, q) /\ (p = q => p[1] # "metadata")

\* The same of the rules inside a ForEach or a BranchMap.
RECURSIVE ApartWithin(_, _, _)
ApartWithin(rules, hub, spoke) ==
    /\ Apart(rules, hub, spoke)
    /\ \A r \in Range(rules) :
          LET h == lookupPath(hub, r.hub)
              s == lookupPath(spoke, r.spoke)
          IN  /\ r.strategy = "ForEach" => ApartWithin(r.rules, h.items[1], s.items[1])
              /\ r.strategy = "BranchMap" =>
                    \A b \in Range(r.branches) : b.rules # <<>> =>
                        ApartWithin(b.rules, h.props[b.hub], s.props[b.spoke])

\* Ops that may leave their destination unwritten although their source is there.
MayOmit(o) ==
    \/ o.op \in {"unwrapScalar", "arrayFirstToObject", "expandFromMap", "restore", "strip", "drop"}
    \/ o.op = "remapEnum" /\ o.onUnmapped # "Error"

\* The required fields the analysis answers for in one direction, src to dest (1
\* is the hub): those it took for certain to be expected, has neither refused nor
\* warned about, and that are carried or written by rules which write whenever
\* their source is there.  It also takes the source of the other strategies to be
\* enough (required.go:211), and a source field to be present because its own
\* object requires it (docs/limitations.md:44): objects is what has to be there.
AnsweredFor(rules, ops, srcSchema, destSchema, src, dest) ==
    LET written == UNION {Touches(r)[dest] : r \in Range(rules)}
        writers(p) == {i \in DOMAIN rules : p \in Touches(rules[i])[dest]}
        sure(i) == rules[i].strategy \notin unprovableStrategies /\ ~MayOmit(ops[i])
        leaves == {l \in unconditionallyRequiredLeaves(destSchema, written) :
                     /\ l.default = <<>>
                     /\ \A i \in writers(l.path) : sure(i)
                     /\ writers(l.path) = {} =>
                           /\ [op |-> "identity", path |-> l.path] \in Range(ops)
                           /\ ~ancestorsPresent(destSchema, l.path, written).wholesale}
        sources(p) == IF writers(p) = {} THEN {p} ELSE UNION {Touches(rules[i])[src] : i \in writers(p)}
    IN  {[path |-> l.path, objects |-> {Front(p) : p \in sources(l.path)}] : l \in leaves}

\* Where the rules write in the hub version.
HubWrites(rules, hub, spoke) ==
    UNION {Range(resolveRule(r, hub, spoke, "Error", 0).hub) : r \in Range(rules)}

Facts(source, config, v, plan) ==
    LET hub == NormalizeSchema(source.versions[config.hub].schema)
        spoke == NormalizeSchema(source.versions[v].schema)
        rules == RulesFor(config, v)
    IN  [apart |-> Apart(rules, hub, spoke),
         within |-> ApartWithin(rules, hub, spoke),
         writes |-> HubWrites(rules, hub, spoke),
         required |-> <<AnsweredFor(rules, plan.h2s, hub, spoke, 1, 2),
                        AnsweredFor(rules, plan.s2h, spoke, hub, 2, 1)>>]

----------------------------------------------------------------------------
(* What the catalogue compiles to.  It is constant: the same config        *)
(* against the same schemas always gives the same plans.                   *)

\* Admission looks at the shape, the translation, then the analysis.  A config
\* with an error gets no plan at all, for any spoke.
Admitted(source, config) ==
    LET report == AnalyzeConfig(forceHubStorage(source, config.hub), config)
    IN  IF ValidateStructure(config) /\ spokesToRuleSets(config) # <<>> /\ ~HasErrors(report)
        THEN report.spokes ELSE NoFields

\* The config in force when v is the hub: the author's, or the rehub draft.
ConfigAt(c, v) == IF v = c.config.hub THEN c.config ELSE RunRehub(c.source, c.config, v)

\* A draft that rehub withholds compiles to nothing.
CompiledCases ==
    [c \in DOMAIN Cases |->
        [v \in DOMAIN Cases[c].source.versions |->
            LET config == ConfigAt(Cases[c], v)
                spokes == IF config = NoConfig THEN NoFields ELSE Admitted(Cases[c].source, config)
            IN  [config |-> config,
                 spokes |-> spokes,
                 facts |-> [w \in DOMAIN spokes |-> Facts(Cases[c].source, config, w, spokes[w].plan)]]]]

ASSUME CompiledAssumption == Compiled = CompiledCases

----------------------------------------------------------------------------

FirstHub == Cases[case].config.hub
Served == {v \in DOMAIN Cases[case].source.versions : Cases[case].source.versions[v].served}

Plans(h) == [v \in DOMAIN Compiled[case][h].spokes |-> Compiled[case][h].spokes[v].plan]
Spokes == DOMAIN Plans(storage)

ConvertAt(h, object, from, to) == RouterConvert(h, Plans(h), object, from, to)

Schema(v) == NormalizeSchema(Cases[case].source.versions[v].schema)
DeclaredByAny == FoldSet(LAMBDA v, tree : mergeKnownTrees(tree, buildKnownTree(Schema(v))),
                         buildKnownTree(Schema(storage)), DOMAIN Cases[case].source.versions)

Init ==
    /\ case \in DOMAIN Cases
    /\ storage = FirstHub
    /\ stored = Absent
    /\ through = ""
    /\ extra = {}

Create(v) ==
    /\ stored = Absent
    /\ \E d \in Cases[case].docs[v] :
          /\ stored' = ConvertAt(storage, d, v, storage)
          /\ stored' # Error
          /\ extra' = collectUnknown(DeclaredByAny, d, <<>>)
    /\ through' = v
    /\ UNCHANGED <<case, storage>>

\* A client reads the object in v and writes it back as it got it.
Trip(v, object) ==
    ConvertAt(storage, ConvertAt(storage, object, storage, v), v, storage)

WriteBack(v) ==
    /\ stored # Absent
    /\ stored' = Trip(v, stored)
    /\ stored' # Error
    /\ through' = v
    /\ UNCHANGED <<case, storage, extra>>

\* The draft is applied and the object migrated to the new storage version.
Promote(v) ==
    /\ stored # Absent
    /\ storage = FirstHub
    /\ v # storage
    /\ Compiled[case][v].spokes # NoFields
    /\ storage' = v
    /\ stored' = ConvertAt(storage, stored, storage, v)
    /\ stored' # Error
    /\ through' = v
    /\ UNCHANGED <<case, extra>>

Next == \E v \in Served : Create(v) \/ WriteBack(v) \/ Promote(v)

Spec == Init /\ [][Next]_vars

----------------------------------------------------------------------------
(* Properties.                                                             *)

\* The hub in force is a version of the case, the object is a document with a
\* kind and metadata (convert.go), and the last writer used a served version.
TypeOK ==
    /\ case \in DOMAIN Cases
    /\ storage \in DOMAIN Cases[case].source.versions
    /\ stored = Absent \/ (IsObj(stored) /\ {"kind", "metadata"} \subseteq Keys(stored))
    /\ through \in {""} \cup Served
    /\ \A e \in extra : Len(e) = 2

Present == stored # Absent

ReadAt(v) == ConvertAt(storage, stored, storage, v)

Policy == orDefault(Compiled[case][storage].config.policy, "Error")

Rules(v) == RulesFor(Compiled[case][storage].config, v)

RECURSIVE WithNested(_)
WithNested(rules) ==
    Range(rules)
    \cup UNION {WithNested(r.rules) : r \in {r \in Range(rules) : r.strategy = "ForEach"}}
    \cup UNION {UNION {WithNested(b.rules) : b \in Range(r.branches)} :
                r \in {r \in Range(rules) : r.strategy = "BranchMap"}}

SpokeApart(v) == Compiled[case][storage].facts[v].apart

Carried(v) == {o.path : o \in {o \in Range(Plans(storage)[v].h2s) : o.op = "identity"}}

\* What these make of a value is the author's doing.
AuthorsOwn == {"JSONPatch", "CEL", "ScalarToFields", "FieldsToScalar"}

\* Rules whose way back the engine itself determines.  Not among them: an
\* annotation read as JSON, which a client may have written itself; a keyed map,
\* whose values may name another key (ops.go:700); a Boolean kept as a number,
\* which does not turn back (coerce.go:90); an enumeration that lists a hub value
\* twice; a condition on a field that is itself converted; a union beside
\* undeclared fields, which may look like a second branch.
Determined(v) ==
    /\ SpokeApart(v)
    /\ \A r \in WithNested(Rules(v)) :
          /\ r.strategy \notin AuthorsOwn \cup {"ArrayToMapByKey"}
          /\ r.strategy = "FromAnnotation" => r.serialization = "String"
          /\ r.strategy = "TypeCoerce" => KindOf(lookupPath(Schema(v), r.path)) \in {"string", "integer", "number"}
          /\ r.strategy = "EnumRemap" => IsInjective([i \in DOMAIN r.mapping |-> r.mapping[i][1]])
          /\ r.strategy = "BranchMap" => extra = {}
          /\ r.when # <<>> => r.when[1].path \in Carried(v)

----------------------------------------------------------------------------

\* Once a write in a version was accepted the object can be read back in that
\* version: no op that took a value towards the hub refuses what it made of it,
\* as long as the rules are of the determined kind.
ReadableWhereWritten ==
    Present /\ through \in Spokes /\ Determined(through) => ReadAt(through) # Error

\* A client that writes back unchanged what it read may normalise the object
\* once; the second time nothing changes, however lossy the (determined) rules.
WriteBackSettles ==
    Present /\ through \in Spokes /\ Determined(through) => Trip(through, stored) = stored

\* passthrough.go, mergeKnownTrees: the catch-all never carries a field that the
\* other side declares.  What the stored object holds beyond its own schema is
\* what a client wrote that no version declares, or a rule put it there (rules
\* that write inside each other leave undeclared fields of their own behind).
StoredFitsHub ==
    Present /\ (\A v \in Spokes : SpokeApart(v)) => \A e \in collectUnknown(buildKnownTree(Schema(storage)), stored, <<>>) :
        e \in extra \/ \E v \in Spokes : \E p \in Compiled[case][storage].facts[v].writes : IsPrefix(p, e[1])

\* The ops of the rules, which come first, in every order.
Reorderings(ops) ==
    LET ofRules == {i \in DOMAIN ops : ops[i].op \notin {"identity", "passthrough"}}
    IN  {[i \in DOMAIN ops |-> IF i \in ofRules THEN ops[f[i]] ELSE ops[i]] : f \in Permutations(ofRules)}

SameInAnyOrder(v) ==
    \A read \in {ReadAt(v)} :
        /\ {Convert(ops, stored) : ops \in Reorderings(Plans(storage)[v].h2s)} = {read}
        /\ read # Error =>
              {Convert(ops, read) : ops \in Reorderings(Plans(storage)[v].s2h)} = {ConvertAt(storage, read, v, storage)}

\* plan.go:36: ops read the pristine input and no two write one field, so a plan
\* without errors gives the same object in whatever order its rules are listed,
\* in both directions.  It does where no rule writes inside what another one
\* writes and no two use one metadata key, which the analysis does not check.
RuleOrderIrrelevant ==
    Present => \A v \in Spokes : SpokeApart(v) => SameInAnyOrder(v)

\* docs/architecture.md:83: the same with no condition.
RuleOrderNeverMatters == Present => \A v \in Spokes : SameInAnyOrder(v)

\* The required fields an object lacks, as schemas.
RECURSIVE Missing(_, _)
Missing(schema, v) ==
    IF ~IsObj(v) \/ classify(schema) # <<"object", FALSE>> THEN {}
    ELSE {schema.props[n] : n \in schema.req \ Keys(v)}
         \cup UNION {Missing(schema.props[n], v[2][n]) : n \in DOMAIN schema.props \cap Keys(v)}

Produces(required, srcSchema, object, result) ==
    Missing(srcSchema, object) = {} /\ result # Error =>
        \A f \in required :
            (\A p \in f.objects : getValue(object, p) # Absent) => getValue(result, f.path) # Absent

\* required.go:73: an accepted config produces, from every valid object (whose
\* defaults the API server filled in before it asked for the conversion), the
\* required fields the analysis answers for, in each version from the stored
\* object and in the hub version from what was read.
RequiredFieldsProduced ==
    Present => \A v \in Spokes :
        SpokeApart(v) =>
            \A read \in {ReadAt(v)} : \A back \in {ConvertAt(storage, read, v, storage)} :
                /\ Produces(Compiled[case][storage].facts[v].required[1], Schema(storage), stored, read)
                /\ Produces(Compiled[case][storage].facts[v].required[2], Schema(v), read, back)

\* required.go:75, the question it asks: does the rule set produce a valid object
\* for every input?
EveryRequiredFieldProduced ==
    Present /\ Missing(Schema(storage), stored) = {} =>
        \A v \in Spokes : ReadAt(v) # Error => \A m \in Missing(Schema(v), ReadAt(v)) : m.default # <<>>

RECURSIVE Pruned(_)
Pruned(v) ==
    IF IsArr(v) THEN Arr([i \in DOMAIN v[2] |-> Pruned(v[2][i])])
    ELSE IF ~IsObj(v) THEN v
    ELSE LET inner == [k \in Keys(v) |-> Pruned(v[2][k])]
         IN  Obj([k \in {k \in Keys(v) : inner[k] # EmptyObj} |-> inner[k]])

\* What came back, unless the conversion failed, up to objects that were empty.
SameAs(object, back) == back = Error \/ Pruned(back) = Pruned(object)

\* What a lossless verdict takes for granted of the object x.  The rules apply
\* unconditionally; then, strategy by strategy, the values the resolver does not
\* rule out although they do not come back.
RECURSIVE TakenForGranted(_, _, _, _)
TakenForGranted(rules, hub, spoke, x) ==
    LET sound(r) ==
          LET h == lookupPath(hub, r.hub)
              s == lookupPath(spoke, r.spoke)
              v == getValue(x, r.hub)
              inside(nested, hubPart, spokePart, part) ==
                  IsObj(part) => Keys(part) \subseteq DOMAIN hubPart.props /\ TakenForGranted(nested, hubPart, spokePart, part)
          IN  CASE r.strategy \in AuthorsOwn -> FALSE                         \* the author's word
                [] r.strategy = "SingletonArrayToObject" -> v # Arr(<<>>)     \* becomes absent
                [] r.strategy = "ObjectToScalar" ->                           \* only declared keys are looked at
                      DOMAIN r.defaults = {} /\ (IsObj(v) /\ classify(h)[2] => Keys(v) \subseteq {r.key})
                [] r.strategy = "FieldsToMap" -> IsInjective([i \in DOMAIN r.hub |-> KeyOf(r, r.hub[i])])
                [] r.strategy \in ToMetadata -> getValue(x, MetadataKey(r)) = Absent
                [] r.strategy = "FromAnnotation" -> r.serialization = "String"    \* the text may be spelled otherwise
                [] r.strategy = "TypeCoerce" -> KindOf(lookupPath(hub, r.path)) # "string"    \* likewise
                [] r.strategy = "ListSplit" -> ItemKind(s) = "string"                         \* likewise
                [] r.strategy = "NumericScale" -> v = Absent \/ v[2] % r.factor = 0           \* floating point
                [] r.strategy = "ListJoin" ->                                 \* compile.go:1350
                      IsArr(v) => \A e \in Range(v[2]) : e[1] = "string" => e[2] # <<>> /\ r.separator \notin Range(e[2])
                [] r.strategy = "MapKeyRename" ->                             \* a key that has the new name already
                      IsObj(v) => Keys(v) \cap (Range(r.renames) \ DOMAIN r.renames) = {}
                [] r.strategy = "ForEach" ->                                  \* undeclared fields of an element are dropped
                      IsArr(v) => \A e \in Range(v[2]) : inside(r.rules, h.items[1], s.items[1], e)
                [] r.strategy = "BranchMap" ->                                \* the discriminator is rewritten
                      \A b \in {b \in Range(r.branches) : IsObj(v) /\ b.hub \in Keys(v)} :
                          /\ r.discriminator # "" => Field(v, r.discriminator) = Tok(discriminatorValue(b.hubValue, b.hub))
                          /\ b.rules # <<>> => inside(b.rules, h.props[b.hub], s.props[b.spoke], v[2][b.hub])
                [] OTHER -> TRUE
    IN  \A r \in Range(rules) : r.when = <<>> /\ sound(r)

\* LosslessVerdict: a spoke reported lossless both ways, with no declared field
\* left uncovered, gives back every object of which what the verdict takes for
\* granted is true.
LosslessMeansLossless ==
    Present => \A v \in Spokes :
        LET report == Compiled[case][storage].spokes[v]
        IN  /\ report.lossless = <<TRUE, TRUE>>
            /\ report.uncovered = <<{}, {}>>
            /\ Compiled[case][storage].facts[v].within
            /\ TakenForGranted(Rules(v), Schema(storage), Schema(v), stored)
            => SameAs(stored, Trip(v, stored))

\* Rules that InvertRule turns around exactly: it keeps NumericScale's factor
\* (rehub.go:244), which divides towards the spoke; a metadata rule comes back
\* with its other half switched on, and a label's serialization with another
\* default.
RECURSIVE TurnsAround(_)
TurnsAround(rules) ==
    \A r \in Range(rules) :
        /\ r.strategy # "NumericScale"
        /\ r.strategy \in UsesMetadata => r.reverse
        /\ r.strategy \in {"ToLabel", "FromLabel"} => r.serialization = "String"
        /\ r.strategy = "ForEach" => TurnsAround(r.rules)

\* Rules of a third version that follow a renamed hub field: a condition keeps
\* the old path, and a map made of fields names its keys after the new ones.
Follows(rules, pairs) ==
    LET moved == {p[1] : p \in {p \in pairs : p[1] # p[2]}}
    IN  \A r \in Range(rules) :
            /\ r.when # <<>> => r.when[1].path \notin moved
            /\ r.strategy = "FieldsToMap" => Range(r.hub) \cap moved = {}

\* rehub.go: after a promotion the old hub shows the object as it would have
\* without it, if the promoted rules can be turned around; the other versions do
\* if the promoted rules only rename fields, no field is left uncovered and the
\* other rules follow.  (A value the promotion changes, by EnumRemap, MapKeyRename
\* or ForEach, reaches a third version unconverted: ComposeSpokeRules moves paths.)
PromotionKeepsReads ==
    Present /\ storage # FirstHub =>
        LET before == Cases[case].config
            authored(v) == before.spokes[CHOOSE i \in DOMAIN before.spokes : before.spokes[i].version = v].rules
            promoted == authored(storage)
            renames == /\ \A r \in Range(promoted) : r.strategy = "FieldRename" /\ r.when = <<>>
                       /\ Policy = "Error"
                       /\ Compiled[case][FirstHub].facts[storage].apart
            kept(v) == IF v = FirstHub THEN TurnsAround(promoted)
                       ELSE renames /\ SpokeApart(v) /\ Follows(authored(v), PathMapFromPromoteRules(promoted))
        IN  \A v \in Spokes : kept(v) => ReadAt(v) = ConvertAt(FirstHub, stored, storage, v)

\* cli/rehub.go: the same of whatever draft the analysis accepts.
PromotionAlwaysKeepsReads ==
    Present /\ storage # FirstHub =>
        \A v \in Spokes : ReadAt(v) = ConvertAt(FirstHub, stored, storage, v)

============================================================================
