---------------------------- MODULE EngineSchema ----------------------------
(***************************************************************************)
(* The schemas conversions are compiled against: the nodes the engine      *)
(* reads of an OpenAPI schema (pkg/engine/schema.go), their normalisation  *)
(* (normalize.go), the fields a platform injects (platform.go) and the     *)
(* tree of declared names behind the passthrough (passthrough.go).         *)
(***************************************************************************)
EXTENDS EngineOps

\* The parts of a JSONSchemaProps the engine reads.  items, addl.schema and
\* default hold zero or one element; ref is a parsed JSON pointer.
NoRef == [kind |-> "none", pointer |-> <<>>]
Node ==
    [type |-> "", props |-> NoFields, req |-> {}, items |-> <<>>, maxItems |-> 99,
     preserve |-> "unset", addl |-> [allowed |-> FALSE, schema |-> <<>>],
     default |-> <<>>, enum |-> {}, union |-> {}, nullable |-> FALSE,
     ref |-> NoRef, allOf |-> <<>>, defs |-> NoFields]

Scalar(type) == [Node EXCEPT !.type = type]
Object(props, req) == [Node EXCEPT !.type = "object", !.props = props, !.req = req]
ArrayOf(item) == [Node EXCEPT !.type = "array", !.items = <<item>>]
FreeMap == [Node EXCEPT !.type = "object", !.addl = [allowed |-> TRUE, schema |-> <<>>]]

NoNode == [Node EXCEPT !.type = "no such node"]
BadSchema == [Node EXCEPT !.type = "normalisation failed"]

HasProps(s) == DOMAIN s.props # {}

----------------------------------------------------------------------------
(* schema.go                                                               *)

\* <<kind, opaque>>
classify(s) ==
    CASE s.preserve = "true" -> <<"object", TRUE>>
      [] s.type = "object" -> <<"object", ~HasProps(s) /\ s.addl.allowed>>
      [] s.type = "array" -> <<"array", s.items = <<>>>>
      [] isCoercibleScalar(s.type) -> <<s.type, FALSE>>
      [] OTHER -> <<"unknown", TRUE>>

KindOf(s) == classify(s)[1]
isStructuralNode(s) == ~classify(s)[2] /\ KindOf(s) # "unknown"
unresolvedConstruct(s) == IF s.ref.kind # "none" THEN "$ref" ELSE IF s.allOf # <<>> THEN "allOf" ELSE ""

unionConstruct(s) == IF "oneOf" \in s.union THEN "oneOf" ELSE "anyOf"

lookupPath(schema, path) ==
    FoldLeft(LAMBDA s, seg : IF seg \in DOMAIN s.props THEN s.props[seg] ELSE NoNode, schema, path)

Leaf(path, s, opaque, construct, required) ==
    [path |-> path, kind |-> KindOf(s), opaque |-> opaque, construct |-> construct,
     required |-> required, default |-> s.default]

\* The addressable fields: objects with declared properties are descended
\* into, everything else is one leaf.  required is relative to the parent.
RECURSIVE flattenInto(_, _, _)
flattenInto(s, path, required) ==
    LET opaque == classify(s)[2]
    IN  CASE unresolvedConstruct(s) # "" -> {Leaf(path, s, TRUE, unresolvedConstruct(s), required)}
          [] s.union # {} /\ ~isStructuralNode(s) -> {Leaf(path, s, TRUE, unionConstruct(s), required)}
          [] opaque -> {Leaf(path, s, TRUE, "", required)}
          [] KindOf(s) = "object" -> UNION {flattenInto(s.props[n], Append(path, n), n \in s.req) : n \in DOMAIN s.props}
          [] OTHER -> {Leaf(path, s, FALSE, "", required)}

flattenSchema(s) == flattenInto(s, <<>>, FALSE)

----------------------------------------------------------------------------
(* normalize.go                                                            *)

\* Enums intersect, required lists unite, conflicting types and two unions
\* on one node are errors, properties merge name by name.
RECURSIVE mergeSchema(_, _)
mergeSchema(dst, src) ==
    LET type == IF src.type = "" THEN dst.type ELSE src.type
        enum == IF dst.enum = {} \/ src.enum = {} THEN dst.enum \cup src.enum ELSE dst.enum \cap src.enum
        props == [n \in DOMAIN dst.props \cup DOMAIN src.props |->
                    IF n \notin DOMAIN src.props THEN dst.props[n]
                    ELSE IF n \notin DOMAIN dst.props THEN src.props[n]
                    ELSE mergeSchema(dst.props[n], src.props[n])]
        items == IF src.items = <<>> THEN dst.items
                 ELSE IF dst.items = <<>> THEN src.items
                 ELSE <<mergeSchema(dst.items[1], src.items[1])>>
        addl == IF ~src.addl.allowed THEN dst.addl
                ELSE IF ~dst.addl.allowed THEN src.addl
                ELSE IF src.addl.schema = <<>> \/ dst.addl.schema = <<>> THEN dst.addl
                ELSE [dst.addl EXCEPT !.schema = <<mergeSchema(dst.addl.schema[1], src.addl.schema[1])>>]
        conflict ==
            \/ dst = BadSchema \/ src = BadSchema
            \/ src.type # "" /\ dst.type # "" /\ dst.type # src.type
            \/ "unset" \notin {src.preserve, dst.preserve} /\ src.preserve # dst.preserve
            \/ dst.enum # {} /\ src.enum # {} /\ enum = {}
            \/ src.union \cap dst.union # {}
            \/ BadSchema \in Range(props) \cup Range(items) \cup Range(addl.schema)
    IN  IF conflict THEN BadSchema
        ELSE [dst EXCEPT !.type = type, !.enum = enum, !.props = props, !.items = items, !.addl = addl,
                         !.nullable = IF src.type # "" THEN dst.nullable /\ src.nullable ELSE dst.nullable,
                         !.preserve = IF src.preserve = "unset" THEN dst.preserve ELSE src.preserve,
                         !.req = dst.req \cup src.req,
                         !.union = dst.union \cup src.union]

\* A pointer alternates a container with a name, items and
\* additionalProperties having none; nothing else can be traversed.
RECURSIVE resolvePointer(_, _)
resolvePointer(s, ptr) ==
    LET named(f) == IF Len(ptr) > 1 /\ ptr[2] \in DOMAIN f
                    THEN resolvePointer(f[ptr[2]], Tail(Tail(ptr))) ELSE BadSchema
        only(q) == IF q = <<>> THEN BadSchema ELSE resolvePointer(q[1], Tail(ptr))
    IN  CASE ptr = <<>> -> s
          [] ptr[1] = "definitions" -> named(s.defs)
          [] ptr[1] = "properties" -> named(s.props)
          [] ptr[1] = "items" -> only(s.items)
          [] ptr[1] = "additionalProperties" -> only(s.addl.schema)
          [] OTHER -> BadSchema

refSiblings(s) == [s EXCEPT !.ref = NoRef] # Node

\* inFlight holds the references being resolved: meeting one again is a cycle.
RECURSIVE NormalizeNode(_, _, _)
resolveRef(root, s, inFlight) ==
    LET target == resolvePointer(root, s.ref.pointer)
    IN  IF s.ref.kind # "local" \/ refSiblings(s) \/ s.ref.pointer \in inFlight \/ target = BadSchema
        THEN BadSchema
        ELSE NormalizeNode(root, target, inFlight \cup {s.ref.pointer})

NormalizeNode(root, s, inFlight) ==
    LET norm(n) == NormalizeNode(root, n, inFlight)
        m == FoldLeft(LAMBDA acc, branch : mergeSchema(acc, norm(branch)), [s EXCEPT !.allOf = <<>>], s.allOf)
        props == [n \in DOMAIN m.props |-> norm(m.props[n])]
        items == [i \in DOMAIN m.items |-> norm(m.items[i])]
        values == [i \in DOMAIN m.addl.schema |-> norm(m.addl.schema[i])]
    IN  CASE s.ref.kind # "none" -> resolveRef(root, s, inFlight)
          [] m = BadSchema \/ BadSchema \in Range(props) \cup Range(items) \cup Range(values) -> BadSchema
          [] OTHER -> [m EXCEPT !.props = props, !.items = items, !.addl.schema = values]

NormalizeSchema(s) == NormalizeNode(s, s, {})

----------------------------------------------------------------------------
(* passthrough.go: the names a schema declares, as a tree.                 *)

RECURSIVE buildKnownTree(_)
buildKnownTree(s) ==
    IF classify(s) # <<"object", FALSE>> THEN NoFields
    ELSE [n \in DOMAIN s.props |-> buildKnownTree(s.props[n])]

\* The union of both sides; a node terminal on either side stays terminal.
RECURSIVE mergeKnownTrees(_, _)
mergeKnownTrees(a, b) ==
    IF a = NoFields \/ b = NoFields THEN NoFields
    ELSE [n \in DOMAIN a \cup DOMAIN b |->
            IF n \notin DOMAIN b THEN a[n] ELSE IF n \notin DOMAIN a THEN b[n]
            ELSE mergeKnownTrees(a[n], b[n])]

----------------------------------------------------------------------------
(* platform.go: injected is the set of subtree roots the platform owns.    *)

schemaDeclaresPath(s, path) == lookupPath(s, path) # NoNode
owns(injected, path) == \E root \in injected : root # <<>> /\ IsPrefix(root, path)
checkAuthoredShadowing(injected, s) == \E root \in injected : schemaDeclaresPath(s, root)
checkRuleTargets(injected, results) ==
    \E i \in DOMAIN results : \E p \in Range(results[i].hub) \cup Range(results[i].spoke) : owns(injected, p)

============================================================================
