----------------------------- MODULE EngineOps -----------------------------
(***************************************************************************)
(* The compiled conversion steps of pkg/engine (ops.go, passthrough.go,    *)
(* mapkeyrename.go, k8sunits.go, cel.go).  An op is a record whose field   *)
(* "op" names its Go type; applying one reads only the pristine input and  *)
(* returns the output tree so far with its own writes added, or Error.     *)
(***************************************************************************)
EXTENDS Documents

Unless(missing, out, result) == IF missing THEN out ELSE result

\* Every op starts by reading its source path and leaves the output alone when
\* that path is absent; then it writes one value, or fails.
Write(out, path, v) == IF v = Error THEN Error ELSE setValue(out, path, v)

identityOp(o, in, out) ==
    LET v == getValue(in, o.path) IN Unless(v = Absent, out, Write(out, o.path, v))

renameOp(o, in, out) ==
    LET v == getValue(in, o.from) IN Unless(v = Absent, out, Write(out, o.to, v))

wrapScalarOp(o, in, out) ==
    LET v == getValue(in, o.scalar)
    IN  Unless(v = Absent, out, Write(out, o.object, Put(Obj(o.defaults), o.key, v)))

unwrapScalarOp(o, in, out) ==
    LET v == Field(getValue(in, o.object), o.key)
    IN  Unless(v = Absent, out, Write(out, o.scalar, v))

arrayFirstToObjectOp(o, in, out) ==
    LET v == getValue(in, o.array)
    IN  Unless(~IsArr(v) \/ v = Arr(<<>>), out, Write(out, o.object, Head(v[2])))

objectToSingletonArrayOp(o, in, out) ==
    LET v == getValue(in, o.object)
    IN  Unless(v = Absent, out, Write(out, o.array, Arr(<<v>>)))

\* keyNames maps some of the field paths to map keys; the last segment otherwise.
KeyOf(o, fp) == IF fp \in DOMAIN o.keyNames THEN o.keyNames[fp] ELSE lastSegment(fp)

collapseToMapOp(o, in, out) ==
    LET found == {fp \in Range(o.fields) : getValue(in, fp) # Absent}
        m == FoldLeft(LAMBDA acc, fp : IF fp \in found THEN Put(acc, KeyOf(o, fp), getValue(in, fp))
                                       ELSE acc, EmptyObj, o.fields)
    IN  Unless(found = {}, out, Write(out, o.map, m))

expandFromMapOp(o, in, out) ==
    LET v == getValue(in, o.map)
        known == {KeyOf(o, fp) : fp \in Range(o.fields)}
        put(acc, fp) == IF acc = Error \/ Field(v, KeyOf(o, fp)) = Absent THEN acc
                        ELSE setValue(acc, fp, Field(v, KeyOf(o, fp)))
    IN  CASE v = Absent -> out
          [] ~IsObj(v) -> Error
          [] o.onUnknownKey = "Error" /\ ~(Keys(v) \subseteq known) -> Error
          [] OTHER -> FoldLeft(put, out, o.fields)

\* A label's key is not empty.  Its value has none of the punctuation texts are
\* made of here, and the JSON text of anything but a number or a Boolean holds
\* quotes, braces or brackets.
IsQualifiedName(key) == key # ""
Punctuation == {"/", ","}
IsValidLabelValue(s) ==
    IF s[1] = "jsontext" THEN s[2][1] \in {"number", "boolean"} ELSE Range(s[2]) \cap Punctuation = {}

MetadataPath(o) == <<"metadata", o.field, o.key>>

stashAnnotationOp(o, in, out) ==
    LET v == getValue(in, o.path)
        s == IF o.serialization = "String" THEN (IF IsStr(v) THEN v ELSE Error) ELSE JSONText(v)
    IN  CASE v = Absent -> out
          [] s = Error -> Error
          [] o.field = "labels" /\ ~(IsQualifiedName(o.key) /\ IsValidLabelValue(s)) -> Error
          [] OTHER -> setValue(out, MetadataPath(o), s)

\* json.Unmarshal recovers what json.Marshal wrote, reads a bare number or
\* Boolean token, and rejects other text.
Unmarshal(s) == IF s[1] = "jsontext" THEN s[2]
                ELSE IF Parsed(s[2]) # {} THEN numericAsFloat64(s)
                ELSE IF s[2] \in {<<"true">>, <<"false">>} THEN coerceScalarValue(s, "boolean")
                ELSE Error

\* The bookkeeping key goes once its value is back in the field.
restoreAnnotationOp(o, in, out) ==
    LET raw == getValue(in, MetadataPath(o))
        val == IF ~IsStr(raw) THEN Error
               ELSE IF o.serialization = "String" THEN raw ELSE Unmarshal(raw)
        written == Write(out, o.path, val)
    IN  Unless(raw = Absent, out,
               IF written = Error THEN Error
               ELSE deleteValuePruningEmptyMaps(written, MetadataPath(o)))

stripMetadataKeyOp(o, in, out) == deleteValuePruningEmptyMaps(out, MetadataPath(o))

remapEnumOp(o, in, out) ==
    LET v == getValue(in, o.path)
    IN  CASE v = Absent -> out
          [] v \in DOMAIN o.table -> Write(out, o.path, o.table[v])
          [] o.onUnmapped = "Error" -> Error
          [] OTHER -> out

injectValueOp(o, in, out) == Write(out, o.path, o.value)

dropFieldOp(o, in, out) == out

\* RFC 6902, one operation at a time (the json-patch library).
ApplyPatchOp(doc, p) ==
    LET parent == getValue(doc, Front(p.path))
        source == getValue(doc, p.from)
        add(d, v) == IF IsObj(getValue(d, Front(p.path))) THEN Write(d, p.path, v) ELSE Error
    IN  CASE doc = Error -> Error
          [] p.kind = "add" -> add(doc, p.value)
          [] p.kind = "copy" -> IF source = Absent THEN Error ELSE add(doc, source)
          [] p.kind = "move" -> IF source = Absent THEN Error ELSE add(deleteValue(doc, p.from), source)
          [] Field(parent, Last(p.path)) = Absent -> Error
          [] p.kind = "remove" -> deleteValue(doc, p.path)
          [] p.kind = "replace" -> Write(doc, p.path, p.value)
          [] p.kind = "test" -> IF getValue(doc, p.path) = p.value THEN doc ELSE Error

\* Patches the input, then copies over only the paths the patch names.
jsonPatchOp(o, in, out) ==
    LET full == FoldLeft(ApplyPatchOp, in, o.patch)
        copy(acc, p) == IF acc = Error THEN Error
                        ELSE IF getValue(full, p) = Absent THEN deleteValue(acc, p)
                        ELSE setValue(acc, p, getValue(full, p))
    IN  IF full = Error THEN Error ELSE FoldLeft(copy, out, o.touched)

coerceOp(o, in, out) ==
    LET v == getValue(in, o.path)
    IN  Unless(v = Absent, out, Write(out, o.path, coerceScalarValueWithPolicy(v, o.toKind, o.frac)))

\* A pattern, and the template that is meant to invert it, is a sequence of
\* parts: a literal token or a named field (capture group) of one token.
IsLiteral(part) == part[1] = "lit"

\* Nothing anchors the pattern: FindStringSubmatch takes the leftmost match.
MatchOffsets(parts, text) ==
    {k \in 0 .. Len(text) - Len(parts) :
        \A i \in DOMAIN parts : IsLiteral(parts[i]) => parts[i][2] = text[k + i]}
Captured(parts, text, name) ==
    text[Min(MatchOffsets(parts, text)) + CHOOSE i \in DOMAIN parts : parts[i] = <<"field", name>>]

splitFieldOp(o, in, out) ==
    LET v == getValue(in, o.source)
        put(acc, name) ==
            IF acc = Error THEN Error
            ELSE Write(acc, o.fields[name],
                       coerceScalarValue(Tok(Captured(o.pattern, v[2], name)), o.kinds[name]))
    IN  CASE v = Absent -> out
          [] v[1] # "string" -> Error
          [] MatchOffsets(o.pattern, v[2]) = {} -> Error
          [] OTHER -> FoldLeft(put, out, SetToSeq(DOMAIN o.fields))

joinFieldsOp(o, in, out) ==
    LET value(part) == getValue(in, o.fields[part[2]])
        text(part) == IF IsLiteral(part) THEN <<part[2]>> ELSE TextOf(value(part))
        named == SelectSeq(o.template, LAMBDA part : ~IsLiteral(part))
    IN  CASE \A n \in DOMAIN o.fields : getValue(in, o.fields[n]) = Absent -> out
          [] \E i \in DOMAIN named : value(named[i]) = Absent -> Error    \* missingkey=error
          [] OTHER -> setValue(out, o.dest, Str(FlattenSeq([i \in DOMAIN o.template |-> text(o.template[i])])))

\* The key is removed from the element, and a missing or repeated key fails.
\* A key is a one-token string, which is how map keys are named here.
arrayToMapByKeyOp(o, in, out) ==
    LET v == getValue(in, o.array)
        key(e) == Field(e, o.keyField)
        name(e) == key(e)[2][1]
        elems == v[2]
    IN  CASE v = Absent -> out
          [] ~IsArr(v) -> Error
          [] \E i \in DOMAIN elems : ~IsObj(elems[i]) \/ key(elems[i])[1] # "string" -> Error
          [] \E i, j \in DOMAIN elems : i # j /\ key(elems[i]) = key(elems[j]) -> Error
          [] OTHER -> setValue(out, o.map,
                 Obj([k \in {name(elems[i]) : i \in DOMAIN elems} |->
                        Drop(elems[CHOOSE i \in DOMAIN elems : name(elems[i]) = k], o.keyField)]))

\* sort.Strings: a fixed order of the keys, whichever the array had.
CONSTANT KeyOrder
SortedKeys(v) == SelectSeq(KeyOrder, LAMBDA k : k \in Keys(v))

mapToArrayByKeyOp(o, in, out) ==
    LET v == getValue(in, o.map)
        elem(k) == LET val == v[2][k]
                   IN Obj([f \in Keys(val) \cup {o.keyField} |->
                             IF f \in Keys(val) THEN val[2][f] ELSE Tok(k)])
    IN  CASE v = Absent -> out
          [] ~IsObj(v) -> Error
          [] \E k \in Keys(v) : ~IsObj(v[2][k]) -> Error
          [] OTHER -> setValue(out, o.array, Arr([i \in DOMAIN SortedKeys(v) |-> elem(SortedKeys(v)[i])]))

\* Mutant: both directions multiply.
numericScaleUp(o, in, out) ==
    LET v == getValue(in, o.from)
    IN  Unless(v = Absent, out, setValue(out, o.to, Num(v[2] * o.factor)))

numericScaleOp(o, in, out) ==
    LET v == getValue(in, o.from)
        scaled == IF o.multiply THEN v[2] * o.factor ELSE v[2] \div o.factor
    IN  CASE v = Absent -> out
          [] ~IsNum(v) -> Error
          [] OTHER -> setValue(out, o.to, Num(IF o.round THEN RoundQuarters(scaled) ELSE scaled))

joinListOp(o, in, out) ==
    LET v == getValue(in, o.array)
        part(i) == coerceScalarValue(v[2][i], "string")
        text == [i \in DOMAIN v[2] |-> IF i = 1 THEN part(i)[2] ELSE <<o.separator>> \o part(i)[2]]
    IN  CASE v = Absent -> out
          [] ~IsArr(v) -> Error
          [] \E i \in DOMAIN v[2] : part(i)[1] # "string" -> Error
          [] OTHER -> setValue(out, o.string, Str(FlattenSeq(text)))

\* strings.Split: the maximal runs without the separator; "" gives no part.
SplitOn(text, sep) ==
    LET step(acc, t) == IF t = sep THEN Append(acc, <<>>)
                        ELSE Append(Front(acc), Append(Last(acc), t))
    IN  IF text = <<>> THEN <<>> ELSE FoldLeft(step, <<<<>>>>, text)

splitListOp(o, in, out) ==
    LET v == getValue(in, o.string)
        parts == SplitOn(v[2], o.separator)
        elems == [i \in DOMAIN parts |-> coerceScalarValue(Str(parts[i]), o.itemKind)]
    IN  CASE v = Absent -> out
          [] v[1] # "string" -> Error
          [] \E i \in DOMAIN elems : elems[i] = Error -> Error
          [] OTHER -> setValue(out, o.array, Arr(elems))

\* Mutant: a quantity is written in the duration's spelling.
quantityAsDuration(o, in, out) ==
    LET v == getValue(in, o.src)
        r == IF o.toInteger THEN parseSpelling(v, QuantitySpellings)
             ELSE IF IsNum(v) THEN Tok(CanonicalDuration(v[2] \div 4)) ELSE Error
    IN  Unless(v = Absent, out, Write(out, o.dst, r))

quantityOp(o, in, out) ==
    LET v == getValue(in, o.src)
        r == IF o.toInteger THEN parseSpelling(v, QuantitySpellings)
             ELSE IF IsNum(v) THEN Tok(CanonicalQuantity(v[2] \div 4)) ELSE Error
    IN  Unless(v = Absent, out, Write(out, o.dst, r))

durationOp(o, in, out) ==
    LET v == getValue(in, o.src)
        r == IF o.toInteger THEN parseSpelling(v, DurationSpellings)
             ELSE IF IsNum(v) THEN Tok(CanonicalDuration(v[2] \div 4)) ELSE Error
    IN  Unless(v = Absent, out, Write(out, o.dst, r))

\* Keys not listed keep their name; two keys meeting on one name is an error.
mapKeyRenameOp(o, in, out) ==
    LET v == getValue(in, o.src)
        dest(k) == IF k \in DOMAIN o.renames THEN o.renames[k] ELSE k
    IN  CASE v = Absent -> out
          [] ~IsObj(v) -> Error
          [] \E k, l \in Keys(v) : k # l /\ dest(k) = dest(l) -> Error
          [] OTHER -> setValue(out, o.dst,
                 Obj([d \in {dest(k) : k \in Keys(v)} |->
                        v[2][CHOOSE k \in Keys(v) : dest(k) = d]]))

\* A CEL map literal: each entry copies one source path.  Reading an absent
\* field is an evaluation error; only the declared destinations are written.
celOp(o, in, out) ==
    LET put(acc, d) == IF d \in DOMAIN o.entries THEN Write(acc, d, getValue(in, o.entries[d])) ELSE acc
    IN  IF \E d \in DOMAIN o.entries : getValue(in, o.entries[d]) = Absent THEN Error
        ELSE FoldLeft(put, out, o.dests)

----------------------------------------------------------------------------
(* The catch-all that carries fields neither schema declares.              *)

\* A tree is a function from declared field names to trees; a field the
\* schema does not descend into has no children.
RECURSIVE collectUnknown(_, _, _)
collectUnknown(tree, v, prefix) ==
    IF ~IsObj(v) THEN {}
    ELSE UNION {IF k \notin DOMAIN tree
                THEN IF prefix = <<>> THEN {} ELSE {<<Append(prefix, k), v[2][k]>>}
                ELSE IF tree[k] = NoFields THEN {}
                ELSE collectUnknown(tree[k], v[2][k], Append(prefix, k)) : k \in Keys(v)}

passthroughUnknownOp(o, in, out) ==
    FoldLeft(LAMBDA acc, e : IF acc = Error THEN Error ELSE setValue(acc, e[1], e[2]),
             out, SetToSeq(collectUnknown(o.tree, in, <<>>)))

----------------------------------------------------------------------------
(* Ops that contain ops.                                                   *)

RECURSIVE apply(_, _, _)

applyAll(ops, in, out) ==
    FoldLeft(LAMBDA acc, o : IF acc = Error THEN Error ELSE apply(o, in, acc), out, ops)

forEachOp(o, in, out) ==
    LET v == getValue(in, o.src)
        dst == getValue(in, o.dst)
        elems == [i \in DOMAIN v[2] |-> IF IsObj(v[2][i]) THEN applyAll(o.nested, v[2][i], EmptyObj) ELSE Error]
    IN  CASE v = Absent -> out
          [] ~IsArr(v) -> Error
          [] dst # Absent /\ ~IsArr(dst) -> Error
          [] dst # Absent /\ Len(dst[2]) # Len(v[2]) -> Error
          [] \E i \in DOMAIN elems : elems[i] = Error -> Error
          [] OTHER -> setValue(out, o.dst, Arr(elems))

whenOp(o, in, out) ==
    IF getValue(in, o.path) = o.equals THEN apply(o.inner, in, out) ELSE out

\* Exactly one branch must be set; it is written at its own path, never by
\* replacing the union object.
branchMapOp(o, in, out) ==
    LET v == getValue(in, o.src)
        present == SelectSeq(o.branches, LAMBDA b : b.src \in Keys(v))
        b == Head(present)
        raw == v[2][b.src]
        value == IF b.nested = <<>> THEN raw
                 ELSE IF IsObj(raw) THEN applyAll(b.nested, raw, EmptyObj) ELSE Error
        written == Write(out, Append(o.dst, b.dst), value)
    IN  CASE v = Absent -> out
          [] ~IsObj(v) -> Error
          [] Len(present) # 1 -> Error
          [] o.discriminator = "" \/ written = Error -> written
          [] OTHER -> setValue(written, Append(o.dst, o.discriminator), Tok(b.dstValue))

apply(o, in, out) ==
    CASE o.op = "identity" -> identityOp(o, in, out)
      [] o.op = "rename" -> renameOp(o, in, out)
      [] o.op = "wrapScalar" -> wrapScalarOp(o, in, out)
      [] o.op = "unwrapScalar" -> unwrapScalarOp(o, in, out)
      [] o.op = "arrayFirstToObject" -> arrayFirstToObjectOp(o, in, out)
      [] o.op = "objectToSingletonArray" -> objectToSingletonArrayOp(o, in, out)
      [] o.op = "collapseToMap" -> collapseToMapOp(o, in, out)
      [] o.op = "expandFromMap" -> expandFromMapOp(o, in, out)
      [] o.op = "stash" -> stashAnnotationOp(o, in, out)
      [] o.op = "restore" -> restoreAnnotationOp(o, in, out)
      [] o.op = "strip" -> stripMetadataKeyOp(o, in, out)
      [] o.op = "remapEnum" -> remapEnumOp(o, in, out)
      [] o.op = "inject" -> injectValueOp(o, in, out)
      [] o.op = "drop" -> dropFieldOp(o, in, out)
      [] o.op = "jsonPatch" -> jsonPatchOp(o, in, out)
      [] o.op = "coerce" -> coerceOp(o, in, out)
      [] o.op = "splitField" -> splitFieldOp(o, in, out)
      [] o.op = "joinFields" -> joinFieldsOp(o, in, out)
      [] o.op = "arrayToMapByKey" -> arrayToMapByKeyOp(o, in, out)
      [] o.op = "mapToArrayByKey" -> mapToArrayByKeyOp(o, in, out)
      [] o.op = "numericScale" -> numericScaleOp(o, in, out)
      [] o.op = "joinList" -> joinListOp(o, in, out)
      [] o.op = "splitList" -> splitListOp(o, in, out)
      [] o.op = "quantity" -> quantityOp(o, in, out)
      [] o.op = "duration" -> durationOp(o, in, out)
      [] o.op = "mapKeyRename" -> mapKeyRenameOp(o, in, out)
      [] o.op = "cel" -> celOp(o, in, out)
      [] o.op = "passthrough" -> passthroughUnknownOp(o, in, out)
      [] o.op = "forEach" -> forEachOp(o, in, out)
      [] o.op = "when" -> whenOp(o, in, out)
      [] o.op = "branchMap" -> branchMapOp(o, in, out)

----------------------------------------------------------------------------
(* convert.go: one conversion.  kind and metadata are carried as they are, *)
(* an absent metadata becomes an empty object.                             *)

Convert(ops, object) ==
    LET kind == IF Field(object, "kind") = Absent THEN EmptyObj
                ELSE Put(EmptyObj, "kind", Field(object, "kind"))
        metadata == IF Field(object, "metadata") = Absent THEN EmptyObj ELSE Field(object, "metadata")
    IN  applyAll(ops, object, Put(kind, "metadata", metadata))

============================================================================
