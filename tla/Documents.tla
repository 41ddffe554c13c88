----------------------------- MODULE Documents -----------------------------
(***************************************************************************)
(* The JSON-like object trees that conversions read and write              *)
(* (pkg/engine/path.go) and the scalar conversions between them            *)
(* (pkg/engine/coerce.go, k8sunits.go).                                    *)
(*                                                                         *)
(* A value is a pair <<kind, payload>>: a string is a sequence of opaque   *)
(* tokens, a number counts quarters (so that fractions exist), an object   *)
(* is a function from field names to values, an array a sequence.  The     *)
(* text json.Marshal writes for v is <<"jsontext", v>>.                    *)
(***************************************************************************)
EXTENDS Integers, Sequences, SequencesExt, FiniteSets, TLC

Str(tokens) == <<"string", tokens>>
Num(quarters) == <<"number", quarters>>
Bool(b) == <<"boolean", b>>
Arr(s) == <<"array", s>>
Obj(f) == <<"object", f>>
JSONText(v) == <<"jsontext", v>>

Absent == <<"absent">>          \* the second result of getValue is false
Error == <<"error">>            \* an operation returned an error

Whole(n) == Num(4 * n)
Tok(t) == Str(<<t>>)
NoFields == [k \in {} |-> Absent]
EmptyObj == Obj(NoFields)

IsObj(v) == v[1] = "object"
IsArr(v) == v[1] = "array"
IsStr(v) == v[1] \in {"string", "jsontext"}
IsNum(v) == v[1] = "number"
IsWhole(v) == v[2] % 4 = 0

Keys(v) == DOMAIN v[2]
Put(obj, k, v) == Obj([x \in Keys(obj) \cup {k} |-> IF x = k THEN v ELSE obj[2][x]])
Drop(obj, k) == Obj([x \in Keys(obj) \ {k} |-> obj[2][x]])
Field(v, k) == IF IsObj(v) /\ k \in Keys(v) THEN v[2][k] ELSE Absent

lastSegment(path) == IF path = <<>> THEN "" ELSE Last(path)

----------------------------------------------------------------------------
(* Reading and writing by path.                                            *)

getValue(v, path) == FoldLeft(Field, v, path)

\* Creates the objects on the way; descending into anything else is an error.
RECURSIVE setValue(_, _, _)
setValue(obj, path, val) ==
    IF path = <<>> THEN Error
    ELSE IF Len(path) = 1 THEN Put(obj, path[1], val)
    ELSE LET child == IF path[1] \in Keys(obj) THEN obj[2][path[1]] ELSE EmptyObj
             below == IF IsObj(child) THEN setValue(child, Tail(path), val) ELSE Error
         IN  IF below = Error THEN Error ELSE Put(obj, path[1], below)

RECURSIVE deleteValue(_, _)
deleteValue(obj, path) ==
    IF path = <<>> \/ Field(obj, path[1]) = Absent THEN obj
    ELSE IF Len(path) = 1 THEN Drop(obj, path[1])
    ELSE LET child == Field(obj, path[1])
         IN  IF IsObj(child) THEN Put(obj, path[1], deleteValue(child, Tail(path))) ELSE obj

\* Also removes the ancestors the deletion leaves empty.
RECURSIVE deleteValuePruningEmptyMaps(_, _)
deleteValuePruningEmptyMaps(obj, path) ==
    LET out == deleteValue(obj, path)
    IN  IF Len(path) > 1 /\ getValue(out, Front(path)) = EmptyObj
        THEN deleteValuePruningEmptyMaps(out, Front(path)) ELSE out

----------------------------------------------------------------------------
(* Scalars.                                                                *)

isCoercibleScalar(kind) == kind \in {"string", "integer", "number", "boolean"}

\* A whole number prints without a fraction, so equal numbers print alike.
formatNumber(q) == IF q % 4 = 0 THEN ToString(q \div 4) ELSE ToString(q) \o "/4"

CONSTANT MaxNumber              \* bound on the numbers a text may spell
Parsed(tokens) == {q \in 0 .. 4 * MaxNumber : tokens = <<formatNumber(q)>>}

TextOf(v) == CASE v[1] = "string" -> v[2]
               [] v[1] = "number" -> <<formatNumber(v[2])>>
               [] v[1] = "boolean" -> <<IF v[2] THEN "true" ELSE "false">>
               [] OTHER -> <<"%v">>

numericAsFloat64(v) ==
    CASE IsNum(v) -> v
      [] v[1] = "string" /\ Parsed(v[2]) # {} -> Num(CHOOSE q \in Parsed(v[2]) : TRUE)
      [] v[1] = "boolean" -> Whole(IF v[2] THEN 1 ELSE 0)
      [] OTHER -> Error

RoundQuarters(q) == 4 * ((q + 2) \div 4)

applyFractionalInteger(v, frac) ==
    CASE v = Error \/ IsWhole(v) -> v
      [] frac = "Truncate" -> Num(4 * (v[2] \div 4))
      [] frac = "Round" -> Num(RoundQuarters(v[2]))
      [] OTHER -> Error

\* strconv.ParseBool accepts several spellings of each value.
TrueTexts == {<<"true">>, <<"1">>}
FalseTexts == {<<"false">>, <<"0">>}

coerceScalarValueWithPolicy(v, to, frac) ==
    CASE to = "string" -> IF IsStr(v) THEN v
                          ELSE IF v[1] \in {"number", "boolean"} THEN Str(TextOf(v)) ELSE Error
      [] to = "integer" -> applyFractionalInteger(numericAsFloat64(v), frac)
      [] to = "number" -> numericAsFloat64(v)
      [] to = "boolean" -> IF v[1] = "boolean" THEN v
                           ELSE IF v[1] = "string" /\ v[2] \in TrueTexts THEN Bool(TRUE)
                           ELSE IF v[1] = "string" /\ v[2] \in FalseTexts THEN Bool(FALSE)
                           ELSE Error
      [] OTHER -> Error

coerceScalarValue(v, to) == coerceScalarValueWithPolicy(v, to, "Error")

\* resource.ParseQuantity and time.ParseDuration read several spellings of one
\* amount (milli-units, seconds); their String methods write one of them.
QuantitySpellings == ("1m" :> 1) @@ ("0.001" :> 1) @@ ("2m" :> 2)
DurationSpellings == ("1s" :> 1) @@ ("1000ms" :> 1) @@ ("2s" :> 2)
CanonicalQuantity(n) == ToString(n) \o "m"
CanonicalDuration(n) == ToString(n) \o "s"

parseSpelling(v, spellings) ==
    IF v[1] = "string" /\ Len(v[2]) = 1 /\ v[2][1] \in DOMAIN spellings
    THEN Whole(spellings[v[2][1]]) ELSE Error

============================================================================
