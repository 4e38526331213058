----------------------------- MODULE TypeCheck ------------------------------
(***************************************************************************)
(* The type checker (src/typecheck/typecheck.c): the type that it infers   *)
(* for a node, and whether it reports an error at it.                      *)
(***************************************************************************)
EXTENDS Program

RECURSIVE infer_type(_)

BoolIsNumeric(t) == t \in {"I64", "F64", "BOOL"}   \* mutant of is_numeric
is_numeric(t) == t \in {"I64", "F64"}
Either(n, t) == \E i \in 1 .. 2 : infer_type(n.in[i]) = t
Numeric(n) == \A i \in 1 .. 2 : is_numeric(infer_type(n.in[i]))

\* An error is reported at the node, whose type is then ANY (or, for an order and
\* on bits, what it would be anyway): a string sum aside, arithmetic takes numbers, and what is ANY
\* passes, on either side of a sum or product.
infer_add(n) ==
  CASE \A i \in 1 .. 2 : infer_type(n.in[i]) = "STRING" -> "STRING"
    [] Numeric(n) -> IF Either(n, "F64") THEN "F64" ELSE "I64"
    [] OTHER -> "ANY"
infer_arith(n) ==
  IF ~ Numeric(n) THEN "ANY" ELSE IF Either(n, "F64") THEN "F64" ELSE "I64"
infer_neg(n) == IF is_numeric(infer_type(n.in[1])) THEN infer_type(n.in[1]) ELSE "ANY"

tc_error(n) ==
  \/ n.kind = "ADD" /\ infer_add(n) = "ANY" /\ ~ Either(n, "ANY")
  \/ n.kind \in Arithmetic \ {"ADD"} /\ ~ Numeric(n) /\ ~ Either(n, "ANY")
  \/ n.kind \in Orders /\ \E i \in 1 .. 2 :
       ~ is_numeric(infer_type(n.in[i])) /\ infer_type(n.in[i]) # "ANY"
  \/ n.kind = "NEG" /\ infer_neg(n) = "ANY" /\ infer_type(n.in[1]) # "ANY"
  \/ n.kind \in Bits \cup {"BIT_NOT"} /\ \E i \in DOMAIN n.in : infer_type(n.in[i]) \notin {"I64", "ANY"}
  \/ n.kind = "STR_LEN" /\ infer_type(n.in[1]) \notin {"STRING", "ANY"}

infer_simple_kind(n) ==
  CASE n.kind \in {"EQ", "NEQ", "NOT"} -> "BOOL"
    [] n.kind \in {"STR_LEN", "LENGTH"} -> "I64"
    [] n.kind = "CAST" -> n.name
    [] n.kind \in {"STR_SLICE", "STR_INDEX"} -> "STRING"
    [] n.kind = "ARRAY_LITERAL" -> "ARRAY"
    [] n.kind = "MAP_LITERAL" -> "MAP"
    [] n.kind \in {"FUNC_DEF", "CLOSURE"} -> "CLOSURE"
    [] n.kind \in {"INDEX_SET", "IF", "WHILE", "CYCLE", "LET", "ASSIGN", "SEQUENCE", "ROOT_OUTPUT",
                   "PRINT", "BREAK_IF", "RETURN", "THROW", "TRY"} -> "NULL"
    [] OTHER -> "ANY"

infer_type(n) ==
  CASE n.kind = "MISSING" -> "UNKNOWN"
    [] n.kind = "CONST" ->
         CASE n.value[1] = "i64" -> "I64" [] n.value[1] = "f64" -> "F64"
           [] n.value[1] = "bool" -> "BOOL" [] n.value[1] = "str" -> "STRING" [] OTHER -> "NULL"
    [] n.kind = "ADD" -> infer_add(n)
    [] n.kind \in Arithmetic \ {"ADD"} -> infer_arith(n)
    [] n.kind = "NEG" -> infer_neg(n)
    [] n.kind \in Orders -> "BOOL"
    [] n.kind \in Bits \cup {"BIT_NOT"} -> "I64"
    [] OTHER -> infer_simple_kind(n)

arc_typecheck(p) == \A n \in Nodes(p) : ~ tc_error(n)
=============================================================================
