------------------------------ MODULE Program -------------------------------
(***************************************************************************)
(* Programs as the semantic graph gives them to the compiler, the type     *)
(* checker, the lowering and the reference interpreter                     *)
(* (src/semantic_graph/semantic_graph.h), and the values they compute.     *)
(*                                                                         *)
(* A node carries its kind, its name, its literal or count, the sources of *)
(* its input ports in the order in which its readers take them, and the    *)
(* members of its regions.  An edge of the graph is nesting here: every    *)
(* reader follows it from the input port to the owner of the output port   *)
(* and treats a node that several ports read as if each had its own.  An   *)
(* input port that is missing or not connected has the source Missing.     *)
(*                                                                         *)
(* An f64 is the number of its halves.  A string is one value, whatever    *)
(* its contents, and so is any other object.  The bit operations work on   *)
(* words of WordBits bits; the code has 64.                                *)
(***************************************************************************)
EXTENDS Integers, Sequences, SequencesExt, Bitwise

arc_val_null == <<"null", 0>>
arc_val_bool(b) == <<"bool", IF b THEN 1 ELSE 0>>
arc_val_i64(n) == <<"i64", n>>
arc_val_f64(n) == <<"f64", n>>
arc_val_str == <<"str", 1>>
arc_val_obj == <<"obj", 1>>

arc_val_is_truthy(v) == v[2] # 0
arc_val_equal(a, b) == a = b

Node(kind, name, value, in, regions) ==
  [kind |-> kind, name |-> name, value |-> value, in |-> in, regions |-> regions]
Missing == Node("MISSING", "", arc_val_null, <<>>, <<>>)
Const(v) == Node("CONST", "", v, <<>>, <<>>)
Var(x) == Node("VAR_REF", x, arc_val_null, <<>>, <<>>)
Op(kind, in) == Node(kind, "", arc_val_null, in, <<>>)
Named(kind, x, in) == Node(kind, x, arc_val_null, in, <<>>)
Block(kind, in, regions) == Node(kind, "", arc_val_null, in, regions)
Func(f, params, body) ==
  Node("FUNC_DEF", f, arc_val_i64(Len(params)), <<>>,
       <<[i \in DOMAIN params |-> Named("PARAM", params[i], <<>>)] \o body>>)

Arithmetic == {"ADD", "SUB", "MUL", "DIV", "MOD"}
Orders == {"LT", "LE", "GT", "GE"}
Comparison == {"EQ", "NEQ"} \cup Orders
Bits == {"BIT_AND", "BIT_OR", "BIT_XOR", "SHL", "SHR"}

\* The division of C, which truncates, and its remainder.
Abs(a) == IF a < 0 THEN -a ELSE a
Quot(a, b) ==
  LET q == Abs(a) \div Abs(b) IN IF (a < 0) = (b < 0) THEN q ELSE -q
Rem(a, b) == a - b * Quot(a, b)

\* The operators of C on the bits of integers in two's complement.  A shift that
\* is too long is cut to the width, as the machine's shifts do.
WordBits == 8
Word(a) == a % 2^WordBits
Signed(w) == IF w < 2^(WordBits - 1) THEN w ELSE w - 2^WordBits
Distance(b) == b % WordBits
OnBits(op, a, b) ==
  Signed(CASE op = "BIT_AND" -> Word(a) & Word(b)
           [] op = "BIT_OR" -> Word(a) | Word(b)
           [] op = "BIT_XOR" -> Word(a) ^^ Word(b)
           [] op = "SHL" -> Word(a * 2^Distance(b)))
Complement(a) == - a - 1

Ordered(op, a, b) ==
  CASE op = "LT" -> a < b [] op = "LE" -> a <= b
    [] op = "GT" -> a > b [] op = "GE" -> a >= b

\* Nodes that are compiled where an edge leads to them, never as statements.
is_expr_node(kind) ==
  kind \in Arithmetic \cup Comparison \cup Bits \cup
    {"CONST", "NEG", "NOT", "BIT_NOT", "AND", "OR", "ARRAY_LITERAL", "MAP_LITERAL",
     "INDEX_GET", "LENGTH", "CAST", "STR_LEN", "STR_SLICE", "STR_INDEX", "VAR_REF", "FUNC_CALL",
     "INTRINSIC_CALL", "RECORD_NEW", "FIELD_GET", "FIELD_SET",
     "THREAD_SPAWN", "THREAD_JOIN", "MUTEX_NEW", "CHAN_NEW", "CHAN_RECV"}

\* The nodes of a program: a record of its functions, its root members and its
\* output.
RECURSIVE Within(_)
Within(n) ==
  {n} \cup UNION {Within(n.in[i]) : i \in DOMAIN n.in}
      \cup UNION {UNION {Within(n.regions[k][i]) : i \in DOMAIN n.regions[k]} : k \in DOMAIN n.regions}
Nodes(p) == UNION {Within(n) : n \in Range(p.funcs) \cup Range(p.root) \cup {p.output}}
=============================================================================
