------------------------------ MODULE MCLayout ------------------------------
(* Texts and deformations for the architecture of a drawing. *)
EXTENDS Architecture

Node(x, kind, r, attr) == <<"node", x, kind, r, attr, <<>>, <<>>, <<>>>>
Block(x, kind, r, attr, bodies) == <<"node", x, kind, r, attr, bodies, <<>>, <<>>>>
Edge(x, role, y, to) == <<"edge", <<x, role>>, <<y, to>>>>

\* A root with two functions; f holds a block.
Base == << <<"region", "root", "-">>, <<"region", "f", "root">>, <<"region", "g", "root">>,
           <<"region", "block", "f">> >>
Statements(inF, inBlock) ==
  << Node("one", "CONST", "f", ""), inF, Node("say", "PRINT", "g", ""),
     Block("F", "FUNC_DEF", "root", "F", <<"f">>), Block("G", "FUNC_DEF", "root", "G", <<"g">>), inBlock >>

\* Architectures: f and g sealed or not, capabilities, channels.
Seals ==
  { <<>>, << <<"sealed", "f">> >>, << <<"capability", "f", "Logger">> >>,
    << <<"sealed", "f">>, <<"capability", "f", "Clock">>, <<"capability", "f", "Logger">> >>,
    << <<"sealed", "f">>, <<"capability", "g", "Logger">>, <<"sealed", "block">> >>,
    << <<"capability", "f", "Logger">>, <<"capability", "g", "Logger">> >>,
    << <<"capability", "f", "Logger">>, <<"capability", "g", "Logger">>, <<"channel", "g", "f">> >> }
InF == {Node("two", "FUNC_CALL", "f", "G"), Node("two", "THREAD_SPAWN", "f", "G"),
        Block("two", "IF", "f", "", <<"block", "-">>), Node("two", "BINARY", "f", "+"),
        Block("two", "WHILE", "f", "", <<"block">>)}
InBlock == {Node("deep", "INTRINSIC_CALL", "block", "clock"), Node("deep", "PRINT", "block", ""),
            Node("deep", "FUNC_CALL", "block", "F")}
ArchTexts ==
  { Base \o Statements(a, b) \o << Edge("one", "out", "say", "value"), Edge("one", "out", "two", role) >> \o s :
      a \in InF, b \in InBlock, role \in {"arg0", "cond", "lhs"}, s \in Seals }

\* Drawings: two circles that may overlap, one inside the other, and nodes in
\* places inside, between and on them.
Circles == { << <<"circle", "f", <<0, 0>>, 6>> >>,
             << <<"circle", "f", <<0, 0>>, 6>>, <<"circle", "g", <<14, 0>>, 5>> >>,
             << <<"circle", "f", <<0, 0>>, 9>>, <<"circle", "block", <<0, 1>>, 3>> >>,
             << <<"circle", "g", <<8, 0>>, 9>>, <<"circle", "f", <<0, 0>>, 9>>, <<"circle", "f", <<0, 0>>, 4>>,
                <<"circle", "block", <<1, 0>>, 2>> >> }
Points == {<<0, 2>>, <<3, 0>>, <<0, -3>>, <<-3, 0>>, <<14, 1>>, <<6, 0>>, <<-5, -1>>}
Ring == Base \o << Node("one", "PRINT", "f", ""), Node("two", "PRINT", "f", ""), Node("say", "PRINT", "f", "") >>
DrawnTexts ==
  { Ring \o c \o << <<"position", "one", p>>, <<"position", "two", q>>, <<"position", "say", r>> >> :
      c \in Circles, p \in Points, q \in {<<0, 2>>, <<-3, 0>>, <<14, 1>>}, r \in {<<0, -3>>, <<3, 0>>, <<14, -1>>} }
SealedDrawing ==
  { Base \o Statements(Node("two", "FUNC_CALL", "f", "G"), Node("deep", "PRINT", "block", "")) \o
      << Edge("one", "out", "say", "value"), <<"capability", "g", "Logger">>, <<"capability", "f", "Logger">>,
         <<"circle", "f", <<0, 0>>, 6>>, <<"circle", "g", <<14, 0>>, 5>>,
         <<"position", "say", p>>, <<"position", "one", q>>, <<"position", "one", <<0, 2>>>> >> :
      p \in Points, q \in Points }

\* Texts the parser refuses, and what it passes over.
Odd == Base \o << Node("one", "BINARY", "f", "+"), Node("call", "FUNC_CALL", "f", "F") >>
OddTexts ==
  { Odd \o << l, <<"root", "one", "out">>, Node("late", "PRINT", "g", ""), Edge("call", "out", "late", "value"),
             <<"root", "late", "-">> >> :
      l \in { <<"bogus">>, Node("x", "CONST", "nowhere", ""), Edge("one", "out", "x", "arg0"),
              Edge("one", "none", "call", "arg0"), Edge("one", "out", "call", "item0"),
              Edge("one", "lhs", "one", "out"), <<"sealed", "nowhere">>, <<"capability", "f", "Magic">>,
              <<"capability", "nowhere", "Clock">>, <<"channel", "f", "nowhere">>, <<"channel", "nowhere", "f">>,
              <<"circle", "nowhere", <<0, 0>>, 4>>, <<"position", "x", <<0, 0>>>>,
              <<"root", "call", "-">>, <<"root", "x", "-">>, <<"root", "one", "none">>,
              <<"region", "h", "nowhere">>, <<"channel", "f", "g">>,
              <<"node", "p", "BINARY", "f", "+", <<>>, <<"arg0", "other">>, <<>> >>,
              <<"node", "p", "BINARY", "f", "+", <<>>, <<"arg0">>, <<"lhs", "rhs", "out", "arg0", "none">> >>,
              Node("one", "UNARY", "g", "-"),
              Block("w", "WHILE", "f", "", <<"-">>), Block("w", "TRY", "f", "", <<"-", "block">>) } }

AllTexts == ArchTexts \cup DrawnTexts \cup SealedDrawing \cup OddTexts \cup {<<>>}
StableTexts ==
  { Ring \o << <<"circle", "f", <<0, 0>>, 6>>,
              <<"position", "one", <<3, 0>> >>, <<"position", "two", <<0, 3>> >>, <<"position", "say", <<-3, 0>> >> >> }

\* The same nodes, in circles of other sizes, and moved.
Drawing(circles, a, b, c) ==
  [circles |-> circles,
   positions |-> << [id |-> 1, pos |-> a], [id |-> 2, pos |-> b], [id |-> 3, pos |-> c] >>]
Circle(r, center, radius) == [region |-> r, center |-> center, radius |-> radius]
Redrawn ==
  { Drawing(c, <<3, 0>>, <<0, 3>>, p) :
      c \in { <<Circle(2, <<0, 0>>, 7)>>, <<Circle(2, <<0, 0>>, 8), Circle(3, <<13, 0>>, 4)>> },
      p \in { <<-3, 0>>, <<14, 1>> } }
  \cup { Drawing(<<Circle(3, <<0, 0>>, 7), Circle(2, <<14, 0>>, 5)>>, <<0, 2>>, <<14, 1>>, <<14, -1>>),
         [circles |-> <<>>, positions |-> <<>>] }

\* Two nodes in two circles, which change places in the drawing and in the list.
TwoTexts ==
  { Ring \o << <<"circle", "f", <<0, 0>>, 6>>, <<"circle", "g", <<14, 0>>, 5>>,
              <<"position", "one", <<3, 0>> >>, <<"position", "two", <<14, 1>> >> >> }
Exchanged ==
  { [circles |-> <<Circle(2, <<0, 0>>, 6), Circle(3, <<14, 0>>, 5)>>,
     positions |-> << [id |-> 2, pos |-> <<3, 0>>], [id |-> 1, pos |-> <<14, 1>>] >>] }
=============================================================================
