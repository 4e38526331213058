------------------------------- MODULE Format -------------------------------
(***************************************************************************)
(* The .mgc container (src/bytecode/format.c): an image as the file that   *)
(* arc_image_write makes of it, and what arc_image_read makes of a file.   *)
(*                                                                         *)
(* A file is a sequence of fields <<width, value>>; the width of the bytes *)
(* of a string or of an instruction is 0, for "as many as it has".  A      *)
(* reader that finds the end of the file, or a field of another width,     *)
(* fails.  The two fields of an upvalue are one here.  An image has no     *)
(* debug entries, as Compiler says, but it has their count.                *)
(***************************************************************************)
EXTENDS Integers, Sequences, SequencesExt

Magic == "ARCA"
Version == 1   \* 0.1
ConstantTags == {"null", "bool", "i64", "f64", "str"}

-----------------------------------------------------------------------------
WriteConstant(v) ==
  CASE v[1] = "null" -> << <<1, "null">> >>
    [] v[1] = "bool" -> << <<1, "bool">>, <<1, v[2]>> >>
    [] v[1] \in {"i64", "f64"} -> << <<1, v[1]>>, <<8, v[2]>> >>
    [] v[1] = "str" -> << <<1, "str">>, <<4, 1>>, <<0, v[2]>> >>

WriteFunction(f) ==
  << <<2, f.name_const_idx>>, <<1, f.arity>>, <<2, f.local_count>>, <<2, f.max_stack>>,
     <<4, f.code_offset>>, <<4, f.code_length>>, <<1, Len(f.upvalues)>> >>
  \o [i \in 1 .. Len(f.upvalues) |-> <<3, f.upvalues[i]>>]

arc_image_write(img) ==
  << <<4, Magic>>, <<2, Version>>, <<2, 0>>, <<2, Len(img.constants)>>, <<2, Len(img.functions)>> >>
  \o FlattenSeq([i \in 1 .. Len(img.constants) |-> WriteConstant(img.constants[i])])
  \o FlattenSeq([i \in 1 .. Len(img.functions) |-> WriteFunction(img.functions[i])])
  \o << <<4, Len(img.code)>> >> \o [i \in 1 .. Len(img.code) |-> <<0, img.code[i]>>]
  \o << <<4, 0>> >>

-----------------------------------------------------------------------------
(* A Reader has its position in the file, the fields read last, and the    *)
(* image so far.  One that has failed reads nothing more.                  *)

ReadFields(data, r, widths) ==
  LET n == Len(widths) IN
  IF r.ok /\ r.pos + n <= Len(data) /\ \A i \in 1 .. n : data[r.pos + i][1] = widths[i]
  THEN [r EXCEPT !.pos = @ + n, !.got = [i \in 1 .. n |-> data[r.pos + i][2]]]
  ELSE [r EXCEPT !.ok = FALSE]
Times(n, width) == [i \in 1 .. n |-> width]

\* What follows the tag of a constant.
ConstantWidths(tag) ==
  CASE tag = "null" -> <<>> [] tag = "bool" -> <<1>> [] tag \in {"i64", "f64"} -> <<8>>
    [] OTHER -> <<4, 0>>

\* Constants are put into the pool as the compiler puts them.
PoolAdd(r, v) == IF Contains(r.constants, v) THEN r ELSE [r EXCEPT !.constants = Append(@, v)]
read_constant(data, r) ==
  LET tag == ReadFields(data, r, <<1>>)
      widths == ConstantWidths(tag.got[1])
      value == ReadFields(data, tag, widths)
  IN  IF ~ tag.ok THEN tag
      ELSE IF tag.got[1] \notin ConstantTags THEN [tag EXCEPT !.ok = FALSE]
      ELSE IF ~ value.ok THEN value
      ELSE PoolAdd(value, <<tag.got[1], IF widths = <<>> THEN 0 ELSE value.got[Len(widths)]>>)
read_constants(data, r, count) ==
  LET after[i \in 0 .. count] == IF i = 0 THEN r ELSE read_constant(data, after[i - 1])
  IN  after[count]

SwappedFields(data, r) ==   \* mutant of read_function: local_count and max_stack
  LET f == ReadFields(data, r, <<2, 1, 2, 2, 4, 4, 1>>)
      ups == ReadFields(data, f, Times(f.got[7], 3))
  IN  IF ~ f.ok THEN f
      ELSE IF ~ ups.ok THEN ups
      ELSE [ups EXCEPT !.functions = Append(@,
              [name_const_idx |-> f.got[1], arity |-> f.got[2], local_count |-> f.got[4],
               max_stack |-> f.got[3], code_offset |-> f.got[5], code_length |-> f.got[6],
               upvalues |-> ups.got])]
read_function(data, r) ==
  LET f == ReadFields(data, r, <<2, 1, 2, 2, 4, 4, 1>>)
      ups == ReadFields(data, f, Times(f.got[7], 3))
  IN  IF ~ f.ok THEN f
      ELSE IF ~ ups.ok THEN ups
      ELSE [ups EXCEPT !.functions = Append(@,
              [name_const_idx |-> f.got[1], arity |-> f.got[2], local_count |-> f.got[3],
               max_stack |-> f.got[4], code_offset |-> f.got[5], code_length |-> f.got[6],
               upvalues |-> ups.got])]
read_functions(data, r, count) ==
  LET after[i \in 0 .. count] == IF i = 0 THEN r ELSE read_function(data, after[i - 1])
  IN  after[count]

\* The version and the flags are not looked at.  A file that ends with its code
\* is complete.
NewReader == [pos |-> 0, got |-> <<>>, ok |-> TRUE, constants |-> <<>>, functions |-> <<>>]
NoImage == [ok |-> FALSE]
arc_image_read(data) ==
  LET header == ReadFields(data, NewReader, <<4, 2, 2, 2, 2>>)
      constants == read_constants(data, header, header.got[4])
      functions == read_functions(data, constants, header.got[5])
      length == ReadFields(data, functions, <<4>>)
      code == ReadFields(data, length, Times(length.got[1], 0))
      debug == IF code.pos < Len(data) THEN ReadFields(data, code, <<4>>) ELSE code
  IN  IF ~ header.ok \/ header.got[1] # Magic THEN NoImage
      ELSE IF ~ length.ok \/ ~ code.ok \/ ~ debug.ok THEN NoImage
      ELSE [ok |-> TRUE, constants |-> code.constants, functions |-> code.functions,
            code |-> code.got]

-----------------------------------------------------------------------------
(* The images that a file can hold: constants of the known kinds, each in  *)
(* the pool once, functions with all their fields, and no more of them     *)
(* than the fields of the counts can say.                                  *)

CountLimit == 65536     \* uint16_t
UpvalueLimit == 256     \* uint8_t
Constant(v) ==
  v = <<v[1], v[2]>> /\ v[1] \in ConstantTags /\ (v[1] = "null" => v[2] = 0)
FunctionRecord(f) ==
  /\ f = [name_const_idx |-> f.name_const_idx, arity |-> f.arity, local_count |-> f.local_count,
          max_stack |-> f.max_stack, code_offset |-> f.code_offset, code_length |-> f.code_length,
          upvalues |-> f.upvalues]
  /\ f.upvalues \in Seq(Range(f.upvalues)) /\ Len(f.upvalues) < UpvalueLimit
WellFormed(img) ==
  /\ img.constants \in Seq(Range(img.constants))
  /\ img.functions \in Seq(Range(img.functions))
  /\ img.code \in Seq(Range(img.code))
  /\ Len(img.constants) < CountLimit /\ Len(img.functions) < CountLimit
  /\ \A i \in DOMAIN img.constants : Constant(img.constants[i])
  /\ \A i, j \in DOMAIN img.constants : img.constants[i] = img.constants[j] => i = j
  /\ \A i \in DOMAIN img.functions : FunctionRecord(img.functions[i])
=============================================================================
