------------------------------ MODULE Service -------------------------------
(***************************************************************************)
(* The tooling service (src/service/arcana_service.c): the stages that its *)
(* three entries take a text through, what each of them allocates, what    *)
(* the result says of them, and how it is freed.  The tools arcana-compile *)
(* and arcana-run go through the same stages, with a file in between.      *)
(*                                                                         *)
(* A text says whether it parses and whether its graph is valid, and has   *)
(* the program.  What the stages compute is a parameter of this module:    *)
(* Typecheck, Compile, Verify and Lower are arc_typecheck, arc_compile,    *)
(* arc_verify and arc_semantic_lower; the file is that of Format.  The     *)
(* VM's steps are given by Pipeline.                                       *)
(***************************************************************************)
EXTENDS Integers, Sequences, Format

CONSTANTS Texts, NullValue, Typecheck(_), Compile(_), Verify(_), Lower(_)

\* What the compiler makes of a program it does not refuse is an image that a file
\* can hold.
ASSUME CompileAssumption ==
  \A t \in Texts : LET img == Compile(t.program) IN img.success => WellFormed(img)

VARIABLES
  text, entry,    \* what is to be done: "run", "check", "compile", or "file",
                  \* arcana-compile --dump-hir followed by arcana-run
  pc,             \* the stage to come
  result,         \* the ArcServiceResult
  live,           \* the resources that are allocated
  hir,            \* the HIR that was dumped, valid or not
  image,          \* the bytecode image
  file,           \* the .mgc file
  vm

vars == <<text, entry, pc, result, live, hir, image, file, vm>>

program == text.program
NoHir == [success |-> FALSE]
vm_idle == [status |-> "idle", why |-> "", ip |-> 0, stack |-> <<>>, frames |-> <<>>,
            handlers |-> <<>>, out |-> <<>>]

result_new ==
  [stage |-> "none", ok |-> FALSE, error |-> FALSE, has |-> {}, value |-> NullValue]

Init ==
  /\ text \in Texts
  /\ entry \in {"run", "check", "compile", "file"}
  /\ pc = "parse"
  /\ result = result_new
  /\ live = {}
  /\ hir = NoHir
  /\ image = NoImage
  /\ file = <<>>
  /\ vm = vm_idle

-----------------------------------------------------------------------------
(* The stages.  Each fails with its own stage and a message or passes to   *)
(* the next one.                                                           *)

result_fail(s) == [result EXCEPT !.stage = s, !.ok = FALSE, !.error = TRUE]
Reached(s) == [result EXCEPT !.stage = s]
Service == entry # "file"
Ended == IF Service THEN "returned" ELSE "exited"
Failed(s) == pc' = Ended /\ result' = result_fail(s)

\* The parser has built a graph also when it fails.
stage_parse ==
  /\ pc = "parse"
  /\ live' = live \cup {"graph"}
  /\ IF text.parses
     THEN pc' = "validate" /\ result' = [Reached("parse") EXCEPT !.has = @ \cup {"graph"}]
     ELSE Failed("parse")
  /\ UNCHANGED <<text, entry, hir, image, file, vm>>

stage_validate ==
  /\ pc = "validate"
  /\ IF text.valid
     THEN pc' = (IF Service THEN "typecheck" ELSE "dump_hir") /\ result' = Reached("validate")
     ELSE Failed("validate")
  /\ UNCHANGED <<text, entry, live, hir, image, file, vm>>

\* Only the check stops at a type error.
stage_typecheck ==
  /\ pc = "typecheck"
  /\ live' = live \cup {"tc"}
  /\ LET had == [result EXCEPT !.has = @ \cup {"tc"}]
         checked == IF Typecheck(program) THEN [had EXCEPT !.stage = "typecheck", !.ok = entry = "check"]
                    ELSE [had EXCEPT !.stage = "typecheck", !.ok = FALSE, !.error = TRUE]
     IN  /\ result' = checked
         /\ pc' = IF entry = "check" THEN "returned" ELSE "compile"
  /\ UNCHANGED <<text, entry, hir, image, file, vm>>

\* The HIR is printed, if the lowering succeeds, and freed; the compiler takes
\* the program itself, whatever came out of the lowering.
dump_hir ==
  /\ pc = "dump_hir"
  /\ hir' = Lower(program)
  /\ pc' = "compile"
  /\ UNCHANGED <<text, entry, result, live, image, file, vm>>

\* A folded division by zero ends the process.
stage_compile ==
  /\ pc = "compile"
  /\ image' = Compile(program)
  /\ live' = live \cup {"cr"}
  /\ LET had == [result EXCEPT !.stage = "compile", !.has = @ \cup {"cr"}] IN
     IF image'.trap THEN pc' = "trapped" /\ result' = result
     ELSE IF image'.success THEN pc' = "verify" /\ result' = had
     ELSE pc' = Ended /\ result' = [had EXCEPT !.ok = FALSE, !.error = TRUE]
  /\ UNCHANGED <<text, entry, hir, file, vm>>

stage_verify ==
  /\ pc = "verify"
  /\ IF Verify(image)
     THEN \/ entry = "compile" /\ pc' = "returned" /\ result' = [Reached("verify") EXCEPT !.ok = TRUE]
          \/ entry = "run" /\ pc' = "setup" /\ result' = Reached("verify")
          \/ entry = "file" /\ pc' = "write" /\ result' = Reached("verify")
     ELSE Failed("verify")
  /\ UNCHANGED <<text, entry, live, hir, image, file, vm>>

\* arcana-compile makes the bytes and opens the file, either of which may fail,
\* and writes it without a look at how much was written.
WriteFile ==
  /\ pc = "write"
  /\ \/ LET bytes == arc_image_write(image) IN
        /\ \E n \in 0 .. Len(bytes) : file' = SubSeq(bytes, 1, n)
        /\ pc' = "read"
     \/ pc' = "exited" /\ UNCHANGED file
  /\ live' = {}
  /\ UNCHANGED <<text, entry, result, hir, image, vm>>

\* arcana-run reads it and verifies what it has read.
ReadFile ==
  /\ pc = "read"
  /\ LET img == arc_image_read(file) IN
     /\ image' = img
     /\ pc' = IF img.ok /\ Verify(img) THEN "setup" ELSE "exited"
  /\ UNCHANGED <<text, entry, result, live, hir, file, vm>>

stage_run ==
  /\ pc = "setup"
  /\ pc' = "vm"
  /\ live' = live \cup {"vm"}
  /\ result' = [result EXCEPT !.has = @ \cup {"vm"}]
  /\ LET main == image.functions[1] IN
     vm' = [vm EXCEPT !.status = "running", !.ip = main.code_offset,
                      !.stack = [i \in 1 .. main.local_count |-> NullValue],
                      !.frames = << [func |-> 1, return_ip |-> 0, base |-> 0] >>]
  /\ UNCHANGED <<text, entry, hir, image, file>>

\* A step of the VM touches nothing else.
OnlyVm ==
  /\ pc = "vm" /\ vm.status = "running"
  /\ UNCHANGED <<text, entry, pc, result, live, hir, image, file>>

arc_vm_result == IF vm.stack = <<>> THEN NullValue ELSE vm.stack[Len(vm.stack)]
RunEnds ==
  /\ pc = "vm" /\ vm.status # "running"
  /\ IF vm.status = "error" THEN Failed("run")
     ELSE /\ pc' = Ended
          /\ result' = [Reached("run") EXCEPT !.ok = Service, !.value = arc_vm_result]
  /\ UNCHANGED <<text, entry, live, hir, image, file, vm>>

\* What the flags say is freed.
KeepTypes ==   \* mutant of arc_service_free: the type checker's result is forgotten
  /\ pc = "returned"
  /\ pc' = "freed"
  /\ live' = live \ (result.has \ {"tc"})
  /\ UNCHANGED <<text, entry, result, hir, image, file, vm>>
arc_service_free ==
  /\ pc = "returned"
  /\ pc' = "freed"
  /\ live' = live \ result.has
  /\ UNCHANGED <<text, entry, result, hir, image, file, vm>>

Stage ==
  \/ stage_parse \/ stage_validate \/ stage_typecheck \/ dump_hir \/ stage_compile \/ stage_verify
  \/ WriteFile \/ ReadFile \/ stage_run \/ RunEnds \/ arc_service_free

\* The service with any VM at all: its steps leave it running, halted or with an
\* error (vm_exec_*, vm_error).
AnyVmStep == OnlyVm /\ vm'.status \in {"running", "halted", "error"}
ServiceSpec == Init /\ [][Stage \/ AnyVmStep]_vars

-----------------------------------------------------------------------------
\* A result says what happened (arcana_service.c:66): it is good when the entry's
\* last stage was passed, and then has what the accessors hand out; otherwise it
\* has an error.  Once it is freed the service holds nothing, whichever stage
\* failed; a graph whose text did not parse to the end is the exception.
Goal == CASE entry = "run" -> "run" [] entry = "check" -> "typecheck" [] OTHER -> "verify"
ServiceContract ==
  /\ pc = "returned" =>
       /\ result.ok => result.stage = Goal
       /\ result.ok /\ entry = "run" => vm.status = "halted" /\ result.value = arc_vm_result
       /\ result.ok /\ entry # "check" => "cr" \in result.has /\ image.success
       /\ ~ result.ok => result.error
  /\ pc = "freed" => live \subseteq (IF text.parses THEN {} ELSE {"graph"})

\* arcana-run starts only what arcana-compile has compiled, however much of the
\* file was written.
FileRunsSame ==
  pc = "setup" /\ entry = "file" =>
    LET compiled == Compile(program) IN
    /\ image.constants = compiled.constants
    /\ image.functions = compiled.functions
    /\ image.code = compiled.code

-----------------------------------------------------------------------------
(* The inductive invariant behind them.                                      *)

TypeOK ==
  /\ entry \in {"run", "check", "compile", "file"}
  /\ pc \in {"parse", "validate", "typecheck", "dump_hir", "compile", "verify", "write", "read",
             "setup", "vm", "trapped", "returned", "exited", "freed"}
  /\ result \in [stage : {"none", "parse", "validate", "typecheck", "compile", "verify", "run"},
                 ok : BOOLEAN, error : BOOLEAN, has : SUBSET {"graph", "tc", "cr", "vm"},
                 value : {result.value}]
  /\ live \subseteq {"graph", "tc", "cr", "vm"}

\* Which stages an entry comes to, and what holds on the way: nothing is good
\* before the end, the text has parsed, what is verified was compiled, and the VM is
\* idle until it is set up.
OnTheWay == pc \notin {"trapped", "returned", "exited", "freed"}
FlowInv ==
  /\ pc \in {"typecheck", "returned", "freed"} => Service
  /\ pc \in {"dump_hir", "write", "read", "exited"} => ~ Service
  /\ pc \in {"compile", "verify"} => entry # "check"
  /\ pc \in {"setup", "vm"} => entry \in {"run", "file"}
  /\ OnTheWay => ~ result.ok /\ (pc = "parse" \/ text.parses)
  /\ OnTheWay /\ pc # "vm" => vm = vm_idle
  /\ pc = "vm" => vm.status \in {"running", "halted", "error"}
  /\ pc \in {"verify", "setup", "vm"} /\ Service => "cr" \in result.has /\ image.success

\* The flags of the result are the resources the service holds, but for the
\* graph of a text that did not parse.
OwnedInv ==
  Service /\ (OnTheWay \/ pc = "returned") =>
    live = result.has \cup (IF pc = "parse" \/ text.parses THEN {} ELSE {"graph"})

ServiceInv == TypeOK /\ FlowInv /\ OwnedInv /\ ServiceContract

\* What is verified and written is what was compiled, and what is read is a
\* beginning of what was written.
FileInv ==
  /\ text \in Texts
  /\ pc \in {"verify", "write", "read"} => Compile(program).success
  /\ pc \in {"verify", "write"} => image = Compile(program)
  /\ pc = "read" => LET bytes == arc_image_write(Compile(program)) IN
                    \E n \in 0 .. Len(bytes) : file = SubSeq(bytes, 1, n)
  /\ FileRunsSame
=============================================================================
