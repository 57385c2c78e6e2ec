------------------------------- MODULE Loader -------------------------------
(***************************************************************************)
(* The loader (src/VM/parser.cpp): a program text becomes the bytecode,    *)
(* the closure templates and the names of the closures.                    *)
(*                                                                         *)
(* A program is a sequence of lines, a line a tuple: the instruction, then *)
(* its operands.  Comments are left out, and "store stig x" is             *)
(* <<"store stig", "x">>.  A closure definition is the line                *)
(* <<"define_closure", name, arguments, dependencies>>, the last two being *)
(* sequences of names.  Jumps go to labels, never to numbers.              *)
(*                                                                         *)
(* The bytecode is a sequence of cells, counted from 0: an instruction     *)
(* takes one cell and each operand another one.                            *)
(***************************************************************************)
EXTENDS Integers, SequencesExt

CONSTANT Text       \* Text[p]: the text of program p; each robot is given one

Program == DOMAIN Text

(* The words a line may begin with, as the table of handlers has them.     *)
(* is_nil is loaded as a jump, too.  There is no dup and no swap.          *)
Jump == {"jmp", "jmp_if_zero", "jmp_if_not_zero", "is_nil"}
Label == {"label", "func"}
Simple ==
    {"push_nil", "pop", "add", "sub", "mul", "div", "mod", "print", "eql", "neql", "gt",
     "gte", "lt", "lte", "land", "lor", "lnot", "end", "call_closure", "ret_from_closure",
     "uncache", "spin"}
WithName ==
    {"load", "store local", "store global", "store tagged", "store stig", "tag robot",
     "call_c_closure", "push_next_in_stig", "is_iter_at_end", "reset_iter", "stig_size",
     "debug_print"}
instructionHandlers ==
    Jump \cup Label \cup Simple \cup WithName \cup {"push i", "tag variable", "define_closure"}

InstructionCell(name) == [kind |-> "instruction", value |-> name]
ArgumentCell(x) == [kind |-> "argument", value |-> x]
LocationCell(label) == [kind |-> "location", value |-> label]

(* What the handlers of a line append to the bytecode: nothing for labels  *)
(* and definitions.                                                        *)
handleJump(line) == <<InstructionCell(line[1]), LocationCell(line[2])>>
handleSimple(line) == <<InstructionCell(line[1])>>
handleNamed(line) == <<InstructionCell(line[1]), ArgumentCell(line[2])>>
handlePush(line) == <<InstructionCell("push i"), ArgumentCell(line[2])>>
handleTag(line) ==
    <<InstructionCell("tag variable"), ArgumentCell(line[2]), ArgumentCell(line[3])>>

CellsOf(line) ==
    CASE line[1] \in Label \cup {"define_closure"} -> <<>>
      [] line[1] \in Jump -> handleJump(line)
      [] line[1] \in Simple -> handleSimple(line)
      [] line[1] \in WithName -> handleNamed(line)
      [] line[1] = "push i" -> handlePush(line)
      [] line[1] = "tag variable" -> handleTag(line)

Cells(text) == FlattenSeq([i \in DOMAIN text |-> CellsOf(text[i])])

(* bytecode.size() when line i is read. *)
Position(text, i) == Len(Cells(SubSeq(text, 1, i - 1)))

LinesWith(text, instructions) == {i \in DOMAIN text : text[i][1] \in instructions}

(* Where each label points; the last line with a name counts. *)
labelledLocations(text) ==
    LET lines == LinesWith(text, Label)
    IN [name \in {text[i][2] : i \in lines} |->
            Position(text, Max({i \in lines : text[i][2] = name}))]

(* An unknown instruction ends the loading, and so does a jump to a label  *)
(* that is not there.                                                      *)
IsLoadable(text) ==
    /\ \A i \in DOMAIN text : text[i][1] \in instructionHandlers
    /\ LET labels == DOMAIN labelledLocations(text)
       IN \A i \in LinesWith(text, Jump) : text[i][2] \in labels

(* The second pass over the bytecode: locations become numbers. *)
load(text) ==
    LET cells == Cells(text)
        locations == labelledLocations(text)
        Patched(cell) ==
            IF cell.kind = "location" THEN ArgumentCell(locations[cell.value]) ELSE cell
    IN [pc \in 0 .. Len(cells) - 1 |-> Patched(cells[pc + 1])]

bytecode == LET text == Text IN [p \in DOMAIN text |-> load(text[p])]
BytecodeSize == LET text == Text IN [p \in DOMAIN text |-> Len(Cells(text[p]))]

------------------------------------------------------------------------------
(* Closure templates, in the order of their definition, which is their     *)
(* order in the closure list, counted from 0.  A call sets the program     *)
(* counter to codePointer and step() adds one to it, so that it is the     *)
(* cell before the first of the body.                                      *)
handleDefineClosure(text, i) ==
    [name |-> text[i][2],
     codePointer |-> Position(text, i) - 1,
     argNames |-> text[i][3],
     dependencies |-> text[i][4]]

Definitions(text) ==
    LET Defines(i) == text[i][1] = "define_closure"
        lines == SelectSeq([i \in DOMAIN text |-> i], Defines)
    IN [t \in 0 .. Len(lines) - 1 |-> handleDefineClosure(text, lines[t + 1])]

Definition == LET text == Text IN [p \in DOMAIN text |-> Definitions(text[p])]

(* Templates are counted from 0; arguments and dependencies are names. *)
ASSUME DefinitionAssumption ==
    \A p \in Program :
        /\ IsFiniteSet(DOMAIN Definition[p])
        /\ DOMAIN Definition[p] = 0 .. Cardinality(DOMAIN Definition[p]) - 1
        /\ \A t \in DOMAIN Definition[p] :
              /\ Definition[p][t].argNames \in Seq(STRING)
              /\ Definition[p][t].dependencies \in Seq(STRING)

(* A closure's name is a global variable, which holds the last template of *)
(* that name.                                                              *)
ClosureName(p) == {Definition[p][t].name : t \in DOMAIN Definition[p]}
TemplateOf(p, name) == Max({t \in DOMAIN Definition[p] : Definition[p][t].name = name})
==============================================================================
