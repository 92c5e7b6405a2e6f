----------------------------- MODULE FileParser -----------------------------
(***************************************************************************)
(* main.c and file_parser.c: from the command line to a code memory.  The  *)
(* file is read twice, once to count its lines and once to translate them, *)
(* and belongs to somebody else in the meantime.  A line is what strtok    *)
(* makes of it, not its characters.  What is simulated afterwards is the   *)
(* subject of ApexCpu; here APEX_cpu_run is one step.                      *)
(***************************************************************************)
EXTENDS Integers, Sequences

CONSTANTS
  Files,   \* the contents the file may have, sequences of lines
  Stale    \* the values that may be left in a token that was not filled

(* An operand, as it is written: after R or #, or without either.  long    *)
(* says that the rest has more than the 15 characters there is room for.   *)
(* A number is one an int can hold: atoi has no result for another.        *)
INT_MAX == 2147483647
CInt == -INT_MAX - 1 .. INT_MAX
Operand == [mark : {"R", "#", ""}, value : CInt, long : BOOLEAN]

(* A line: the text of the opcode, the operands between commas, where the  *)
(* newline is (it belongs to the word in front of it, and is a word of its *)
(* own behind a space), and how many more words there are.                 *)
Line == [mnemonic : STRING, operands : Seq(Operand),
         newline : {"mnemonic", "operands", "apart", "none"}, extra : Nat]

ASSUME FilesAssumption == Files \subseteq Seq(Line)
ASSUME StaleAssumption == Stale \subseteq Int /\ Stale # {}

VARIABLES
  at,           \* where the program is, or how it ended
  argc,
  file,         \* the lines of the file now
  seekable,     \* FALSE for a pipe, which rewind leaves where it is
  changed,      \* history: the file was changed while it was open
  fp_open,      \* the file is open
  position,     \* lines read since the file was opened or rewound
  line_buffer,  \* the buffer getline has allocated for line is still there
  code_memory_size,
  code_memory,  \* the instructions, from 1; empty before it is allocated
  current_instruction,
  cpu           \* APEX_CPU is allocated

vars == <<at, argc, file, seekable, changed, fp_open, position, line_buffer,
          code_memory_size, code_memory, current_instruction, cpu>>

hostVars   == <<argc, seekable>>
memoryVars == <<code_memory_size, code_memory, current_instruction>>

Ends == {"exit1", "aborted", "undefined", "done"}

----------------------------------------------------------------------------
(* The translation of a line *)

(* set_opcode_str: every opcode by its own name but one. *)
Opcodes == {"ADD", "ADDL", "SUB", "SUBL", "MUL", "DIV", "AND", "OR", "XOR", "MOVC", "LOAD",
            "STORE", "BZ", "BNZ", "HALT", "JALR", "RET", "BP", "BNP", "JUMP", "CMP", "NOP"}

Mnemonic(opcode) == IF opcode = "XOR" THEN "EXOR" ELSE opcode

set_opcode_str(text) == {opcode \in Opcodes : Mnemonic(opcode) = text}

(* An opcode with a newline at its end is none. *)
OpcodeOf(line) == IF line.newline = "mnemonic" THEN {} ELSE set_opcode_str(line.mnemonic)

(* The words strtok finds; there is room for two. *)
Words(line) == 1 + (IF line.operands = << >> THEN 0 ELSE 1)
                 + (IF line.newline = "apart" THEN 1 ELSE 0) + line.extra

(* get_num_from_string leaves out the first character, whatever it is: a   *)
(* number without a mark loses its sign or its first digit.                *)
Tens == {10, 100, 1000, 10000, 100000, 1000000, 10000000, 100000000, 1000000000}
Leading(v) == CHOOSE p \in Tens : p <= v /\ v \div p < 10
get_num_from_string(o) ==
  IF o.mark # "" THEN o.value
  ELSE IF o.value < 0 THEN -o.value
  ELSE IF o.value < 10 THEN 0
  ELSE o.value % Leading(o.value)

Names == {Mnemonic(opcode) : opcode \in Opcodes}
Instruction == [opcode_str : Names \cup {""}, opcode : Opcodes,
                rd : Int, rs1 : Int, rs2 : Int, imm : Int]

(* Mutant: the opcodes are numbered from 1. *)
NoOpcode == [opcode_str |-> "", opcode |-> "", rd |-> 0, rs1 |-> 0, rs2 |-> 0, imm |-> 0]

(* What calloc leaves; opcode 0 is ADD. *)
NoInstruction == [opcode_str |-> "", opcode |-> "ADD", rd |-> 0, rs1 |-> 0, rs2 |-> 0, imm |-> 0]

(* The fields the operands go to, in their order. *)
Fields(opcode) ==
  CASE opcode \in {"ADD", "SUB", "MUL", "DIV", "AND", "OR", "XOR"} -> <<"rd", "rs1", "rs2">>
    [] opcode = "MOVC"                                -> <<"rd", "imm">>
    [] opcode \in {"ADDL", "SUBL", "LOAD", "JALR"}    -> <<"rd", "rs1", "imm">>
    [] opcode = "STORE"                               -> <<"rs1", "rs2", "imm">>
    [] opcode \in {"BZ", "BNZ", "BNP", "BP"}          -> <<"imm">>
    [] opcode = "JUMP"                                -> <<"rs1", "imm">>
    [] opcode = "CMP"                                 -> <<"rs1", "rs2">>
    [] opcode = "RET"                                 -> <<"rs1">>
    [] opcode \in {"HALT", "NOP"}                     -> << >>

(* The value of token k: an operand that is missing is what the array of   *)
(* tokens, which is never initialised, has there; a newline is a token.    *)
TokenValues(line, k) ==
  IF k <= Len(line.operands) THEN {get_num_from_string(line.operands[k])}
  ELSE IF k = 1 /\ line.newline = "apart" THEN {0}
  ELSE Stale

(* The values a field of the instruction may get. *)
FieldValues(line, opcode, field) ==
  IF \E k \in DOMAIN Fields(opcode) : Fields(opcode)[k] = field
  THEN TokenValues(line, CHOOSE k \in DOMAIN Fields(opcode) : Fields(opcode)[k] = field)
  ELSE {0}

(* The instructions the line may become, none if its opcode is invalid.    *)
Translations(line) ==
  UNION {[opcode_str : {line.mnemonic}, opcode : {opcode},
          rd  : FieldValues(line, opcode, "rd"), rs1 : FieldValues(line, opcode, "rs1"),
          rs2 : FieldValues(line, opcode, "rs2"), imm : FieldValues(line, opcode, "imm")] :
         opcode \in OpcodeOf(line)}

(* The arrays of two words and of six tokens, and the 16 characters of a   *)
(* number that is used.                                                    *)
Overflows(line) ==
  \/ Words(line) > 2
  \/ Len(line.operands) > 6
  \/ \E opcode \in OpcodeOf(line), k \in DOMAIN line.operands :
       k <= Len(Fields(opcode)) /\ line.operands[k].long

(* print_instruction, the other table of the formats. *)
Register(n) == [mark |-> "R", value |-> n, long |-> FALSE]
Literal(n)  == [mark |-> "#", value |-> n, long |-> FALSE]
print_instruction(ins) ==
  [mnemonic |-> ins.opcode_str,
   operands |->
     CASE ins.opcode \in {"ADD", "SUB", "MUL", "DIV", "AND", "OR", "XOR"} ->
            <<Register(ins.rd), Register(ins.rs1), Register(ins.rs2)>>
       [] ins.opcode = "MOVC" -> <<Register(ins.rd), Literal(ins.imm)>>
       [] ins.opcode \in {"ADDL", "SUBL", "LOAD", "JALR"} ->
            <<Register(ins.rd), Register(ins.rs1), Literal(ins.imm)>>
       [] ins.opcode = "CMP" -> <<Register(ins.rs1), Register(ins.rs2)>>
       [] ins.opcode = "STORE" -> <<Register(ins.rs1), Register(ins.rs2), Literal(ins.imm)>>
       [] ins.opcode \in {"BZ", "BNZ", "BNP", "BP"} -> <<Literal(ins.imm)>>
       [] ins.opcode \in {"NOP", "HALT"} -> << >>
       [] ins.opcode = "JUMP" -> <<Register(ins.rs1), Literal(ins.imm)>>
       [] ins.opcode = "RET" -> <<Register(ins.rs1)>>]

----------------------------------------------------------------------------
(* main and APEX_cpu_init *)

Init ==
  /\ at = "main"
  /\ argc \in 1 .. 3
  /\ file \in Files
  /\ seekable \in BOOLEAN
  /\ changed = FALSE
  /\ fp_open = FALSE
  /\ position = 0
  /\ line_buffer = FALSE
  /\ code_memory_size = 0
  /\ code_memory = << >>
  /\ current_instruction = 0
  /\ cpu = FALSE

CheckArguments ==
  /\ at = "main"
  /\ at' = IF argc = 2 THEN "init" ELSE "exit1"
  /\ UNCHANGED <<hostVars, file, changed, fp_open, position, line_buffer, memoryVars, cpu>>

(* calloc of the cpu may fail. *)
APEX_cpu_init ==
  /\ at = "init"
  /\ \/ at' = "open" /\ cpu' = TRUE
     \/ at' = "exit1" /\ UNCHANGED cpu
  /\ UNCHANGED <<hostVars, file, changed, fp_open, position, line_buffer, memoryVars>>

(* create_code_memory returns NULL, APEX_cpu_init frees the cpu, and main  *)
(* gives up.                                                               *)
NoCodeMemory == at' = "exit1" /\ cpu' = FALSE

(* There may be no such file, or no right to read it. *)
Open ==
  /\ at = "open"
  /\ \/ at' = "count" /\ fp_open' = TRUE /\ UNCHANGED cpu
     \/ NoCodeMemory /\ UNCHANGED fp_open
  /\ UNCHANGED <<hostVars, file, changed, position, line_buffer, memoryVars>>

CountLine ==
  /\ at = "count"
  /\ position < Len(file)
  /\ position' = position + 1
  /\ code_memory_size' = code_memory_size + 1
  /\ line_buffer' = TRUE
  /\ UNCHANGED <<at, hostVars, file, changed, fp_open, code_memory, current_instruction, cpu>>

(* Mutant: the file stays open if it is empty. *)
CloseIfAllocated == fp_open' = (code_memory_size = 0)

CloseWithoutMemory == fp_open' = FALSE

(* No lines, or no memory for them.  getline has allocated its buffer even *)
(* if there is no line, and here nothing frees it.                         *)
CountFails ==
  /\ at = "count"
  /\ position >= Len(file)
  /\ NoCodeMemory
  /\ CloseWithoutMemory
  /\ line_buffer' = TRUE
  /\ UNCHANGED <<hostVars, file, changed, position, memoryVars>>

(* Mutant: the file is not rewound. *)
StaysAtEnd == position

rewind == IF seekable THEN 0 ELSE position

(* Mutant: room for the instructions but the last. *)
AllocatedOffByOne == [k \in 1 .. code_memory_size - 1 |-> NoInstruction]

Allocated == [k \in 1 .. code_memory_size |-> NoInstruction]

Allocate ==
  /\ at = "count"
  /\ position >= Len(file)
  /\ code_memory_size # 0
  /\ code_memory' = Allocated
  /\ position' = rewind
  /\ at' = "parse"
  /\ UNCHANGED <<hostVars, file, changed, fp_open, line_buffer, code_memory_size,
                 current_instruction, cpu>>

(* The next instruction has its place in the block; there is no test.      *)
HasRoom == current_instruction + 1 \in DOMAIN code_memory

ParseLine ==
  /\ at = "parse"
  /\ position < Len(file)
  /\ LET line == file[position + 1]
     IN  \/ /\ HasRoom /\ ~Overflows(line)
            /\ \E ins \in Translations(line) :
                 code_memory' = [code_memory EXCEPT ![current_instruction + 1] = ins]
            /\ current_instruction' = current_instruction + 1
            /\ position' = position + 1
            /\ UNCHANGED at
         \/ (* the assertion "Invalid opcode" *)
            /\ HasRoom /\ ~Overflows(line)
            /\ OpcodeOf(line) = {}
            /\ at' = "aborted"
            /\ UNCHANGED <<code_memory, current_instruction, position>>
         \/ /\ ~HasRoom \/ Overflows(line)
            /\ at' = "undefined"
            /\ UNCHANGED <<code_memory, current_instruction, position>>
  /\ UNCHANGED <<hostVars, file, changed, fp_open, line_buffer, code_memory_size, cpu>>

ParseDone ==
  /\ at = "parse"
  /\ position >= Len(file)
  /\ fp_open' = FALSE
  /\ line_buffer' = FALSE
  /\ at' = "run"
  /\ UNCHANGED <<hostVars, file, changed, position, memoryVars, cpu>>

(* APEX_cpu_run, APEX_cpu_stop and the end of main. *)
Run ==
  /\ at = "run"
  /\ at' = "done"
  /\ code_memory' = << >>
  /\ cpu' = FALSE
  /\ UNCHANGED <<hostVars, file, changed, fp_open, position, line_buffer, code_memory_size,
                 current_instruction>>

(* Somebody else changes the file, once, while it is open. *)
FileChanges ==
  /\ fp_open /\ at \notin Ends
  /\ ~changed
  /\ changed' = TRUE
  /\ file' \in Files
  /\ UNCHANGED <<at, hostVars, fp_open, position, line_buffer, memoryVars, cpu>>

Next == \/ CheckArguments
        \/ APEX_cpu_init
        \/ Open
        \/ CountLine
        \/ CountFails
        \/ Allocate
        \/ ParseLine
        \/ ParseDone
        \/ Run
        \/ FileChanges

Spec == Init /\ [][Next]_vars

----------------------------------------------------------------------------
(* Properties *)

TypeOK ==
  /\ at \in {"main", "init", "open", "count", "parse", "run"} \cup Ends
  /\ argc \in Nat
  /\ file \in Seq(Line)
  /\ {seekable, changed, fp_open, line_buffer, cpu} \subseteq BOOLEAN
  /\ position \in Nat
  /\ code_memory_size \in Nat
  /\ code_memory \in Seq(Instruction)
  /\ current_instruction \in Nat

(* A program that is started is the one in the file, if nobody touched it  *)
(* and it can be read twice: every line that is written the way            *)
(* print_instruction writes one comes back from it, at its own place, and  *)
(* no value left over from an earlier line or an earlier pass is in it.    *)
WrittenAs(line, ins) == line.mnemonic = ins.mnemonic /\ line.operands = ins.operands
PrintsAsWritten ==
  at = "run" /\ ~changed /\ seekable =>
    /\ Len(code_memory) = Len(file)
    /\ \A k \in DOMAIN file :
         LET printed == print_instruction(code_memory[k])
         IN  Len(file[k].operands) = Len(printed.operands)
               /\ (\A i \in DOMAIN printed.operands :
                     file[k].operands[i].mark = printed.operands[i].mark)
             => WrittenAs(file[k], printed)

(* The block counted for in the first pass is enough for the second one,   *)
(* unless the file has grown between them.                                 *)
StaysInMemory == at = "parse" /\ ~changed /\ position < Len(file) => HasRoom

(* On every way out but a crash the file is closed, and the memory of the  *)
(* cpu and its program is there exactly when there is something to run.    *)
(* getline's buffer is given back before the program is started; it is     *)
(* kept only where create_code_memory returns NULL after the first pass.   *)
NothingLeftOpen ==
  /\ at \in {"run", "exit1", "done"} => ~fp_open
  /\ at \in {"exit1", "done"} => ~cpu /\ code_memory = << >>
  /\ at = "run" => cpu /\ code_memory # << >>
  /\ at \in {"run", "done"} => ~line_buffer
=============================================================================
