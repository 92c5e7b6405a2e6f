-------------------------- MODULE FileParserProofs --------------------------
(***************************************************************************)
(* The second pass over the file stays in the memory the first one counted *)
(* for, what it leaves there prints as the file reads, and nothing is left *)
(* open, for files of every content.                                       *)
(***************************************************************************)
EXTENDS FileParser, SequenceTheorems, TLAPS

----------------------------------------------------------------------------
(* The translation of one line *)

(* A line becomes numbers, whatever is written in it.                     *)
LEMMA NumberIsInt ==
  ASSUME NEW o \in Operand
  PROVE  get_num_from_string(o) \in Int
<1>1. INT_MAX \in Int /\ INT_MAX < 10000000000
  BY SMT DEF INT_MAX
<1>2. o.value \in Int /\ o.value < 10000000000
  <2>1. o.value \in CInt
    BY DEF Operand
  <2>. QED BY <1>1, <2>1, SMT DEF CInt
<1>3. ASSUME NEW v \in Int, 10 <= v, v < 10000000000
      PROVE  \E p \in Tens : p <= v /\ v \div p < 10
  BY <1>3, SMT DEF Tens
<1>4. o.value >= 10 => Leading(o.value) \in Tens
  BY <1>2, <1>3 DEF Leading
<1>5. ASSUME NEW t \in Tens PROVE t \in Nat \ {0}
  BY SMT DEF Tens
<1>6. o.value >= 10 => o.value % Leading(o.value) \in Int
  BY <1>2, <1>4, <1>5, SMT
<1>7. \/ get_num_from_string(o) \in {o.value, -o.value, 0}
      \/ o.value >= 10 /\ get_num_from_string(o) = o.value % Leading(o.value)
  <2>1. CASE o.value < 10
    BY <2>1, Zenon DEF get_num_from_string
  <2>2. CASE ~(o.value < 10)
    <3>1. o.value >= 10
      BY <1>2, <2>2
    <3>. QED BY <2>2, <3>1, Zenon DEF get_num_from_string
  <2>. QED BY <2>1, <2>2
<1>8. -o.value \in Int
  BY <1>2
<1>. QED BY <1>2, <1>6, <1>7, <1>8

LEMMA TokenIsInt ==
  ASSUME NEW line \in Line, NEW k \in Nat \ {0}
  PROVE  TokenValues(line, k) \subseteq Int
<1>1. k <= Len(line.operands) => line.operands[k] \in Operand
  BY DEF Line
<1>2. CASE k <= Len(line.operands)
  BY <1>1, <1>2, NumberIsInt DEF TokenValues
<1>3. CASE ~(k <= Len(line.operands))
  BY <1>3, StaleAssumption DEF TokenValues
<1>. QED BY <1>2, <1>3

(* Every field is named once. *)
Named == {"rd", "rs1", "rs2", "imm"}

LEMMA FieldsDistinct ==
  ASSUME NEW opcode \in Opcodes
  PROVE  /\ Fields(opcode) \in Seq(Named)
         /\ Len(Fields(opcode)) \in 0 .. 3
         /\ \A j, k \in DOMAIN Fields(opcode) : Fields(opcode)[j] = Fields(opcode)[k] => j = k
<1>1. Fields(opcode) \in {<<"rd", "rs1", "rs2">>, <<"rd", "imm">>, <<"rd", "rs1", "imm">>,
                         <<"rs1", "rs2", "imm">>, <<"imm">>, <<"rs1", "imm">>, <<"rs1", "rs2">>,
                         <<"rs1">>, << >>}
  BY DEF Opcodes, Fields
<1>2. ASSUME NEW f, NEW a \in Named, NEW b \in Named, NEW c \in Named, a # b, b # c, a # c,
             f \in {<<a, b, c>>, <<a, b>>, <<a>>, << >>}
      PROVE  /\ f \in Seq(Named)
             /\ Len(f) \in 0 .. 3
             /\ \A j, k \in DOMAIN f : f[j] = f[k] => j = k
  <2>1. CASE f = <<a, b, c>>
    BY <2>1, <1>2
  <2>2. CASE f = <<a, b>>
    BY <2>2, <1>2
  <2>3. CASE f = <<a>>
    BY <2>3, <1>2
  <2>4. CASE f = << >>
    BY <2>4, <1>2
  <2>. QED BY <1>2, <2>1, <2>2, <2>3, <2>4
<1>. HIDE DEF Named
<1>3. "rd" \in Named /\ "rs1" \in Named /\ "rs2" \in Named /\ "imm" \in Named
  BY DEF Named
<1>4. CASE Fields(opcode) \in {<<"rd", "rs1", "rs2">>, <<"rd">>, << >>}
  BY <1>2, <1>3, <1>4
<1>5. CASE Fields(opcode) \in {<<"rd", "rs1", "imm">>}
  BY <1>2, <1>3, <1>5
<1>6. CASE Fields(opcode) \in {<<"rd", "imm">>}
  BY <1>2, <1>3, <1>6
<1>7. CASE Fields(opcode) \in {<<"rs1", "rs2", "imm">>, <<"rs1", "rs2">>, <<"rs1">>}
  BY <1>2, <1>3, <1>7
<1>8. CASE Fields(opcode) \in {<<"rs1", "imm">>}
  BY <1>2, <1>3, <1>8
<1>9. CASE Fields(opcode) \in {<<"imm">>}
  BY <1>2, <1>3, <1>9
<1>. QED BY <1>1, <1>4, <1>5, <1>6, <1>7, <1>8, <1>9

LEMMA FieldValuesAre ==
  ASSUME NEW line \in Line, NEW opcode \in Opcodes, NEW field
  PROVE  /\ FieldValues(line, opcode, field) \subseteq Int
         /\ \A k \in DOMAIN Fields(opcode) :
              Fields(opcode)[k] = field => FieldValues(line, opcode, field) = TokenValues(line, k)
<1>1. CASE \E k \in DOMAIN Fields(opcode) : Fields(opcode)[k] = field
  <2>. DEFINE c == CHOOSE k \in DOMAIN Fields(opcode) : Fields(opcode)[k] = field
  <2>1. c \in DOMAIN Fields(opcode) /\ Fields(opcode)[c] = field
    BY <1>1
  <2>2. FieldValues(line, opcode, field) = TokenValues(line, c)
    BY <1>1 DEF FieldValues
  <2>. HIDE DEF c
  <2>3. c \in Nat \ {0}
    BY <2>1, FieldsDistinct
  <2>. QED BY <2>1, <2>2, <2>3, FieldsDistinct, TokenIsInt
<1>2. CASE ~\E k \in DOMAIN Fields(opcode) : Fields(opcode)[k] = field
  BY <1>2 DEF FieldValues
<1>. QED BY <1>1, <1>2

(* What a translation of the line has in its fields.                       *)
LEMMA TranslationIs ==
  ASSUME NEW line \in Line, NEW ins \in Translations(line)
  PROVE  /\ ins \in Instruction
         /\ ins.opcode \in OpcodeOf(line)
         /\ ins.opcode_str = line.mnemonic
         /\ \A k \in DOMAIN Fields(ins.opcode) :
              /\ Fields(ins.opcode)[k] = "rd"  => ins.rd  \in TokenValues(line, k)
              /\ Fields(ins.opcode)[k] = "rs1" => ins.rs1 \in TokenValues(line, k)
              /\ Fields(ins.opcode)[k] = "rs2" => ins.rs2 \in TokenValues(line, k)
              /\ Fields(ins.opcode)[k] = "imm" => ins.imm \in TokenValues(line, k)
<1>1. PICK opcode \in OpcodeOf(line) :
        ins \in [opcode_str : {line.mnemonic}, opcode : {opcode},
                rd  : FieldValues(line, opcode, "rd"), rs1 : FieldValues(line, opcode, "rs1"),
                rs2 : FieldValues(line, opcode, "rs2"), imm : FieldValues(line, opcode, "imm")]
  BY DEF Translations
<1>2. opcode \in Opcodes /\ line.mnemonic \in Names
  BY DEF OpcodeOf, set_opcode_str, Names
<1>3. ins \in Instruction
  BY <1>1, <1>2, FieldValuesAre DEF Instruction
<1>. QED BY <1>1, <1>2, <1>3, FieldValuesAre

(* The operand a field is printed as. *)
Shown(ins) ==
  [field \in Named |-> CASE field = "rd"  -> Register(ins.rd)
                        [] field = "rs1" -> Register(ins.rs1)
                        [] field = "rs2" -> Register(ins.rs2)
                        [] field = "imm" -> Literal(ins.imm)]

LEMMA TupleIs ==
  ASSUME NEW N, NEW S, NEW g \in [N -> S], NEW a \in N, NEW b \in N, NEW c \in N
  PROVE  /\ << >> = [k \in 1 .. Len(<< >>) |-> g[<< >>[k]]]
         /\ <<g[a]>> = [k \in 1 .. Len(<<a>>) |-> g[<<a>>[k]]]
         /\ <<g[a], g[b]>> = [k \in 1 .. Len(<<a, b>>) |-> g[<<a, b>>[k]]]
         /\ <<g[a], g[b], g[c]>> = [k \in 1 .. Len(<<a, b, c>>) |-> g[<<a, b, c>>[k]]]
  OBVIOUS

(* The table of print_instruction agrees with that of the parser.          *)
LEMMA PrintedFields ==
  ASSUME NEW ins \in Instruction
  PROVE  print_instruction(ins).operands
           = [k \in 1 .. Len(Fields(ins.opcode)) |-> Shown(ins)[Fields(ins.opcode)[k]]]
<1>. DEFINE g == Shown(ins)
            f == Fields(ins.opcode)
            ops == print_instruction(ins).operands
<1>1. /\ g["rd"] = Register(ins.rd) /\ g["rs1"] = Register(ins.rs1)
      /\ g["rs2"] = Register(ins.rs2) /\ g["imm"] = Literal(ins.imm)
      /\ "rd" \in Named /\ "rs1" \in Named /\ "rs2" \in Named /\ "imm" \in Named
  BY DEF Shown, Named
<1>2. g \in [Named -> {g[n] : n \in Named}]
  BY DEF Shown
<1>. HIDE DEF g
<1>. DEFINE Agree == ops = [k \in 1 .. Len(f) |-> g[f[k]]]
<1>3. ASSUME ins.opcode \in {"ADD", "SUB", "MUL", "DIV", "AND", "OR", "XOR"}
      PROVE  Agree
  <2>1. f = <<"rd", "rs1", "rs2">> /\ ops = <<g["rd"], g["rs1"], g["rs2"]>>
    BY <1>1, <1>3 DEF Fields, print_instruction
  <2>. HIDE DEF f, ops
  <2>. QED BY <1>1, <1>2, <2>1, TupleIs
<1>4. ASSUME ins.opcode = "MOVC"
      PROVE  Agree
  <2>1. f = <<"rd", "imm">> /\ ops = <<g["rd"], g["imm"]>>
    BY <1>1, <1>4 DEF Fields, print_instruction
  <2>. HIDE DEF f, ops
  <2>. QED BY <1>1, <1>2, <2>1, TupleIs
<1>5. ASSUME ins.opcode \in {"ADDL", "SUBL", "LOAD", "JALR"}
      PROVE  Agree
  <2>1. f = <<"rd", "rs1", "imm">> /\ ops = <<g["rd"], g["rs1"], g["imm"]>>
    BY <1>1, <1>5 DEF Fields, print_instruction
  <2>. HIDE DEF f, ops
  <2>. QED BY <1>1, <1>2, <2>1, TupleIs
<1>6. ASSUME ins.opcode = "STORE"
      PROVE  Agree
  <2>1. f = <<"rs1", "rs2", "imm">> /\ ops = <<g["rs1"], g["rs2"], g["imm"]>>
    BY <1>1, <1>6 DEF Fields, print_instruction
  <2>. HIDE DEF f, ops
  <2>. QED BY <1>1, <1>2, <2>1, TupleIs
<1>7. ASSUME ins.opcode \in {"BZ", "BNZ", "BNP", "BP"}
      PROVE  Agree
  <2>1. f = <<"imm">> /\ ops = <<g["imm"]>>
    BY <1>1, <1>7 DEF Fields, print_instruction
  <2>. HIDE DEF f, ops
  <2>. QED BY <1>1, <1>2, <2>1, TupleIs
<1>8. ASSUME ins.opcode = "JUMP"
      PROVE  Agree
  <2>1. f = <<"rs1", "imm">> /\ ops = <<g["rs1"], g["imm"]>>
    BY <1>1, <1>8 DEF Fields, print_instruction
  <2>. HIDE DEF f, ops
  <2>. QED BY <1>1, <1>2, <2>1, TupleIs
<1>9. ASSUME ins.opcode = "CMP"
      PROVE  Agree
  <2>1. f = <<"rs1", "rs2">> /\ ops = <<g["rs1"], g["rs2"]>>
    BY <1>1, <1>9 DEF Fields, print_instruction
  <2>. HIDE DEF f, ops
  <2>. QED BY <1>1, <1>2, <2>1, TupleIs
<1>10. ASSUME ins.opcode = "RET"
      PROVE  Agree
  <2>1. f = <<"rs1">> /\ ops = <<g["rs1"]>>
    BY <1>1, <1>10 DEF Fields, print_instruction
  <2>. HIDE DEF f, ops
  <2>. QED BY <1>1, <1>2, <2>1, TupleIs
<1>11. ASSUME ins.opcode \in {"HALT", "NOP"}
      PROVE  Agree
  <2>1. f = << >> /\ ops = << >>
    BY <1>1, <1>11 DEF Fields, print_instruction
  <2>. HIDE DEF f, ops
  <2>. QED BY <1>1, <1>2, <2>1, TupleIs
<1>12. Agree
  <2>. HIDE DEF Agree
  <2>. QED
    BY <1>3, <1>4, <1>5, <1>6, <1>7, <1>8, <1>9, <1>10, <1>11 DEF Instruction, Opcodes
<1>. QED BY <1>12 DEF g

(* A line with the operands its opcode is printed with comes back.         *)
LEMMA WrittenBack ==
  ASSUME NEW line \in Line, NEW ins \in Translations(line), ~Overflows(line),
         Len(line.operands) = Len(print_instruction(ins).operands),
         \A i \in DOMAIN print_instruction(ins).operands :
           line.operands[i].mark = print_instruction(ins).operands[i].mark
  PROVE  WrittenAs(line, print_instruction(ins))
<1>. DEFINE ops == print_instruction(ins).operands
            f   == Fields(ins.opcode)
<1>1. ins \in Instruction /\ ins.opcode \in Opcodes
  BY TranslationIs DEF Instruction
<1>2. print_instruction(ins).mnemonic = line.mnemonic
  BY TranslationIs DEF print_instruction
<1>3. /\ Len(line.operands) \in Nat
      /\ line.operands = [k \in 1 .. Len(line.operands) |-> line.operands[k]]
      /\ \A k \in 1 .. Len(line.operands) : line.operands[k] \in Operand
  BY LenProperties DEF Line
<1>4. /\ Len(f) \in 0 .. 3
      /\ DOMAIN f = 1 .. Len(f)
      /\ \A k \in 1 .. Len(f) : f[k] \in Named
  BY <1>1, FieldsDistinct, LenProperties
<1>5. ops = [k \in 1 .. Len(f) |-> Shown(ins)[f[k]]]
  BY <1>1, PrintedFields
<1>6. Len(line.operands) = Len(f) /\ DOMAIN ops = 1 .. Len(f)
  BY <1>4, <1>5
<1>7. ASSUME NEW k \in 1 .. Len(f)
      PROVE  line.operands[k] = ops[k]
  <2>1. line.operands[k].mark = ops[k].mark
    BY <1>6
  <2>2. ops[k] = Shown(ins)[f[k]] /\ f[k] \in Named
    BY <1>4, <1>5
  <2>. HIDE DEF ops, f
  <2>3. /\ ops[k] = [mark |-> ops[k].mark, value |-> ops[k].value, long |-> FALSE]
        /\ ops[k].mark # ""
        /\ f[k] = "rd"  => ops[k].value = ins.rd
        /\ f[k] = "rs1" => ops[k].value = ins.rs1
        /\ f[k] = "rs2" => ops[k].value = ins.rs2
        /\ f[k] = "imm" => ops[k].value = ins.imm
    <3>1. /\ Shown(ins)["rd"] = Register(ins.rd) /\ Shown(ins)["rs1"] = Register(ins.rs1)
          /\ Shown(ins)["rs2"] = Register(ins.rs2) /\ Shown(ins)["imm"] = Literal(ins.imm)
      BY DEF Shown, Named
    <3>2. \/ f[k] = "imm" /\ ops[k] = Literal(ins.imm)
          \/ f[k] = "rd"  /\ ops[k] = Register(ins.rd)
          \/ f[k] = "rs1" /\ ops[k] = Register(ins.rs1)
          \/ f[k] = "rs2" /\ ops[k] = Register(ins.rs2)
      BY <2>2, <3>1 DEF Named
    <3>3. CASE f[k] = "imm" /\ ops[k] = Literal(ins.imm)
      BY <3>3 DEF Literal
    <3>4. CASE f[k] = "rd" /\ ops[k] = Register(ins.rd)
      BY <3>4 DEF Register
    <3>5. CASE f[k] = "rs1" /\ ops[k] = Register(ins.rs1)
      BY <3>5 DEF Register
    <3>6. CASE f[k] = "rs2" /\ ops[k] = Register(ins.rs2)
      BY <3>6 DEF Register
    <3>. QED BY <3>2, <3>3, <3>4, <3>5, <3>6
  <2>4. line.operands[k] \in Operand /\ line.operands[k].mark # ""
    BY <1>3, <1>6, <2>1, <2>3
  <2>5. get_num_from_string(line.operands[k]) = line.operands[k].value
    BY <2>4, Zenon DEF get_num_from_string
  <2>6. TokenValues(line, k) = {line.operands[k].value}
    BY <1>4, <1>6, <2>5 DEF TokenValues
  <2>7. ~line.operands[k].long
    <3>1. k \in DOMAIN line.operands /\ k <= Len(f)
      BY <1>3, <1>4, <1>6
    <3>. QED BY <3>1, TranslationIs DEF Overflows, f
  <2>8. ops[k].value = line.operands[k].value
    <3>1. k \in DOMAIN f
      BY <1>4
    <3>. QED BY <2>2, <2>3, <2>6, <3>1, TranslationIs DEF Named, f
  <2>9. line.operands[k] = [mark |-> ops[k].mark, value |-> ops[k].value, long |-> FALSE]
    BY <2>1, <2>4, <2>7, <2>8 DEF Operand
  <2>. QED BY <2>3, <2>9
<1>8. line.operands = ops
  <2>. HIDE DEF ops, f
  <2>. QED BY <1>3, <1>5, <1>6, <1>7
<1>. QED BY <1>2, <1>8 DEF WrittenAs

----------------------------------------------------------------------------
(* The two passes *)

(* Which resources are held at which point of the program.                 *)
Held ==
  /\ fp_open <=> (at \in {"count", "parse", "aborted", "undefined"})
  /\ cpu <=> (at \in {"open", "count", "parse", "run", "aborted", "undefined"})
  /\ at \in {"main", "init", "open", "count", "exit1", "done"} => code_memory = << >>
  /\ at = "run" => code_memory # << >>
  /\ at \in {"run", "done"} => ~line_buffer

(* What the passes have in common.  In the first one every line read is    *)
(* counted; in the second one instruction and line advance together, from  *)
(* the beginning of a file that has as many lines as were counted.         *)
Passes ==
  /\ at \in {"main", "init", "open", "count", "parse", "run"} \cup Ends
  /\ file \in Seq(Line)
  /\ position \in Nat
  /\ code_memory_size \in Nat
  /\ current_instruction \in Nat
  /\ at \in {"main", "init", "open"} => position = 0 /\ code_memory_size = 0
  /\ at \in {"main", "init", "open", "count"} => current_instruction = 0
  /\ at = "count" => /\ position = code_memory_size
                     /\ ~changed => position <= Len(file)
  /\ at \in {"parse", "run"} => /\ code_memory_size # 0
                                /\ DOMAIN code_memory = 1 .. code_memory_size
  /\ at = "parse" /\ ~changed =>
       /\ code_memory_size = Len(file)
       /\ position <= Len(file)
       /\ IF seekable THEN current_instruction = position ELSE position = Len(file)
  /\ at = "run" /\ ~changed /\ seekable =>
       code_memory_size = Len(file) /\ current_instruction = Len(file)

(* The instructions translated so far are those of the lines read so far,  *)
(* if nobody touched the file and it can be read twice.                    *)
Translated ==
  /\ code_memory \in Seq(Instruction)
  /\ at \in {"parse", "run"} /\ ~changed /\ seekable =>
       \A k \in 1 .. current_instruction :
         code_memory[k] \in Translations(file[k]) /\ ~Overflows(file[k])

(* The flags and the number of arguments.                                  *)
Flags ==
  /\ argc \in Nat
  /\ changed \in BOOLEAN
  /\ seekable \in BOOLEAN
  /\ fp_open \in BOOLEAN
  /\ line_buffer \in BOOLEAN
  /\ cpu \in BOOLEAN

IInv == Passes /\ Held /\ Translated /\ Flags

LEMMA InitIInv == Init => IInv
<1> SUFFICES ASSUME Init PROVE IInv
  OBVIOUS
<1>1. Passes
  BY FilesAssumption DEF Init, Passes, Ends
<1>2. Held
  BY DEF Init, Held
<1>3. Translated
  BY DEF Init, Translated
<1>4. Flags
  <2>1. argc \in Nat
    BY DEF Init
  <2> QED
    BY <2>1 DEF Init, Flags
<1> QED
  BY <1>1, <1>2, <1>3, <1>4 DEF IInv

LEMMA NextPasses == Passes /\ Held /\ [Next]_vars => Passes' /\ Held'
<1> SUFFICES ASSUME Passes, Held, [Next]_vars PROVE Passes' /\ Held'
  OBVIOUS
<1> USE DEF Passes, Held, Ends, hostVars, memoryVars
<1>1. CASE CheckArguments
  BY <1>1 DEF CheckArguments
<1>2. CASE APEX_cpu_init
  BY <1>2 DEF APEX_cpu_init
<1>3. CASE Open
  <2>1. Len(file) \in Nat
    OBVIOUS
  <2>2. Passes'
    <3>1. at' = "count" \/ at' = "exit1"
      BY <1>3 DEF Open, NoCodeMemory
    <3>2. /\ position = 0 /\ code_memory_size = 0 /\ current_instruction = 0
          /\ UNCHANGED <<file, changed, seekable, position, memoryVars>>
      BY <1>3 DEF Open
    <3> QED
      BY <2>1, <3>1, <3>2
  <2>3. CASE at' = "count" /\ fp_open' = TRUE /\ UNCHANGED cpu
    BY <1>3, <2>2, <2>3 DEF Open
  <2>4. CASE NoCodeMemory /\ UNCHANGED fp_open
    BY <1>3, <2>2, <2>4 DEF Open, NoCodeMemory
  <2> QED
    BY <1>3, <2>3, <2>4 DEF Open
<1>4. CASE CountLine
  BY <1>4 DEF CountLine
<1>5. CASE CountFails
  BY <1>5 DEF CountFails, NoCodeMemory, CloseWithoutMemory
<1>6. CASE Allocate
  <2>1. DOMAIN code_memory' = 1 .. code_memory_size' /\ code_memory_size' # 0
    BY <1>6 DEF Allocate, Allocated
  <2>2. ~changed => code_memory_size = Len(file)
    BY <1>6 DEF Allocate
  <2> QED
    BY <1>6, <2>1, <2>2 DEF Allocate, rewind
<1>7. CASE ParseLine
  <2>1. DOMAIN code_memory' = DOMAIN code_memory
    BY <1>7 DEF ParseLine
  <2> QED
    BY <1>7, <2>1 DEF ParseLine
<1>8. CASE ParseDone
  <2>1. code_memory # << >>
    BY <1>8 DEF ParseDone
  <2>2. /\ at = "parse" /\ at' = "run" /\ ~fp_open'
        /\ position >= Len(file) /\ Len(file) \in Nat
        /\ ~line_buffer'
        /\ UNCHANGED <<file, seekable, changed, position, code_memory_size, code_memory,
                       current_instruction, cpu>>
    BY <1>8 DEF ParseDone
  <2>3. Passes'
    <3>1. ~changed => position <= Len(file)
      BY <2>2
    <3> QED
      BY <2>2, <3>1
  <2>4. Held'
    BY <2>1, <2>2
  <2> QED
    BY <2>3, <2>4
<1>9. CASE Run
  BY <1>9 DEF Run
<1>10. CASE FileChanges
  BY <1>10, FilesAssumption DEF FileChanges
<1>11. CASE UNCHANGED vars
  BY <1>11 DEF vars
<1> QED
  BY <1>1, <1>2, <1>3, <1>4, <1>5, <1>6, <1>7, <1>8, <1>9, <1>10, <1>11 DEF Next

LEMMA NextFlags == Flags /\ [Next]_vars => Flags'
<1> SUFFICES ASSUME Flags, [Next]_vars PROVE Flags'
  OBVIOUS
<1> USE DEF Flags, hostVars, memoryVars
<1>1. CASE CheckArguments
  BY <1>1 DEF CheckArguments
<1>2. CASE APEX_cpu_init
  BY <1>2 DEF APEX_cpu_init
<1>3. CASE Open
  BY <1>3 DEF Open, NoCodeMemory
<1>4. CASE CountLine
  BY <1>4 DEF CountLine
<1>5. CASE CountFails
  BY <1>5 DEF CountFails, NoCodeMemory, CloseWithoutMemory
<1>6. CASE Allocate
  BY <1>6 DEF Allocate
<1>7. CASE ParseLine
  BY <1>7 DEF ParseLine
<1>8. CASE ParseDone
  BY <1>8 DEF ParseDone
<1>9. CASE Run
  BY <1>9 DEF Run
<1>10. CASE FileChanges
  BY <1>10 DEF FileChanges
<1>11. CASE UNCHANGED vars
  BY <1>11 DEF vars
<1> QED
  BY <1>1, <1>2, <1>3, <1>4, <1>5, <1>6, <1>7, <1>8, <1>9, <1>10, <1>11 DEF Next

(* What a line becomes is what the format of its opcode says, at its place.*)
LEMMA NextTranslated == IInv /\ [Next]_vars => Translated'
<1> SUFFICES ASSUME IInv, [Next]_vars PROVE Translated'
  OBVIOUS
<1> USE DEF IInv, hostVars, memoryVars
<1>1. CASE CheckArguments
  BY <1>1 DEF CheckArguments, Passes, Ends, Translated
<1>2. CASE APEX_cpu_init
  BY <1>2 DEF APEX_cpu_init, Passes, Ends, Translated
<1>3. CASE Open
  BY <1>3 DEF Open, NoCodeMemory, Passes, Ends, Translated
<1>4. CASE CountLine
  BY <1>4 DEF CountLine, Passes, Ends, Translated
<1>5. CASE CountFails
  BY <1>5 DEF CountFails, NoCodeMemory, Passes, Ends, Translated
<1>6. CASE Allocate
  <2>1. NoInstruction \in Instruction
    BY SMT DEF NoInstruction, Instruction, Opcodes
  <2>2. code_memory' \in Seq(Instruction)
    BY <1>6, <2>1 DEF Allocate, Allocated, Passes
  <2>3. current_instruction' = 0
    BY <1>6 DEF Allocate, Passes
  <2> QED
    BY <2>2, <2>3 DEF Translated
<1>7. CASE ParseLine
  <2>1. CASE UNCHANGED code_memory /\ at' \notin {"parse", "run"}
    BY <2>1 DEF Translated
  <2>2. ASSUME NEW ins \in Translations(file[position + 1]), HasRoom,
               ~Overflows(file[position + 1]), position < Len(file),
               code_memory' = [code_memory EXCEPT ![current_instruction + 1] = ins],
               current_instruction' = current_instruction + 1, at = "parse",
               UNCHANGED <<file, changed, seekable>>
        PROVE  Translated'
    <3>1. file[position + 1] \in Line
      BY <2>2 DEF Passes
    <3>2. ins \in Instruction
      BY <3>1, TranslationIs
    <3>3. code_memory' \in Seq(Instruction)
      BY <2>2, <3>2 DEF Translated, HasRoom
    <3>4. ASSUME ~changed, seekable, NEW k \in 1 .. current_instruction + 1
          PROVE  code_memory'[k] \in Translations(file[k]) /\ ~Overflows(file[k])
      <4>1. current_instruction = position /\ current_instruction \in Nat
        BY <2>2, <3>4 DEF Passes
      <4>2. CASE k = current_instruction + 1
        BY <2>2, <4>1, <4>2 DEF HasRoom
      <4>3. CASE k # current_instruction + 1
        <5>1. k \in 1 .. current_instruction
          BY <3>4, <4>1, <4>3
        <5>2. code_memory'[k] = code_memory[k]
          BY <2>2, <4>1, <4>3, <5>1 DEF HasRoom, Translated
        <5> QED
          BY <2>2, <3>4, <5>1, <5>2 DEF Translated
      <4> QED
        BY <4>2, <4>3
    <3> QED
      BY <2>2, <3>3, <3>4 DEF Translated
  <2> QED
    BY <1>7, <2>1, <2>2 DEF ParseLine
<1>8. CASE ParseDone
  BY <1>8 DEF ParseDone, Translated
<1>9. CASE Run
  BY <1>9 DEF Run, Translated
<1>10. CASE FileChanges
  BY <1>10 DEF FileChanges, Translated
<1>11. CASE UNCHANGED vars
  BY <1>11 DEF vars, Translated
<1> QED
  BY <1>1, <1>2, <1>3, <1>4, <1>5, <1>6, <1>7, <1>8, <1>9, <1>10, <1>11 DEF Next

(* The inductive invariant of the two passes.                              *)
THEOREM PassesAgree == Spec => []IInv
<1>1. Init => IInv
  BY InitIInv
<1>2. IInv /\ [Next]_vars => IInv'
  BY NextPasses, NextTranslated, NextFlags DEF IInv
<1> QED
  BY <1>1, <1>2, PTL DEF Spec

(* The second pass never writes behind the code memory, whatever is in the *)
(* file, as long as the file is the same in both passes.                   *)
THEOREM RoomForEveryLine == Spec => []StaysInMemory
<1>1. IInv => StaysInMemory
  BY DEF IInv, Passes, StaysInMemory, HasRoom
<1> QED
  BY <1>1, PassesAgree, PTL

(* Every way out closes the file and gives the memory back.                *)
THEOREM EveryWayOutCloses == Spec => []NothingLeftOpen
<1>1. IInv => NothingLeftOpen
  BY DEF IInv, Passes, Held, NothingLeftOpen
<1> QED
  BY <1>1, PassesAgree, PTL

(* The program is always in one of its places with values of their types:  *)
(* whatever is in the file, every instruction that is translated is one.   *)
THEOREM TypeCorrect == Spec => []TypeOK
<1>1. IInv => TypeOK
  BY DEF IInv, Passes, Translated, Flags, TypeOK
<1> QED
  BY <1>1, PassesAgree, PTL

(* A program that is started is the one in the file, if nobody touched it  *)
(* and it can be read twice: the formats of file_parser.c and those of     *)
(* print_instruction are the same for all the opcodes, and no token of an  *)
(* earlier line is taken for one of a line that is written in full.        *)
THEOREM ProgramAsWritten == Spec => []PrintsAsWritten
<1>1. ASSUME IInv, at = "run", ~changed, seekable
      PROVE  /\ Len(code_memory) = Len(file)
             /\ \A k \in DOMAIN file :
                  /\ file[k] \in Line
                  /\ code_memory[k] \in Translations(file[k])
                  /\ ~Overflows(file[k])
  <2>1. code_memory_size = Len(file) /\ current_instruction = Len(file)
    BY <1>1 DEF IInv, Passes
  <2>2. DOMAIN code_memory = 1 .. code_memory_size /\ file \in Seq(Line)
    BY <1>1 DEF IInv, Passes
  <2>3. \A k \in 1 .. current_instruction :
          code_memory[k] \in Translations(file[k]) /\ ~Overflows(file[k])
    BY <1>1 DEF IInv, Translated
  <2>4. Len(code_memory) = Len(file)
    BY <1>1, <2>1, <2>2 DEF IInv, Translated
  <2> QED
    BY <2>1, <2>2, <2>3, <2>4
<1>2. IInv => PrintsAsWritten
  BY <1>1, WrittenBack DEF PrintsAsWritten, WrittenAs
<1> QED
  BY <1>2, PassesAgree, PTL
=============================================================================
