--------------------------- MODULE MC_FileParser ---------------------------
(* Files for the parser. *)
EXTENDS FileParser

R(n)  == [mark |-> "R", value |-> n, long |-> FALSE]
Lit(n) == [mark |-> "#", value |-> n, long |-> FALSE]
Bare(n) == [mark |-> "", value |-> n, long |-> FALSE]
Text(m, ops, nl) == [mnemonic |-> m, operands |-> ops, newline |-> nl, extra |-> 0]
L(m, ops) == Text(m, ops, "operands")

(* One line of every opcode, as it is meant to be written. *)
EveryOpcode ==
  {L(m, <<R(1), R(2), R(3)>>) : m \in {"ADD", "SUB", "MUL", "DIV", "AND", "OR", "EXOR"}}
    \cup {L(m, <<R(1), R(2), Lit(-4)>>) : m \in {"ADDL", "SUBL", "LOAD", "JALR", "STORE"}}
    \cup {L(m, <<Lit(-4)>>) : m \in {"BZ", "BNZ", "BP", "BNP"}}
    \cup {L("MOVC", <<R(1), Lit(12)>>), L("JUMP", <<R(1), Lit(12)>>), L("CMP", <<R(1), R(2)>>),
          L("RET", <<R(1)>>), Text("HALT", << >>, "apart"), Text("NOP", << >>, "none")}

(* Lines the parser makes something else of: the name of an opcode in the  *)
(* rest of the code, a newline behind the opcode, an empty line, too few   *)
(* operands, too many, numbers without a mark or too long, blanks behind   *)
(* the operands or the commas.                                             *)
Unexpected ==
  {L("XOR", <<R(1), R(2), R(3)>>), Text("HALT", << >>, "mnemonic"), Text("", << >>, "mnemonic"),
   L("ADD", <<R(1)>>), Text("BZ", << >>, "apart"), L("NOP", [k \in 1 .. 7 |-> R(k)]),
   L("MOVC", <<Bare(5), Bare(-5)>>), L("BNZ", <<Bare(123)>>),
   L("BZ", <<[Lit(1) EXCEPT !.long = TRUE]>>),
   Text("MOVC", <<R(1), Lit(2)>>, "apart"),
   [L("ADD", <<R(1)>>) EXCEPT !.extra = 2]}

(* Files of several lines; one of them grows, shrinks or becomes another.  *)
Few == {L("MOVC", <<R(1), Lit(12)>>), L("STORE", <<R(1), R(2), Lit(-4)>>),
        L("CMP", <<R(2)>>), Text("HALT", << >>, "apart")}
MCFiles == {<< >>} \cup {<<l>> : l \in EveryOpcode \cup Unexpected}
             \cup {<<l, m>> : l, m \in Few} \cup {<<l, m, n>> : l, m, n \in Few}
=============================================================================
