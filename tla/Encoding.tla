------------------------------- MODULE Encoding -------------------------------
(***************************************************************************)
(* The bytes assembler/assembler.c writes for the instructions the         *)
(* handlers ask for, and what an x86-64 processor reads in such bytes.     *)
(*                                                                         *)
(* An instruction is a record: its operation, the bytes it works on, its   *)
(* register_memory operand rm, its register operand reg and its immediate, *)
(* None where it has no such operand.  Forms that no handler asks for (2   *)
(* bytes, syscall) are left out, and so are operands whose registers have  *)
(* no reg_id.                                                              *)
(***************************************************************************)
EXTENDS Integers, Sequences

\* register_memory: RM_BASIC, RM_MEM_READ and RM_MEM_READ_DISP.
Basic(r)          == [mode |-> "basic", base |-> r, disp |-> 0]
MemRead(r)        == [mode |-> "read", base |-> r, disp |-> 0]
MemReadDisp(r, d) == [mode |-> "read_disp", base |-> r, disp |-> d]

\* No register operand; not the mask 0, which a failed search for a register gives.
NoOperand == "ABSENT"
None == [mode |-> "none", base |-> NoOperand, disp |-> 0]

Instr(op, size, rm, reg, imm) ==
    [op |-> op, size |-> size, rm |-> rm, reg |-> reg, imm |-> imm]

\* Operations that the header declares one by one; of each, the handlers use
\* what is listed here.
MovStore(rm, reg, size) == Instr("mov_rm_r", size, rm, reg, 0)
MovLoad(reg, rm, size)  == Instr("mov_r_rm", size, rm, reg, 0)
MovRm32Imm(rm, imm)     == Instr("mov_rm_imm", 4, rm, NoOperand, imm)
MovRegImm(reg, imm, size) ==
    IF size = 4 THEN MovRm32Imm(Basic(reg), imm)
                ELSE Instr("mov_r_imm", size, None, reg, imm)
Movzx8(reg, rm)         == Instr("movzx8", 4, rm, reg, 0)
Lea(reg, rm)            == Instr("lea", 8, rm, reg, 0)
LeaString(reg)          == Instr("lea_rip", 8, None, reg, 0)
RmReg(op, rm, reg)      == Instr(op, 8, rm, reg, 0)      \* add sub cmp test
Imul(reg, rm)           == Instr("imul", 8, rm, reg, 0)
ImulImm(reg, rm, imm)   == Instr("imul_imm", 8, rm, reg, imm)
Unary(op, rm)           == Instr(op, 8, rm, NoOperand, 0)    \* idiv push pop
SetByteIf(op, rm)       == Instr(op, 1, rm, NoOperand, 0)    \* sete setne
Plain(op)               == Instr(op, 8, None, NoOperand, 0)  \* cqo leave ret jumps call

\* The registers an instruction names.
NamedBy(i) == {i.rm.base, i.reg} \ {NoOperand}

------------------------------------------------------------------------------
(* The encoder. *)

RegName == <<"RAX", "RCX", "RDX", "RBX", "RSP", "RBP", "RSI", "RDI">>

HasId == {RegName[k] : k \in 1..8}

\* reg_id: the other registers have no case.
RegId(r) == (CHOOSE k \in 1..8 : RegName[k] = r) - 1

\* The powers of 256.
Power256 == <<1, 256, 65536, 16777216>>

\* compiler_writed and compiler_writeq: n bytes of v, the lowest first.  No
\* value here needs more than 32 bits.
Written(v, n) ==
    [k \in 1..n |-> IF k <= 4 THEN (v \div Power256[k]) % 256
                              ELSE IF v < 0 THEN 255 ELSE 0]

\* generate_modrm
ModRM(rm, reg) ==
    CASE rm.mode = "basic" -> <<192 + 8 * reg + RegId(rm.base)>>
      [] rm.mode = "read" -> <<8 * reg + RegId(rm.base)>>
      [] rm.mode = "read_disp" -> <<128 + 8 * reg + RegId(rm.base)>> \o Written(rm.disp, 4)

RexW == <<72>>

\* Mutant: sil and dil are taken for byte registers like al.
ByteRex_Never(r) == <<>>

\* "Check for REX prefix": without one, the ids 4 to 7 of a byte operand mean
\* ah, ch, dh and bh.
ByteRex(r) == IF r \in {"RSP", "RBP", "RSI", "RDI"} THEN <<64>> ELSE <<>>
ByteRexOf(rm) == IF rm.mode = "basic" THEN ByteRex(rm.base) ELSE <<>>

\* The prefix of an operand of size bytes in register r, then the opcode: the
\* one for a byte is one less than the one for the others.
Sized(size, r, opcode) ==
    CASE size = 8 -> RexW \o <<opcode>>
      [] size = 4 -> <<opcode>>
      [] size = 1 -> ByteRex(r) \o <<opcode - 1>>

\* Operations with a register and an r/m operand of 8 bytes.
Opcode == [add |-> <<1>>, sub |-> <<41>>, cmp |-> <<57>>, test |-> <<133>>,
           lea |-> <<141>>, imul |-> <<15, 175>>, imul_imm |-> <<105>>]

\* Operations with one r/m operand: the opcode and what the reg field holds.
UnaryOpcode == [idiv |-> RexW \o <<247>>, push |-> <<255>>, pop |-> <<143>>]
UnaryField  == [idiv |-> 7, push |-> 6, pop |-> 0]

\* Operations without operands, or with one that is filled in later.
PlainCode ==
    [cqo |-> RexW \o <<153>>, leave |-> <<201>>, ret |-> <<195>>,
     jmp |-> <<233>> \o Written(0, 4), call |-> <<232>> \o Written(0, 4),
     je |-> <<15, 132>> \o Written(0, 4), jne |-> <<15, 133>> \o Written(0, 4)]

\* The asm_ functions.
Encode(i) ==
    CASE i.op = "mov_rm_r" -> Sized(i.size, i.reg, 137) \o ModRM(i.rm, RegId(i.reg))
      [] i.op = "mov_r_rm" -> Sized(i.size, i.reg, 139) \o ModRM(i.rm, RegId(i.reg))
      [] i.op = "mov_rm_imm" -> <<199>> \o ModRM(i.rm, 0) \o Written(i.imm, 4)
      [] i.op = "mov_r_imm" ->
            IF i.size = 8 THEN RexW \o <<184 + RegId(i.reg)>> \o Written(i.imm, 8)
            ELSE ByteRex(i.reg) \o <<176 + RegId(i.reg)>> \o Written(i.imm, 1)
      [] i.op = "movzx8" -> ByteRexOf(i.rm) \o <<15, 182>> \o ModRM(i.rm, RegId(i.reg))
      [] i.op = "lea_rip" -> RexW \o <<141, 5 + 8 * RegId(i.reg)>> \o Written(0, 4)
      [] i.op \in DOMAIN Opcode ->
            RexW \o Opcode[i.op] \o ModRM(i.rm, RegId(i.reg))
            \o (IF i.op = "imul_imm" THEN Written(i.imm, 4) ELSE <<>>)
      [] i.op \in DOMAIN UnaryOpcode -> UnaryOpcode[i.op] \o ModRM(i.rm, UnaryField[i.op])
      [] i.op = "sete" -> ByteRexOf(i.rm) \o <<15, 148>> \o ModRM(i.rm, 0)
      [] i.op = "setne" -> ByteRexOf(i.rm) \o <<15, 149>> \o ModRM(i.rm, 0)
      [] i.op \in DOMAIN PlainCode -> PlainCode[i.op]

------------------------------------------------------------------------------
(* The processor: external.  It reads a prefix, an opcode, and what the opcode *)
(* calls for.                                                                  *)

Invalid == Plain("invalid")

\* A signed number of 4 bytes, an unsigned one of 1, from the lowest.
Number(s) ==
    IF Len(s) = 1 THEN s[1]
    ELSE s[1] + 256 * s[2] + 65536 * s[3]
         + 16777216 * (IF s[4] > 127 THEN s[4] - 256 ELSE s[4])

\* A register operand of size bytes; ids 4 to 7 of a byte are the second bytes
\* of other registers when there is no REX prefix (rex is 0).
RegisterNamed(id, size, rex) ==
    IF size = 1 /\ rex = 0 /\ id >= 4 THEN <<"AH", "CH", "DH", "BH">>[id - 3]
    ELSE RegName[id + 1]

\* The r/m operand whose ModRM byte is the first of s, and the bytes it takes.
\* Base 4 announces another byte, and base 5 without displacement is rip.
ReadRM(s, size, rex) ==
    LET mode == s[1] \div 64
        base == s[1] % 8
    IN CASE mode = 3 -> [rm |-> Basic(RegisterNamed(base, size, rex)), len |-> 1]
         [] mode = 0 /\ base \notin {4, 5} -> [rm |-> MemRead(RegName[base + 1]), len |-> 1]
         [] mode = 2 /\ base # 4 /\ Len(s) >= 5 ->
               [rm |-> MemReadDisp(RegName[base + 1], Number(SubSeq(s, 2, 5))), len |-> 5]
         [] mode = 0 /\ base = 5 /\ Len(s) >= 5 -> [rm |-> None, len |-> 5]
         [] OTHER -> [rm |-> None, len |-> 0]

\* What the reg field of a ModRM byte says, and the register it names.
RegField(b) == (b \div 8) % 8
RegOperand(s, size, rex) == RegisterNamed(RegField(s[1]), size, rex)

\* An instruction of an operation and size with a ModRM byte: an r/m operand of
\* rmSize bytes, the register reg, and an immediate of n bytes.
WithRM(op, size, rmSize, s, rex, reg, n) ==
    LET r == ReadRM(s, rmSize, rex) IN
    IF r.len = 0 \/ Len(s) # r.len + n THEN Invalid
    ELSE Instr(IF op = "lea" /\ r.rm = None THEN "lea_rip" ELSE op, size, r.rm, reg,
               IF n = 0 THEN 0 ELSE Number(SubSeq(s, r.len + 1, r.len + n)))

\* A REX prefix with W: the operands have 8 bytes.
IsWide(rex) == rex >= 72

\* What follows the prefixes.
Body(s, rex) ==
    LET size == IF IsWide(rex) THEN 8 ELSE 4
        rest == Tail(s)
        field == RegField(s[2])
        RM(op, sz) == WithRM(op, sz, sz, rest, rex, RegOperand(rest, sz, rex), 0)
        Wide(op) == IF IsWide(rex) THEN RM(op, 8) ELSE Invalid
        One(op) == WithRM(op, 8, 8, rest, rex, NoOperand, 0)
        Fixed(op, n) == IF Len(s) = n THEN Plain(op) ELSE Invalid
    IN CASE s[1] = 136 -> RM("mov_rm_r", 1)
         [] s[1] = 137 -> RM("mov_rm_r", size)
         [] s[1] = 138 -> RM("mov_r_rm", 1)
         [] s[1] = 139 -> RM("mov_r_rm", size)
         [] s[1] = 1   -> Wide("add")
         [] s[1] = 41  -> Wide("sub")
         [] s[1] = 57  -> Wide("cmp")
         [] s[1] = 133 -> Wide("test")
         [] s[1] = 141 -> Wide("lea")
         [] s[1] = 105 /\ IsWide(rex) ->
               WithRM("imul_imm", 8, 8, rest, rex, RegOperand(rest, 8, rex), 4)
         [] s[1] = 199 /\ field = 0 ->
               WithRM("mov_rm_imm", size, size, rest, rex, NoOperand, 4)
         [] s[1] \in 184..191 /\ IsWide(rex) /\ Len(s) = 9 ->
               Instr("mov_r_imm", 8, None, RegName[s[1] - 183], Number(SubSeq(s, 2, 5)))
         [] s[1] \in 176..183 /\ Len(s) = 2 ->
               Instr("mov_r_imm", 1, None, RegisterNamed(s[1] - 176, 1, rex), s[2])
         [] s[1] = 247 /\ IsWide(rex) /\ field = 7 -> One("idiv")
         [] s[1] = 255 /\ field = 6 -> One("push")
         [] s[1] = 143 /\ field = 0 -> One("pop")
         [] s[1] = 153 /\ IsWide(rex) -> Fixed("cqo", 1)
         [] s[1] = 201 -> Fixed("leave", 1)
         [] s[1] = 195 -> Fixed("ret", 1)
         [] s[1] = 233 -> Fixed("jmp", 5)
         [] s[1] = 232 -> Fixed("call", 5)
         [] OTHER -> Invalid

\* Opcodes of two bytes, the first of them 15.
LongBody(s, rex) ==
    LET rest == Tail(s)
        SetByte(op) == WithRM(op, 1, 1, rest, rex, NoOperand, 0)
    IN CASE s[1] = 175 /\ IsWide(rex) ->
               WithRM("imul", 8, 8, rest, rex, RegOperand(rest, 8, rex), 0)
         [] s[1] = 182 -> WithRM("movzx8", 4, 1, rest, rex, RegOperand(rest, 4, rex), 0)
         [] s[1] = 148 -> SetByte("sete")
         [] s[1] = 149 -> SetByte("setne")
         [] s[1] = 132 /\ Len(s) = 5 -> Plain("je")
         [] s[1] = 133 /\ Len(s) = 5 -> Plain("jne")
         [] OTHER -> Invalid

Decode(s) ==
    LET rex == IF s[1] \in 64..79 THEN s[1] ELSE 0
        rest == IF rex = 0 THEN s ELSE Tail(s)
    IN IF rest[1] = 15 THEN LongBody(Tail(rest), rex) ELSE Body(rest, rex)

\* The processor reads in the bytes of i the instruction that was asked for.
MeansItself(i) == Decode(Encode(i)) = i
================================================================================
