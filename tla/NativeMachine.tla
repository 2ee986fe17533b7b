---------------------------- MODULE NativeMachine ----------------------------
(***************************************************************************)
(* A processor running one function that the compiler emitted, on behalf   *)
(* of a caller that bound an execution context.  The instructions are      *)
(* those the three backends use; what each does is taken from its          *)
(* architecture.  Code is a sequence of instructions and labels.  `code`   *)
(* is an operator parameter of every action, so that the emitted code is   *)
(* not part of the state.                                                  *)
(*                                                                         *)
(* Offsets into the stack frame are word numbers, offsets into the         *)
(* context, a region descriptor, an object or a table are the names of     *)
(* their fields.  Pointers are numbers outside Word.                       *)
(***************************************************************************)
EXTENDS WordSemantics

CONSTANTS StackWords,     \* words below the caller's frame that are modelled
          Address,        \* byte addresses that exist
          Interference,   \* how often another thread may write
          Noise           \* what it writes

VARIABLES pc, reg, flags, stack, depth, context, memory, monitor, interference, outcome

machineVars == <<pc, reg, flags, stack, depth, context, memory, monitor, interference, outcome>>

ContextPointer == 1001
RegionsPointer == 1002
ObjectsPointer == 1003
ObjectPointer == 1004
CellsPointer == 1005
EntriesPointer == 1006
HelperPointer == 1007
EntryPointer == 1008
FallbackPointer == 1009
ArgumentsPointer == 1010
FramePointer(slot) == 2000 + slot

Junk == 90          \* what unused registers and words hold
Clobbered == 201    \* what a call leaves in the registers it may change

-----------------------------------------------------------------------------
\* What the processor computes from two words.
Alu(op, x, y) ==
  CASE op = "add" -> Wrap(x + y)
    [] op = "sub" -> Wrap(x - y)
    [] op = "mul" -> Wrap(x * y)
    [] op = "and" -> BitAnd(x, y)
    [] op = "or" -> BitOr(x, y)
    [] op = "xor" -> BitXor(x, y)
    [] op = "andnot" -> BitAnd(x, BitNot(y))
    [] op = "shl" -> Wrap(x * 2^(y % WordBits))
    [] op = "shr" -> x \div 2^(y % WordBits)
    [] op = "sar" -> Wrap(Signed(x) \div 2^(y % WordBits))
    [] op = "slt" -> Truth(Signed(x) < Signed(y))
    [] op = "sltu" -> Truth(x < y)
    [] op = "snez" -> Truth(x # 0)
    \* AArch64: dividing by zero gives zero, and the overflow wraps.
    [] op = "sdiv" -> IF y = 0 THEN 0 ELSE Wrap(Truncated(Signed(x), Signed(y)))
    \* RISC-V: dividing by zero gives -1 and leaves the remainder.
    [] op = "div" -> IF y = 0 THEN Wrap(-1) ELSE Wrap(Truncated(Signed(x), Signed(y)))
    [] op = "rem" -> IF y = 0 THEN x ELSE Wrap(Signed(x) - Signed(y) * Truncated(Signed(x), Signed(y)))

\* A condition on the two words, or two floats, compared last.
Holds(cc, x, y) ==
  CASE cc = "eq" -> x = y
    [] cc = "ne" -> x # y
    [] cc = "lt" -> Signed(x) < Signed(y)
    [] cc = "le" -> Signed(x) <= Signed(y)
    [] cc = "ge" -> Signed(x) >= Signed(y)
    [] cc = "b" -> x < y
    [] cc = "be" -> x <= y
    [] cc = "ae" -> x >= y
    [] cc = "a" -> x > y
    \* after a float comparison: carry, zero and parity as UCOMISD sets them,
    \* negative, zero, carry and overflow as FCMP does
    [] cc = "f_a" -> FloatLess(y, x)
    [] cc = "f_ae" -> FloatLess(y, x) \/ FloatEqual(x, y)
    [] cc = "f_e" -> FloatEqual(x, y) \/ IsNaN(x) \/ IsNaN(y)
    [] cc = "f_ne" -> ~(FloatEqual(x, y) \/ IsNaN(x) \/ IsNaN(y))
    [] cc = "f_p" -> IsNaN(x) \/ IsNaN(y)
    [] cc = "f_np" -> ~(IsNaN(x) \/ IsNaN(y))
    [] cc = "f_lt" -> FloatLess(x, y)
    [] cc = "f_le" -> FloatLess(x, y) \/ FloatEqual(x, y)
    [] cc = "f_eq" -> FloatEqual(x, y)
    [] cc = "f_neq" -> ~FloatEqual(x, y)

\* The stack is numbered in words below the caller's frame; the stack pointer
\* is `depth` bytes below it.
Position(off) == depth \div 8 - off

\* The instructions that only write a register: the value written.
Computed(i) ==
  CASE i[1] = "mov" -> reg[i[3]]
    [] i[1] = "imm" -> i[3]
    [] i[1] = "alu" -> Alu(i[3], reg[i[4]], reg[i[5]])
    [] i[1] = "alui" -> Alu(i[3], reg[i[4]], i[5])
    [] i[1] = "msub" -> Wrap(reg[i[5]] - reg[i[3]] * reg[i[4]])
    [] i[1] = "set" -> Truth(Holds(i[3], flags[1], flags[2]))
    [] i[1] = "fset" -> Truth(Holds(i[3], reg[i[4]], reg[i[5]]))
    [] i[1] = "zext" -> Low(reg[i[3]], i[4])
    [] i[1] = "sext" -> SignExtend(reg[i[3]], i[4])
    \* x86: a 16-bit rotation keeps the upper bytes, BSWAP clears them;
    \* AArch64: every group of bytes is reversed
    [] i[1] = "rol16" -> reg[i[3]] - Low(reg[i[3]], 2) + Reversed(reg[i[3]], 2)
    [] i[1] = "bswap" -> Reversed(reg[i[3]], i[4])
    [] i[1] = "rev" -> MapThenSumSet(LAMBDA g : 2^(g * i[4]) * Reversed(reg[i[3]] \div 2^(g * i[4]), i[4]),
                                     0..(WordBits \div i[4]) - 1)
    [] i[1] = "fop" -> FloatResult(i[3], reg[i[4]], reg[i[5]])
    [] i[1] = "fneg" -> BitXor(reg[i[3]], SignBit)
    [] i[1] = "narrow" -> Narrow(reg[i[3]])
    [] i[1] = "widen" -> Widen(reg[i[3]])
    [] i[1] = "lea" -> FramePointer(Position(i[3]))

Computes == {"mov", "imm", "alu", "alui", "msub", "set", "fset", "zext", "sext", "rol16", "bswap",
             "rev", "fop", "fneg", "narrow", "widen", "lea"}

Target(code, label) == CHOOSE k \in DOMAIN code : code[k] = <<"label", label>>

Advance == pc' = pc + 1
Written(d, v) == reg' = [reg EXCEPT ![d] = v]

Compute(code) ==
  LET i == code[pc] IN
  /\ i[1] \in Computes
  /\ Written(i[2], Computed(i))
  /\ Advance
  /\ UNCHANGED <<flags, stack, depth, context, memory, monitor, interference, outcome>>

\* x86 CQO; IDIV: quotient in rax and remainder in rdx, or an arithmetic trap.
Divide(code) ==
  LET i == code[pc]
      a == Signed(reg["rax"])
      b == Signed(reg[i[2]])
  IN
  /\ i[1] = "idiv"
  /\ IF b = 0 \/ (b = -1 /\ reg["rax"] = Minimum)
     THEN outcome' = "fault" /\ UNCHANGED <<pc, reg>>
     ELSE /\ reg' = [reg EXCEPT !["rax"] = Wrap(Truncated(a, b)),
                                !["rdx"] = Wrap(a - b * Truncated(a, b))]
          /\ Advance
          /\ UNCHANGED outcome
  /\ UNCHANGED <<flags, stack, depth, context, memory, monitor, interference>>

Compare(code) ==
  LET i == code[pc] IN
  /\ i[1] \in {"cmp", "cmpi"}
  /\ flags' = <<reg[i[2]], IF i[1] = "cmp" THEN reg[i[3]] ELSE i[3]>>
  /\ Advance
  /\ UNCHANGED <<reg, stack, depth, context, memory, monitor, interference, outcome>>

\* Jumps: always, on the flags, on a register or on two; the label is last.
Jump(code) ==
  LET i == code[pc] IN
  /\ i[1] \in {"jmp", "j", "cbz", "cbnz", "bltz", "bgez", "br", "label"}
  /\ pc' = IF \/ i[1] = "jmp"
              \/ i[1] = "j" /\ Holds(i[2], flags[1], flags[2])
              \/ i[1] = "cbz" /\ reg[i[2]] = 0
              \/ i[1] = "cbnz" /\ reg[i[2]] # 0
              \/ i[1] = "bltz" /\ Signed(reg[i[2]]) < 0
              \/ i[1] = "bgez" /\ Signed(reg[i[2]]) >= 0
              \/ i[1] = "br" /\ Holds(i[2], reg[i[3]], reg[i[4]])
           THEN Target(code, i[Len(i)])
           ELSE pc + 1
  /\ UNCHANGED <<reg, flags, stack, depth, context, memory, monitor, interference, outcome>>

-----------------------------------------------------------------------------
(***************************************************************************)
(* Memory.  A load or store goes to the stack frame, the context and the   *)
(* tables it points to, or the bytes of a region; anywhere else it faults. *)
(***************************************************************************)

\* The record that each named field belongs to.
Owner(field) ==
  CASE field \in {"data", "size", "writable"} -> RegionsPointer
    [] field = "object" -> ObjectsPointer
    [] field = "object_field" -> ObjectPointer
    [] field = "cell" -> CellsPointer
    [] field = "entry" -> EntriesPointer
    [] field = "argument" -> ArgumentsPointer
    [] OTHER -> ContextPointer

InFrame(base, off) == base = "sp" /\ off >= 0 /\ Position(off) \in DOMAIN stack
InMemory(base, off, w) == base # "sp" /\ \A k \in 0..w-1 : reg[base] + off + k \in Address
InRecord(base, field) == field \in DOMAIN context /\ reg[base] = Owner(field)

\* <<"load", d, base, offset, width>>, <<"loadf", d, base, field>>
Accessible(i) ==
  IF i[1] \in {"loadf", "storef"} THEN InRecord(i[3], i[4])
  ELSE InFrame(i[3], i[4]) \/ InMemory(i[3], i[4], i[5])

Loaded(i) ==
  IF i[1] = "loadf" THEN context[i[4]]
  ELSE IF i[3] = "sp" THEN stack[Position(i[4])]
  ELSE Bytes(memory, reg[i[3]] + i[4], i[5])

Load(code) ==
  LET i == code[pc] IN
  /\ i[1] \in {"load", "loadf"}
  /\ IF Accessible(i) THEN Written(i[2], Loaded(i)) /\ Advance /\ UNCHANGED outcome
                      ELSE outcome' = "fault" /\ UNCHANGED <<pc, reg>>
  /\ UNCHANGED <<flags, stack, depth, context, memory, monitor, interference>>

\* <<"store", s, base, offset, width>>, <<"storef", s, base, field>>
Store(code) ==
  LET i == code[pc] IN
  /\ i[1] \in {"store", "storef"}
  /\ stack' = IF i[1] = "store" /\ InFrame(i[3], i[4])
              THEN [stack EXCEPT ![Position(i[4])] = reg[i[2]]] ELSE stack
  /\ memory' = IF i[1] = "store" /\ i[3] # "sp" /\ Accessible(i)
               THEN WithBytes(memory, reg[i[3]] + i[4], i[5], reg[i[2]]) ELSE memory
  /\ context' = IF i[1] = "storef" /\ Accessible(i)
                THEN [context EXCEPT ![i[4]] = reg[i[2]]] ELSE context
  /\ outcome' = IF Accessible(i) THEN outcome ELSE "fault"
  /\ pc' = IF Accessible(i) THEN pc + 1 ELSE pc
  /\ UNCHANGED <<reg, flags, depth, monitor, interference>>

\* One indivisible read-modify-write: <<"rmw", d, what, s, base, width>>.  The
\* compare-and-exchange compares with d.  On x86 ("rmwp") it sets the zero flag
\* and writes d only when it fails, and one and two bytes keep d's upper bytes.
Rewrite(code) ==
  LET i == code[pc]
      here == reg[i[5]]
      old == Bytes(memory, here, i[6])
      swapped == old = Low(reg[i[2]], i[6])
      new == CASE i[3] = "xchg" -> Low(reg[i[4]], i[6])
               [] i[3] = "cas" -> IF swapped THEN Low(reg[i[4]], i[6]) ELSE old
               [] OTHER -> Low(Alu(i[3], old, reg[i[4]]), i[6])
      partial == i[1] = "rmwp"
  IN
  /\ i[1] \in {"rmw", "rmwp"}
  /\ IF InMemory(i[5], 0, i[6])
     THEN /\ memory' = WithBytes(memory, here, i[6], new)
          /\ flags' = IF partial /\ i[3] = "cas" THEN <<old, Low(reg[i[2]], i[6])>> ELSE flags
          /\ IF partial /\ i[3] = "cas" /\ swapped THEN UNCHANGED reg
             ELSE Written(i[2], IF partial /\ i[6] < 4 THEN reg[i[2]] - Low(reg[i[2]], i[6]) + old ELSE old)
          /\ Advance
          /\ UNCHANGED outcome
     ELSE outcome' = "fault" /\ UNCHANGED <<pc, reg, flags, memory>>
  /\ UNCHANGED <<stack, depth, context, monitor, interference>>

\* Load-exclusive arms the monitor; store-exclusive stores only while it is
\* armed, and may always fail.  <<"ll", d, base, width>>, <<"sc", status, s, base, width>>
LoadExclusive(code) ==
  LET i == code[pc] IN
  /\ i[1] = "ll"
  /\ IF InMemory(i[3], 0, i[4])
     THEN /\ Written(i[2], Bytes(memory, reg[i[3]], i[4])) /\ monitor' = TRUE
          /\ Advance /\ UNCHANGED outcome
     ELSE outcome' = "fault" /\ UNCHANGED <<pc, reg, monitor>>
  /\ UNCHANGED <<flags, stack, depth, context, memory, interference>>

StoreExclusive(code) ==
  LET i == code[pc] IN
  /\ i[1] = "sc"
  /\ \/ /\ monitor
        /\ memory' = WithBytes(memory, reg[i[4]], i[5], reg[i[3]])
        /\ Written(i[2], 0)
     \/ UNCHANGED memory /\ Written(i[2], 1)
  /\ monitor' = FALSE
  /\ Advance
  /\ UNCHANGED <<flags, stack, depth, context, interference, outcome>>

\* Fences order accesses and change no value; CLREX disarms the monitor.
Fence(code) ==
  /\ code[pc][1] \in {"fence", "clrex"}
  /\ monitor' = (monitor /\ code[pc][1] = "fence")
  /\ Advance
  /\ UNCHANGED <<reg, flags, stack, depth, context, memory, interference, outcome>>

\* Another thread writes the accessed bytes of a shared region.
Interfere(shared) ==
  /\ interference < Interference
  /\ outcome = "run"
  /\ interference' = interference + 1
  /\ \E a \in shared, v \in Noise :
       /\ memory[a] # v
       /\ memory' = [memory EXCEPT ![a] = v]
  /\ monitor' = FALSE
  /\ UNCHANGED <<pc, reg, flags, stack, depth, context, outcome>>

-----------------------------------------------------------------------------
\* The stack pointer, as the bytes below where it was at entry.
MoveStack(code) ==
  LET i == code[pc] IN
  /\ i[1] = "sp"
  /\ depth' = depth + i[2]
  /\ Advance
  /\ UNCHANGED <<reg, flags, stack, context, memory, monitor, interference, outcome>>

=============================================================================
