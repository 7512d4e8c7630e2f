----------------------------- MODULE CpuSession -----------------------------
(***************************************************************************)
(* Small machine programs run by exec86 while the timer and the keyboard   *)
(* request interrupts, and the same program run without them.  The bytes   *)
(* of the programs, the vectors and the handlers are in memory and every   *)
(* step fetches and executes one instruction of Exec.tla.                  *)
(*                                                                         *)
(* A job is a program with its registers, and the number of interrupts     *)
(* that may arrive.  Every program ends with INT 20h.                      *)
(***************************************************************************)
EXTENDS Exec

CONSTANTS Jobs,      \* records [task, r, h, flags, irqs]
          Requests   \* the interrupts requested: 8 the timer, 9 the keyboard

VARIABLES job,       \* the job, chosen once
          cpu,       \* the machine, and the same one without interrupts
          irqs,      \* the interrupts that may still arrive
          resume     \* <<cs, ip, sp>> a handler returns to, <<>> outside

vars == <<job, cpu, irqs, resume>>

m == cpu["real"]
plain == cpu["plain"]

\* The programs, in bytes.
Exit == <<205, 32>>

Code == [
  \* CMP AX,BX; SBB DX,CX; JL +1; INC SI; JB +1; INC DI: DX:AX against CX:BX.
  compare |-> <<57, 216, 25, 202, 124, 1, 70, 114, 1, 71>> \o Exit,
  \* ADD AX,BX; ADC DX,CX; PUSHF; SUB AX,BX; SBB DX,CX; POPF.
  sum |-> <<1, 216, 17, 202, 156, 41, 216, 25, 202, 157>> \o Exit,
  \* MUL BL; DIV BL and IMUL BL; IDIV BL.
  product |-> <<246, 227, 246, 243>> \o Exit,
  signed |-> <<246, 235, 246, 251>> \o Exit,
  \* PUSH CX; l: SHL AX,1; RCL DX,1; LOOP l; POP CX; k: SAR DX,1; RCR AX,1; LOOP k.
  shift |-> <<81, 209, 224, 209, 210, 226, 250, 89, 209, 250, 209, 216, 226, 250>> \o Exit,
  \* ADD AL,BL; DAA; ADC AH,0 and SUB AL,BL; DAS; SBB AH,0.
  decimal |-> <<0, 216, 39, 128, 212, 0>> \o Exit,
  borrow |-> <<40, 216, 47, 128, 220, 0>> \o Exit,
  \* ADD AL,BL; AAA and AAM 10; AAD 10.
  ascii |-> <<0, 216, 55>> \o Exit,
  unpack |-> <<212, 10, 213, 10>> \o Exit,
  \* l: SCASB; LOOPNZ l and l: CMPSB; LOOPZ l.
  searchloop |-> <<174, 224, 253>> \o Exit,
  matchloop |-> <<166, 225, 253>> \o Exit,
  \* REP MOVSB, REP STOSW, REPNE SCASB, REPE CMPSB.
  copy |-> <<243, 164>> \o Exit,
  fill |-> <<243, 171>> \o Exit,
  search |-> <<242, 174>> \o Exit,
  match |-> <<243, 166>> \o Exit,
  \* CALL f; INT 20h; f: JCXZ r; ADD AX,CX; PUSH CX; DEC CX; CALL f; POP CX; r: RET.
  recurse |-> <<232, 2, 0>> \o Exit \o
              <<227, 8, 1, 200, 81, 73, 232, 247, 255, 89, 195>>,
  \* PUSH AX; PUSH BX; CALL f; INT 20h; f: PUSH BP; MOV BP,SP; MOV AX,[BP+4];
  \* SUB AX,[BP+6]; POP BP; RET 4.
  frame |-> <<80, 83, 232, 2, 0>> \o Exit \o
            <<85, 137, 229, 139, 70, 4, 43, 70, 6, 93, 194, 4, 0>>,
  \* PUSHF; PUSHA; LAHF; XOR BX,BX; MOV CX,BX; XCHG AX,DX; SAHF; STD; POPA; POPF.
  save |-> <<156, 96, 159, 49, 219, 137, 217, 146, 158, 253, 97, 157>> \o Exit,
  \* PUSHAD; PUSHFD; XOR EAX,EAX (word by word); MOV [0],EAX; POPFD; POPAD.
  save32 |-> <<102, 96, 102, 156, 102, 51, 192, 102, 137, 6, 0, 0, 102, 157, 102, 97>> \o Exit,
  \* LES BX,[0]; MOV AL,ES:[BX]; MOV BX,4; XLAT; CALL 0100:0012h; INT 20h;
  \* (12h) PUSH ES; POP DS; MOV [BX],AL; RETF.
  far |-> <<196, 30, 0, 0, 38, 138, 7, 187, 4, 0, 215, 154, 18, 0, 0, 1>> \o Exit \o
          <<6, 31, 136, 7, 203>>,
  \* SHL EAX,CL; SHR EAX,CL; BSR EBX,EAX.
  wide |-> <<102, 211, 224, 102, 211, 232, 102, 15, 189, 216>> \o Exit,
  \* REP OUTSB.
  output |-> <<243, 110>> \o Exit,
  \* CALL FAR [10h]; INT 20h; INC BYTE [8]; PUSH FS; POP GS; CMP AX,AX; JZ +1 (0Fh);
  \* HLT; XCHG [0Ah],AX; RETF.
  indirect |-> <<255, 30, 16, 0>> \o Exit \o
               <<254, 6, 8, 0, 15, 160, 15, 169, 57, 192, 15, 132, 1, 0, 244,
                 135, 6, 10, 0, 203>>,
  \* STI; HLT; NEG AX; HLT; NOT AX.
  wait |-> <<251, 244, 247, 216, 244, 247, 208>> \o Exit
  ]

\* Where the programs live: code, data, the extra segment and the stack.
Segments == [i \in 0..5 |-> <<768, 256, 1024, 512, 0, 0>>[i + 1]]

\* At DS:0 a far pointer and a table, at DS:10h the address of a function, at ES a few bytes to copy and search.
Data == {At(<<2, 0, 0, 3, 5, 6, 7, 8, 9, 0, 1, 2, 0, 0, 0, 0, 6, 0, 0, 1>>, 8192),
         At(<<5, 6, 2, 8>>, 12288)}

Words == 0 .. Word - 1
Octets == 0 .. Byte - 1

\* A job is one of the programs with registers and flags of their sizes.
ASSUME JobsAssumption ==
  \A j \in Jobs : /\ j.task \in DOMAIN Code
                  /\ j.r \in [0..7 -> Words] /\ j.h \in [0..7 -> Words]
                  /\ j.flags \in Words /\ j.irqs \in Nat

\* The requests that reach the processor are those of the timer and the keyboard.
ASSUME RequestsAssumption == Requests \subseteq {8, 9}

Load(j) ==
  [Reset EXCEPT !.r = j.r, !.h = j.h, !.s = Segments, !.f = decodeflags(j.flags),
                !.mem = Together({At(Code[j.task], 4096)} \cup Data \cup ROM({0, 8, 9, 28, 32}))]

-----------------------------------------------------------------------------
Init ==
  /\ job \in Jobs
  /\ cpu = [x \in {"real", "plain"} |-> Load(job)]
  /\ irqs = job.irqs
  /\ resume = <<>>

Where(x) == <<x.s[CS], x.ip, x.r[SP]>>

\* One turn of exec86, with a request of the interrupt controller or with none (0).
\* Outside a handler the machine without interrupts makes the same turn; a request
\* that is taken wakes it as it wakes the other.
Run(request) ==
  LET taken == Accepts(m, request)
      turns(x) == x = "real" \/ (resume = <<>> /\ ~taken)
      asked(x) == IF x = "real" THEN request ELSE 0
  IN  /\ ~m.exited
      /\ request # 0 => irqs > 0 /\ taken
      /\ \A x \in {"real", "plain"} : turns(x) => Goes(cpu[x], asked(x))
      /\ cpu' = [x \in {"real", "plain"} |->
                   IF turns(x) THEN Turn(cpu[x], asked(x))
                               ELSE [cpu[x] EXCEPT !.hlt = @ /\ ~taken]]
      /\ irqs' = IF taken THEN irqs - 1 ELSE irqs
      /\ resume' = CASE taken -> Where(m)
                     [] ~taken /\ resume = Where(m') -> <<>>
                     [] OTHER -> resume
      /\ UNCHANGED job

Next == \E request \in {0} \cup Requests : Run(request)

Spec == Init /\ [][Next]_vars

-----------------------------------------------------------------------------
FlagNames == {"cf", "pf", "af", "zf", "sf", "of", "tf", "ifl", "df", "nt", "ac", "iopl"}
\* A flag is a bit and iopl two; ROR of opcode66 leaves more in of.
Overflows == {0, 1, 254, 255}
Flags == {f \in [FlagNames -> Octets] : /\ \A b \in FlagNames \ {"iopl", "of"} : f[b] \in 0..1
                                       /\ f.iopl \in 0..3 /\ f.of \in Overflows}

MachineOK(x) ==
  /\ DOMAIN x = DOMAIN Reset
  /\ x.r \in [0..7 -> Words] /\ x.h \in [0..7 -> Words] /\ x.s \in [0..5 -> Words]
  /\ x.ip \in Words /\ x.seg \in Words /\ x.disp \in Words
  /\ x.f \in Flags
  /\ x.mode \in 0..3 /\ x.reg \in 0..7 /\ x.rm \in 0..7
  /\ x.hlt \in BOOLEAN /\ x.exited \in BOOLEAN /\ x.over \in BOOLEAN
  /\ DOMAIN x.mem \subseteq 0 .. Meg - 1 /\ x.mem \in [DOMAIN x.mem -> Octets]
  /\ x.ports \in [DOMAIN x.ports -> Words]
  /\ \A p \in InPorts \cap DOMAIN x.ports : x.ports[p] < Byte

\* Every register is a word, every flag a bit and every cell of the first megabyte
\* a byte.
TypeOK ==
  /\ job.task \in DOMAIN Code
  /\ MachineOK(m) /\ MachineOK(plain)
  /\ irqs \in 0 .. job.irqs

\* Memory a program cannot rely on: what is below its stack pointer (Depth is more
\* than the programs and a handler push), and the counter of the timer.
Depth == 64
Scratch(a) ==
  a \in {1132, 1133} \/ (m.s[SS] * 16 + m.r[SP] - 1 - a) % Word < Depth

\* An interrupt taken between two instructions, between two elements of a
\* repeated one or in HLT leaves registers, flags and memory as they were:
\* outside a handler the machine is the one that was never interrupted.
InterruptsInvisible ==
  resume = <<>> =>
    /\ m.r = plain.r /\ m.h = plain.h /\ m.s = plain.s /\ m.ip = plain.ip /\ m.f = plain.f
    /\ m.hlt = plain.hlt /\ m.exited = plain.exited
    /\ \A a \in DOMAIN m.mem \cup DOMAIN plain.mem : Scratch(a) \/ cell(m, a) = cell(plain, a)

-----------------------------------------------------------------------------
Done(task) == m.exited /\ job.task = task
in(i) == job.r[i]

\* The registers before INT 20h pushed its frame.
Result == [m.r EXCEPT ![SP] = (@ + 6) % Word]

\* A number of two words, compared as the program compares it.
Less(hi1, lo1, hi2, lo2) == hi1 < hi2 \/ (hi1 = hi2 /\ lo1 < lo2)

\* SBB adds the borrow to 7FFFh before it derives the overflow: the one operand
\* whose sign this changes is compared wrongly.
BorrowTurnsSign == in(CX) = 32767 /\ in(AX) < in(BX)

\* Multi-word arithmetic is that of the double word: the jumps behind CMP and SBB
\* find the order of signed and of unsigned numbers; a sum minus its second term
\* is the first, and its carry says that it wrapped; shifts up and down by one bit
\* and a product and its division return the number, when it fits.
LongArithmetic ==
  /\ Done("compare") =>
       /\ ~BorrowTurnsSign =>
            (m.r[SI] = 0) = Less(Signed(in(DX), Word), in(AX), Signed(in(CX), Word), in(BX))
       /\ (m.r[DI] = 0) = Less(in(DX), in(AX), in(CX), in(BX))
  /\ Done("sum") =>
       /\ Result = job.r
       /\ m.f.cf = Bool(in(DX) + in(CX) + ((in(AX) + in(BX)) \div Word) >= Word)
  /\ Done("shift") => Result = [job.r EXCEPT ![CX] = 0]
  /\ Done("wide") =>
       LET left == job.h[AX] % 2 ^ (16 - in(CX))
       IN  /\ m.r[AX] = in(AX) /\ m.h[AX] = left
           /\ m.r[BX] > 15 => 2 ^ (m.r[BX] - 16) <= left /\ left < 2 ^ (m.r[BX] - 15)
  /\ Done("product") /\ in(BX) # 0 => Result = job.r
  /\ Done("signed") /\ in(BX) # 0 /\ in(AX) # 128 => Result = job.r

-----------------------------------------------------------------------------
Decimal2(b) == 10 * (b \div 16) + (b % 16)

\* DAA forgets the carry of a binary sum from FAh to FFh: adding 6 wraps it to a
\* byte that looks small, and only the carry from before is asked again.
SumWraps == (in(AX) + in(BX)) \in 250..255

\* DAS, marked as wrong in the code, forgets a borrow of the whole byte when it
\* adjusts the low digit and the rest does not look too big.
BorrowForgotten ==
  in(AX) < in(BX) /\ in(AX) % 16 < in(BX) % 16 /\ (in(AX) - in(BX)) % Byte < 160

\* Packed decimal addition by ADD and DAA, with the carry taken by ADC, and
\* subtraction by SUB, DAS and SBB give the decimal sum and difference, but for
\* these operands; so do the unpacked forms.
DecimalSum ==
  /\ Done("decimal") /\ ~SumWraps =>
       /\ Decimal2(m.r[AX] % Byte) = (Decimal2(in(AX)) + Decimal2(in(BX))) % 100
       /\ m.r[AX] \div Byte = (Decimal2(in(AX)) + Decimal2(in(BX))) \div 100
  /\ Done("borrow") /\ ~BorrowForgotten =>
       /\ Decimal2(m.r[AX] % Byte) = (Decimal2(in(AX)) - Decimal2(in(BX))) % 100
       /\ (m.r[AX] \div Byte = 0) = (Decimal2(in(AX)) >= Decimal2(in(BX)))

  /\ Done("ascii") =>
       10 * (m.r[AX] \div Byte) + (m.r[AX] % Byte) = in(AX) + in(BX)
  /\ Done("unpack") => Result = job.r

-----------------------------------------------------------------------------
\* The k-th element of a repeated instruction: its offset, its address, its value
\* before the program began.
count == in(CX)
down == Load(job).f.df = 1
Kth(i, size, k) == (in(i) + (IF down THEN -1 ELSE 1) * size * k) % Word
From(k) == Segments[DS] * 16 + Kth(SI, 1, k)
To(k) == Segments[ES] * 16 + Kth(DI, 1, k)
before(a) == cell(Load(job), a)

\* What a copy moves, element by element: a byte it has written before it reads
\* it is the byte it has written.
moved[k \in 0..8] ==
  LET written == {j \in 0 .. k - 1 : To(j) = From(k)}
  IN  IF written = {} THEN before(From(k)) ELSE moved[CHOOSE j \in written : \A i \in written : i <= j]

\* The elements a search looks at before it stops: to the first that ends it.
Ends(k) == IF job.task \in {"search", "searchloop"} THEN before(To(k)) = in(AX) % Byte
                                  ELSE before(From(k)) # before(To(k))
Looked == IF \E k \in 0 .. count - 1 : Ends(k)
          THEN 1 + (CHOOSE k \in 0 .. count - 1 : Ends(k) /\ \A i \in 0 .. k - 1 : ~Ends(i))
          ELSE count

Kept(written) ==
  \A a \in DOMAIN m.mem : a \in written \/ Scratch(a) \/ (m.s[SS] * 16 + m.r[SP] + 5 - a) \in 0..5
                         \/ cell(m, a) = before(a)

\* A repeated string instruction, which the loop executes one element a turn by
\* going back to its prefix, does what a loop over the elements does: upwards and
\* downwards, over the end of the segment, with overlapping operands, with no
\* element at all, and with an interrupt behind any element.
StringsMatchLoops ==
  /\ Done("copy") =>
       /\ m.r[CX] = 0 /\ m.r[SI] = Kth(SI, 1, count) /\ m.r[DI] = Kth(DI, 1, count)
       /\ \A k \in 0 .. count - 1 :
            cell(m, To(k)) = moved[k] \/ \E j \in k + 1 .. count - 1 : To(j) = To(k)
       /\ Kept({To(k) : k \in 0 .. count - 1})
  /\ Done("fill") =>
       LET byte(k, i) == Segments[ES] * 16 + ((Kth(DI, 2, k) + i) % Word)
       IN  /\ m.r[CX] = 0 /\ m.r[DI] = Kth(DI, 2, count)
           /\ \A k \in 0 .. count - 1 : cell(m, byte(k, 0)) + Byte * cell(m, byte(k, 1)) = in(AX)
           /\ Kept({byte(k, i) : k \in 0 .. count - 1, i \in 0..1})
  /\ m.exited /\ job.task \in {"search", "match", "searchloop", "matchloop"} =>
       /\ m.r[CX] = count - Looked /\ m.r[DI] = Kth(DI, 1, Looked)
       /\ count > 0 => (m.f.zf = 1) = (Ends(Looked - 1) = (job.task \in {"search", "searchloop"}))
       /\ Kept({})
  /\ Done("output") =>
       /\ m.r[CX] = 0 /\ m.r[SI] = Kth(SI, 1, count)
       /\ count > 0 => m.ports[in(DX)] = before(From(count - 1))

-----------------------------------------------------------------------------
FlagsBack == m.f = [Load(job).f EXCEPT !.ifl = 0, !.tf = 0]

\* What a program puts on the stack it gets back: a recursion finds its arguments
\* and return addresses, also when the stack wraps at the end of its segment; a
\* called function finds its parameters by BP and removes them; PUSHA, PUSHF and
\* their 32-bit forms restore all registers and flags; a far call returns with the
\* pointers it loaded; HLT goes on behind itself.
CallsReturn ==
  /\ Done("recurse") => Result = [job.r EXCEPT ![AX] = (@ + ((count * (count + 1)) \div 2)) % Word]
  /\ Done("frame") => Result = [job.r EXCEPT ![AX] = (in(BX) - @) % Word]
  /\ Done("save") => Result = job.r /\ FlagsBack
  /\ Done("save32") => Result = job.r /\ m.h = job.h /\ FlagsBack
  /\ Done("far") => /\ Result = [job.r EXCEPT ![AX] = @ - (@ % Byte) + 7, ![BX] = 4]
                    /\ m.s[DS] = Segments[ES] /\ cell(m, Segments[ES] * 16 + 4) = 7
  /\ Done("indirect") => /\ Result = [job.r EXCEPT ![AX] = 513]
                         /\ Read16(m, 8202) = in(AX) /\ cell(m, 8200) = 10
                         /\ m.s[GS] = Segments[FS]
  /\ Done("wait") => Result = [job.r EXCEPT ![AX] = (@ - 1) % Word]

=============================================================================
