# A verification project for FSHistory

FSHistory emulates a PC from the 1980s, enough of it to run the first four
versions of Microsoft Flight Simulator natively (SDL) and in a browser
(WebAssembly). This directory holds TLA+ models of the parts of it that keep
state and interact, TLC configurations that check them on small instances, and
proofs, checked by TLAPS, of theorems that hold for all values of the constants.

Paths below are relative to the repository; `src/` is its C source. In
`PROJECT.json` they carry one more `src/` in front.

## The system

One thread does everything. The host, `src/main.c` and `src/sdl.c` or `dos.js`,
calls `Run` again and again; `Run` calls `exec86`, which executes some hundred
thousand instructions; between two calls the host delivers keys and mouse
events and draws the screen. Whatever looks concurrent is an interleaving of
these: the guest program, its interrupt handlers, the timer that is counted down
by the instruction loop, the events of the host. In the browser the callbacks of
the page (buttons, animation frames, finished downloads) are further actors.

| Component | Source | State | Operations | Hard behaviour | What makes it correct |
|---|---|---|---|---|---|
| Interrupt controller | `devices/pic.c` | request, mask and service register, the poll word `PIC_triggered` | trigger, next interrupt | the poll word is a copy | the copy is exact; lowest line first, each request once |
| Interval timer | `devices/pit.c` | counter, reload value, one flip-flop for reads and writes | count, in, out | halves of accesses of handler and main program interleave | the counter stays in range |
| Interrupt loop | `cpu/cpu.c`, `devices/rom.c`, `utils/exit_strategy.c` | interrupt flag, HLT, cs:ip, frames on the stack | a turn of `exec86`, INT, IRET, CLI, STI, HLT, the ROM stubs, exit | nested handlers, wake-up, termination that is a HLT | frames and ticks are exact, the ROM's own instructions are not interrupted, termination is final |
| Keyboard | `devices/keyb.c`, `sdl.c`, `dos.js` | one scan code byte, the shift state | key down, key up, port 60h, INT 16h | events faster than reads, three users of one byte | the newest event arrives, no press is read twice |
| Expanded memory | `devices/ems.c` | pages of handles, the page in each window | allocate, map | windows are copies | they behave as views |
| DOS memory | `dos/alloc.c`, `dos/mz.c`, `dos/dos.c` | the end of what is in use, the newest block | load, allocate, free, resize | 16-bit sums; only the newest block is known | blocks never overlap |
| DOS files | `dos/dos.c`, `fs/fs.c` | files, handles, the transfer area, the search index in guest memory | create, open, close, read, write, seek, set area, find | several handles on one file, unsigned lengths, listings that alternate | contents under names, positions inside files, complete listings |
| Browser host | `dos.js`, `index.html` | the page's globals, pending loads and frames | `Main`, `Loop`, `exit`, buttons | loads that overlap, restart after a fault | no loop too many, the version asked for, never dead |
| Video adapter | `devices/vga.c` | video memory, graphics and CRT registers, mode, first byte shown, cursor | ports, accesses to the window, INT 10h, drawing | one memory for modes of one byte and of eight pixels an address; five interfaces that set a mode | loads, stores, pictures and text agree and stay inside the memory |
| Instruction set | `cpu/cpu.c`, `arith.c`, `flags.c`, `repops.c`, `opcode66.c` | registers, flags, prefixes | some 250 opcodes and their 32-bit forms | flags at edges, repeated strings, interrupts between any two instructions | programs compute what they mean, interrupts leave no trace |
| Memory, ports | `devices/ram.c`, `ram.h`, `ports.c` | the RAM, which ports exist | reads and writes of 8 and 16 bits | two ways to wrap an address | part of the instruction set |
| Services without state | `dos.c`, `bios.c`, `clock.c`, `mouse.c`, `disk.c`, `multiplex.c` | host mouse position | queries | none | not modelled |
| Game patches | `fs4.c` | none | patches of guest code | about the games' bytes | not modelled |
| Debugging | `disasm/`, `debug/` | none in a release build | | | not modelled |
| Browser libc, fonts, bzip2 | `wasm_libc_wrapper/`, `fonts.c`, `bzip2.js` | the end of the heap | | data and third-party code | not modelled |

The devices are called by the instruction loop (ports), by the ROM stubs
(`ROMExec` dispatches an interrupt number to a service) and by the host (keys,
mouse, drawing). Timer and keyboard call `PIC_trigger`; only the loop takes a
request. Every service that gives up calls `exit_or_restart`.

## The modules

    IrqContract <= Interrupts  -> Pit -> Pic                InterruptsProofs
                   KeyboardSession -> Keyb -> Pic, KeyMaps  KeyboardProofs
    EmsContract <= Ems                                      EmsProofs
                   DosAlloc                                 DosProofs
    DosFileContract <= FileSearch -> DosFiles -> Fs         DosProofs
    EgaContract <= Vga                                      VgaProofs
                   CpuSession -> Exec -> Cpu32 -> Cpu
                      -> RepOps -> Machine -> Alu           CpuProofs, CpuProgramProofs
                   WebLoader                                WebLoaderProofs

`->` is EXTENDS, `<=` is "is implemented by". The module `MCx` gives `x` the
constants a cfg cannot write.

Variables have the names of the C variables where there is one; a variable
marked "history" in its comment is not in the program and only lets a property
speak about the past. One action is one handler with all it calls. A definition
`Bug_X` is `X` with a mistake a programmer could make. It is used by nothing:
it documents, for each property, a change of the code which that property is
there to notice (`mutants` in `PROJECT.json`).

**Pic, Pit** are the effects of the C functions on their state. `PIC_triggered`
is a variable of its own, updated where the code updates it. A byte is a number
below `ByteBase`, so the half accesses of port 40h are exact at a small size.
Out of the model: the ports of the PIC, which are accepted and ignored.

**Interrupts** is `exec86`. A turn of its loop has three phases: count the timer
down, test the poll word (deliver, sleep or pass), execute one instruction.
`phase` says which is next, and host keys arrive only between turns, as in
`Run`. Guest code is arbitrary: at each turn it may work, halt, set or clear the
interrupt flag, call an interrupt, use port 40h or fault; its handlers return at
any time. `MaxFrames` bounds the guest's stack: it makes no INT or STI in a deeper handler. The stack is the sequence of interrupt frames. `loc` is cs:ip, as
precise as the ROM stubs need. `exit_or_restart` ends the process (`"gone"`) or,
in the browser build with status 0, halts for ever (`"frozen"`).
**IrqContract** is what a guest relies on, without registers, poll word, loop
or timer. The refinement mapping takes `Pending` for its requests, the flag and
the flags saved in frames for its enable states, `hltstate` for sleep.

**Keyb** is the scan code byte with its three users. **KeyMaps** holds both
translations of host keys. **KeyboardSession** adds the typist and the guest; a
rigid variable `session` chooses, in the initial state, whether keys overlap and
how the guest reads them.

**Ems** is `EMSInterrupt` with pages as values. `MapPage` saves the old page of
the window, then loads, in that order. **EmsContract** has windows that are
views; its `store` is mapped to the copy in the window if there is one. Both know what
the guest did last (`call`), or a mapping that loses a write could pass for a write.

**DosAlloc** is the allocator with its callers. The variable `blocks` is what the
guest was told is its own, and `misled` whether a resize has gone wrong: granted for a
block that is not the newest (`Mistaken`), or past the end of memory (`Overruns`). Such
calls are made as the code makes them; the properties say what holds until then.
16-bit arithmetic is modulo `Word`.

**Fs, DosFiles, FileSearch** are the file table, the handle calls, and the
transfer area with the search calls; a guest, chosen once, works with handles or
lists files. Offsets are modulo `OffsetWord`, as the unsigned differences of
the code require. The pattern of find next is read again from the program, as the
code does it, and not from the transfer area, so a program keeps one pattern
per area. **DosFileContract** knows names, contents and positions, no
tables. In it a handle that is given out was not in use. `Contents` and `Opened`
are the refinement mapping.

**Alu** is `arith.c` and `flags.c`: every function returns the flags, or a result
and flags, for operands below a modulus, so that one definition serves the 8- and
16-bit code; the 32-bit forms in Cpu32 are on pairs of words. **Machine** is the state of the processor as a record, memory as a
function on the bytes that were written, the stack, and the operands a ModR/M byte
names. **RepOps**, **Cpu**, **Cpu32** and **Exec** are the opcodes: strings
and repetition; data movement, arithmetic and shifts; the forms behind prefix 66h;
jumps, calls, ports, the ROM's callbacks, and the dispatch. An opcode is an operator
from machines to machines, and one turn of `exec86` is `Turn`. **CpuSession** puts
bytes of programs into memory and runs each twice: as `m`, with requests of the timer
and the keyboard that may come at every turn, and as `plain`, without. Its state is
the job, the two machines, and where the interrupted program goes on.

**Vga** is the video adapter, with registers and bytes as sets of bits, so that
`&` and `|` are intersection and union. Three guests, chosen once, use it: one paints in the
16-colour modes, one writes text, one sets modes through every interface there
is. Its history, `caret` and `typed`, says where text belongs.
**EgaContract** is what the painting guest relies on: eight pixels behind an
address, a mask, colours, two kinds of reads, and a page that is shown. It knows no bit order and no
memory behind the window.

**WebLoader** is the page. A callback is one action, since JavaScript runs it to
its end. `LoopRuns` is shared by the frame callback and by the end of a load, as
`Loop()` is. A fault is the `exit` import, which calls `Main` inside `Loop`; the
compiled program traps after it, so no further frame is requested. A load may end before
the frame in which the stopped loop sees `doStopLoop`; `overtaken` counts these.

## What the runs check

| Run | States | Bounds | Shows |
|---|---|---|---|
| interrupts | 1,509,088 | two lines, bytes of 2 bits, 5 nested frames, ticks modulo 2 | type invariant; `PollIsExact`, `CounterInRange`, `StubsUninterrupted`, `TicksCountTimerIrqs`, `TerminationIsFinal`; `ContractSpec` |
| interrupts_live | 4,736 | one nested frame, timer vector taken over by the guest, native build | `HaltEnds`, `TimerIrqTaken` under fairness |
| keyboard | 226,541 | 6 events on 4 keys (shift, two letters, one without a code), three kinds of guests | `NewestEventReachesHandler`, `NoPressReadTwice`, `ReportIsAPress`, `ReadGetsLastPress` |
| keyboard_bracket | finds it | the browser's table | see findings |
| ems | 5,280 | 2 windows, 2 contents, 2 handles of up to 2 pages | `ContractSpec` |
| dos_alloc | 2,633,733 | memory of 15 paragraphs, a prefix of 2, words of 5 bits, two images, requests of 0, 1, 2 and 5, up to 4 blocks at a time | `BlocksDisjoint`, `BlocksBelowLimit`, `EndCoversBlocks` |
| dos_alloc_wrap | finds it | a request near the word size | see findings |
| dos_files | 134,130 | 3 names, up to 3 files, handles 5 and 6, files of 2 bytes, offsets modulo 16; 3 patterns, 2 areas | `OffsetInRange`, `ContractSpec`, `ListsEachMatchOnce`, `EndsAfterTheLast` |
| cpu | 24,985 | 25 programs on words at the edges, strings of 0 to 3 elements, up to 2 interrupts | type invariant; `InterruptsInvisible`, `LongArithmetic`, `DecimalSum`, `StringsMatchLoops`, `CallsReturn` |
| vga | 141,110 | window bytes 0 and 3000h, a page flip to 3000h, planes 0, 2 and 5 read, colours 0 and 5, masks FFh and 13h; up to 2 written places; all mode numbers of the code | `MemoryOK`, `TextIsShown`, `EgaContractSpec` |
| web_loader | 21,014 | 4 calls of `Main`, 2 versions, all 8 settings | `LoopsAreOvertaken`, `PatientUserIsServed`, `NeverDead`, `EventuallyRuns` |
| web_loader_race | finds it | nothing goes wrong but a second button | see findings |

Why the bounds are enough. *Interrupts:* with two lines there is a priority to
get wrong; five frames let the guest enable interrupts inside INT 1Ch and enter the timer stub
twice more inside itself; the reload
values include the smallest that is not below one step, all torn combinations of
them, and the power-on value. The tick counter modulo 2 distinguishes one tick
from none, and from one too many. *Keyboard:* every property is violated by its mutant in fewer
events; shift, a second letter and a key without a code are the cases the code
distinguishes. *Ems:* two windows and two pages are the smallest instance in
which mapping moves a page between windows, and remaps one onto itself.
*DosAlloc:* sizes below, at and above what is left, an image larger than
memory, and blocks under the newest one that are empty, half as long as a prefix and just as
long, so that the resize the code mistakes is made. *DosFiles:* two handles on one file, a read at, before and over the end,
seeks with wrap-around (15 is -1); a listing of two files has a gap between them,
and a third file comes while it goes on; two areas alternate.
*Cpu:* the numbers are 0, 1, the largest, and both sides of the sign; strings run
over the end of a segment in both directions and overlap; an interrupt meets every
instruction of the short programs and every element of the strings. The interrupt may come at
any turn, so one is enough to break a pair of instructions, and two make one wait
for the other. *Vga:* mode 0Dh starts at byte 3000h of the window, which makes 0 and 3000h the addresses that are
shown in one mode and not in the other; 13h as mask and 5 as colour are not
symmetric, so no reversed order goes unnoticed. The text places are the edges of a row,
of the screen, and a row far below it.
*WebLoader:* the fourth call is a restart
during the third load.

Runs with CHECK_DEADLOCK FALSE really may stop: a bound is used up (keyboard), the
program has exited (DOS, cpu, video), the last load has failed (browser).

**Fairness.** `Interrupts!FairSpec` assumes weak fairness of `exec86` as a whole:
the host calls `Run` in an endless loop (`main.c:178`) or from every animation
frame. Nothing is assumed of the guest or of keys: `TimerIrqTaken` states what it
needs of the guest, that it has interrupts on at the poll again and again, and
`HaltEnds` that no half access of port 40h has stopped the timer.
`WebLoader!FairSpec` assumes that the browser shows frames and ends each load,
with success or failure, and that the page's first `Main` is called.

### Assumptions about guests and users

They are constants or rigid variables, so that none is hidden:

- `SafeReloads`: no write of port 40h leaves a reload value below one step. With 0
  for 65536 the counter of the code drifts downwards.
- `Sessions`: `ReadGetsLastPress` is for keys pressed one at a time. With rollover,
  a key that arrives between INT 16h/1 and INT 16h/0 replaces the first.
  `NewestEventReachesHandler` is for guests that do not use INT 16h: its read
  empties the byte that port 60h shows. INT 16h/0 without a key does not wait.
- `Aliases = FALSE`: no logical page in two windows; the windows would hold
  copies that differ after a write.
- The requests of dos_alloc do not wrap; dos_alloc_wrap has one that does. No size is excluded
  otherwise. What `misled` names ends the promise: 4Ah adds 10h to its segment, which is right for the
  program's block and wrong for others. Any block that starts 16 paragraphs below the newest, whether it is
  16 long or shares them with others, say two of 8, is taken for the newest, and the end moves
  into what is in use; so is the program's own block when it has been made empty and the newest lies
  in its place. And the new end is not compared with A000h. After a mistaken resize or one past the
  end only the types are claimed.
- `FreshNames`, `FreeHandle`: creating an existing name appends a second entry
  that can never be opened by name, and with all handles open the last one is
  given out again.
- The programs of the cpu run have an even stack pointer and no operand in video memory. `Followed` is
  the guard of a turn: the cases that C leaves undefined (IDIV of -80000000h by -1, which traps in WebAssembly, reg fields 6 and 7 of a segment register, FE with a
  reg field above 1, a segment of nothing but prefixes) and callbacks of services that are other modules
  end a behaviour; the programs meet none of them. `LongArithmetic` and `DecimalSum` name the operands for which the code is wrong:
  `BorrowTurnsSign`, `SumWraps`, `BorrowForgotten`.
- `MayPaint`: a program paints with set/reset enabled in all planes, as the games
  do; the code paints the set/reset colour whatever is enabled or stored. `VesaModes` is
  100h only: INT 10h/4F02h takes any number and the next picture ends the
  program. `Written`, `MaxTyped`: some thousands of line feeds would lead the cursor
  out of the video memory; `WriteAssumption` keeps every place it writes to a row from the end. It
  also keeps a program that uses mode 7 and a colour mode from writing so far below the
  screen of one that it reaches the buffer of the other.
  `PaintAssumption`: the painter's addresses are in the window, colours compared have four bits, the
  care register is programmed with all planes or none.
  `ModeAssumption`: the modes set by VESA are ones that can be drawn.
- A program that lists files goes on while files are found.
- `setting.patient`, `setting.offline`: with overlapping loads the version and the number of loops are not what was
  asked for; after a failed load the page is stopped.
- `EgaContract` speaks of planes by number. The code shifts by the whole byte of the read map register, so a
  plane from 4 on is in no pixel and a load returns 0, where a real adapter looks at two bits; counts of
  32 and more, which C leaves open, are taken modulo 32 as WebAssembly and x86 do.

### Findings

- The browser's code for `]` is ABh (`dos.js:191`), which has the release bit; the
  native table has 1Bh. `PressIsReported` fails at the first press.
- `Allocate` adds in 16 bits and compares afterwards (`dos/alloc.c:22`). A request
  of FFFFh paragraphs, the usual question for how much there is, succeeds.
- Of two overlapping loads the one that ends last wins (`dos.js:458`), while the page
  highlights the button pressed last; `SelectedRuns` fails in five states.

Met while modelling and kept in the models as the code has it, without a run that
fails:

- Browser: a load that ends before the frame of the stopped loop starts a second loop on the one instance
  (`dos.js:455`), and nothing stops either of them until the next `Main`; on a page that is shown this takes a load within a
  frame, from the cache, on a hidden page any load. `LoopsAreOvertaken` says that nothing else does.
- Interrupts: the PIC has no end of interrupt, so a hook of INT 1Ch that enables interrupts lets
  the next timer interrupt enter the stub inside itself, as deep as the guest's stack goes.
- DOS memory: the two resizes described under assumptions.
- Keyboard: `KeyUp` clears the shift state only when the previous event was a shift key
  (`keyb.c:28`); the native numeric Enter is F12 (`sdl.c:200`).
- EMS and files: the page-count and handle limits of EMS and the file limit are not tested;
  find next takes its pattern from ds:dx.
- Processor: SBB adds the borrow before it derives overflow (7FFFh, `arith.c:193`); DAA asks
  the old carry only and DAS, marked wrong, forgets borrows (`cpu.c:1104`); IDIV has no
  quotient of -128; a 32-bit ADD returns 16 bits; REP before a segment prefix, and AAS, end
  the machine; no interrupt is held back behind MOV SS;
  XCHG computes its address twice; INS stores at the source pointer.
- Video: a Hercules picture is drawn from offset B0000h of a memory whose window puts
  that page at 10000h; mode 0Dh starts at A000:3000h though a comment has A0000h; text
  is never scrolled; the buffers of mode 7 and of the colour modes overlap below the 204th row of mode 7; the picture of mode 1 has rows of 80 bytes where the teletype function writes
  rows of 160; a store in the 16-colour modes ignores the value; colours are compared as
  whole bytes; a mode switch clears nothing.

## What is proved

The proofs hold for all constants that satisfy the assumptions named in the
modules: any number of lines, any byte size, any vectors, any memory size.

**InterruptsProofs.** `PollIsExact` is inductive by itself. `TypeCorrect` follows
with it (a delivery needs `Pending` to have a least element, which needs
`PIC_triggered = Pending`). `StubsUninterrupted` is not inductive: `StackInv` adds `StubsMasked`,
that interrupts are off in a stub and in every frame that returns to one. A frame pushed from a stub
is a software frame only because interrupts are off there, and an IRET restores
off for a stub only because its frame says so, through all handlers that the guest
nests inside INT 1Ch. `TickInv` adds that the callback of the timer stub
is only reached as the first instruction of a handler, and that no frame returns to
it. `FrozenInv` adds the
phase: a frozen processor is never about to execute. `CounterInv` adds that the reload value, and
its high byte alone, are not below one step, which is what the next half of a write
keeps; the arithmetic of the two bytes is in
`HighByte` and `SmallWord`. `ContractStep` maps each action to a step of IrqContract or
a stutter; it needs `AwakeInRun`.

**EmsProofs.** `IInv` is `TypeOK` and, without aliases, `Exclusive`: a page is in at most
one window. That makes the CHOOSE of the refinement mapping unique and lets a
mapping change no page.

**DosProofs**, memory: `AllocTypeOK` holds without assumptions, the others for `NoSumWraps`, requests of any
size for which the 16-bit sum does not wrap. `MemoryInv` adds `Layout` until the guest is misled: every block lies below the
end, starts at or before the newest block's start, and has its own segment for a name, but for the program's block, which starts at
`FirstSeg`. `ModifyStep` is the point: a resize that is granted, not mistaken and within the memory is one of
the program's block, then the newest starts at `FirstSeg`, and no other block is left.

**KeyboardProofs.** `NewestEventReachesHandler` needs `PortInv`: for a guest of the port, the byte
is the newest event, which was seen, is requested, or is about to be read by the handler that
was entered. `ReportIsAPress` is inductive with the types. `NoPressReadTwice` needs a count,
`CountInv`: reads and what is left to read never exceed the presses. `ReadGetsLastPress` needs
`SingleInv`: a guest without rollover has at most one key down, the key pressed last, and the byte keeps
its code from the report to the read, whether it is released meanwhile or not. That a pending request has a least line, which NextIrq chooses, comes here and in
InterruptsProofs from the library's well-foundedness of natural numbers.

**WebLoaderProofs.** `TypeOK` bounds the frames by the calls of `Main`, which is no matter of types:
`CountInv` counts frames, pending loads and calls not made together. `NeverDead` is inductive
with the types. `PatientInv` says for a patient user that at most one load is pending, that it
is for the version asked for last and the loop is stopped meanwhile, that a loop that runs has that
version, and that frames beyond the first are loads that ended before the frame of the stopped loop. The
theorems are for any number of calls of `Main`; only `FairSpec` is left to TLC.

**DosProofs**, files: all theorems are of `SearchSpec`, handles and listings together. `IInv`
is `TypeOK`, file sizes within the bound, and `OffsetInRange`: without
the sizes the sum of a seek could wrap. `SearchInv` says of each area that it holds a
`Listing`: what was found is increasing, matches, has no gap, and while files are
found the index is one behind the last. Lemmas about `Listing` on a plain table
(it starts, goes on, ends, survives new files) are put together by `OneListing`, which
leaves the other areas alone. FindFile is a CHOOSE of the least index; `LeastExists` gets it from the library's
well-foundedness of natural numbers. `ImplementsContract` assumes `FreshNames`
and `FreeHandle`, and adds `RefInv`: the file of a handle is the first of its name, so a write
through a handle changes what the contract calls the contents of that name.

**VgaProofs.** `IInv` has a part for each guest, since only what a guest does to the
registers makes its accesses safe. `RamOK` alone, that every cell written is one of the
video memory, is not inductive: a store in a 16-colour mode reaches eight times as far as in the others, and
text goes where the cursor is. `PainterOK` says that a painter's pictures begin with a
whole byte of the window, that its pixels and the colour it compares with have four
bits, and that don't care is all planes or none: what the mapping to whole pixels needs, because the code compares
bytes and knows no other masks. `WriterOK` says that the buffer drawn is the one written to, that
the cursor is where the next character belongs, and that what was typed is in the
memory. The last is kept only if the two text buffers do not meet, which the proof
found: from `B8000h` on they are the same bytes. `ImplementsEgaContract` maps a cell to the pixel
with the mirrored bit number (`Mirror`), uses that a cell belongs to one byte of the
window (`PixelOfByte`, `PlacesApart`), and goes register by register; loads, stores and the picture have a
lemma each; the mapping holds for every byte in the read map register, and the first byte of the picture is that of the page programmed last.

**CpuProofs.** `MachineStaysTyped` is the type invariant of a session, for any set of jobs
that satisfies `JobsAssumption` (known programs, registers and flags of their sizes): after
`Load` the programs are data like any other, so the theorem is about every byte they can
execute or overwrite. `Typed` adds that the job is one of `Jobs`. `MachineOK` is
preserved by each way to reach the machine (registers of both sizes, reads and
writes, push and pop, the ModR/M byte), then by each opcode, by the three halves of
the dispatch (`LowOK`, `MiddleOK`, `HighOK`), by `SkipPrefixes`, whose CHOOSE has a least number of
bytes to skip unless the segment is prefixes only, and by an interrupt. What it found: `of` is not a bit. A ROR of
opcode 66h leaves 254 or 255 in it (`Overflows`); PUSHF then stores ones above it, INTO takes it for set, and
decoding the word makes it a bit again. The parity and the logical operations are
closed sums over bits, and `Operation` chooses among first-order definitions, since the provers
unfold no recursion.
`CompareFindsOrder`, for every even size of operands: JB and JL behind CMP find the
order. `LongCompareFindsOrder`: behind CMP and SBB they find the order of double words, with sign
unless the borrow meets the largest positive word, in which case the answer is always wrong
(`BorrowTurnsOrder`). `FlagsSurviveTheStack`: the flags come back from the word they are pushed in.

Of numbers longer than a register, for every size, value and carry: `LongSumTakenBack`,
`LongShiftTakenBack` (a step by one bit), `DivisionUndoesProduct` and `SignedDivisionUndoesProduct`, from the
quotient and remainder of Euclid. Of decimal numbers, for all digits: `PackedSumIsDecimal`,
`PackedDifferenceIsDecimal`, `UnpackedSumIsDecimal`, `UnpackedAgain`; digit by digit, the adjusted
byte is the wanted one modulo 256, and what remains is whether the code recognises that it wrapped. The operands
it does not recognise are the hypotheses, the same as `SumWraps` and `BorrowForgotten` of the run.

Interrupts: `FramesComeBack` (a frame, then IRET), `KeyInterruptUnnoticed` (INT 9) and
`TimerInterruptUnnoticed` (INT 8, which counts, pushes three registers and calls INT 1Ch) say that the interrupted program gets back its registers,
flags, halves of 32 bits, ports, and all memory but the frames below its stack pointer and the timer's
counter. They are about any program: `Interruptible` asks for a machine of type `MachineOK`, a stack
that lies between the data of the BIOS and the ROM with an even pointer, the flag ac
clear and an overflow flag of one bit; `ROMInPlace` for the bytes that `Load` puts
at the vectors and in the ROM. Each is true in every state of run `cpu` outside a handler. An odd
pointer at FFFFh would put a word around the end of the segment, which the code reads
and writes differently; ac is lost by PUSHF, as `FlagsSurviveTheStack` says. The proof follows the handler turn
by turn: what memory it fetches (`AtROM`), what it leaves alone (`Keeps`), and that frames do
not meet the ROM or the counter (`FrameInRAM`, `CounterApart`). A request that arrives inside a handler waits,
since its flag is clear: the turns take any `q`.

`RegistersComeBack`, `NearCallReturns` and `FarCallReturns` are the parts of `CallsReturn` that hold
for every program with such a stack: `Holding` says which words the pushes have left where, and
`Balanced` what may happen before they are popped, which is anything that keeps the segment, the
pointer and the words.

**CpuProgramProofs** is about the programs of a session, from the bytes `Load` puts in memory
to the INT 20h at their end. A program has a *way*: the points it passes, each an
offset in its code with the registers, the flags and the words it has on the stack there, written
as terms of the operands of the job; in a loop those of every round, with the number of the round as a
parameter. `Sound` says that the job begins on the way and that each point
leads to another one or is the INT 20h; one lemma per instruction fetches the bytes, goes
through prefixes, dispatch and ModR/M byte, and gives the next point. The inductive
invariant is `Underway`: the machine and the one that is never interrupted stand at the same point
(`Abreast`), or the machine is at a known turn of the handler of INT 8 or 9 and will come back to that
point (`Away`), or both have ended (`Gone`). `Abreast` alone is not inductive, since a handler takes
up to twelve turns, and the property that the machines agree is not either, since it does not say that
the program leaves the vectors, the ROM and its own bytes alone. `JobsStayOnTheirWay` proves
it, for every `Jobs` and any requests at any turn; `RequestsAssumption` says that these are 8 or 9:
only `pit.c` and `keyb.c` call `PIC_trigger`, for lines 0 and 1.

It needs `Passes` of the job: an even stack pointer (`EvenStack`), where a word around the end of the
segment would be read and written differently; the operands the program is written for (`Operands`: decimal
digits for the decimal programs, bytes for the products, the two answers of `compare` zero at first,
strings to search that do not lie where the handlers write, at least one element where `LOOPNE` or
`LOOPE` counts, at most nine rounds of the recursion, which must fit on the stack); no division that ends in INT 0; and one of fourteen programs. Every job of run `cpu` has the
first two. From the invariant: `JobsNoticeNoInterrupt` is `InterruptsInvisible` of these
programs; `DecimalProgramsAreDecimal` is all of `DecimalSum`, with the theorems about
DAA, DAS, AAA, AAM and AAD; `DoubleWordsComeOut` is `LongArithmetic` but for the two programs with
shifts, with those about double words and divisions. That the exceptions are the same in both,
the borrow that meets 7FFFh and the sums from FAh to FFh, is part of the statements.

`ComparisonsMatchLoops` is the part of `StringsMatchLoops` about `SCASB` and `CMPSB`, repeated by a prefix
or by `LOOPNE` and `LOOPE`: they stop at the first element that ends the comparison or behind the last
one. No induction over the elements is needed: a comparison forgets the flags of the one before
(`FlagsForget`), so the registers and flags behind n elements are terms of n, and a point with n = k
leads to one with n = k + 1. `Unended`, part of the points of the way, says that none of the first n elements has
ended it. SP may not be 2 or 4 at the end: the frame of INT 20h then lies around the end of the
segment, which `Kept` does not exclude.

`CallsComeBack` is the part of `CallsReturn` about `recurse` and `frame`. The points of the recursion have two
parameters, the rounds that are left and whether it goes down or comes back; a word of the stack is named by its
slot, its distance from where the program began, so that the arguments and return addresses of all rounds are terms of
the slot and survive the frames of handlers below them, also over the end of the stack segment. `frame` reaches its
parameters by BP, and `RET 4` removes them.

Only model-checked: `InterruptsInvisible` of the other programs, `LongArithmetic` of `shift` and `wide`,
`StringsMatchLoops` of `copy`, `fill` and `output`, and `CallsReturn` of `save`, `save32`, `far`, `indirect` and
`wait`. What `copy` moves when its
strings overlap (`moved`) and what `shift` leaves after CX rounds are defined by recursion over the
rounds, an induction over data; `wide` needs the bits of 32-bit shifts by CL. `fill`, `output` and these programs of
`CallsReturn` have no way: they store to memory or to ports, change segments, save all flags or halt,
while a point of a way allows registers, flags and stack words only. Their pushes, pops and calls are the theorems
above, which leave to TLC that the programs are balanced, the indirect calls and the 32-bit forms.
`HaltEnds`, `TimerIrqTaken` and `EventuallyRuns` are
liveness under fairness, outside what the prover handles.

## Not modelled

- Palette and fonts of the video adapter, the description of a VESA mode, and registers
  that are stored and never used: no operation depends on them.
- The BIOS, clock, mouse, disk and multiplex services: they answer from constants or from the last
  event of the host. A disk read copies sectors of an image that is never written.
- The prefix and the relocation of a loaded program, the game patches of `fs4.c`: statements about the
  bytes of the games, which are not part of the source.
- Disassembler, tracing and comparison with another emulator: debug builds, nothing of the
  emulator's state.
- The browser's C library, bzip2, the font table: third-party code or data.
- Speed: how many instructions fit between two frames of the host is not
  part of any statement; keys come between any two turns.
