------------------------------ MODULE DosAlloc ------------------------------
(***************************************************************************)
(* DOS memory: src/src/dos/alloc.c with its callers, the program loader    *)
(* (LoadMzExe in mz.c) and INT 21h 48h, 49h and 4Ah (dos.c).  Memory is    *)
(* handed out from one growing end, in paragraphs of 16 bytes; segments    *)
(* are 16-bit words.                                                       *)
(*                                                                         *)
(* blocks is what the guest believes: the memory it was told is its own.   *)
(* The guest names a block by the segment it was given, the program's own  *)
(* block by its prefix, PspSize paragraphs below the load segment.         *)
(***************************************************************************)
EXTENDS Integers, FiniteSets

CONSTANTS
  Word,              \* 65536
  FirstSeg,          \* 1A2h, nextfreeseg at AllocInit
  TopSeg,            \* 9FFEh, what AvailableRam counts to
  Limit,             \* A000h, the end of conventional memory
  PspSize,           \* 10h
  ImageSizes,        \* what a program asks for when it is loaded
  Requests,          \* what a guest asks for
  MaxBlocks          \* bound: blocks a guest holds at a time

ASSUME AllocAssumption ==
  /\ {Word, FirstSeg, TopSeg, Limit, PspSize} \subseteq Nat \ {0}
  /\ PspSize < FirstSeg /\ FirstSeg < TopSeg /\ TopSeg + 1 < Limit /\ Limit < Word
  /\ ImageSizes \subseteq Nat
  /\ Requests \subseteq 0..(Word - 1)
  /\ MaxBlocks \in Nat \ {0}

VARIABLES
  nextfreeseg,       \* uint16_t
  lastallocseg,      \* uint16_t, the only block that can be resized
  blocks,            \* history: the blocks the guest owns, [name, first, end]
  running,           \* the program has been loaded
  stopped,           \* exit_or_restart(1)
  misled             \* history: a resize went wrong, see Mistaken and Overruns

allocVars == <<nextfreeseg, lastallocseg, blocks, running, stopped, misled>>

Segments == 0..(Word - 1)
Blocks == [name : Segments, first : Segments, end : 0..(2 * Word)]

AllocTypeOK ==
  /\ nextfreeseg \in Segments
  /\ lastallocseg \in Segments
  /\ blocks \subseteq Blocks
  /\ running \in BOOLEAN
  /\ stopped \in BOOLEAN
  /\ misled \in BOOLEAN

Bug_AllocInit ==
  /\ nextfreeseg = 0
  /\ lastallocseg = 0
  /\ blocks = {}
  /\ running = FALSE
  /\ stopped = FALSE
  /\ misled = FALSE

AllocInit ==
  /\ nextfreeseg = FirstSeg
  /\ lastallocseg = 0
  /\ blocks = {}
  /\ running = FALSE
  /\ stopped = FALSE
  /\ misled = FALSE

-----------------------------------------------------------------------------
AvailableRam == (TopSeg - nextfreeseg) % Word

\* Allocate: the new end is a 16-bit sum, and is compared after the addition.
NewEnd(paragraphs) == (nextfreeseg + paragraphs) % Word
Bug_OutOfMemory(paragraphs) == NewEnd(paragraphs) > Limit
OutOfMemory(paragraphs) == NewEnd(paragraphs) >= Limit

Smaller(a, b) == IF a < b THEN a ELSE b

\* LoadMzExe: never more than there is, so that Allocate succeeds; one
\* paragraph is skipped afterwards.
LoadMzExe(size) ==
  LET paragraphs == Smaller(size, AvailableRam)
  IN  /\ ~running /\ ~stopped
      /\ lastallocseg' = nextfreeseg
      /\ nextfreeseg' = (NewEnd(paragraphs) + 1) % Word
      /\ blocks' = {[name |-> nextfreeseg - PspSize, first |-> nextfreeseg,
                     end |-> nextfreeseg + paragraphs]}
      /\ running' = TRUE
      /\ UNCHANGED <<stopped, misled>>

\* ah = 48h.
Bug_DosAllocate(paragraphs) ==
  /\ running
  /\ ~OutOfMemory(paragraphs)
  /\ nextfreeseg' = NewEnd(paragraphs)
  /\ blocks' = blocks \cup {[name |-> nextfreeseg, first |-> nextfreeseg,
                              end |-> nextfreeseg + paragraphs]}
  /\ UNCHANGED <<lastallocseg, running, stopped, misled>>

DosAllocate(paragraphs) ==
  /\ running
  /\ ~OutOfMemory(paragraphs)
  /\ lastallocseg' = nextfreeseg
  /\ nextfreeseg' = NewEnd(paragraphs)
  /\ blocks' = blocks \cup {[name |-> nextfreeseg, first |-> nextfreeseg,
                              end |-> nextfreeseg + paragraphs]}
  /\ UNCHANGED <<running, stopped, misled>>

\* "Out of memory": exit_or_restart(1).
DosAllocateFails(paragraphs) ==
  /\ running
  /\ OutOfMemory(paragraphs)
  /\ lastallocseg' = nextfreeseg
  /\ nextfreeseg' = NewEnd(paragraphs)
  /\ running' = FALSE
  /\ stopped' = TRUE
  /\ UNCHANGED <<blocks, misled>>

\* ah = 49h: Free does nothing, the call succeeds.
DosFree(b) ==
  /\ running
  /\ blocks' = blocks \ {b}
  /\ UNCHANGED <<nextfreeseg, lastallocseg, running, stopped, misled>>

\* ah = 4Ah: the segment given is taken for that of a prefix; only the block
\* handed out last can change.
ModifySeg(b) == (b.name + PspSize) % Word

\* The addition is right for the program's own block only.  Any other is resized
\* just when it starts PspSize paragraphs below the newest, whatever lies between
\* them; and the program's own block also when it is empty, under the newest.
Mistaken(b) == b.name = b.first \/ \E c \in blocks \ {b} : c.first = b.first

\* Nothing compares the new end with Limit.
Overruns(b, paragraphs) == ModifySeg(b) + paragraphs >= Limit

Bug_DosModify(b, paragraphs) ==
  /\ running
  /\ nextfreeseg' = (ModifySeg(b) + paragraphs) % Word
  /\ blocks' = (blocks \ {b}) \cup {[b EXCEPT !.end = b.first + paragraphs]}
  /\ misled' = (misled \/ Mistaken(b) \/ Overruns(b, paragraphs))
  /\ UNCHANGED <<lastallocseg, running, stopped>>

DosModify(b, paragraphs) ==
  /\ running
  /\ lastallocseg = ModifySeg(b)
  /\ nextfreeseg' = (ModifySeg(b) + paragraphs) % Word
  /\ blocks' = (blocks \ {b}) \cup {[b EXCEPT !.end = b.first + paragraphs]}
  /\ misled' = (misled \/ Mistaken(b) \/ Overruns(b, paragraphs))
  /\ UNCHANGED <<lastallocseg, running, stopped>>

\* Any other block: the call fails with the carry flag and changes nothing.
DosModifyRefused(b) ==
  /\ running
  /\ lastallocseg # ModifySeg(b)
  /\ UNCHANGED allocVars

AllocNext ==
  \/ \E size \in ImageSizes : LoadMzExe(size)
  \/ \E n \in Requests : \/ Cardinality(blocks) < MaxBlocks /\ DosAllocate(n)
                        \/ DosAllocateFails(n)
  \/ \E b \in blocks, n \in Requests : DosModify(b, n)
  \/ \E b \in blocks : DosModifyRefused(b) \/ DosFree(b)

AllocSpec == AllocInit /\ [][AllocNext]_allocVars

-----------------------------------------------------------------------------
\* Memory a program was told is its own is never handed out a second time,
\* although every block but the last is forgotten and only the last can shrink:
\* unless a resize was mistaken or went past the end.
BlocksDisjoint ==
  ~misled => \A a, b \in blocks : a = b \/ a.end <= b.first \/ b.end <= a.first

\* What is handed out ends below video memory; a call that cannot be served
\* does not come back with a segment.
BlocksBelowLimit == ~misled => \A b \in blocks : b.end < Limit

\* Everything that will be handed out lies behind everything in use, after every
\* sequence of calls with requests of any size but the two kinds of resize that
\* the code gets wrong: in all others the end that moves is that of the block the
\* program named.
EndCoversBlocks == ~misled /\ running => \A b \in blocks : b.end <= nextfreeseg

=============================================================================
