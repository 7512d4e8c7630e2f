----------------------------- MODULE DosProofs -----------------------------
(***************************************************************************)
(* Proofs about DOS.  About DosFiles and FileSearch, for any table of      *)
(* files, number of handles, and width of offsets.  About DosAlloc: memory *)
(* is never handed out twice, for all sizes of memory and all programs     *)
(* that ask for more than PspSize paragraphs at a time and for so little   *)
(* that the 16-bit sum does not wrap.  Were the first dropped, 4Ah could   *)
(* mistake one block for another: a block of PspSize paragraphs ends where *)
(* ModifySeg of it points.  Were the second, a request could wrap and      *)
(* succeed: MCDosAllocWrap.cfg.                                            *)
(***************************************************************************)
EXTENDS FileSearch, DosAlloc, FiniteSetTheorems, SequenceTheorems, WellFoundedInduction, TLAPS

\* A set of numbers has a least one: the least of the initial segments that end
\* in it, and these are finite.
LEMMA LeastExists ==
  ASSUME NEW S \in SUBSET Nat, S # {}
  PROVE  \E i \in S : \A j \in S : i <= j
<1> DEFINE T == {0..i : i \in S}
           R == StrictSubsetOrdering(Nat)
<1>1. IsWellFoundedOn(R, FiniteSubsetsOf(Nat))
  BY FS_StrictSubsetOrderingWellFounded
<1>2. T \subseteq FiniteSubsetsOf(Nat) /\ T # {}
  <2>1. \A i \in S : 0..i \subseteq Nat /\ IsFiniteSet(0..i)
    BY FS_Interval
  <2> QED
    BY <2>1 DEF FiniteSubsetsOf
<1>3. \E x \in T : \A y \in T : ~(<<y, x>> \in R)
  <2> HIDE DEF T, R
  <2> QED
    BY <1>1, <1>2, WFMin
<1>4. PICK i \in S : \A y \in T : ~(<<y, 0..i>> \in R)
  BY <1>3
<1>5. ASSUME NEW j \in S, j < i
      PROVE  FALSE
  <2>1. 0..j \subseteq 0..i /\ i \in 0..i /\ i \notin 0..j
    BY <1>5
  <2>2. 0..j \in SUBSET Nat /\ 0..i \in SUBSET Nat
    OBVIOUS
  <2>3. 0..j # 0..i
    BY <2>1
  <2>4. <<0..j, 0..i>> \in R
    BY <2>1, <2>2, <2>3, Zenon DEF StrictSubsetOrdering
  <2>5. 0..j \in T
    OBVIOUS
  <2> QED
    BY <1>4, <2>4, <2>5
<1>6. \A j \in S : i <= j
  BY <1>5
<1> QED
  BY <1>6

\* FindFile on a given table.
First(table, p, index) ==
  LET matches == {i \in index..Len(table) : table[i].name \in p}
  IN  IF matches = {} THEN 0 ELSE CHOOSE i \in matches : \A j \in matches : i <= j

IsFirst(r, table, p, index) ==
  \/ r = 0 /\ \A f \in index..Len(table) : table[f].name \notin p
  \/ /\ r \in index..Len(table) /\ table[r].name \in p
     /\ \A f \in index..Len(table) : table[f].name \in p => r <= f

LEMMA FirstIsFirst ==
  ASSUME NEW table \in Seq(FileRecords), NEW p, NEW index \in Nat \ {0}
  PROVE  IsFirst(First(table, p, index), table, p, index)
<1> DEFINE matches == {i \in index..Len(table) : table[i].name \in p}
<1>1. CASE matches = {}
  BY <1>1 DEF First, IsFirst
<1>2. CASE matches # {}
  <2>1. \E i \in matches : \A j \in matches : i <= j
    <3>1. matches \in SUBSET Nat
      OBVIOUS
    <3> HIDE DEF matches
    <3> QED
      BY <1>2, <3>1, LeastExists
  <2>2. First(table, p, index) = CHOOSE i \in matches : \A j \in matches : i <= j
    BY <1>2 DEF First
  <2>3. /\ First(table, p, index) \in matches
        /\ \A j \in matches : First(table, p, index) <= j
    <3> HIDE DEF matches
    <3> QED
      BY <2>1, <2>2
  <2> QED
    BY <2>3 DEF IsFirst
<1> QED
  BY <1>1, <1>2

LEMMA FirstUnique ==
  ASSUME NEW table \in Seq(FileRecords), NEW p, NEW index \in Nat \ {0}, NEW r,
         IsFirst(r, table, p, index)
  PROVE  r = First(table, p, index)
<1>1. IsFirst(First(table, p, index), table, p, index)
  BY FirstIsFirst
<1> HIDE DEF First
<1> QED
  BY <1>1 DEF IsFirst

LEMMA FindFileIsFirst ==
  ASSUME FsTypeOK, NEW p, NEW index \in Nat \ {0}
  PROVE  IsFirst(FindFile(p, index), files, p, index)
<1>1. FindFile(p, index) = First(files, p, index)
  BY DEF FindFile, First
<1> QED
  BY <1>1, FirstIsFirst DEF FsTypeOK

-----------------------------------------------------------------------------
\* What a call does to the table: names stay where they are, files do not shrink,
\* the table gets no shorter.
Grows ==
  /\ Len(files) <= Len(files')
  /\ \A i \in 1..Len(files) :
       files'[i].name = files[i].name /\ Len(files[i].data) <= Len(files'[i].data)

SizesOK == \A i \in 1..Len(files) : Len(files[i].data) <= MaxSize

LEMMA OverwrittenSeq ==
  ASSUME NEW data \in Seq(Bytes), NEW chunk \in Seq(Bytes), NEW offset \in Nat,
         offset <= Len(data)
  PROVE  /\ Overwritten(data, chunk, offset) \in Seq(Bytes)
         /\ Len(Overwritten(data, chunk, offset)) =
              IF Len(data) < offset + Len(chunk) THEN offset + Len(chunk) ELSE Len(data)
         /\ DOMAIN Overwritten(data, chunk, offset) =
              1..(IF Len(data) < offset + Len(chunk) THEN offset + Len(chunk) ELSE Len(data))
<1> DEFINE n == IF Len(data) < offset + Len(chunk) THEN offset + Len(chunk) ELSE Len(data)
           byte(i) == IF i \in (offset + 1)..(offset + Len(chunk)) THEN chunk[i - offset] ELSE data[i]
<1>1. n \in Nat
  OBVIOUS
<1>2. \A i \in 1..n : byte(i) \in Bytes
  <2> SUFFICES ASSUME NEW i \in 1..n PROVE byte(i) \in Bytes
    OBVIOUS
  <2>1. CASE i \in (offset + 1)..(offset + Len(chunk))
    <3>1. i - offset \in 1..Len(chunk)
      BY <2>1
    <3> QED
      BY <2>1, <3>1
  <2>2. CASE i \notin (offset + 1)..(offset + Len(chunk))
    <3>1. i \in 1..Len(data)
      BY <2>2
    <3> QED
      BY <2>2, <3>1
  <2> QED
    BY <2>1, <2>2
<1>3. Overwritten(data, chunk, offset) = [i \in 1..n |-> byte(i)]
  BY DEF Overwritten
<1>4. [i \in 1..n |-> byte(i)] \in [1..n -> Bytes]
  <2> HIDE DEF n, byte
  <2> QED
    BY <1>2
<1>5. /\ [i \in 1..n |-> byte(i)] \in Seq(Bytes)
      /\ Len([i \in 1..n |-> byte(i)]) = n
      /\ DOMAIN [i \in 1..n |-> byte(i)] = 1..n
  <2> HIDE DEF n, byte
  <2> QED
    BY <1>1, <1>4
<1> QED
  BY <1>3, <1>5

-----------------------------------------------------------------------------
IInv ==
  /\ TypeOK
  /\ SizesOK
  /\ OffsetInRange

LEMMA NextHandle ==
  /\ nextfreehandle \in Handles
  /\ TypeOK /\ (\E h \in Handles : ~handle[h].isactive) => ~handle[nextfreehandle].isactive
<1>1. CASE Inactive = {}
  <2>1. nextfreehandle = LastHandle /\ LastHandle \in Handles
    BY <1>1, DosFilesAssumption DEF nextfreehandle, Handles, FirstHandle
  <2>2. \A h \in Handles : ~handle[h].isactive => h = LastHandle
    BY <1>1, DosFilesAssumption DEF Inactive, Handles, FirstHandle
  <2> QED
    BY <2>1, <2>2
<1>2. CASE Inactive # {}
  <2>1. Inactive \in SUBSET Nat
    BY DosFilesAssumption DEF Inactive, FirstHandle
  <2>2. \E h \in Inactive : \A g \in Inactive : h <= g
    BY <1>2, <2>1, LeastExists
  <2>3. nextfreehandle \in Inactive
    BY <1>2, <2>2 DEF nextfreehandle
  <2> QED
    BY <2>3, DosFilesAssumption DEF Inactive, Handles, FirstHandle
<1> QED
  BY <1>1, <1>2

Entries == [isactive : BOOLEAN, isfile : BOOLEAN,
            file : 0..Len(files), offset : 0..(OffsetWord - 1)]

LEMMA FileOfHandle ==
  ASSUME TypeOK, NEW h \in Handles, handle[h].file # 0
  PROVE  /\ handle[h].isactive
         /\ handle[h].file \in 1..Len(files)
         /\ files[handle[h].file] \in FileRecords
         /\ Size(h) \in Nat
<1>1. handle[h] \in Entries /\ files \in Seq(FileRecords)
  BY DEF TypeOK, FsTypeOK, Entries
<1>2. handle[h].file \in 1..Len(files)
  BY <1>1 DEF Entries
<1>3. files[handle[h].file] \in FileRecords
  BY <1>1, <1>2
<1>4. Size(h) \in Nat
  BY <1>3 DEF Size, FileRecords
<1>5. handle[h].isactive
  BY DEF TypeOK
<1> QED
  BY <1>2, <1>3, <1>4, <1>5

\* A handle that is given out for a file in the table of the next state.
LEMMA GiveStep ==
  ASSUME IInv, ~exited, NEW file \in 1..Len(files'),
         files' \in Seq(FileRecords), SizesOK', Grows,
         handle' = [handle EXCEPT ![nextfreehandle] = FileHandle(file)],
         UNCHANGED <<reply, exited>>
  PROVE  IInv'
<1> DEFINE n == nextfreehandle
<1>1. n \in Handles
  BY NextHandle
<1> HIDE DEF n
<1>2. handle' = [handle EXCEPT ![n] = FileHandle(file)]
  BY DEF n
<1>3. Len(files) \in Nat /\ Len(files') \in Nat /\ Len(files) <= Len(files')
  BY DEF IInv, TypeOK, FsTypeOK, Grows
<1>4. \A h \in Handles : handle[h] \in Entries
  BY DEF IInv, TypeOK, Entries
<1>5. FileHandle(file) \in Entries'
  BY <1>3, DosFilesAssumption DEF FileHandle, Entries
<1>6. \A h \in Handles : handle'[h] = IF h = n THEN FileHandle(file) ELSE handle[h]
  BY <1>1, <1>2 DEF IInv, TypeOK
<1>7. \A h \in Handles : handle[h] \in Entries'
  BY <1>3, <1>4 DEF Entries
<1>8. handle' \in [Handles -> Entries']
  BY <1>2, <1>5, <1>7 DEF IInv, TypeOK
<1>9. \A h \in Handles :
        IF handle'[h].isactive THEN handle'[h].isfile => handle'[h].file # 0
                               ELSE handle'[h].file = 0
  BY <1>6 DEF FileHandle, IInv, TypeOK
<1>10. TypeOK'
  BY <1>8, <1>9 DEF TypeOK, IInv, Entries, FsTypeOK
<1>11. ASSUME NEW h \in Handles, handle'[h].isactive, handle'[h].isfile
       PROVE  handle'[h].offset <= Size(h)'
  <2>1. CASE h = n
    <3>1. handle'[h].offset = 0 /\ handle'[h].file = file
      BY <1>6, <2>1 DEF FileHandle
    <3>2. Len(files'[file].data) \in Nat
      <4>1. files'[file] \in FileRecords
        OBVIOUS
      <4> QED
        BY <4>1 DEF FileRecords
    <3> QED
      BY <3>1, <3>2 DEF Size
  <2>2. CASE h # n
    <3>1. handle'[h] = handle[h] /\ handle[h].file # 0
      BY <1>6, <1>11, <2>2 DEF IInv, TypeOK
    <3>2. handle[h].offset <= Size(h) /\ handle[h].file \in 1..Len(files) /\ Size(h) \in Nat
      BY <1>11, <3>1, FileOfHandle DEF IInv, OffsetInRange
    <3>3. Size(h)' = Len(files'[handle[h].file].data) /\ Size(h) = Len(files[handle[h].file].data)
      BY <3>1 DEF Size
    <3>4. Size(h) <= Size(h)'
      BY <3>2, <3>3 DEF Grows
    <3>5. handle[h].offset \in Nat /\ Size(h)' \in Nat
      <4>1. handle[h].offset \in Nat
        BY <1>4, DosFilesAssumption DEF Entries
      <4>2. handle[h].file \in 1..Len(files')
        BY <1>3, <3>2
      <4>3. files'[handle[h].file] \in FileRecords
        BY <4>2
      <4> QED
        BY <3>3, <4>1, <4>3 DEF FileRecords
    <3> QED
      BY <3>1, <3>2, <3>4, <3>5
  <2> QED
    BY <2>1, <2>2
<1>12. OffsetInRange'
  BY <1>11 DEF OffsetInRange
<1> QED
  BY <1>10, <1>12 DEF IInv

LEMMA CreateStep ==
  ASSUME IInv, NEW name \in Names, Create(name)
  PROVE  IInv' /\ Grows
<1> DEFINE new == [name |-> name, data |-> <<>>]
<1>1. files \in Seq(FileRecords) /\ new \in FileRecords /\ files' = Append(files, new)
  BY DEF IInv, TypeOK, FsTypeOK, FileRecords, Create, CreateFile
<1>2. new.name = name /\ Len(new.data) = 0
  OBVIOUS
<1> HIDE DEF new
<1>3. /\ files' \in Seq(FileRecords)
      /\ Len(files') = Len(files) + 1
      /\ files'[Len(files')] = new
      /\ \A i \in 1..Len(files) : files'[i] = files[i]
  BY <1>1
<1>4. \A i \in 1..Len(files) : files[i] \in FileRecords
  BY <1>1
<1>5. Grows
  BY <1>1, <1>3, <1>4 DEF Grows, FileRecords
<1>6. SizesOK'
  BY <1>1, <1>2, <1>3, DosFilesAssumption DEF SizesOK, IInv
<1>7. IInv'
  <2>1. Len(files') \in 1..Len(files')
    BY <1>1, <1>3
  <2>2. ~exited /\ UNCHANGED <<reply, exited>>
        /\ handle' = [handle EXCEPT ![nextfreehandle] = FileHandle(Len(files'))]
    BY DEF Create, MayOpen
  <2> QED
    BY <1>3, <1>5, <1>6, <2>1, <2>2, GiveStep
<1> QED
  BY <1>5, <1>7

LEMMA SameFiles ==
  ASSUME TypeOK, UNCHANGED files
  PROVE  Grows
<1>1. \A i \in 1..Len(files) : Len(files[i].data) \in Nat
  BY DEF TypeOK, FsTypeOK, FileRecords
<1> QED
  BY <1>1 DEF Grows, TypeOK, FsTypeOK

LEMMA OpenStep ==
  ASSUME IInv, NEW name \in Names, Open(name)
  PROVE  IInv' /\ Grows
<1>1. UNCHANGED <<files, reply, exited>> /\ ~exited /\ FindFile({name}, 1) # 0
      /\ handle' = [handle EXCEPT ![nextfreehandle] = FileHandle(FindFile({name}, 1))]
  BY DEF Open, MayOpen
<1>2. Grows
  BY <1>1, SameFiles DEF IInv
<1>3. FindFile({name}, 1) \in 1..Len(files')
  <2>1. IsFirst(FindFile({name}, 1), files, {name}, 1)
    BY FindFileIsFirst DEF IInv, TypeOK
  <2> QED
    BY <1>1, <2>1 DEF IsFirst
<1>4. files' \in Seq(FileRecords) /\ SizesOK'
  BY <1>1 DEF IInv, TypeOK, FsTypeOK, SizesOK
<1> HIDE DEF FindFile
<1> QED
  BY <1>1, <1>2, <1>3, <1>4, GiveStep

ReplyOK ==
  \/ reply[1] = "bytes" /\ reply[2] \in Seq(Bytes)
  \/ reply[1] = "position" /\ reply[2] \in 0..(OffsetWord - 1)

\* Calls that change a handle or nothing, and no file.
LEMMA HandleStep ==
  ASSUME IInv, UNCHANGED files, NEW h \in Handles,
         NEW e \in Entries, handle' = [handle EXCEPT ![h] = e],
         e.isactive /\ e.isfile => e.file # 0,
         ~e.isactive => e.file = 0,
         exited' \in BOOLEAN,
         ~exited' => /\ ~exited
                     /\ e.isactive /\ e.isfile => e.offset <= Len(files[e.file].data),
         ReplyOK'
  PROVE  IInv' /\ Grows
<1>1. handle \in [Handles -> Entries]
  BY DEF IInv, TypeOK, Entries
<1>2. \A g \in Handles : handle'[g] = IF g = h THEN e ELSE handle[g]
  BY <1>1
<1>3. handle' \in [Handles -> Entries] /\ Entries' = Entries
  BY <1>1 DEF Entries
<1>4. \A g \in Handles :
        IF handle'[g].isactive THEN handle'[g].isfile => handle'[g].file # 0
                               ELSE handle'[g].file = 0
  BY <1>2 DEF IInv, TypeOK
<1>5. TypeOK'
  BY <1>3, <1>4 DEF TypeOK, IInv, Entries, FsTypeOK, ReplyOK
<1>6. OffsetInRange'
  BY <1>2 DEF OffsetInRange, IInv, Size
<1>7. SizesOK'
  BY DEF SizesOK, IInv
<1> QED
  BY <1>5, <1>6, <1>7, SameFiles DEF IInv

LEMMA EntryTyped ==
  ASSUME TypeOK, NEW h \in Handles
  PROVE  /\ handle[h] \in Entries
         /\ handle[h].file \in 0..Len(files)
         /\ handle[h].offset \in 0..(OffsetWord - 1)
         /\ handle[h].offset \in Nat
         /\ Len(files) \in Nat
         /\ handle[h] = [isactive |-> handle[h].isactive, isfile |-> handle[h].isfile,
                         file |-> handle[h].file, offset |-> handle[h].offset]
<1>1. handle[h] \in Entries
  BY DEF TypeOK, Entries
<1> QED
  BY <1>1, DosFilesAssumption DEF Entries, TypeOK, FsTypeOK

LEMMA OpenEmmStep ==
  ASSUME IInv, OpenEmm
  PROVE  IInv' /\ Grows
<1> DEFINE n == nextfreehandle
           e == [handle[n] EXCEPT !.isactive = TRUE, !.isfile = FALSE]
<1>1. n \in Handles
  BY NextHandle
<1>2. UNCHANGED <<files, reply, exited>> /\ ~exited
  BY DEF OpenEmm, MayOpen
<1>3. handle' = [handle EXCEPT ![n] = e]
  BY <1>1 DEF OpenEmm, IInv, TypeOK
<1> HIDE DEF n
<1>4. e \in Entries /\ e.isactive /\ ~e.isfile
  BY <1>1, EntryTyped DEF IInv, Entries
<1>5. ReplyOK' /\ exited' \in BOOLEAN
  BY <1>2 DEF IInv, TypeOK, ReplyOK
<1> HIDE DEF e
<1> QED
  BY <1>1, <1>2, <1>3, <1>4, <1>5, HandleStep

LEMMA CloseStep ==
  ASSUME IInv, NEW h \in Handles, Close(h)
  PROVE  IInv' /\ Grows
<1> DEFINE e == [handle[h] EXCEPT !.isactive = FALSE, !.file = 0]
<1>1. UNCHANGED <<files, reply, exited>> /\ ~exited
  BY DEF Close
<1>2. handle' = [handle EXCEPT ![h] = e]
  BY DEF Close, IInv, TypeOK
<1>3. e \in Entries /\ ~e.isactive /\ e.file = 0
  <2>1. handle[h] \in Entries /\ Len(files) \in Nat
    BY EntryTyped DEF IInv
  <2>2. e.isactive = FALSE /\ e.file = 0
    BY <2>1 DEF Entries
  <2>3. 0 \in 0..Len(files)
    BY <2>1
  <2>4. e \in Entries
    <3> DEFINE numbers == 0..Len(files)
    <3>1. 0 \in numbers /\ handle[h] \in [isactive : BOOLEAN, isfile : BOOLEAN,
                         file : numbers, offset : 0..(OffsetWord - 1)]
      BY <2>1, <2>3 DEF Entries
    <3> HIDE DEF numbers
    <3>2. e \in [isactive : BOOLEAN, isfile : BOOLEAN,
                  file : numbers, offset : 0..(OffsetWord - 1)]
      BY <3>1
    <3> QED
      BY <3>2 DEF numbers, Entries
  <2> QED
    BY <2>2, <2>4
<1>4. ReplyOK' /\ exited' \in BOOLEAN
  BY <1>1 DEF IInv, TypeOK, ReplyOK
<1> HIDE DEF e
<1> QED
  BY <1>1, <1>2, <1>3, <1>4, HandleStep

LEMMA FailStep ==
  ASSUME IInv, NEW h \in Handles, ReadWriteFails(h) \/ SeekFails(h)
  PROVE  IInv' /\ Grows
<1>1. UNCHANGED <<files, handle, reply>> /\ exited'
  BY DEF ReadWriteFails, SeekFails
<1>2. TypeOK'
  <2>1. exited' \in BOOLEAN
    BY DEF ReadWriteFails, SeekFails
  <2> QED
    BY <1>1, <2>1 DEF IInv, TypeOK, FsTypeOK
<1>3. SizesOK' /\ OffsetInRange'
  BY <1>1 DEF IInv, SizesOK, OffsetInRange
<1> QED
  BY <1>1, <1>2, <1>3, SameFiles DEF IInv

LEMMA MovedEntry ==
  ASSUME TypeOK, NEW h \in Handles, NEW end \in 0..(OffsetWord - 1)
  PROVE  /\ [handle[h] EXCEPT !.offset = end] \in Entries
         /\ [handle[h] EXCEPT !.offset = end].isactive = handle[h].isactive
         /\ [handle[h] EXCEPT !.offset = end].isfile = handle[h].isfile
         /\ [handle[h] EXCEPT !.offset = end].file = handle[h].file
         /\ [handle[h] EXCEPT !.offset = end].offset = end
<1>1. handle[h] \in Entries
  BY EntryTyped
<1> QED
  BY <1>1 DEF Entries

LEMMA SizeSmall ==
  ASSUME TypeOK, SizesOK, NEW h \in Handles, handle[h].file # 0
  PROVE  Size(h) \in 0..(OffsetWord - 1) /\ Size(h) <= MaxSize
<1>1. handle[h].file \in 1..Len(files) /\ Size(h) \in Nat
  BY FileOfHandle
<1>2. Size(h) <= MaxSize
  BY <1>1 DEF SizesOK, Size
<1> QED
  BY <1>1, <1>2, DosFilesAssumption

\* What a read returns, the unsigned difference included.
LEMMA ReadEnd ==
  ASSUME IInv, ~exited, NEW h \in Handles, NEW size \in ReadSizes,
         handle[h].isactive, handle[h].isfile
  PROVE  /\ handle[h].offset + ReadLength(h, size) =
              IF handle[h].offset + size < Size(h) THEN handle[h].offset + size ELSE Size(h)
         /\ handle[h].offset + ReadLength(h, size) \in 0..(OffsetWord - 1)
         /\ handle[h].offset + ReadLength(h, size) <= Size(h)
<1>1. handle[h].offset <= Size(h) /\ handle[h].file # 0
  BY DEF IInv, OffsetInRange, TypeOK
<1>2. Size(h) \in 0..(OffsetWord - 1)
  BY <1>1, SizeSmall DEF IInv
<1>3. handle[h].offset \in Nat /\ size \in Nat /\ OffsetWord \in Nat \ {0}
  BY DosFilesAssumption, EntryTyped DEF IInv
<1>4. (Size(h) - handle[h].offset) % OffsetWord = Size(h) - handle[h].offset
  BY <1>1, <1>2, <1>3
<1> HIDE DEF Size
<1> QED
  BY <1>1, <1>2, <1>3, <1>4, SMTT(30) DEF ReadLength

LEMMA ReadStep ==
  ASSUME IInv, NEW h \in Handles, NEW size \in ReadSizes, Read(h, size)
  PROVE  IInv' /\ Grows
<1> DEFINE end == handle[h].offset + ReadLength(h, size)
           e == [handle[h] EXCEPT !.offset = end]
<1>1. ~exited /\ handle[h].isactive /\ handle[h].isfile /\ UNCHANGED <<files, exited>>
  BY DEF Read
<1>2. end \in 0..(OffsetWord - 1) /\ end <= Size(h)
  BY <1>1, ReadEnd
<1>3. handle' = [handle EXCEPT ![h] = e]
  BY DEF Read, IInv, TypeOK
<1>4. reply' = <<"bytes", SubSeq(files[handle[h].file].data, handle[h].offset + 1, end)>>
  BY DEF Read
<1> HIDE DEF end
<1>5. e \in Entries /\ e.isactive /\ e.isfile /\ e.file = handle[h].file /\ e.offset = end
  BY <1>1, <1>2, MovedEntry DEF IInv
<1>6. handle[h].file # 0 /\ handle[h].offset \in Nat
  BY <1>1, EntryTyped DEF IInv, TypeOK
<1>7. ReplyOK'
  <2>1. files[handle[h].file].data \in Seq(Bytes)
    BY <1>6, FileOfHandle DEF IInv, FileRecords
  <2>2. end \in 0..Len(files[handle[h].file].data)
    BY <1>2, <2>1 DEF Size
  <2>3. SubSeq(files[handle[h].file].data, handle[h].offset + 1, end) \in Seq(Bytes)
    BY <1>6, <2>1, <2>2
  <2> QED
    BY <1>4, <2>3 DEF ReplyOK
<1>8. exited' \in BOOLEAN
  BY <1>1 DEF IInv, TypeOK
<1>9. e.offset <= Len(files[e.file].data)
  BY <1>2, <1>5 DEF Size
<1> HIDE DEF e
<1> QED
  BY <1>1, <1>3, <1>5, <1>6, <1>7, <1>8, <1>9, HandleStep

LEMMA TargetSmall ==
  ASSUME TypeOK, NEW h \in Handles, NEW base \in 0..2, NEW offset \in SeekWords,
         handle[h].file # 0
  PROVE  Target(h, base, offset) \in 0..(OffsetWord - 1)
<1>1. /\ handle[h].offset \in Nat /\ Size(h) \in Nat /\ offset \in Nat
      /\ OffsetWord \in Nat \ {0}
  <2>1. OffsetWord \in Nat \ {0} /\ offset \in 0..(OffsetWord - 1)
    BY DosFilesAssumption
  <2>2. offset \in Nat
    BY <2>1
  <2>3. handle[h].offset \in Nat
    BY EntryTyped
  <2>4. Size(h) \in Nat
    BY FileOfHandle
  <2> QED
    BY <2>1, <2>2, <2>3, <2>4
<1> DEFINE sum == CASE base = 0 -> offset
                    [] base = 1 -> handle[h].offset + offset
                    [] base = 2 -> Size(h) + offset
<1>2. sum \in Nat
  <2> HIDE DEF Size
  <2>1. CASE base = 0
    BY <1>1, <2>1
  <2>2. CASE base = 1
    BY <1>1, <2>2
  <2>3. CASE base = 2
    BY <1>1, <2>3
  <2> QED
    BY <2>1, <2>2, <2>3
<1>3. Target(h, base, offset) = sum % OffsetWord
  BY DEF Target
<1> HIDE DEF sum
<1> QED
  BY <1>1, <1>2, <1>3

LEMMA SeekStep ==
  ASSUME IInv, NEW h \in Handles, NEW base \in 0..2, NEW offset \in SeekWords,
         Seek(h, base, offset)
  PROVE  IInv' /\ Grows
<1> DEFINE end == Target(h, base, offset)
           e == [handle[h] EXCEPT !.offset = end]
<1>1. ~exited /\ handle[h].file # 0 /\ UNCHANGED files /\ exited' = (end > Size(h))
  BY DEF Seek
<1>2. end \in 0..(OffsetWord - 1)
  BY <1>1, TargetSmall DEF IInv
<1>3. handle' = [handle EXCEPT ![h] = e]
  BY DEF Seek, IInv, TypeOK
<1>4. reply' = IF exited' THEN reply ELSE <<"position", end>>
  BY DEF Seek
<1> HIDE DEF end
<1>5. e \in Entries /\ e.isactive = handle[h].isactive /\ e.file = handle[h].file /\ e.offset = end
  BY <1>2, MovedEntry DEF IInv
<1>6. handle[h].isactive
  BY <1>1, FileOfHandle DEF IInv
<1>7. ReplyOK'
  BY <1>2, <1>4 DEF ReplyOK, IInv, TypeOK
<1>8. exited' \in BOOLEAN
  BY <1>1
<1>9. ~exited' => e.offset <= Len(files[e.file].data)
  <2>1. Size(h) \in Nat /\ Size(h) = Len(files[e.file].data)
    BY <1>1, <1>5, FileOfHandle DEF IInv, Size
  <2>2. end \in Nat
    BY <1>2, DosFilesAssumption
  <2> HIDE DEF Size
  <2>3. ~(end > Size(h)) => end <= Size(h)
    BY <2>1, <2>2
  <2>4. ~exited' => end <= Size(h)
    BY <1>1, <2>3
  <2> QED
    BY <1>5, <2>1, <2>4
<1> HIDE DEF e
<1> QED
  BY <1>1, <1>3, <1>5, <1>6, <1>7, <1>8, <1>9, HandleStep

LEMMA WriteStep ==
  ASSUME IInv, NEW h \in Handles, NEW chunk \in Chunks, Write(h, chunk)
  PROVE  IInv' /\ Grows
<1> DEFINE n == handle[h].file
           old == files[n].data
           offset == handle[h].offset
           new == Overwritten(old, chunk, offset)
           e == [handle[h] EXCEPT !.offset = offset + Len(chunk)]
<1>1. /\ ~exited /\ handle[h].isactive /\ handle[h].isfile
      /\ offset + Len(chunk) <= MaxSize
      /\ files' = [files EXCEPT ![n].data = new]
      /\ UNCHANGED <<reply, exited>>
  BY DEF Write, WriteFile
<1>2. handle' = [handle EXCEPT ![h] = e]
  BY DEF Write, IInv, TypeOK
<1>3. /\ n \in 1..Len(files) /\ files[n] \in FileRecords /\ old \in Seq(Bytes)
      /\ chunk \in Seq(Bytes) /\ offset \in Nat /\ offset <= Len(old)
      /\ Len(old) \in Nat /\ Len(chunk) \in Nat /\ Len(old) <= MaxSize
  <2>1. n # 0 /\ offset <= Size(h)
    BY <1>1 DEF IInv, TypeOK, OffsetInRange
  <2>2. n \in 1..Len(files) /\ files[n] \in FileRecords
    BY <2>1, FileOfHandle DEF IInv
  <2>3. old \in Seq(Bytes)
    BY <2>2 DEF FileRecords
  <2>4. chunk \in Seq(Bytes)
    BY DosFilesAssumption
  <2>5. offset \in Nat
    BY EntryTyped DEF IInv
  <2>6. Len(old) <= MaxSize
    BY <2>2 DEF IInv, SizesOK
  <2>7. offset <= Len(old)
    BY <2>1 DEF Size
  <2> QED
    BY <2>2, <2>3, <2>4, <2>5, <2>6, <2>7
<1>4. /\ new \in Seq(Bytes)
      /\ Len(new) = IF Len(old) < offset + Len(chunk) THEN offset + Len(chunk) ELSE Len(old)
  BY <1>3, OverwrittenSeq
<1>5. offset + Len(chunk) \in 0..(OffsetWord - 1)
  BY <1>1, <1>3, DosFilesAssumption, SMTT(30)
<1>6. /\ e \in Entries /\ e.isactive = handle[h].isactive /\ e.isfile = handle[h].isfile
      /\ e.file = n /\ e.offset = offset + Len(chunk)
  BY <1>5, MovedEntry DEF IInv
<1> HIDE DEF new
<1>7. [files[n] EXCEPT !.data = new] \in FileRecords
  BY <1>3, <1>4 DEF FileRecords
<1>8. files \in Seq(FileRecords)
  BY DEF IInv, TypeOK, FsTypeOK
<1>9. files' = [files EXCEPT ![n] = [files[n] EXCEPT !.data = new]]
  BY <1>1
<1>10. /\ files' \in Seq(FileRecords) /\ Len(files') = Len(files) /\ Len(files) \in Nat
       /\ \A i \in 1..Len(files) :
            files'[i] = IF i = n THEN [files[n] EXCEPT !.data = new] ELSE files[i]
  BY <1>3, <1>7, <1>8, <1>9
<1>11. \A i \in 1..Len(files) :
         /\ files'[i].name = files[i].name
         /\ files'[i].data = IF i = n THEN new ELSE files[i].data
  BY <1>3, <1>8, <1>10 DEF FileRecords
<1>12. \A i \in 1..Len(files) : Len(files[i].data) \in Nat
  BY <1>8 DEF FileRecords
<1> HIDE DEF old
<1>13. Len(old) <= Len(new) /\ Len(new) <= MaxSize /\ offset + Len(chunk) <= Len(new)
  BY <1>1, <1>3, <1>4
<1>14. Grows
  BY <1>3, <1>10, <1>11, <1>12, <1>13, SMTT(30) DEF Grows, old
<1>15. SizesOK'
  BY <1>10, <1>11, <1>13 DEF SizesOK, IInv
<1> HIDE DEF e
<1>16. TypeOK'
  <2>1. Entries' = Entries
    BY <1>10 DEF Entries
  <2>2. handle \in [Handles -> Entries]
    BY DEF IInv, TypeOK, Entries
  <2>3. handle' \in [Handles -> Entries]
    BY <1>2, <1>6, <2>2
  <2>4. \A g \in Handles : handle'[g] = IF g = h THEN e ELSE handle[g]
    BY <1>2, <2>2
  <2>5. \A g \in Handles :
          IF handle'[g].isactive THEN handle'[g].isfile => handle'[g].file # 0
                                 ELSE handle'[g].file = 0
    BY <1>6, <2>4 DEF IInv, TypeOK
  <2> QED
    BY <1>1, <1>10, <2>1, <2>3, <2>5 DEF TypeOK, FsTypeOK, IInv, Entries
<1>17. OffsetInRange'
  <2> SUFFICES ASSUME NEW g \in Handles, handle'[g].isactive, handle'[g].isfile
               PROVE  handle'[g].offset <= Size(g)'
    BY DEF OffsetInRange
  <2>1. handle'[g].file # 0 /\ handle'[g].file = handle[g].file
    BY <1>2, <1>6, <1>16 DEF TypeOK, IInv
  <2>2. handle[g].file \in 1..Len(files)
    BY <2>1, FileOfHandle DEF IInv
  <2>3. Size(g)' = IF handle[g].file = n THEN Len(new) ELSE Len(files[handle[g].file].data)
    BY <1>11, <2>1, <2>2 DEF Size
  <2>4. CASE g = h
    <3>1. handle'[g].offset = offset + Len(chunk)
      BY <1>2, <1>6, <2>4 DEF IInv, TypeOK
    <3> QED
      BY <1>13, <2>3, <2>4, <3>1
  <2>5. CASE g # h
    <3>1. handle'[g] = handle[g]
      BY <1>2, <2>5 DEF IInv, TypeOK
    <3>2. handle[g].offset <= Len(files[handle[g].file].data)
      BY <1>1, <3>1 DEF IInv, OffsetInRange, Size
    <3>3. handle[g].offset \in Nat /\ Len(files[handle[g].file].data) \in Nat
      BY <1>12, <2>2, EntryTyped DEF IInv
    <3>4. Len(files[handle[g].file].data) <= Size(g)'
      BY <1>3, <1>13, <2>3, <3>3 DEF old
    <3>5. Size(g)' \in Nat
      BY <1>4, <2>3, <3>3
    <3> QED
      BY <3>1, <3>2, <3>3, <3>4, <3>5
  <2> QED
    BY <2>4, <2>5
<1> QED
  BY <1>14, <1>15, <1>16, <1>17 DEF IInv

LEMMA NextStep ==
  ASSUME IInv, Next
  PROVE  IInv' /\ Grows
<1>1. CASE OpenEmm
  BY <1>1, OpenEmmStep
<1>2. CASE \E name \in Names : Create(name) \/ Open(name)
  BY <1>2, CreateStep, OpenStep
<1>3. ASSUME NEW h \in Handles,
             Close(h) \/ ReadWriteFails(h) \/ SeekFails(h)
      PROVE  IInv' /\ Grows
  BY <1>3, CloseStep, FailStep
<1>4. ASSUME NEW h \in Handles,
             \/ \E size \in ReadSizes : Read(h, size)
             \/ \E chunk \in Chunks : Write(h, chunk)
             \/ \E base \in 0..2, offset \in SeekWords : Seek(h, base, offset)
      PROVE  IInv' /\ Grows
  BY <1>4, ReadStep, WriteStep, SeekStep
<1> QED
  BY <1>1, <1>2, <1>3, <1>4 DEF Next

LEMMA InitStep == Init => IInv
<1> SUFFICES ASSUME Init PROVE IInv
  OBVIOUS
<1>1. files = Mounted /\ files \in Seq(FileRecords) /\ Len(files) \in Nat
  BY FsAssumption DEF Init, FsInit
<1>2. handle \in [Handles -> [isactive : BOOLEAN, isfile : BOOLEAN,
                              file : 0..Len(files), offset : 0..(OffsetWord - 1)]]
  <2>1. 0 \in 0..Len(files) /\ 0 \in 0..(OffsetWord - 1)
    BY <1>1, DosFilesAssumption
  <2> QED
    BY <2>1 DEF Init
<1>3. \A h \in Handles : ~handle[h].isactive /\ handle[h].file = 0
  BY DEF Init
<1>4. reply[1] = "bytes" /\ reply[2] \in Seq(Bytes) /\ exited \in BOOLEAN
  <2>1. reply = <<"bytes", <<>>>> /\ exited = FALSE
    BY DEF Init
  <2>2. <<>> \in Seq(Bytes)
    OBVIOUS
  <2>3. reply[1] = "bytes" /\ reply[2] = <<>>
    BY <2>1
  <2> QED
    BY <2>1, <2>2, <2>3
<1>5. TypeOK
  BY <1>1, <1>2, <1>3, <1>4 DEF TypeOK, FsTypeOK
<1> QED
  BY <1>1, <1>3, <1>5, DosFilesAssumption DEF IInv, SizesOK, OffsetInRange

-----------------------------------------------------------------------------
\* One listing: i is the index in the transfer area, r the file in it, m that the
\* last call found a file, l what was found.  What has been listed is what matches,
\* up to the file the index stands behind.
Listing(table, p, i, r, m, l) ==
  /\ i \in Nat \ {0} /\ r \in 0..Len(table) /\ p \subseteq Names
  /\ m \in BOOLEAN /\ l \in Seq(1..Len(table))
  /\ m => l # <<>> /\ i = l[Len(l)] + 1
  /\ \A j, k \in 1..Len(l) : j < k => l[j] < l[k]
  /\ \A j \in 1..Len(l) : table[l[j]].name \in p
  /\ \A f \in 1..Len(table) :
       /\ table[f].name \in p
       /\ l # <<>>
       /\ f <= l[Len(l)]
       => \E j \in 1..Len(l) : l[j] = f

\* It stays one when files are created.
LEMMA ListingKept ==
  ASSUME NEW table \in Seq(FileRecords), NEW after \in Seq(FileRecords),
         Len(table) <= Len(after),
         \A f \in 1..Len(table) : after[f].name = table[f].name,
         NEW p, NEW i, NEW r, NEW m, NEW l, Listing(table, p, i, r, m, l)
  PROVE  Listing(after, p, i, r, m, l)
<1>1. /\ Len(table) \in Nat /\ Len(after) \in Nat
      /\ l \in Seq(1..Len(table)) /\ Len(l) \in Nat
  BY DEF Listing
<1>2. \A j \in 1..Len(l) : l[j] \in 1..Len(table)
  BY <1>1
<1>3. l \in Seq(1..Len(after)) /\ r \in 0..Len(after)
  <2>1. \A j \in 1..Len(l) : l[j] \in 1..Len(after)
    BY <1>1, <1>2
  <2>2. r \in 0..Len(after)
    BY <1>1 DEF Listing
  <2> QED
    BY <1>1, <2>1, <2>2
<1>4. \A j \in 1..Len(l) : after[l[j]].name \in p
  BY <1>2 DEF Listing
<1>5. ASSUME NEW f \in 1..Len(after), after[f].name \in p, l # <<>>, f <= l[Len(l)]
      PROVE  \E j \in 1..Len(l) : l[j] = f
  <2>1. Len(l) \in 1..Len(l)
    BY <1>1, <1>5
  <2>2. f \in 1..Len(table)
    BY <1>1, <1>2, <1>5, <2>1
  <2> QED
    BY <1>5, <2>2 DEF Listing
<1> QED
  BY <1>3, <1>4, <1>5 DEF Listing

\* A listing starts at the first match.
LEMMA ListingStarts ==
  ASSUME NEW table \in Seq(FileRecords), NEW p \in SUBSET Names, NEW index,
         IsFirst(index, table, p, 1), index # 0
  PROVE  Listing(table, p, index + 1, index, TRUE, <<index>>)
<1> DEFINE l == <<index>>
<1>1. /\ index \in 1..Len(table) /\ table[index].name \in p
      /\ \A f \in 1..Len(table) : table[f].name \in p => index <= f
      /\ Len(table) \in Nat
  BY DEF IsFirst
<1>2. l \in Seq(1..Len(table)) /\ Len(l) = 1 /\ l[1] = index /\ l # <<>>
  BY <1>1
<1>3. index + 1 \in Nat \ {0} /\ index \in 0..Len(table)
  BY <1>1
<1> HIDE DEF l
<1>4. \A j, k \in 1..Len(l) : j < k => l[j] < l[k]
  BY <1>2
<1>5. \A j \in 1..Len(l) : table[l[j]].name \in p
  BY <1>1, <1>2
<1>6. ASSUME NEW f \in 1..Len(table), table[f].name \in p, f <= l[Len(l)]
      PROVE  \E j \in 1..Len(l) : l[j] = f
  BY <1>1, <1>2, <1>6
<1>7. Listing(table, p, index + 1, index, TRUE, l)
  BY <1>2, <1>3, <1>4, <1>5, <1>6 DEF Listing
<1> QED
  BY <1>7 DEF l

\* It goes on with the first match behind the last.
LEMMA ListingGoesOn ==
  ASSUME NEW table \in Seq(FileRecords), NEW p, NEW i, NEW r, NEW l,
         Listing(table, p, i, r, TRUE, l),
         NEW index, IsFirst(index, table, p, i), index # 0
  PROVE  Listing(table, p, index + 1, index, TRUE, Append(l, index))
<1> DEFINE n == Len(l)
           next == Append(l, index)
<1>1. /\ Len(table) \in Nat /\ l \in Seq(1..Len(table)) /\ n \in Nat /\ l # <<>>
      /\ i \in Nat /\ i = l[n] + 1 /\ p \subseteq Names
  BY DEF Listing
<1>2. n # 0 /\ n \in 1..n
  BY <1>1
<1>3. \A j \in 1..n : l[j] \in 1..Len(table) /\ l[j] <= l[n]
  <2>1. \A j \in 1..n : l[j] \in 1..Len(table)
    BY <1>1
  <2>2. \A j \in 1..n : j # n => l[j] < l[n]
    BY <1>1, <1>2 DEF Listing
  <2> QED
    BY <1>1, <1>2, <2>1, <2>2
<1>4. /\ index \in i..Len(table) /\ table[index].name \in p
      /\ \A f \in i..Len(table) : table[f].name \in p => index <= f
  BY DEF IsFirst
<1>5. index \in 1..Len(table) /\ l[n] < index
  BY <1>1, <1>2, <1>3, <1>4
<1>6. /\ next \in Seq(1..Len(table)) /\ Len(next) = n + 1 /\ next[n + 1] = index
      /\ \A j \in 1..n : next[j] = l[j]
      /\ next # <<>>
  BY <1>1, <1>5, SMTT(30)
<1> HIDE DEF n, next
<1>7. \A j, k \in 1..(n + 1) : j < k => next[j] < next[k]
  <2> SUFFICES ASSUME NEW j \in 1..(n + 1), NEW k \in 1..(n + 1), j < k
               PROVE  next[j] < next[k]
    OBVIOUS
  <2>1. j \in 1..n
    BY <1>1
  <2>2. CASE k \in 1..n
    BY <1>6, <2>1, <2>2 DEF Listing, n
  <2>3. CASE k = n + 1
    BY <1>1, <1>3, <1>5, <1>6, <2>1, <2>3, SMTT(30)
  <2> QED
    BY <1>1, <2>2, <2>3
<1>8. \A j \in 1..(n + 1) : table[next[j]].name \in p
  <2>1. \A j \in 1..n : table[next[j]].name \in p
    BY <1>6 DEF Listing, n
  <2>2. table[next[n + 1]].name \in p
    BY <1>4, <1>6
  <2>3. \A j \in 1..(n + 1) : j \in 1..n \/ j = n + 1
    BY <1>1
  <2> QED
    BY <2>1, <2>2, <2>3
<1>9. ASSUME NEW f \in 1..Len(table), table[f].name \in p, f <= index
      PROVE  \E j \in 1..(n + 1) : next[j] = f
  <2>1. CASE f <= l[n]
    <3>1. \E j \in 1..n : l[j] = f
      BY <1>1, <1>9, <2>1 DEF Listing, n
    <3> QED
      BY <1>1, <1>6, <3>1
  <2>2. CASE ~(f <= l[n])
    <3>1. f \in i..Len(table)
      BY <1>1, <1>2, <1>3, <2>2
    <3>2. f = index
      BY <1>1, <1>4, <1>5, <1>9, <3>1
    <3> QED
      BY <1>1, <1>6, <3>2
  <2> QED
    BY <2>1, <2>2
<1>10. index + 1 \in Nat \ {0} /\ index \in 0..Len(table)
  BY <1>1, <1>5
<1>11. Listing(table, p, index + 1, index, TRUE, next)
  BY <1>1, <1>6, <1>7, <1>8, <1>9, <1>10 DEF Listing
<1> QED
  BY <1>11 DEF next

\* And it ends.
LEMMA ListingEnds ==
  ASSUME NEW table \in Seq(FileRecords), NEW p, NEW i, NEW r, NEW m, NEW l,
         Listing(table, p, i, r, m, l)
  PROVE  /\ Listing(table, p, i, r, FALSE, l)
         /\ \A q \in SUBSET Names : Listing(table, q, i, r, FALSE, <<>>)
<1>1. <<>> \in Seq(1..Len(table)) /\ Len(<<>>) = 0
  OBVIOUS
<1>2. Listing(table, p, i, r, FALSE, l)
  BY DEF Listing
<1>3. ASSUME NEW q \in SUBSET Names
      PROVE  Listing(table, q, i, r, FALSE, <<>>)
  BY <1>1 DEF Listing
<1> QED
  BY <1>2, <1>3

SearchTypes ==
  /\ guest \in {"handles", "listing"}
  /\ dta \in Areas
  /\ dtaIndex \in [Areas -> Nat \ {0}]
  /\ found \in [Areas -> 0..Len(files)]
  /\ pattern \in [Areas -> SUBSET Names]
  /\ more \in [Areas -> BOOLEAN]
  /\ listed \in [Areas -> Seq(1..Len(files))]

ListingOf(a) == Listing(files, pattern[a], dtaIndex[a], found[a], more[a], listed[a])

SearchInv == SearchTypes /\ \A a \in Areas : ListingOf(a)

allVars == <<vars, guest, searchVars>>

\* Calls that leave the searches alone, among them those that create files.
LEMMA SearchKept ==
  ASSUME IInv, SearchInv, Grows, files' \in Seq(FileRecords), UNCHANGED <<guest, searchVars>>
  PROVE  SearchInv'
<1>1. /\ files \in Seq(FileRecords) /\ Len(files) \in Nat /\ Len(files') \in Nat
      /\ Len(files) <= Len(files')
      /\ \A f \in 1..Len(files) : files'[f].name = files[f].name
  BY DEF Grows, IInv, TypeOK, FsTypeOK
<1>2. /\ dta' = dta /\ dtaIndex' = dtaIndex /\ found' = found /\ pattern' = pattern
      /\ more' = more /\ listed' = listed /\ guest' = guest
  BY DEF searchVars
<1>3. ASSUME NEW a \in Areas
      PROVE  Listing(files', pattern[a], dtaIndex[a], found[a], more[a], listed[a])
  <2>1. Listing(files, pattern[a], dtaIndex[a], found[a], more[a], listed[a])
    BY DEF SearchInv, ListingOf
  <2> QED
    BY <1>1, <2>1, ListingKept
<1>4. /\ found \in [Areas -> 0..Len(files')]
      /\ listed \in [Areas -> Seq(1..Len(files'))]
  <2>1. \A a \in Areas : found[a] \in 0..Len(files') /\ listed[a] \in Seq(1..Len(files'))
    BY <1>3 DEF Listing
  <2> QED
    BY <2>1 DEF SearchInv, SearchTypes
<1> QED
  BY <1>2, <1>3, <1>4 DEF SearchInv, SearchTypes, ListingOf

\* A step of one listing leaves the others as they are.
LEMMA OneListing ==
  ASSUME IInv, SearchInv, UNCHANGED <<files, dta, guest>>,
         NEW i, NEW r, NEW p, NEW m, NEW l,
         Listing(files, p, i, r, m, l),
         dtaIndex' = [dtaIndex EXCEPT ![dta] = i], found' = [found EXCEPT ![dta] = r],
         pattern' = [pattern EXCEPT ![dta] = p], more' = [more EXCEPT ![dta] = m],
         listed' = [listed EXCEPT ![dta] = l]
  PROVE  SearchInv'
<1>1. /\ i \in Nat \ {0} /\ r \in 0..Len(files) /\ p \in SUBSET Names
      /\ m \in BOOLEAN /\ l \in Seq(1..Len(files))
  BY DEF Listing
<1>2. SearchTypes'
  <2>1. dtaIndex' \in [Areas -> Nat \ {0}] /\ found' \in [Areas -> 0..Len(files)]
    BY <1>1 DEF SearchInv, SearchTypes
  <2>2. pattern' \in [Areas -> SUBSET Names] /\ listed' \in [Areas -> Seq(1..Len(files))]
    BY <1>1 DEF SearchInv, SearchTypes
  <2>3. more' \in [Areas -> BOOLEAN]
    BY <1>1 DEF SearchInv, SearchTypes
  <2> QED
    BY <2>1, <2>2, <2>3 DEF SearchInv, SearchTypes
<1>3. ASSUME NEW a \in Areas
      PROVE  Listing(files, pattern'[a], dtaIndex'[a], found'[a], more'[a], listed'[a])
  <2>1. CASE a = dta
    <3>1. /\ pattern'[a] = p /\ dtaIndex'[a] = i /\ found'[a] = r
          /\ listed'[a] = l
      BY <2>1 DEF SearchInv, SearchTypes
    <3>2. more'[a] = m
      BY <2>1 DEF SearchInv, SearchTypes
    <3> QED
      BY <3>1, <3>2, Zenon
  <2>2. CASE a # dta
    <3>1. /\ pattern'[a] = pattern[a] /\ dtaIndex'[a] = dtaIndex[a] /\ found'[a] = found[a]
          /\ listed'[a] = listed[a]
      BY <2>2 DEF SearchInv, SearchTypes
    <3>2. more'[a] = more[a]
      BY <2>2 DEF SearchInv, SearchTypes
    <3>3. Listing(files, pattern[a], dtaIndex[a], found[a], more[a], listed[a])
      BY DEF SearchInv, ListingOf
    <3> QED
      BY <3>1, <3>2, <3>3, Zenon
  <2> QED
    BY <2>1, <2>2
<1> QED
  BY <1>2, <1>3 DEF SearchInv, ListingOf

LEMMA FindFirstStep ==
  ASSUME IInv, SearchInv, NEW p \in Patterns, FindFirst(p), UNCHANGED guest
  PROVE  SearchInv'
<1> DEFINE index == FindFile(p, 1)
<1>1. IsFirst(index, files, p, 1)
  BY FindFileIsFirst DEF IInv, TypeOK
<1>2. /\ files \in Seq(FileRecords) /\ UNCHANGED <<files, dta, guest>>
      /\ p \in SUBSET Names /\ dta \in Areas
      /\ pattern' = [pattern EXCEPT ![dta] = p]
  BY SearchAssumption DEF FindFirst, IInv, TypeOK, FsTypeOK, SearchInv, SearchTypes
<1>3. CASE index # 0
  <2>1. /\ dtaIndex' = [dtaIndex EXCEPT ![dta] = index + 1]
        /\ found' = [found EXCEPT ![dta] = index]
        /\ more' = [more EXCEPT ![dta] = TRUE]
        /\ listed' = [listed EXCEPT ![dta] = <<index>>]
    BY <1>3 DEF FindFirst, Report
  <2> HIDE DEF index
  <2>2. Listing(files, p, index + 1, index, TRUE, <<index>>)
    BY <1>1, <1>2, <1>3, ListingStarts
  <2> QED
    BY <1>2, <2>1, <2>2, OneListing
<1>4. CASE index = 0
  <2>1. /\ UNCHANGED <<dtaIndex, found>>
        /\ more' = [more EXCEPT ![dta] = FALSE]
        /\ listed' = [listed EXCEPT ![dta] = <<>>]
    BY <1>4 DEF FindFirst, ReportNone
  <2>2. /\ dtaIndex' = [dtaIndex EXCEPT ![dta] = dtaIndex[dta]]
        /\ found' = [found EXCEPT ![dta] = found[dta]]
    BY <1>2, <2>1 DEF SearchInv, SearchTypes
  <2>3. Listing(files, p, dtaIndex[dta], found[dta], FALSE, <<>>)
    BY <1>2, ListingEnds DEF SearchInv, ListingOf
  <2> QED
    BY <1>2, <2>1, <2>2, <2>3, OneListing
<1> QED
  BY <1>3, <1>4

LEMMA FindNextStep ==
  ASSUME IInv, SearchInv, FindNext, UNCHANGED guest
  PROVE  SearchInv'
<1> DEFINE index == FindFile(pattern[dta], dtaIndex[dta])
<1>1. /\ files \in Seq(FileRecords) /\ UNCHANGED <<files, dta, guest>> /\ dta \in Areas
      /\ dtaIndex[dta] \in Nat \ {0}
      /\ pattern' = [pattern EXCEPT ![dta] = pattern[dta]]
  BY DEF FindNext, IInv, TypeOK, FsTypeOK, SearchInv, SearchTypes
<1>2. IsFirst(index, files, pattern[dta], dtaIndex[dta])
  BY <1>1, FindFileIsFirst DEF IInv, TypeOK
<1>3. more[dta] = TRUE
  BY <1>1 DEF FindNext, SearchInv, SearchTypes
<1>4. Listing(files, pattern[dta], dtaIndex[dta], found[dta], more[dta], listed[dta])
  BY <1>1 DEF SearchInv, ListingOf
<1>5. CASE index # 0
  <2>1. /\ dtaIndex' = [dtaIndex EXCEPT ![dta] = index + 1]
        /\ found' = [found EXCEPT ![dta] = index]
        /\ more' = [more EXCEPT ![dta] = TRUE]
        /\ listed' = [listed EXCEPT ![dta] = Append(listed[dta], index)]
    BY <1>5 DEF FindNext, Report
  <2> HIDE DEF index
  <2>2. Listing(files, pattern[dta], dtaIndex[dta], found[dta], TRUE, listed[dta])
    BY <1>3, <1>4
  <2>3. Listing(files, pattern[dta], index + 1, index, TRUE, Append(listed[dta], index))
    BY <1>1, <1>2, <1>5, <2>2, ListingGoesOn
  <2> QED
    BY <1>1, <2>1, <2>3, OneListing
<1>6. CASE index = 0
  <2>1. /\ UNCHANGED <<dtaIndex, found, listed>>
        /\ more' = [more EXCEPT ![dta] = FALSE]
    BY <1>6 DEF FindNext, ReportNone
  <2>2. /\ dtaIndex' = [dtaIndex EXCEPT ![dta] = dtaIndex[dta]]
        /\ found' = [found EXCEPT ![dta] = found[dta]]
        /\ listed' = [listed EXCEPT ![dta] = listed[dta]]
    BY <1>1, <2>1 DEF SearchInv, SearchTypes
  <2>3. Listing(files, pattern[dta], dtaIndex[dta], found[dta], FALSE, listed[dta])
    BY <1>1, <1>4, ListingEnds
  <2> QED
    BY <1>1, <2>1, <2>2, <2>3, OneListing
<1> QED
  BY <1>5, <1>6

LEMMA AreaStep ==
  ASSUME IInv, SearchInv, NEW a \in Areas, SetTransferArea(a), UNCHANGED guest
  PROVE  SearchInv'
  BY DEF SearchInv, SearchTypes, ListingOf, SetTransferArea

Inv == IInv /\ SearchInv

SearchCall ==
  \/ \E p \in Patterns : FindFirst(p)
  \/ FindNext
  \/ \E a \in Areas : SetTransferArea(a)

LEMMA SearchStep ==
  ASSUME Inv, [SearchNext]_allVars
  PROVE  Inv'
<1> USE DEF Inv
<1>1. CASE guest = "handles" /\ Next /\ UNCHANGED <<guest, searchVars>>
  <2>1. IInv' /\ Grows
    BY <1>1, NextStep
  <2>2. files' \in Seq(FileRecords)
    BY <2>1 DEF IInv, TypeOK, FsTypeOK
  <2> QED
    BY <1>1, <2>1, <2>2, SearchKept
<1>2. ASSUME UNCHANGED <<guest, handleVars>>, SearchCall
      PROVE  Inv'
  <2>1. UNCHANGED vars
    BY <1>2 DEF SearchCall, FindFirst, FindNext, SetTransferArea, vars, handleVars
  <2>2. IInv'
    BY <2>1 DEF vars, IInv, TypeOK, FsTypeOK, SizesOK, OffsetInRange, Size
  <2>3. SearchInv'
    BY <1>2, FindFirstStep, FindNextStep, AreaStep DEF SearchCall
  <2> QED
    BY <2>2, <2>3
<1>3. ASSUME UNCHANGED <<guest, searchVars>>,
             \/ \E name \in Names : Create(name)
             \/ \E h \in Handles : handle[h].isactive /\ Close(h)
      PROVE  Inv'
  <2>1. IInv' /\ Grows
    BY <1>3, CreateStep, CloseStep
  <2>2. files' \in Seq(FileRecords)
    BY <2>1 DEF IInv, TypeOK, FsTypeOK
  <2> QED
    BY <1>3, <2>1, <2>2, SearchKept
<1>4. CASE UNCHANGED allVars
  <2>1. UNCHANGED vars /\ UNCHANGED <<guest, searchVars>>
    BY <1>4 DEF allVars
  <2>2. IInv'
    BY <2>1 DEF vars, IInv, TypeOK, FsTypeOK, SizesOK, OffsetInRange, Size
  <2>3. UNCHANGED files
    BY <2>1 DEF vars
  <2>4. SearchInv'
    BY <2>1, <2>3, SameFiles, SearchKept DEF IInv, TypeOK, FsTypeOK
  <2> QED
    BY <2>2, <2>4
<1> QED
  BY <1>1, <1>2, <1>3, <1>4 DEF SearchNext, SearchCall

LEMMA Always == SearchSpec => []Inv
<1>1. SearchInit => Inv
  <2> SUFFICES ASSUME SearchInit PROVE SearchInv
    BY InitStep DEF SearchInit, Inv
  <2>1. files \in Seq(FileRecords) /\ Len(files) \in Nat
    BY FsAssumption DEF SearchInit, Init, FsInit
  <2>2. /\ listed = [a \in Areas |-> <<>>] /\ dtaIndex = [a \in Areas |-> 1]
        /\ found = [a \in Areas |-> 0] /\ pattern = [a \in Areas |-> {}]
        /\ more = [a \in Areas |-> FALSE]
    BY DEF SearchInit
  <2>3. <<>> \in Seq(1..Len(files)) /\ Len(<<>>) = 0 /\ 0 \in 0..Len(files)
    BY <2>1
  <2>4. Listing(files, {}, 1, 0, FALSE, <<>>)
    BY <2>3 DEF Listing
  <2>5. \A a \in Areas : ListingOf(a)
    <3> SUFFICES ASSUME NEW a \in Areas PROVE ListingOf(a)
      OBVIOUS
    <3>1. listed[a] = <<>> /\ dtaIndex[a] = 1 /\ found[a] = 0 /\ pattern[a] = {}
      BY <2>2
    <3>2. more[a] = FALSE
      BY <2>2
    <3> QED
      BY <2>4, <3>1, <3>2 DEF ListingOf
  <2>6. SearchTypes
    <3>1. guest \in {"handles", "listing"} /\ dta \in Areas
      BY SearchAssumption DEF SearchInit, DefaultArea
    <3>2. /\ dtaIndex \in [Areas -> Nat \ {0}] /\ found \in [Areas -> 0..Len(files)]
          /\ listed \in [Areas -> Seq(1..Len(files))] /\ pattern \in [Areas -> SUBSET Names]
      BY <2>2, <2>3
    <3>3. more \in [Areas -> BOOLEAN]
      BY <2>2
    <3> QED
      BY <3>1, <3>2, <3>3 DEF SearchTypes
  <2> QED
    BY <2>5, <2>6 DEF SearchInv
<1>2. Inv /\ [SearchNext]_allVars => Inv'
  BY SearchStep
<1> QED
  BY <1>1, <1>2, PTL DEF SearchSpec, allVars

\* Tables, handles, answers and the search in the program's memory keep their
\* types for every table of files and number of handles.
THEOREM TypesAlwaysOK == SearchSpec => []TypesOK
<1>1. Inv => TypesOK
  BY DEF Inv, IInv, SearchInv, SearchTypes, TypesOK
<1> QED
  BY <1>1, Always, PTL

\* No handle of a running program ever points behind its file, so the unsigned
\* difference of a read never wraps (dos.c, ah = 3Fh, 40h and 42h).
THEOREM OffsetAlwaysInRange == SearchSpec => []OffsetInRange
<1>1. Inv => OffsetInRange
  BY DEF Inv, IInv
<1> QED
  BY <1>1, Always, PTL

\* Find first and find next list each match once and in order, for all patterns,
\* however many listings a program interleaves and whatever is created meanwhile
\* (dos.c, ah = 1Ah, 4Eh and 4Fh).
THEOREM AlwaysListsEachOnce == SearchSpec => []ListsEachMatchOnce
<1> DEFINE Listed(a) == {listed[a][i] : i \in 1..Len(listed[a])}
           Matching(a) == {f \in 1..Len(files) : /\ files[f].name \in pattern[a]
                                                 /\ listed[a] # <<>>
                                                 /\ f <= listed[a][Len(listed[a])]}
<1>1. ASSUME Inv, NEW a \in Areas
      PROVE  /\ \A i, j \in 1..Len(listed[a]) : i < j => listed[a][i] < listed[a][j]
             /\ Listed(a) = Matching(a)
  <2> DEFINE l == listed[a]
  <2>1. Listing(files, pattern[a], dtaIndex[a], found[a], more[a], l)
    BY <1>1 DEF Inv, SearchInv, ListingOf
  <2> HIDE DEF l
  <2>2. /\ l \in Seq(1..Len(files)) /\ Len(l) \in Nat
        /\ \A i \in 1..Len(l) : l[i] \in 1..Len(files)
    BY <2>1 DEF Listing
  <2>3. \A i, j \in 1..Len(l) : i < j => l[i] < l[j]
    BY <2>1 DEF Listing
  <2>4. \A i \in 1..Len(l) : l # <<>> /\ l[i] <= l[Len(l)]
    <3> SUFFICES ASSUME NEW i \in 1..Len(l)
                 PROVE  l # <<>> /\ l[i] <= l[Len(l)]
      OBVIOUS
    <3>1. l # <<>> /\ Len(l) \in 1..Len(l)
      BY <2>2
    <3>2. i < Len(l) => l[i] < l[Len(l)]
      BY <2>3, <3>1
    <3> QED
      BY <2>2, <3>1, <3>2
  <2>5. {l[i] : i \in 1..Len(l)} =
          {f \in 1..Len(files) : files[f].name \in pattern[a] /\ l # <<>> /\ f <= l[Len(l)]}
    BY <2>1, <2>2, <2>4, ZenonT(40) DEF Listing
  <2> QED
    BY <2>3, <2>5 DEF l
<1>2. Inv => ListsEachMatchOnce
  BY <1>1 DEF ListsEachMatchOnce
<1> QED
  BY <1>2, Always, PTL

\* "No more files" is only answered when every match has been listed (dos.c,
\* ah = 4Fh).
THEOREM AlwaysEndsAfterTheLast == SearchSpec => EndsAfterTheLast
<1> DEFINE AllListed(a) ==
      \A f \in 1..Len(files) :
        files[f].name \in pattern[a] => \E i \in 1..Len(listed'[a]) : listed'[a][i] = f
<1>1. ASSUME Inv, [SearchNext]_allVars, more' # more,
             NEW a \in Areas, pattern'[a] = pattern[a], more[a], ~more'[a]
      PROVE  AllListed(a)
  <2>1. /\ more[a] = TRUE /\ dta \in Areas /\ more \in [Areas -> BOOLEAN]
        /\ files \in Seq(FileRecords) /\ FsTypeOK
    BY <1>1 DEF Inv, IInv, TypeOK, FsTypeOK, SearchInv, SearchTypes
  <2>2. Listing(files, pattern[a], dtaIndex[a], found[a], TRUE, listed[a])
    <3>1. Listing(files, pattern[a], dtaIndex[a], found[a], more[a], listed[a])
      BY <1>1 DEF Inv, SearchInv, ListingOf
    <3> QED
      BY <2>1, <3>1
  <2>3. (\E p \in Patterns : FindFirst(p)) \/ FindNext
    BY <1>1 DEF SearchNext, SetTransferArea, allVars, searchVars
  <2>4. a = dta /\ more'[dta] = FALSE
    <3>1. ASSUME NEW b \in BOOLEAN, more' = [more EXCEPT ![dta] = b]
          PROVE  a = dta /\ more'[dta] = FALSE
      <4>1. more'[dta] = b /\ (a # dta => more'[a] = more[a])
        BY <2>1, <3>1
      <4>2. a = dta
        BY <1>1, <4>1, Zenon
      <4> QED
        BY <1>1, <4>1, <4>2
    <3>2. more' = [more EXCEPT ![dta] = TRUE] \/ more' = [more EXCEPT ![dta] = FALSE]
      BY <2>3 DEF FindFirst, FindNext, Report, ReportNone
    <3> QED
      BY <3>1, <3>2
  <2>5. ~(more' = [more EXCEPT ![dta] = TRUE])
    BY <2>1, <2>4
  <2>6. ASSUME NEW p \in Patterns, FindFirst(p)
        PROVE  AllListed(a)
    <3>1. FindFile(p, 1) = 0 /\ p = pattern[a]
      <4>1. FindFile(p, 1) = 0
        BY <2>5, <2>6 DEF FindFirst, Report
      <4>2. pattern'[dta] = p
        BY <1>1, <2>1, <2>6 DEF FindFirst, Inv, SearchInv, SearchTypes
      <4> QED
        BY <1>1, <2>4, <4>1, <4>2
    <3>2. IsFirst(0, files, p, 1)
      BY <2>1, <3>1, FindFileIsFirst
    <3>3. \A f \in 1..Len(files) : files[f].name \notin p
      BY <3>2 DEF IsFirst
    <3> QED
      BY <3>1, <3>3
  <2>7. CASE FindNext
    <3>1. FindFile(pattern[a], dtaIndex[a]) = 0 /\ listed' = listed
      BY <2>4, <2>5, <2>7 DEF FindNext, Report, ReportNone
    <3> DEFINE l == listed[a]
               i == dtaIndex[a]
    <3>2. /\ i \in Nat \ {0} /\ l \in Seq(1..Len(files)) /\ l # <<>> /\ i = l[Len(l)] + 1
          /\ Len(files) \in Nat
      BY <2>1, <2>2 DEF Listing
    <3>3. IsFirst(0, files, pattern[a], i)
      BY <2>1, <3>1, <3>2, FindFileIsFirst
    <3> HIDE DEF l, i
    <3>4. l[Len(l)] \in Nat
      BY <3>2
    <3>5. \A f \in 1..Len(files) : files[f].name \in pattern[a] => f <= l[Len(l)]
      BY <3>2, <3>3, <3>4 DEF IsFirst
    <3>6. \A f \in 1..Len(files) : files[f].name \in pattern[a] => \E k \in 1..Len(l) : l[k] = f
      BY <2>2, <3>2, <3>5 DEF Listing, l
    <3> QED
      BY <3>1, <3>6 DEF l
  <2> QED
    BY <2>3, <2>6, <2>7
<1>2. Inv /\ [SearchNext]_allVars =>
        [\A a \in Areas : pattern'[a] = pattern[a] /\ more[a] /\ ~more'[a] => AllListed(a)]_more
  BY <1>1
<1> QED
  BY <1>2, Always, PTL DEF SearchSpec, EndsAfterTheLast, allVars

-----------------------------------------------------------------------------
\* The refinement.  What a handle stands for is the first file of its name, or
\* no file: a write through it changes the contents under that name and no other.
RefInv ==
  \A h \in Handles :
    handle[h].file # 0 =>
      /\ handle[h].isfile
      /\ IsFirst(handle[h].file, files, {files[handle[h].file].name}, 1)

\* What an entry of the table of handles stands for.
View(e, table) ==
  IF e.isfile THEN [name |-> table[e.file].name, pos |-> e.offset]
              ELSE [name |-> Emm, pos |-> 0]

LEMMA FirstKept ==
  ASSUME TypeOK, files' \in Seq(FileRecords), Grows, NEW f \in 1..Len(files), NEW name,
         IsFirst(f, files, {name}, 1)
  PROVE  IsFirst(f, files', {name}, 1)
<1>1. /\ Len(files) \in Nat /\ Len(files') \in Nat /\ Len(files) <= Len(files')
      /\ \A i \in 1..Len(files) : files'[i].name = files[i].name
  BY DEF Grows, TypeOK, FsTypeOK
<1>2. /\ files[f].name \in {name}
      /\ \A i \in 1..Len(files) : files[i].name \in {name} => f <= i
  BY DEF IsFirst
<1>3. \A i \in 1..Len(files') : files'[i].name \in {name} => f <= i
  BY <1>1, <1>2
<1> QED
  BY <1>1, <1>2, <1>3 DEF IsFirst

LEMMA RefKept ==
  ASSUME IInv, RefInv, files' \in Seq(FileRecords), Grows, NEW n \in Handles, NEW e,
         handle' = [handle EXCEPT ![n] = e],
         \/ e.file = 0
         \/ e.isfile /\ IsFirst(e.file, files', {files'[e.file].name}, 1)
         \/ e.file = handle[n].file /\ e.isfile = handle[n].isfile
  PROVE  RefInv'
<1> SUFFICES ASSUME NEW h \in Handles, handle'[h].file # 0
             PROVE  /\ handle'[h].isfile
                    /\ IsFirst(handle'[h].file, files', {files'[handle'[h].file].name}, 1)
  BY DEF RefInv
<1>1. handle'[h] = IF h = n THEN e ELSE handle[h]
  BY DEF IInv, TypeOK
<1>2. ASSUME handle'[h].file = handle[h].file, handle'[h].isfile = handle[h].isfile
      PROVE  /\ handle'[h].isfile
             /\ IsFirst(handle'[h].file, files', {files'[handle'[h].file].name}, 1)
  <2>1. handle[h].file \in 1..Len(files)
    BY <1>2, FileOfHandle DEF IInv
  <2>2. handle[h].isfile /\ IsFirst(handle[h].file, files, {files[handle[h].file].name}, 1)
    BY <1>2 DEF RefInv
  <2>3. files'[handle[h].file].name = files[handle[h].file].name
    BY <2>1 DEF Grows
  <2> QED
    BY <1>2, <2>1, <2>2, <2>3, FirstKept DEF IInv
<1>3. CASE h # n
  BY <1>1, <1>2, <1>3
<1>4. CASE h = n
  BY <1>1, <1>2, <1>4
<1> QED
  BY <1>3, <1>4

LEMMA OpenAfter ==
  ASSUME IInv, Grows, NEW n \in Handles, NEW e, handle' = [handle EXCEPT ![n] = e]
  PROVE  Opened' = [g \in (DOMAIN Opened \ {n}) \cup (IF e.isactive THEN {n} ELSE {}) |->
                    IF g = n THEN View(e, files') ELSE Opened[g]]
<1>1. \A g \in Handles : handle'[g] = IF g = n THEN e ELSE handle[g]
  BY DEF IInv, TypeOK
<1>2. {g \in Handles : handle'[g].isactive} =
        ({g \in Handles : handle[g].isactive} \ {n}) \cup (IF e.isactive THEN {n} ELSE {})
  BY <1>1
<1>3. DOMAIN Opened = {g \in Handles : handle[g].isactive}
  BY DEF Opened
<1>4. \A g \in Handles : g # n /\ handle[g].isactive /\ handle[g].isfile =>
        files'[handle[g].file].name = files[handle[g].file].name
  BY FileOfHandle DEF IInv, TypeOK, Grows
<1>5. Opened' = [h \in {g \in Handles : handle'[g].isactive} |->
                 IF handle'[h].isfile
                 THEN [name |-> files'[handle'[h].file].name, pos |-> handle'[h].offset]
                 ELSE [name |-> Emm, pos |-> 0]]
  BY DEF Opened
<1>6. \A h \in {g \in Handles : handle'[g].isactive} :
        (IF handle'[h].isfile
         THEN [name |-> files'[handle'[h].file].name, pos |-> handle'[h].offset]
         ELSE [name |-> Emm, pos |-> 0]) = IF h = n THEN View(e, files') ELSE Opened[h]
  <2> SUFFICES ASSUME NEW h \in Handles, handle'[h].isactive
               PROVE  (IF handle'[h].isfile
                       THEN [name |-> files'[handle'[h].file].name, pos |-> handle'[h].offset]
                       ELSE [name |-> Emm, pos |-> 0]) = IF h = n THEN View(e, files') ELSE Opened[h]
    OBVIOUS
  <2>1. CASE h = n
    BY <1>1, <2>1 DEF View
  <2>2. CASE h # n
    BY <1>1, <1>4, <2>2 DEF Opened
  <2> QED
    BY <2>1, <2>2
<1> QED
  BY <1>2, <1>3, <1>5, <1>6

LEMMA SameContent == ASSUME UNCHANGED files PROVE Contents' = Contents
  BY DEF Contents, FindFile

\* A name stands for the contents of its first file.
LEMMA ContentsOf ==
  ASSUME FsTypeOK
  PROVE  /\ DOMAIN Contents = {files[i].name : i \in 1..Len(files)}
         /\ \A f \in 1..Len(files) : IsFirst(f, files, {files[f].name}, 1) =>
              Contents[files[f].name] = files[f].data
<1>1. DOMAIN Contents = {files[i].name : i \in 1..Len(files)}
  BY DEF Contents
<1>2. ASSUME NEW f \in 1..Len(files), IsFirst(f, files, {files[f].name}, 1)
      PROVE  Contents[files[f].name] = files[f].data
  <2>1. f = First(files, {files[f].name}, 1)
    BY <1>2, FirstUnique, SMTT(30) DEF FsTypeOK
  <2>2. f = FindFile({files[f].name}, 1)
    BY <2>1 DEF First, FindFile
  <2> QED
    BY <1>1, <2>2 DEF Contents
<1> QED
  BY <1>1, <1>2

LEMMA ContentsAfter ==
  ASSUME FsTypeOK'
  PROVE  /\ DOMAIN Contents' = {files'[i].name : i \in 1..Len(files')}
         /\ \A f \in 1..Len(files') : IsFirst(f, files', {files'[f].name}, 1) =>
              Contents'[files'[f].name] = files'[f].data
         /\ Contents' = [name \in DOMAIN Contents' |-> Contents'[name]]
<1>1. DOMAIN Contents' = {files'[i].name : i \in 1..Len(files')}
  BY DEF Contents
<1>2. ASSUME NEW f \in 1..Len(files'), IsFirst(f, files', {files'[f].name}, 1)
      PROVE  Contents'[files'[f].name] = files'[f].data
  <2>1. f = First(files', {files'[f].name}, 1)
    BY <1>2, FirstUnique DEF FsTypeOK
  <2>2. Contents' = [name \in {files'[i].name : i \in 1..Len(files')} |->
                       files'[First(files', {name}, 1)].data]
    BY DEF Contents, First, FindFile
  <2> HIDE DEF First
  <2>3. files'[f].name \in {files'[i].name : i \in 1..Len(files')}
    BY <1>2
  <2> QED
    BY <2>1, <2>2, <2>3
<1> QED
  BY <1>1, <1>2 DEF Contents

\* Every name has a first file.
LEMMA NameHasFirst ==
  ASSUME FsTypeOK, NEW name \in DOMAIN Contents
  PROVE  \E f \in 1..Len(files) : files[f].name = name /\ IsFirst(f, files, {name}, 1)
<1>1. PICK i \in 1..Len(files) : files[i].name = name
  BY ContentsOf
<1>2. IsFirst(First(files, {name}, 1), files, {name}, 1)
  BY FirstIsFirst DEF FsTypeOK
<1> HIDE DEF First
<1> QED
  BY <1>1, <1>2 DEF IsFirst

LEMMA GiveRefines ==
  ASSUME IInv, Grows, NEW n \in Handles, ~handle[n].isactive, NEW e, e.isactive,
         handle' = [handle EXCEPT ![n] = e], NEW name, View(e, files') = [name |-> name, pos |-> 0]
  PROVE  Contract!Give(name)
<1>1. n \in Handles \ DOMAIN Opened
  BY DEF Opened
<1>2. Opened' = [g \in DOMAIN Opened \cup {n} |->
                   IF g = n THEN [name |-> name, pos |-> 0] ELSE Opened[g]]
  <2>1. (DOMAIN Opened \ {n}) \cup (IF e.isactive THEN {n} ELSE {}) = DOMAIN Opened \cup {n}
    BY <1>1
  <2>2. Opened' = [g \in (DOMAIN Opened \ {n}) \cup (IF e.isactive THEN {n} ELSE {}) |->
                     IF g = n THEN View(e, files') ELSE Opened[g]]
    BY OpenAfter
  <2>3. Opened' = [g \in DOMAIN Opened \cup {n} |->
                     IF g = n THEN View(e, files') ELSE Opened[g]]
    BY <2>1, <2>2
  <2> QED
    BY <2>3
<1> QED
  BY <1>1, <1>2 DEF Contract!Give

LEMMA CreateRefines ==
  ASSUME FreshNames, FreeHandle, IInv, RefInv, NEW name \in Names, Create(name)
  PROVE  Contract!Create(name) /\ RefInv'
<1> DEFINE new == Len(files')
           e == FileHandle(new)
           n == nextfreehandle
<1>1. IInv' /\ Grows /\ files' \in Seq(FileRecords) /\ files \in Seq(FileRecords) /\ FsTypeOK /\ FsTypeOK'
  BY CreateStep DEF IInv, TypeOK, FsTypeOK
<1>2. n \in Handles /\ ~handle[n].isactive
  BY NextHandle DEF Create, MayOpen, IInv
<1>3. /\ new = Len(files) + 1 /\ Len(files) \in Nat
      /\ files'[new].name = name /\ files'[new].data = <<>>
      /\ \A i \in 1..Len(files) : files'[i] = files[i]
  <2>1. [name |-> name, data |-> <<>>] \in FileRecords
    BY DEF FileRecords
  <2>2. files' = Append(files, [name |-> name, data |-> <<>>])
    BY DEF Create, CreateFile
  <2> QED
    BY <1>1, <2>1, <2>2
<1>4. \A i \in 1..Len(files) : files[i].name # name
  <2>1. FindFile({name}, 1) = 0
    BY DEF Create
  <2>2. IsFirst(0, files, {name}, 1)
    BY <1>1, <2>1, FindFileIsFirst
  <2> QED
    BY <2>2 DEF IsFirst
<1>5. IsFirst(new, files', {name}, 1)
  BY <1>3, <1>4 DEF IsFirst
<1>6. handle' = [handle EXCEPT ![n] = e] /\ UNCHANGED <<reply, exited>>
  BY DEF Create
<1>7. e.isactive /\ e.isfile /\ e.file = new /\ e.offset = 0
  BY DEF FileHandle
<1> HIDE DEF n, e
<1>8. View(e, files') = [name |-> name, pos |-> 0]
  BY <1>3, <1>7 DEF View
<1>9. Contract!Give(name)
  BY <1>1, <1>2, <1>6, <1>7, <1>8, GiveRefines
<1>10. Contents' = [m \in DOMAIN Contents \cup {name} |-> IF m = name THEN <<>> ELSE Contents[m]]
  <2>1. DOMAIN Contents' = DOMAIN Contents \cup {name}
    <3>1. \A i \in 1..new : i \in 1..Len(files) \/ i = new
      BY <1>3
    <3>2. {files'[i].name : i \in 1..new} = {files[i].name : i \in 1..Len(files)} \cup {name}
      BY <1>3, <3>1
    <3> QED
      BY <1>1, <3>2, ContentsOf, ContentsAfter
  <2>2. Contents'[name] = <<>>
    <3>1. new \in 1..new
      BY <1>3
    <3> QED
      BY <1>1, <1>3, <1>5, <3>1, ContentsAfter
  <2>3. ASSUME NEW m \in DOMAIN Contents
        PROVE  m # name /\ Contents'[m] = Contents[m]
    <3>1. PICK f \in 1..Len(files) : files[f].name = m /\ IsFirst(f, files, {m}, 1)
      BY <1>1, NameHasFirst
    <3>2. IsFirst(f, files', {m}, 1) /\ f \in 1..Len(files') /\ files'[f] = files[f]
      <4>1. TypeOK
        BY DEF IInv
      <4>2. IsFirst(f, files', {m}, 1)
        BY <1>1, <3>1, <4>1, FirstKept
      <4>3. f \in 1..Len(files') /\ files'[f] = files[f]
        BY <1>3
      <4> QED
        BY <4>2, <4>3
    <3>3. Contents[m] = files[f].data
      BY <1>1, <3>1, ContentsOf
    <3>4. Contents'[m] = files'[f].data
      <4>1. files'[f].name = m
        BY <3>1, <3>2
      <4>2. Contents'[files'[f].name] = files'[f].data
        BY <1>1, <3>2, <4>1, ContentsAfter
      <4> QED
        BY <4>1, <4>2
    <3> QED
      BY <1>4, <3>1, <3>2, <3>3, <3>4
  <2>4. Contents' = [m \in DOMAIN Contents' |-> Contents'[m]]
    BY <1>1, ContentsAfter
  <2> QED
    BY <2>1, <2>2, <2>3, <2>4
<1>11. RefInv'
  BY <1>1, <1>2, <1>3, <1>5, <1>6, <1>7, RefKept
<1> QED
  BY <1>6, <1>9, <1>10, <1>11 DEF Contract!Create

LEMMA OpenRefines ==
  ASSUME FreeHandle, IInv, RefInv, NEW name \in Names, Open(name)
  PROVE  Contract!Open(name) /\ RefInv'
<1> DEFINE f == FindFile({name}, 1)
           e == FileHandle(f)
           n == nextfreehandle
<1>1. Grows /\ files' \in Seq(FileRecords) /\ UNCHANGED files /\ FsTypeOK
  BY OpenStep DEF IInv, TypeOK, FsTypeOK, Open
<1>2. n \in Handles /\ ~handle[n].isactive
  BY NextHandle DEF Open, MayOpen, IInv
<1>3. IsFirst(f, files, {name}, 1) /\ f # 0
  BY <1>1, FindFileIsFirst DEF Open
<1>4. handle' = [handle EXCEPT ![n] = e] /\ UNCHANGED <<reply, exited>>
  BY DEF Open
<1> HIDE DEF f
<1>5. e.isactive /\ e.isfile /\ e.file = f /\ e.offset = 0
  BY DEF FileHandle
<1> HIDE DEF n, e
<1>6. f \in 1..Len(files) /\ files[f].name = name
  BY <1>3 DEF IsFirst
<1>7. View(e, files') = [name |-> name, pos |-> 0]
  BY <1>1, <1>5, <1>6 DEF View
<1>8. Contract!Give(name)
  BY <1>1, <1>2, <1>4, <1>5, <1>7, GiveRefines
<1>9. name \in DOMAIN Contents
  BY <1>1, <1>6, ContentsOf
<1>10. RefInv'
  BY <1>1, <1>2, <1>3, <1>4, <1>5, <1>6, RefKept
<1> QED
  BY <1>1, <1>4, <1>8, <1>9, <1>10, SameContent DEF Contract!Open

LEMMA OpenEmmRefines ==
  ASSUME FreeHandle, IInv, RefInv, OpenEmm
  PROVE  Contract!Open(Emm) /\ RefInv'
<1> DEFINE n == nextfreehandle
           e == [handle[n] EXCEPT !.isactive = TRUE, !.isfile = FALSE]
<1>1. Grows /\ files' \in Seq(FileRecords) /\ UNCHANGED files
  BY OpenEmmStep DEF IInv, TypeOK, FsTypeOK, OpenEmm
<1>2. n \in Handles /\ ~handle[n].isactive
  BY NextHandle DEF OpenEmm, MayOpen, IInv
<1>3. handle' = [handle EXCEPT ![n] = e] /\ UNCHANGED <<reply, exited>>
  BY <1>2 DEF OpenEmm, IInv, TypeOK
<1>4. handle[n].file = 0
  BY <1>2 DEF IInv, TypeOK
<1> HIDE DEF n
<1>5. e.isactive /\ ~e.isfile /\ e.file = 0
  BY <1>2, <1>4, EntryTyped DEF IInv, Entries
<1> HIDE DEF e
<1>6. View(e, files') = [name |-> Emm, pos |-> 0]
  BY <1>5 DEF View
<1>7. Contract!Give(Emm)
  BY <1>1, <1>2, <1>3, <1>5, <1>6, GiveRefines
<1>8. RefInv'
  BY <1>1, <1>2, <1>3, <1>5, RefKept
<1> QED
  BY <1>1, <1>3, <1>7, <1>8, SameContent DEF Contract!Open

LEMMA CloseRefines ==
  ASSUME IInv, RefInv, NEW h \in Handles, Close(h)
  PROVE  Contract!Close(h) /\ RefInv'
<1> DEFINE e == [handle[h] EXCEPT !.isactive = FALSE, !.file = 0]
<1>1. Grows /\ files' \in Seq(FileRecords) /\ UNCHANGED <<files, reply, exited>>
  BY CloseStep DEF IInv, TypeOK, FsTypeOK, Close
<1>2. handle' = [handle EXCEPT ![h] = e]
  BY DEF Close, IInv, TypeOK
<1>3. ~e.isactive /\ e.file = 0
  BY EntryTyped DEF IInv, Entries
<1> HIDE DEF e
<1>4. Opened' = [g \in DOMAIN Opened \ {h} |-> Opened[g]]
  <2>1. (DOMAIN Opened \ {h}) \cup (IF e.isactive THEN {h} ELSE {}) = DOMAIN Opened \ {h}
    BY <1>3
  <2>2. Opened' = [g \in DOMAIN Opened \ {h} |-> IF g = h THEN View(e, files') ELSE Opened[g]]
    BY <1>1, <1>2, <2>1, OpenAfter
  <2> QED
    BY <2>2
<1>5. RefInv'
  BY <1>1, <1>2, <1>3, RefKept
<1> QED
  BY <1>1, <1>4, <1>5, SameContent DEF Contract!Close

LEMMA FailRefines ==
  ASSUME RefInv, NEW h \in Handles, ReadWriteFails(h) \/ SeekFails(h)
  PROVE  Contract!Fail /\ RefInv'
<1>1. UNCHANGED <<files, handle, reply>> /\ exited' = TRUE
  BY DEF ReadWriteFails, SeekFails
<1> QED
  BY <1>1, SameContent DEF Contract!Fail, RefInv

\* What a read, a write or a seek sees of its handle.
LEMMA HandleInUse ==
  ASSUME IInv, RefInv, ~exited, NEW h \in Handles, handle[h].file # 0
  PROVE  /\ Contract!IsFile(h)
         /\ h \in DOMAIN Opened
         /\ Opened[h] = [name |-> files[handle[h].file].name, pos |-> handle[h].offset]
         /\ Contract!Contents(h) = files[handle[h].file].data
         /\ Len(Contract!Contents(h)) = Size(h)
         /\ handle[h].isactive /\ handle[h].isfile
         /\ handle[h].offset \in 0..Size(h)
<1>1. /\ handle[h].isactive /\ handle[h].isfile
      /\ handle[h].file \in 1..Len(files) /\ files[handle[h].file] \in FileRecords
      /\ IsFirst(handle[h].file, files, {files[handle[h].file].name}, 1)
      /\ Size(h) \in Nat
  BY FileOfHandle DEF IInv, RefInv
<1>2. h \in DOMAIN Opened
  BY <1>1 DEF Opened
<1>3. Opened[h] = [name |-> files[handle[h].file].name, pos |-> handle[h].offset]
  BY <1>1 DEF Opened
<1>4. files[handle[h].file].name # Emm
  <2>1. files[handle[h].file].name \in Names
    BY <1>1 DEF FileRecords
  <2> QED
    BY <2>1, DosFilesAssumption
<1>5. Contents[files[handle[h].file].name] = files[handle[h].file].data
  BY <1>1, ContentsOf DEF IInv, TypeOK
<1>6. Contract!Contents(h) = files[handle[h].file].data
  BY <1>3, <1>5 DEF Contract!Contents
<1>7. Contract!IsFile(h)
  BY <1>2, <1>3, <1>4 DEF Contract!IsFile
<1>8. handle[h].offset \in 0..Size(h)
  <2>1. handle[h].offset <= Size(h)
    BY <1>1 DEF IInv, OffsetInRange
  <2>2. handle[h].offset \in Nat
    BY EntryTyped DEF IInv
  <2> QED
    BY <1>1, <2>1, <2>2
<1> QED
  BY <1>1, <1>2, <1>3, <1>6, <1>7, <1>8 DEF Size

\* A new position of a handle is a new position in the contract.
LEMMA MoveRefines ==
  ASSUME IInv, RefInv, Grows, ~exited, files' \in Seq(FileRecords),
         NEW h \in Handles, handle[h].file # 0, NEW end \in 0..(OffsetWord - 1),
         handle' = [handle EXCEPT ![h] = [handle[h] EXCEPT !.offset = end]]
  PROVE  Opened' = [Opened EXCEPT ![h].pos = end] /\ RefInv'
<1> DEFINE e == [handle[h] EXCEPT !.offset = end]
<1>1. /\ e.isactive = handle[h].isactive /\ e.isfile = handle[h].isfile
      /\ e.file = handle[h].file /\ e.offset = end
  BY MovedEntry DEF IInv
<1>2. handle' = [handle EXCEPT ![h] = e]
  OBVIOUS
<1> HIDE DEF e
<1>3. RefInv'
  BY <1>1, <1>2, RefKept
<1>4. /\ handle[h].isactive /\ handle[h].isfile /\ h \in DOMAIN Opened
      /\ Opened[h] = [name |-> files[handle[h].file].name, pos |-> handle[h].offset]
  BY HandleInUse
<1>5. files'[handle[h].file].name = files[handle[h].file].name
  BY FileOfHandle DEF IInv, Grows
<1>6. View(e, files') = [Opened[h] EXCEPT !.pos = end]
  BY <1>1, <1>4, <1>5 DEF View
<1>7. Opened' = [g \in (DOMAIN Opened \ {h}) \cup (IF e.isactive THEN {h} ELSE {}) |->
                   IF g = h THEN View(e, files') ELSE Opened[g]]
  BY <1>2, OpenAfter
<1>8. (DOMAIN Opened \ {h}) \cup (IF e.isactive THEN {h} ELSE {}) = DOMAIN Opened
  BY <1>1, <1>4
<1>9. Opened' = [g \in DOMAIN Opened |-> IF g = h THEN View(e, files') ELSE Opened[g]]
  BY <1>7, <1>8
<1>10. Opened = [g \in DOMAIN Opened |-> Opened[g]]
  BY DEF Opened
<1>11. Opened' = [g \in DOMAIN Opened |-> IF g = h THEN [Opened[h] EXCEPT !.pos = end] ELSE Opened[g]]
  BY <1>6, <1>9
<1>12. Opened' = [Opened EXCEPT ![h].pos = end]
  BY <1>4, <1>10, <1>11
<1> QED
  BY <1>3, <1>12

LEMMA ReadRefines ==
  ASSUME IInv, RefInv, NEW h \in Handles, NEW size \in ReadSizes, Read(h, size)
  PROVE  Contract!IsFile(h) /\ Contract!Read(h, size) /\ RefInv'
<1> DEFINE end == handle[h].offset + ReadLength(h, size)
<1>1. /\ ~exited /\ handle[h].isactive /\ handle[h].isfile /\ handle[h].file # 0
      /\ UNCHANGED <<files, exited>>
  BY DEF Read, IInv, TypeOK
<1>2. Grows /\ files' \in Seq(FileRecords)
  BY ReadStep DEF IInv, TypeOK, FsTypeOK
<1>3. /\ end \in 0..(OffsetWord - 1)
      /\ end = IF handle[h].offset + size < Size(h) THEN handle[h].offset + size ELSE Size(h)
  BY <1>1, ReadEnd
<1>4. handle' = [handle EXCEPT ![h] = [handle[h] EXCEPT !.offset = end]]
  BY DEF Read, IInv, TypeOK
<1>5. reply' = <<"bytes", SubSeq(files[handle[h].file].data, handle[h].offset + 1, end)>>
  BY DEF Read
<1> HIDE DEF end
<1>6. Opened' = [Opened EXCEPT ![h].pos = end] /\ RefInv'
  BY <1>1, <1>2, <1>3, <1>4, MoveRefines
<1>7. /\ Contract!IsFile(h) /\ Opened[h].pos = handle[h].offset
      /\ Contract!Contents(h) = files[handle[h].file].data
      /\ Len(Contract!Contents(h)) = Size(h)
  <2>1. Opened[h] = [name |-> files[handle[h].file].name, pos |-> handle[h].offset]
    BY <1>1, HandleInUse
  <2>2. Opened[h].pos = handle[h].offset
    BY <2>1
  <2>3. /\ Contract!IsFile(h) /\ Contract!Contents(h) = files[handle[h].file].data
        /\ Len(Contract!Contents(h)) = Size(h)
    BY <1>1, HandleInUse
  <2> QED
    BY <2>2, <2>3
<1>8. end = IF Opened[h].pos + size < Len(Contract!Contents(h))
            THEN Opened[h].pos + size ELSE Len(Contract!Contents(h))
  BY <1>3, <1>7
<1>9. reply' = <<"bytes", SubSeq(Contract!Contents(h), Opened[h].pos + 1, end)>>
  BY <1>5, <1>7
<1>10. Contract!Read(h, size)
  BY <1>1, <1>6, <1>8, <1>9, SameContent DEF Contract!Read
<1> QED
  BY <1>6, <1>7, <1>10

LEMMA SeekRefines ==
  ASSUME IInv, RefInv, NEW h \in Handles, NEW base \in 0..2, NEW offset \in SeekWords,
         Seek(h, base, offset)
  PROVE  (Contract!Fail \/ (Contract!IsFile(h) /\ Contract!Seek(h))) /\ RefInv'
<1> DEFINE end == Target(h, base, offset)
<1>1. /\ ~exited /\ handle[h].file # 0 /\ UNCHANGED files
      /\ handle' = [handle EXCEPT ![h] = [handle[h] EXCEPT !.offset = end]]
  BY DEF Seek, IInv, TypeOK
<1>a. exited' = (end > Size(h)) /\ reply' = IF exited' THEN reply ELSE <<"position", end>>
  BY DEF Seek
<1>2. Grows /\ files' \in Seq(FileRecords)
  BY SeekStep DEF IInv, TypeOK, FsTypeOK
<1>3. end \in 0..(OffsetWord - 1) /\ end \in Nat
  BY <1>1, TargetSmall, DosFilesAssumption DEF IInv
<1> HIDE DEF end
<1>4. Opened' = [Opened EXCEPT ![h].pos = end] /\ RefInv'
  BY <1>1, <1>2, <1>3, MoveRefines
<1>5. CASE end > Size(h)
  <2>1. exited' = TRUE /\ reply' = reply
    <3>1. exited' = TRUE
      BY <1>a, <1>5, Zenon
    <3>2. exited'
      BY <3>1
    <3> QED
      BY <1>a, <3>1, <3>2, Zenon
  <2>2. Contents' = Contents
    BY <1>1, SameContent
  <2>3. Contract!Fail
    BY <2>1, <2>2, Zenon DEF Contract!Fail
  <2> QED
    BY <1>4, <2>3
<1>6. CASE ~(end > Size(h))
  <2>1. exited' = FALSE /\ reply' = <<"position", end>>
    <3>1. exited' = FALSE
      <4>1. (end > Size(h)) = FALSE
        BY <1>6
      <4> QED
        BY <1>a, <4>1
    <3>2. ~exited'
      BY <3>1
    <3> QED
      BY <1>a, <3>1, <3>2, Zenon
  <2>2. Contract!IsFile(h) /\ Len(Contract!Contents(h)) = Size(h)
    BY <1>1, HandleInUse
  <2>3. Size(h) \in Nat
    BY <1>1, FileOfHandle DEF IInv
  <2>4. end \in 0..Len(Contract!Contents(h))
    BY <1>3, <1>6, <2>2, <2>3
  <2>5. exited \in BOOLEAN
    BY DEF IInv, TypeOK
  <2>6. exited' = exited
    BY <1>1, <2>1, <2>5, Zenon
  <2> QED
    BY <1>1, <1>4, <2>1, <2>2, <2>4, <2>6, SameContent DEF Contract!Seek
<1> QED
  BY <1>5, <1>6

LEMMA Joined ==
  ASSUME NEW a \in Seq(Bytes), NEW b \in Seq(Bytes), NEW n \in Nat, n = Len(a) + Len(b)
  PROVE  /\ a \o b \in Seq(Bytes)
         /\ Len(a \o b) = n
         /\ \A i \in 1..n : (a \o b)[i] = IF i <= Len(a) THEN a[i] ELSE b[i - Len(a)]
  BY ConcatProperties

\* Overwriting in place is taking the file apart and putting it together again.
LEMMA OverwrittenIsSpliced ==
  ASSUME NEW data \in Seq(Bytes), NEW chunk \in Seq(Bytes), NEW offset \in Nat,
         offset <= Len(data)
  PROVE  Overwritten(data, chunk, offset) =
           SubSeq(data, 1, offset) \o chunk \o
             SubSeq(data, offset + Len(chunk) + 1, Len(data))
<1> DEFINE end == offset + Len(chunk)
           n == IF Len(data) < end THEN end ELSE Len(data)
           left == SubSeq(data, 1, offset)
           right == SubSeq(data, end + 1, Len(data))
           new == Overwritten(data, chunk, offset)
<1>1. /\ Len(data) \in Nat /\ Len(chunk) \in Nat /\ end \in Nat /\ n \in Nat
      /\ offset <= end /\ end <= n /\ Len(data) <= n /\ end = offset + Len(chunk)
  OBVIOUS
<1>2. /\ left \in Seq(Bytes) /\ Len(left) = offset
      /\ \A i \in 1..offset : left[i] = data[i]
  <2>1. \A i \in 1..offset : data[i] \in Bytes
    BY <1>1
  <2> QED
    BY <1>1, <2>1, SubSeqProperties
<1>3. /\ right \in Seq(Bytes) /\ Len(right) = n - end
      /\ \A i \in 1..(n - end) : right[i] = data[end + i]
  <2>1. \A i \in (end + 1)..Len(data) : data[i] \in Bytes
    BY <1>1
  <2>2. /\ right \in Seq(Bytes)
        /\ Len(right) = IF end + 1 <= Len(data) THEN Len(data) - (end + 1) + 1 ELSE 0
        /\ \A i \in 1..(Len(data) - (end + 1) + 1) : right[i] = data[end + 1 + i - 1]
    <3> HIDE DEF end
    <3> QED
      BY <1>1, <2>1, SubSeqProperties
  <2> HIDE DEF right, end
  <2>3. Len(right) = n - end
    <3>1. CASE end + 1 <= Len(data)
      <4>1. n = Len(data) /\ Len(data) - (end + 1) + 1 = Len(data) - end
        BY <1>1, <3>1
      <4> QED
        BY <2>2, <3>1, <4>1
    <3>2. CASE ~(end + 1 <= Len(data))
      <4>1. n = end
        BY <1>1, <3>2
      <4> QED
        BY <1>1, <2>2, <3>2, <4>1
    <3> QED
      BY <3>1, <3>2
  <2>4. \A i \in 1..(n - end) : i \in 1..(Len(data) - (end + 1) + 1) /\ end + 1 + i - 1 = end + i
    BY <1>1
  <2> QED
    BY <2>2, <2>3, <2>4
<1>4. /\ left \o chunk \in Seq(Bytes) /\ Len(left \o chunk) = end
      /\ \A i \in 1..end : (left \o chunk)[i] = IF i <= offset THEN left[i] ELSE chunk[i - offset]
  <2> HIDE DEF left
  <2> QED
    BY <1>1, <1>2, ConcatProperties
<1>5. /\ (left \o chunk) \o right \in Seq(Bytes) /\ Len((left \o chunk) \o right) = n
      /\ \A i \in 1..n : ((left \o chunk) \o right)[i] =
           IF i <= end THEN (left \o chunk)[i] ELSE right[i - end]
  <2> DEFINE front == left \o chunk
  <2>1. front \in Seq(Bytes) /\ Len(front) = end
    BY <1>4
  <2> HIDE DEF front, left, right, end, n
  <2>2. end + (n - end) = n
    BY <1>1
  <2>3. /\ front \o right \in Seq(Bytes) /\ Len(front \o right) = n
        /\ \A i \in 1..n : (front \o right)[i] = IF i <= end THEN front[i] ELSE right[i - end]
    <3>1. right \in Seq(Bytes) /\ n = Len(front) + Len(right) /\ n \in Nat
      BY <1>1, <1>3, <2>1, <2>2
    <3>2. /\ front \o right \in Seq(Bytes)
          /\ Len(front \o right) = n
          /\ \A i \in 1..n :
               (front \o right)[i] = IF i <= Len(front) THEN front[i] ELSE right[i - Len(front)]
      BY <2>1, <3>1, Joined, ZenonT(40)
    <3> QED
      BY <2>1, <3>2
  <2> QED
    BY <2>3 DEF front
<1>6. new \in Seq(Bytes) /\ Len(new) = n
  BY OverwrittenSeq
<1>7. \A i \in 1..n : new[i] = ((left \o chunk) \o right)[i]
  <2> SUFFICES ASSUME NEW i \in 1..n PROVE new[i] = ((left \o chunk) \o right)[i]
    OBVIOUS
  <2>1. new[i] = IF i \in (offset + 1)..end THEN chunk[i - offset] ELSE data[i]
    BY DEF Overwritten
  <2> HIDE DEF new, left, right, n, end
  <2>a. i \in Nat /\ 1 <= i /\ i <= n
    BY <1>1
  <2>2. CASE i <= offset
    <3>1. i \in 1..offset /\ i \in 1..end /\ i \notin (offset + 1)..end
      BY <1>1, <2>a, <2>2
    <3> QED
      BY <1>1, <1>2, <1>4, <1>5, <2>1, <2>2, <3>1
  <2>3. CASE offset < i /\ i <= end
    <3>1. i \in (offset + 1)..end /\ i \in 1..end /\ ~(i <= offset)
      BY <1>1, <2>a, <2>3
    <3> QED
      BY <1>1, <1>4, <1>5, <2>1, <2>3, <3>1
  <2>4. CASE end < i
    <3>1. i - end \in 1..(n - end) /\ end + (i - end) = i
      BY <1>1, <2>4
    <3>2. right[i - end] = data[i]
      BY <1>3, <3>1
    <3> QED
      BY <1>1, <1>5, <2>1, <2>4, <3>2, SMTT(30)
  <2>5. i <= offset \/ (offset < i /\ i <= end) \/ end < i
    BY <1>1, <2>a
  <2> QED
    BY <2>2, <2>3, <2>4, <2>5
<1> HIDE DEF new, left, right, n, end
<1>8. new = (left \o chunk) \o right
  BY <1>5, <1>6, <1>7, SeqEqual
<1> QED
  BY <1>8 DEF new, left, right, end

LEMMA WriteRefines ==
  ASSUME IInv, RefInv, NEW h \in Handles, NEW chunk \in Chunks, Write(h, chunk)
  PROVE  Contract!IsFile(h) /\ Contract!Write(h, chunk) /\ RefInv'
<1> DEFINE f == handle[h].file
           name == files[f].name
           end == handle[h].offset + Len(chunk)
           new == Overwritten(files[f].data, chunk, handle[h].offset)
<1>1. /\ ~exited /\ handle[h].isactive /\ handle[h].isfile /\ f # 0
      /\ end <= MaxSize /\ UNCHANGED <<reply, exited>>
      /\ files' = [files EXCEPT ![f].data = new]
      /\ handle' = [handle EXCEPT ![h] = [handle[h] EXCEPT !.offset = end]]
  BY DEF Write, WriteFile, IInv, TypeOK
<1>2. Grows /\ files' \in Seq(FileRecords) /\ FsTypeOK'
  BY WriteStep DEF IInv, TypeOK, FsTypeOK
<1>3. /\ f \in 1..Len(files) /\ files[f] \in FileRecords /\ files \in Seq(FileRecords)
      /\ IsFirst(f, files, {name}, 1) /\ FsTypeOK
  BY <1>1, FileOfHandle DEF IInv, RefInv, TypeOK, FsTypeOK
<1>4. /\ Contract!IsFile(h) /\ h \in DOMAIN Opened
      /\ Opened[h] = [name |-> name, pos |-> handle[h].offset]
      /\ Contract!Contents(h) = files[f].data
      /\ Len(Contract!Contents(h)) = Size(h)
      /\ handle[h].offset \in 0..Size(h)
  BY <1>1, HandleInUse
<1>5. files[f].data \in Seq(Bytes) /\ chunk \in Seq(Bytes) /\ Len(chunk) \in Nat
  <2>1. chunk \in Seq(Bytes)
    BY DosFilesAssumption
  <2> QED
    BY <1>3, <2>1 DEF FileRecords
<1>6. handle[h].offset \in Nat /\ handle[h].offset <= Len(files[f].data)
  <2>1. Size(h) \in Nat /\ Size(h) = Len(files[f].data)
    BY <1>1, FileOfHandle, SMTT(30) DEF IInv, Size
  <2> QED
    BY <1>4, <2>1
<1>7. new = SubSeq(files[f].data, 1, handle[h].offset) \o chunk \o
              SubSeq(files[f].data, end + 1, Len(files[f].data))
  BY <1>5, <1>6, OverwrittenIsSpliced
<1>8. end \in 0..(OffsetWord - 1)
  BY <1>1, <1>5, <1>6, DosFilesAssumption
<1> HIDE DEF end, new
<1>9. Opened' = [Opened EXCEPT ![h].pos = end] /\ RefInv'
  <2> HIDE DEF f
  <2>1. handle[h].file # 0
    BY <1>1 DEF f
  <2> QED
    BY <1>1, <1>2, <1>8, <2>1, MoveRefines
<1>10. /\ Len(files') = Len(files)
       /\ \A i \in 1..Len(files) :
            /\ files'[i].name = files[i].name
            /\ files'[i].data = IF i = f THEN new ELSE files[i].data
  <2>1. files' = [files EXCEPT ![f] = [files[f] EXCEPT !.data = new]]
    BY <1>1
  <2>2. Len(files') = Len(files)
    BY <1>3, <2>1
  <2>3. \A i \in 1..Len(files) :
          files'[i] = IF i = f THEN [files[f] EXCEPT !.data = new] ELSE files[i]
    BY <1>3, <2>1
  <2> HIDE DEF f
  <2> QED
    BY <1>3, <2>2, <2>3 DEF FileRecords
<1>11. Contents' = [Contents EXCEPT ![name] = new]
  <2>1. DOMAIN Contents' = DOMAIN Contents
    BY <1>2, <1>3, <1>10, ContentsOf, ContentsAfter, SMTT(30)
  <2>2. ASSUME NEW m \in DOMAIN Contents
        PROVE  Contents'[m] = IF m = name THEN new ELSE Contents[m]
    <3>1. PICK g \in 1..Len(files) : files[g].name = m /\ IsFirst(g, files, {m}, 1)
      BY <1>3, NameHasFirst
    <3>2. IsFirst(g, files', {m}, 1)
      BY <1>2, <3>1, FirstKept DEF IInv
    <3>3. Contents'[m] = files'[g].data
      <4>1. g \in 1..Len(files') /\ files'[g].name = m
        BY <1>10, <3>1
      <4>2. Contents'[files'[g].name] = files'[g].data
        BY <1>2, <3>2, <4>1, ContentsAfter
      <4> QED
        BY <4>1, <4>2
    <3>4. Contents[m] = files[g].data
      BY <1>3, <3>1, ContentsOf
    <3>5. m = name => g = f
      <4>1. CASE m = name
        <5>1. g = First(files, {m}, 1) /\ f = First(files, {m}, 1)
          BY <1>3, <3>1, <4>1, FirstUnique
        <5> QED
          BY <5>1
      <4> QED
        BY <4>1
    <3>6. m # name => g # f
      BY <3>1
    <3> QED
      BY <1>10, <3>3, <3>4, <3>5, <3>6
  <2>3. name \in DOMAIN Contents
    BY <1>3, ContentsOf
  <2>4. Contents' = [m \in DOMAIN Contents' |-> Contents'[m]]
    BY <1>2, ContentsAfter
  <2>5. Contents = [m \in DOMAIN Contents |-> Contents[m]]
    BY DEF Contents
  <2> HIDE DEF name
  <2> QED
    BY <2>1, <2>2, <2>3, <2>4, <2>5
<1>12. Contract!Write(h, chunk)
  <2>1. Opened[h].pos = handle[h].offset /\ Opened[h].name = name
    BY <1>4, SMTT(30)
  <2>2. Contents' = [Contents EXCEPT ![Opened[h].name] =
          SubSeq(Contract!Contents(h), 1, Opened[h].pos) \o chunk \o
            SubSeq(Contract!Contents(h), Opened[h].pos + Len(chunk) + 1, Len(Contract!Contents(h)))]
    BY <1>4, <1>7, <1>11, <2>1 DEF end
  <2>3. Opened' = [Opened EXCEPT ![h].pos = Opened[h].pos + Len(chunk)]
    BY <1>9, <2>1 DEF end
  <2> QED
    BY <1>1, <2>2, <2>3 DEF Contract!Write
<1> QED
  BY <1>4, <1>9, <1>12

LEMMA NextRefines ==
  ASSUME FreshNames, FreeHandle, IInv, RefInv, Next
  PROVE  Contract!Next /\ RefInv'
<1>0. ~exited
  BY DEF Next, OpenEmm, Create, Open, MayOpen, Close, ReadWriteFails, SeekFails, Read, Write, Seek
<1>1. CASE OpenEmm
  BY <1>0, <1>1, OpenEmmRefines DEF Contract!Next
<1>2. ASSUME NEW name \in Names, Create(name) \/ Open(name)
      PROVE  Contract!Next /\ RefInv'
  <2>1. (Contract!Create(name) \/ Contract!Open(name)) /\ RefInv'
    BY <1>2, CreateRefines, OpenRefines
  <2> QED
    BY <1>0, <2>1 DEF Contract!Next
<1>3. ASSUME NEW h \in Handles, Close(h)
      PROVE  Contract!Next /\ RefInv'
  BY <1>0, <1>3, CloseRefines DEF Contract!Next
<1>4. ASSUME NEW h \in Handles, ReadWriteFails(h) \/ SeekFails(h)
      PROVE  Contract!Next /\ RefInv'
  BY <1>0, <1>4, FailRefines DEF Contract!Next
<1>5. ASSUME NEW h \in Handles, NEW size \in ReadSizes, Read(h, size)
      PROVE  Contract!Next /\ RefInv'
  <2>1. Contract!IsFile(h) /\ Contract!Read(h, size) /\ RefInv'
    BY <1>5, ReadRefines
  <2> QED
    BY <1>0, <2>1 DEF Contract!Next
<1>6. ASSUME NEW h \in Handles, NEW chunk \in Chunks, Write(h, chunk)
      PROVE  Contract!Next /\ RefInv'
  <2>1. Contract!IsFile(h) /\ Contract!Write(h, chunk) /\ RefInv'
    BY <1>6, WriteRefines
  <2> QED
    BY <1>0, <2>1 DEF Contract!Next
<1>7. ASSUME NEW h \in Handles, NEW base \in 0..2, NEW offset \in SeekWords, Seek(h, base, offset)
      PROVE  Contract!Next /\ RefInv'
  <2>1. (Contract!Fail \/ (Contract!IsFile(h) /\ Contract!Seek(h))) /\ RefInv'
    BY <1>7, SeekRefines
  <2> QED
    BY <1>0, <2>1 DEF Contract!Next
<1> QED
  BY <1>1, <1>2, <1>3, <1>4, <1>5, <1>6, <1>7 DEF Next

\* A step in which the tables and the answer stay is none of the contract.
LEMMA StutterRefines ==
  ASSUME RefInv, UNCHANGED <<files, handle, reply, exited>>
  PROVE  UNCHANGED Contract!vars /\ RefInv'
<1>1. Contents' = Contents
  BY SameContent
<1>2. Opened' = Opened
  BY DEF Opened
<1> QED
  BY <1>1, <1>2 DEF Contract!vars, RefInv

\* For a program that creates new names only and leaves a handle free, the two
\* tables implement files with names and handles with positions: no handle is
\* given out twice, a read returns what was written under the name, whatever
\* other handles did in between (dos.c, ah = 3Ch to 42h, and fs.c).
THEOREM ImplementsContract ==
  ASSUME FreshNames, FreeHandle
  PROVE  SearchSpec => ContractSpec
<1>1. SearchInit => Contract!Init /\ RefInv
  <2> SUFFICES ASSUME SearchInit PROVE Contract!Init /\ RefInv
    OBVIOUS
  <2>1. \A h \in Handles : ~handle[h].isactive /\ handle[h].file = 0
    BY DEF SearchInit, Init
  <2>2. Opened = [h \in {} |-> 0]
    <3>1. {g \in Handles : handle[g].isactive} = {}
      BY <2>1
    <3>2. Opened = [h \in {} |-> IF handle[h].isfile
                                 THEN [name |-> files[handle[h].file].name, pos |-> handle[h].offset]
                                 ELSE [name |-> Emm, pos |-> 0]]
      BY <3>1 DEF Opened
    <3> QED
      BY <3>2
  <2>3. reply = <<"bytes", <<>>>> /\ exited = FALSE
    BY DEF SearchInit, Init
  <2> QED
    BY <2>1, <2>2, <2>3 DEF Contract!Init, RefInv
<1>2. Inv /\ RefInv /\ [SearchNext]_allVars => [Contract!Next]_(Contract!vars) /\ RefInv'
  <2> SUFFICES ASSUME Inv, RefInv, [SearchNext]_allVars
               PROVE  [Contract!Next]_(Contract!vars) /\ RefInv'
    OBVIOUS
  <2>1. IInv
    BY DEF Inv
  <2>2. CASE Next
    BY <2>1, <2>2, NextRefines
  <2>3. ASSUME NEW name \in Names, Create(name)
        PROVE  [Contract!Next]_(Contract!vars) /\ RefInv'
    <3>1. Next
      BY <2>3 DEF Next
    <3> QED
      BY <2>1, <3>1, NextRefines
  <2>4. ASSUME NEW h \in Handles, Close(h)
        PROVE  [Contract!Next]_(Contract!vars) /\ RefInv'
    <3>1. Next
      BY <2>4 DEF Next
    <3> QED
      BY <2>1, <3>1, NextRefines
  <2>5. CASE UNCHANGED <<files, handle, reply, exited>>
    BY <2>5, StutterRefines
  <2>6. ASSUME UNCHANGED handleVars, SearchCall
        PROVE  UNCHANGED <<files, handle, reply, exited>>
    BY <2>6 DEF handleVars, SearchCall, FindFirst, FindNext, SetTransferArea
  <2>7. CASE UNCHANGED allVars
    BY <2>5, <2>7 DEF allVars, vars
  <2> QED
    BY <2>2, <2>3, <2>4, <2>5, <2>6, <2>7 DEF SearchNext, SearchCall
<1> QED
  BY <1>1, <1>2, Always, PTL DEF SearchSpec, ContractSpec, Contract!Spec, allVars

-----------------------------------------------------------------------------
\* Memory: the proofs about DosAlloc.

\* A guest that asks for so little that the 16-bit sum does not wrap.
NoSumWraps == \A n \in Requests : Limit + n <= Word

LEMMA ModSmall ==
  ASSUME NEW m \in Nat \ {0}, NEW x \in Nat, x < m
  PROVE  x % m = x
  OBVIOUS

LEMMA ModRange ==
  ASSUME NEW m \in Nat \ {0}, NEW x \in Nat
  PROVE  x % m \in 0..(m - 1)
  OBVIOUS

\* Where a block lies, and under which name: no block starts behind the newest,
\* and only the first is named after its prefix.
Placed(b) ==
  /\ FirstSeg <= b.first
  /\ b.first <= b.end
  /\ b.end <= nextfreeseg
  /\ b.first <= lastallocseg
  /\ \/ b.name = b.first
     \/ b.first = FirstSeg /\ b.name = FirstSeg - PspSize

Layout ==
  /\ FirstSeg <= lastallocseg
  /\ lastallocseg <= nextfreeseg
  /\ nextfreeseg < Limit
  /\ \A b \in blocks : Placed(b)

\* The part that holds whatever the guest asks for.
TypedInv ==
  /\ AllocTypeOK
  /\ ~running /\ ~stopped => blocks = {} /\ nextfreeseg = FirstSeg

MemoryInv ==
  /\ TypedInv
  /\ BlocksDisjoint
  /\ BlocksBelowLimit
  /\ running /\ ~misled => Layout

LEMMA BlockFields ==
  ASSUME AllocTypeOK, NEW b \in blocks
  PROVE  b \in Blocks /\ b.name \in Segments /\ b.first \in Segments /\ b.end \in 0..(2 * Word)
  BY DEF AllocTypeOK, Blocks

LEMMA SegmentsAreNumbers ==
  /\ Word \in Nat \ {0} /\ FirstSeg \in Nat /\ PspSize \in Nat /\ TopSeg \in Nat /\ Limit \in Nat
  /\ Segments \subseteq Nat
  /\ \A n \in Requests : n \in Nat /\ n < Word
  BY AllocAssumption DEF Segments

\* What a load leaves: one block, and the end of memory one paragraph behind it.
LEMMA LoadedBlock ==
  ASSUME TypedInv, NEW size \in ImageSizes, LoadMzExe(size)
  PROVE  \E n \in Nat :
           /\ FirstSeg + n <= TopSeg
           /\ nextfreeseg' = FirstSeg + n + 1
           /\ lastallocseg' = FirstSeg
           /\ blocks' = {[name |-> FirstSeg - PspSize, first |-> FirstSeg, end |-> FirstSeg + n]}
<1> USE AllocAssumption
<1> DEFINE n == Smaller(size, AvailableRam)
<1>1. nextfreeseg = FirstSeg
  BY DEF LoadMzExe, TypedInv
<1>2. AvailableRam = TopSeg - FirstSeg
  BY <1>1, ModSmall DEF AvailableRam
<1>3. n \in Nat /\ FirstSeg + n <= TopSeg
  BY <1>2 DEF Smaller
<1>4. NewEnd(n) = FirstSeg + n
  <2> HIDE DEF n
  <2>1. FirstSeg + n \in Nat /\ FirstSeg + n < Word
    BY <1>3
  <2> QED
    BY <1>1, <2>1, ModSmall DEF NewEnd
<1>5. nextfreeseg' = FirstSeg + n + 1
  <2>1. nextfreeseg' = (FirstSeg + n + 1) % Word
    BY <1>4 DEF LoadMzExe
  <2> HIDE DEF n
  <2>2. FirstSeg + n + 1 \in Nat /\ FirstSeg + n + 1 < Word
    BY <1>3
  <2> QED
    BY <2>1, <2>2, ModSmall
<1>6. lastallocseg' = FirstSeg
      /\ blocks' = {[name |-> FirstSeg - PspSize, first |-> FirstSeg, end |-> FirstSeg + n]}
  BY <1>1 DEF LoadMzExe
<1> QED
  BY <1>3, <1>5, <1>6

\* Types are kept by every call with every argument.
LEMMA TypedStep ==
  ASSUME TypedInv, [AllocNext]_allocVars
  PROVE  TypedInv'
<1> USE AllocAssumption, SegmentsAreNumbers
<1>1. ASSUME NEW size \in ImageSizes, LoadMzExe(size) PROVE TypedInv'
  <2>1. PICK n \in Nat :
           /\ FirstSeg + n <= TopSeg
           /\ nextfreeseg' = FirstSeg + n + 1
           /\ lastallocseg' = FirstSeg
           /\ blocks' = {[name |-> FirstSeg - PspSize, first |-> FirstSeg, end |-> FirstSeg + n]}
    BY <1>1, LoadedBlock
  <2>2. running' /\ UNCHANGED <<stopped, misled>>
    BY <1>1 DEF LoadMzExe
  <2>3. [name |-> FirstSeg - PspSize, first |-> FirstSeg, end |-> FirstSeg + n] \in Blocks
    BY <2>1 DEF Blocks, Segments
  <2>4. nextfreeseg' \in Segments /\ lastallocseg' \in Segments
    BY <2>1 DEF Segments
  <2> QED
    BY <2>1, <2>2, <2>3, <2>4 DEF TypedInv, AllocTypeOK
<1>2. ASSUME NEW n \in Requests PROVE NewEnd(n) \in Segments
  <2>1. nextfreeseg + n \in Nat
    BY DEF TypedInv, AllocTypeOK
  <2> QED
    BY <2>1, ModRange DEF NewEnd, Segments
<1>3. ASSUME NEW n \in Requests, DosAllocate(n) PROVE TypedInv'
  <2> DEFINE block == [name |-> nextfreeseg, first |-> nextfreeseg, end |-> nextfreeseg + n]
  <2>1. block \in Blocks
    BY DEF TypedInv, AllocTypeOK, Blocks, Segments
  <2>2. blocks' = blocks \cup {block} /\ lastallocseg' = nextfreeseg /\ nextfreeseg' = NewEnd(n)
        /\ UNCHANGED <<running, stopped, misled>> /\ running
    BY <1>3 DEF DosAllocate
  <2> QED
    BY <1>2, <2>1, <2>2 DEF TypedInv, AllocTypeOK
<1>4. ASSUME NEW n \in Requests, DosAllocateFails(n) PROVE TypedInv'
  BY <1>2, <1>4 DEF TypedInv, AllocTypeOK, DosAllocateFails
<1>5. ASSUME NEW b \in blocks, NEW n \in Requests, DosModify(b, n) PROVE TypedInv'
  <2> DEFINE resized == [b EXCEPT !.end = b.first + n]
  <2>1. b \in Blocks /\ b.first \in Segments /\ b.name \in Segments
    BY BlockFields DEF TypedInv
  <2>2. b.first + n \in 0..(2 * Word)
    BY <2>1 DEF Segments
  <2>3. resized \in Blocks
    BY <2>1, <2>2 DEF Blocks
  <2>4. ModifySeg(b) + n \in Nat
    <3>1. b.name + PspSize \in Nat
      BY <2>1 DEF Segments
    <3>2. ModifySeg(b) \in Nat
      BY <3>1, ModRange DEF ModifySeg
    <3> QED
      BY <3>2
  <2>5. (ModifySeg(b) + n) % Word \in Segments
    BY <2>4, ModRange DEF Segments
  <2>6. blocks' = (blocks \ {b}) \cup {resized} /\ nextfreeseg' = (ModifySeg(b) + n) % Word
        /\ UNCHANGED <<lastallocseg, running, stopped>> /\ running
        /\ misled' = (misled \/ Mistaken(b) \/ Overruns(b, n))
    BY <1>5 DEF DosModify
  <2>7. misled' \in BOOLEAN
    BY <2>6
  <2> HIDE DEF resized
  <2> QED
    BY <2>3, <2>5, <2>6, <2>7 DEF TypedInv, AllocTypeOK
<1>6. ASSUME NEW b \in blocks, DosFree(b) PROVE TypedInv'
  BY <1>6 DEF TypedInv, AllocTypeOK, DosFree
<1>7. CASE UNCHANGED allocVars
  BY <1>7 DEF allocVars, TypedInv, AllocTypeOK
<1> QED
  BY <1>1, <1>3, <1>4, <1>5, <1>6, <1>7 DEF AllocNext, DosModifyRefused

LEMMA LoadStep ==
  ASSUME MemoryInv, TypedInv', NEW size \in ImageSizes, LoadMzExe(size)
  PROVE  MemoryInv'
<1> USE AllocAssumption, SegmentsAreNumbers
<1>1. PICK n \in Nat :
         /\ FirstSeg + n <= TopSeg
         /\ nextfreeseg' = FirstSeg + n + 1
         /\ lastallocseg' = FirstSeg
         /\ blocks' = {[name |-> FirstSeg - PspSize, first |-> FirstSeg, end |-> FirstSeg + n]}
  BY LoadedBlock DEF MemoryInv
<1>2. Layout'
  BY <1>1 DEF Layout, Placed
<1>3. BlocksDisjoint' /\ BlocksBelowLimit'
  BY <1>1 DEF BlocksDisjoint, BlocksBelowLimit
<1> QED
  BY <1>2, <1>3 DEF MemoryInv

\* The end of memory does not wrap.
LEMMA EndIsSum ==
  ASSUME NoSumWraps, MemoryInv, running, ~misled, NEW n \in Requests
  PROVE  NewEnd(n) = nextfreeseg + n /\ n \in Nat /\ nextfreeseg \in Nat
<1> USE SegmentsAreNumbers
<1>1. n \in Nat /\ Limit + n <= Word
  BY DEF NoSumWraps
<1>2. nextfreeseg \in Nat /\ nextfreeseg < Limit
  BY DEF MemoryInv, TypedInv, Layout, AllocTypeOK
<1>3. nextfreeseg + n < Word /\ nextfreeseg + n \in Nat
  BY <1>1, <1>2
<1> QED
  BY <1>1, <1>2, <1>3, ModSmall DEF NewEnd

LEMMA AllocateStep ==
  ASSUME NoSumWraps, MemoryInv, TypedInv', NEW n \in Requests, DosAllocate(n)
  PROVE  MemoryInv'
<1> USE SegmentsAreNumbers
<1> DEFINE block == [name |-> nextfreeseg, first |-> nextfreeseg, end |-> nextfreeseg + n]
<1>1. running /\ misled' = misled /\ blocks' = blocks \cup {block} /\ lastallocseg' = nextfreeseg
      /\ nextfreeseg' = NewEnd(n)
  BY DEF DosAllocate
<1>2. CASE misled
  BY <1>1, <1>2 DEF MemoryInv, BlocksDisjoint, BlocksBelowLimit
<1>3. CASE ~misled
  <2>1. Layout /\ AllocTypeOK
    BY <1>1, <1>3 DEF MemoryInv, TypedInv
  <2>2. NewEnd(n) = nextfreeseg + n /\ n \in Nat /\ nextfreeseg \in Nat
    BY <1>1, <1>3, EndIsSum
  <2>3. nextfreeseg' = nextfreeseg + n /\ nextfreeseg + n < Limit
    BY <1>1, <2>2 DEF DosAllocate, OutOfMemory
  <2>4. ASSUME NEW b \in blocks
        PROVE  b.first \in Nat /\ b.end \in Nat /\ b.name \in Nat /\ Placed(b)
    <3>1. b.first \in Nat /\ b.end \in Nat /\ b.name \in Nat
      BY <2>1, BlockFields DEF Segments
    <3> QED
      BY <2>1, <3>1 DEF Layout
  <2>5. FirstSeg <= nextfreeseg
    BY <2>1, <2>2 DEF Layout, AllocTypeOK
  <2>6. ASSUME NEW b \in blocks PROVE Placed(b)'
    <3>1. b.first \in Nat /\ b.end \in Nat /\ Placed(b)
      BY <2>4
    <3>2. b.first <= nextfreeseg /\ b.end <= nextfreeseg + n
      BY <2>2, <3>1 DEF Placed
    <3> QED
      BY <1>1, <2>3, <3>1, <3>2 DEF Placed
  <2>7. ASSUME NEW c, c = block PROVE Placed(c)'
    <3>1. nextfreeseg <= nextfreeseg + n
      BY <2>2
    <3>2. c.first = nextfreeseg /\ c.name = nextfreeseg /\ c.end = nextfreeseg + n
      BY <2>7
    <3> QED
      BY <1>1, <2>2, <2>3, <2>5, <3>1, <3>2 DEF Placed
  <2>8. Layout'
    BY <1>1, <2>2, <2>3, <2>5, <2>6, <2>7 DEF Layout
  <2>9. BlocksDisjoint'
    BY <1>1, <1>3, <2>2, <2>4 DEF MemoryInv, BlocksDisjoint, Placed
  <2>10. BlocksBelowLimit'
    BY <1>1, <1>3, <2>3 DEF MemoryInv, BlocksBelowLimit
  <2> QED
    BY <2>8, <2>9, <2>10 DEF MemoryInv
<1> QED
  BY <1>2, <1>3

\* A resize that is granted, not mistaken and within the memory is one of the
\* program's own block while there is no other.
LEMMA ModifyStep ==
  ASSUME MemoryInv, TypedInv', NEW b \in blocks, NEW n \in Requests, DosModify(b, n)
  PROVE  MemoryInv'
<1> USE AllocAssumption, SegmentsAreNumbers
<1> DEFINE resized == [b EXCEPT !.end = b.first + n]
<1>1. /\ running /\ lastallocseg = ModifySeg(b)
      /\ misled' = (misled \/ Mistaken(b) \/ Overruns(b, n))
      /\ blocks' = (blocks \ {b}) \cup {resized}
      /\ nextfreeseg' = (ModifySeg(b) + n) % Word
      /\ lastallocseg' = lastallocseg
  BY DEF DosModify
<1>2. CASE misled'
  BY <1>2 DEF MemoryInv, BlocksDisjoint, BlocksBelowLimit
<1>3. CASE ~misled'
  <2>1. ~misled /\ ~Mistaken(b) /\ ~Overruns(b, n)
    BY <1>1, <1>3
  <2>2. Layout /\ AllocTypeOK
    BY <1>1, <2>1 DEF MemoryInv, TypedInv
  <2>3. \A c \in blocks : c.first \in Nat /\ Placed(c)
    BY <2>2, BlockFields DEF Layout
  <2>4. b \in Blocks /\ b.name \in Nat
    BY <2>2, BlockFields
  <2>5. b.first = FirstSeg /\ b.name = FirstSeg - PspSize
    BY <2>1, <2>3 DEF Placed, Mistaken
  <2>6. ModifySeg(b) = FirstSeg
    <3>1. b.name + PspSize = FirstSeg
      BY <2>5
    <3>2. FirstSeg < Word
      OBVIOUS
    <3> QED
      BY <3>1, <3>2, ModSmall DEF ModifySeg
  <2>7. ASSUME NEW c \in blocks \ {b} PROVE FALSE
    <3>1. c.first # FirstSeg
      BY <2>1, <2>5 DEF Mistaken
    <3>2. FirstSeg <= c.first /\ c.first <= FirstSeg
      BY <1>1, <2>3, <2>6 DEF Placed
    <3> QED
      BY <2>3, <3>1, <3>2
  <2>8. FirstSeg + n < Limit
    BY <2>1, <2>6 DEF Overruns
  <2>9. nextfreeseg' = FirstSeg + n /\ lastallocseg' = FirstSeg
    <3>1. FirstSeg + n \in Nat /\ FirstSeg + n < Word
      BY <2>8
    <3> QED
      BY <1>1, <2>6, <3>1, ModSmall
  <2>10. resized.first = FirstSeg /\ resized.name = FirstSeg - PspSize /\ resized.end = FirstSeg + n
    BY <2>4, <2>5 DEF Blocks
  <2> HIDE DEF resized
  <2>11. blocks' = {resized}
    BY <1>1, <2>7
  <2>12. Layout'
    BY <2>8, <2>9, <2>10, <2>11 DEF Layout, Placed
  <2>13. BlocksDisjoint' /\ BlocksBelowLimit'
    BY <2>8, <2>10, <2>11 DEF BlocksDisjoint, BlocksBelowLimit
  <2> QED
    BY <2>12, <2>13 DEF MemoryInv
<1> QED
  BY <1>2, <1>3

LEMMA FreeStep ==
  ASSUME MemoryInv, TypedInv', NEW b \in blocks, DosFree(b)
  PROVE  MemoryInv'
<1>1. blocks' \subseteq blocks /\ UNCHANGED <<nextfreeseg, lastallocseg, running, stopped, misled>>
  BY DEF DosFree
<1>2. running' /\ ~misled' => Layout'
  BY <1>1 DEF MemoryInv, Layout, Placed
<1> QED
  BY <1>1, <1>2 DEF MemoryInv, BlocksDisjoint, BlocksBelowLimit

LEMMA MemoryStep ==
  ASSUME NoSumWraps, MemoryInv, [AllocNext]_allocVars
  PROVE  MemoryInv'
<1>0. TypedInv'
  BY TypedStep DEF MemoryInv
<1>1. ASSUME NEW size \in ImageSizes, LoadMzExe(size) PROVE MemoryInv'
  BY <1>0, <1>1, LoadStep
<1>2. ASSUME NEW n \in Requests, DosAllocate(n) PROVE MemoryInv'
  BY <1>0, <1>2, AllocateStep
<1>3. ASSUME NEW n \in Requests, DosAllocateFails(n) PROVE MemoryInv'
  BY <1>0, <1>3 DEF MemoryInv, DosAllocateFails, BlocksDisjoint, BlocksBelowLimit
<1>4. ASSUME NEW b \in blocks, NEW n \in Requests, DosModify(b, n) PROVE MemoryInv'
  BY <1>0, <1>4, ModifyStep
<1>5. ASSUME NEW b \in blocks, DosFree(b) PROVE MemoryInv'
  BY <1>0, <1>5, FreeStep
<1>6. CASE UNCHANGED allocVars
  BY <1>0, <1>6 DEF allocVars, MemoryInv, BlocksDisjoint, BlocksBelowLimit, Layout, Placed
<1> QED
  BY <1>1, <1>2, <1>3, <1>4, <1>5, <1>6 DEF AllocNext, DosModifyRefused

LEMMA InitTyped == AllocInit => TypedInv
<1>1. 0 \in Segments /\ FirstSeg \in Segments
  BY AllocAssumption DEF Segments
<1> QED
  BY <1>1 DEF AllocInit, TypedInv, AllocTypeOK

LEMMA MemoryInvariant ==
  ASSUME NoSumWraps
  PROVE  AllocSpec => []MemoryInv
<1>1. AllocInit => MemoryInv
  BY InitTyped DEF AllocInit, MemoryInv, BlocksDisjoint, BlocksBelowLimit
<1>2. MemoryInv /\ [AllocNext]_allocVars => MemoryInv'
  BY MemoryStep
<1> QED
  BY <1>1, <1>2, PTL DEF AllocSpec

\* Segments stay 16-bit words and blocks stay well-formed, whatever a guest asks
\* for: sums that wrap and mistaken resizes included.
THEOREM BlocksAlwaysTyped == AllocSpec => []AllocTypeOK
<1>1. TypedInv /\ [AllocNext]_allocVars => TypedInv'
  BY TypedStep
<1>2. TypedInv => AllocTypeOK
  BY DEF TypedInv
<1> QED
  BY <1>1, <1>2, InitTyped, PTL DEF AllocSpec

\* Two blocks of a program never overlap, whatever it allocates, frees and
\* resizes, in any order and any size the 16-bit sum does not wrap for, until a
\* resize is granted for a block other than the newest (Mistaken) or past the
\* end of memory (Overruns).
THEOREM BlocksAlwaysDisjoint ==
  ASSUME NoSumWraps
  PROVE  AllocSpec => []BlocksDisjoint
<1>1. MemoryInv => BlocksDisjoint
  BY DEF MemoryInv
<1> QED
  BY <1>1, MemoryInvariant, PTL

\* Until then no block reaches video memory.
THEOREM BlocksAlwaysBelowLimit ==
  ASSUME NoSumWraps
  PROVE  AllocSpec => []BlocksBelowLimit
<1>1. MemoryInv => BlocksBelowLimit
  BY DEF MemoryInv
<1> QED
  BY <1>1, MemoryInvariant, PTL

\* Until then all that is still to be handed out lies behind all that is in use:
\* blocks of any size may lie under the newest, and the two kinds of resize
\* named are the only calls that move the end into a block.
THEOREM EndAlwaysCoversBlocks ==
  ASSUME NoSumWraps
  PROVE  AllocSpec => []EndCoversBlocks
<1>1. MemoryInv => EndCoversBlocks
  BY DEF MemoryInv, Layout, Placed, EndCoversBlocks
<1> QED
  BY <1>1, MemoryInvariant, PTL

=============================================================================
