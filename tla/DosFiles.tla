------------------------------ MODULE DosFiles ------------------------------
(***************************************************************************)
(* The handle calls of INT 21h, src/src/dos/dos.c: create, open, close,    *)
(* read, write and seek on the table of handles, over the file table of    *)
(* fs.c.  A call runs to its end before the program goes on.  The standard *)
(* handles 0..2 are left out.                                              *)
(***************************************************************************)
EXTENDS Fs

CONSTANTS
  Emm,               \* the name EMMXXXX0, a device
  LastHandle,        \* 255; handles are given out from 5 on
  ReadSizes,         \* what a program reads at a time
  Chunks,            \* what a program writes
  SeekWords,         \* the 32-bit offsets a program seeks by
  OffsetWord,        \* 2^32
  MaxSize,           \* bound: the size of a file
  FreshNames,        \* the program creates only files that do not exist
  FreeHandle         \* the program never has all handles open

FirstHandle == 5
Handles == FirstHandle..LastHandle

ASSUME DosFilesAssumption ==
  /\ Emm \notin Names
  /\ LastHandle \in Nat /\ FirstHandle <= LastHandle
  /\ ReadSizes \subseteq Nat
  /\ Chunks \subseteq Seq(Bytes)
  /\ OffsetWord \in Nat \ {0}
  /\ SeekWords \subseteq 0..(OffsetWord - 1)
  /\ MaxSize \in 0..(OffsetWord - 1)
  /\ \A i \in 1..Len(Mounted) : Len(Mounted[i].data) <= MaxSize
  /\ {FreshNames, FreeHandle} \subseteq BOOLEAN

VARIABLES
  handle,            \* [isactive, isfile, file, offset]; file 0 is NULL
  reply,             \* the last answer: of a read the bytes in the program's
                     \* buffer, of a seek the position in dx:ax
  exited             \* exit_or_restart(1)

vars == <<files, handle, reply, exited>>

TypeOK ==
  /\ FsTypeOK
  /\ handle \in [Handles -> [isactive : BOOLEAN, isfile : BOOLEAN,
                             file : 0..Len(files), offset : 0..(OffsetWord - 1)]]
  /\ \A h \in Handles :
       IF handle[h].isactive THEN handle[h].isfile => handle[h].file # 0
                             ELSE handle[h].file = 0
  /\ \/ reply[1] = "bytes" /\ reply[2] \in Seq(Bytes)
     \/ reply[1] = "position" /\ reply[2] \in 0..(OffsetWord - 1)
  /\ exited \in BOOLEAN

Init ==
  /\ FsInit
  /\ handle = [h \in Handles |->
                 [isactive |-> FALSE, isfile |-> FALSE, file |-> 0, offset |-> 0]]
  /\ reply = <<"bytes", <<>>>>
  /\ exited = FALSE

-----------------------------------------------------------------------------
\* The scan for a handle looks at all but the last one, and takes that one when
\* it finds nothing, free or not.
Inactive == {h \in FirstHandle..(LastHandle - 1) : ~handle[h].isactive}
nextfreehandle ==
  IF Inactive = {} THEN LastHandle ELSE CHOOSE h \in Inactive : \A g \in Inactive : h <= g

MayOpen == ~exited /\ (FreeHandle => \E h \in Handles : ~handle[h].isactive)

FileHandle(file) == [isactive |-> TRUE, isfile |-> TRUE, file |-> file, offset |-> 0]

\* ah = 3Ch.
Create(name) ==
  /\ MayOpen
  /\ FreshNames => FindFile({name}, 1) = 0
  /\ CreateFile(name)
  /\ handle' = [handle EXCEPT ![nextfreehandle] = FileHandle(Len(files'))]
  /\ UNCHANGED <<reply, exited>>

\* ah = 3Dh.  A file that is not found sets the carry flag and changes nothing.
Open(name) ==
  /\ MayOpen
  /\ FindFile({name}, 1) # 0
  /\ handle' = [handle EXCEPT ![nextfreehandle] = FileHandle(FindFile({name}, 1))]
  /\ UNCHANGED <<files, reply, exited>>

\* The device has no file; file and offset of the entry stay what they were.
OpenEmm ==
  /\ MayOpen
  /\ handle' = [handle EXCEPT ![nextfreehandle].isactive = TRUE,
                              ![nextfreehandle].isfile = FALSE]
  /\ UNCHANGED <<files, reply, exited>>

\* ah = 3Eh: any handle, in use or not.
Bug_Close(h) ==
  /\ ~exited
  /\ handle' = [handle EXCEPT ![h].file = 0]
  /\ UNCHANGED <<files, reply, exited>>

Close(h) ==
  /\ ~exited
  /\ handle' = [handle EXCEPT ![h].isactive = FALSE, ![h].file = 0]
  /\ UNCHANGED <<files, reply, exited>>

Size(h) == Len(files[handle[h].file].data)

\* ah = 3Fh.  Size(h) - offset is an unsigned difference.
ReadLength(h, size) ==
  IF size + handle[h].offset >= Size(h)
  THEN (Size(h) - handle[h].offset) % OffsetWord
  ELSE size

Read(h, size) ==
  /\ ~exited
  /\ handle[h].isactive /\ handle[h].isfile
  /\ LET end == handle[h].offset + ReadLength(h, size)
     IN  /\ reply' = <<"bytes", SubSeq(files[handle[h].file].data, handle[h].offset + 1, end)>>
         /\ handle' = [handle EXCEPT ![h].offset = end]
  /\ UNCHANGED <<files, exited>>

\* ah = 40h.
Bug_Write(h, chunk) ==
  /\ ~exited
  /\ handle[h].isactive /\ handle[h].isfile
  /\ handle[h].offset + Len(chunk) <= MaxSize
  /\ WriteFile(handle[h].file, chunk, handle[h].offset)
  /\ UNCHANGED <<handle, reply, exited>>

Write(h, chunk) ==
  /\ ~exited
  /\ handle[h].isactive /\ handle[h].isfile
  /\ handle[h].offset + Len(chunk) <= MaxSize
  /\ WriteFile(handle[h].file, chunk, handle[h].offset)
  /\ handle' = [handle EXCEPT ![h].offset = @ + Len(chunk)]
  /\ UNCHANGED <<reply, exited>>

\* Reading or writing a handle that is not in use, or is a device.
ReadWriteFails(h) ==
  /\ ~exited
  /\ ~handle[h].isactive \/ ~handle[h].isfile
  /\ exited' = TRUE
  /\ UNCHANGED <<files, handle, reply>>

\* ah = 42h: from the start, the position or the end, modulo 2^32; only then is
\* the new position compared with the size.  isactive is not looked at.
Target(h, base, offset) ==
  (CASE base = 0 -> offset
     [] base = 1 -> handle[h].offset + offset
     [] base = 2 -> Size(h) + offset) % OffsetWord

Bug_Seek(h, base, offset) ==
  /\ ~exited
  /\ handle[h].file # 0
  /\ handle' = [handle EXCEPT ![h].offset = Target(h, base, offset)]
  /\ exited' = FALSE
  /\ reply' = <<"position", Target(h, base, offset)>>
  /\ UNCHANGED files

Seek(h, base, offset) ==
  /\ ~exited
  /\ handle[h].file # 0
  /\ handle' = [handle EXCEPT ![h].offset = Target(h, base, offset)]
  /\ exited' = (Target(h, base, offset) > Size(h))
  /\ reply' = IF exited' THEN reply ELSE <<"position", Target(h, base, offset)>>
  /\ UNCHANGED files

SeekFails(h) ==
  /\ ~exited
  /\ handle[h].file = 0
  /\ exited' = TRUE
  /\ UNCHANGED <<files, handle, reply>>

Next ==
  \/ OpenEmm
  \/ \E name \in Names : Create(name) \/ Open(name)
  \/ \E h \in Handles :
       \/ Close(h) \/ ReadWriteFails(h) \/ SeekFails(h)
       \/ \E size \in ReadSizes : Read(h, size)
       \/ \E chunk \in Chunks : Write(h, chunk)
       \/ \E base \in 0..2, offset \in SeekWords : Seek(h, base, offset)

Spec == Init /\ [][Next]_vars

-----------------------------------------------------------------------------
\* A handle of a running program never points behind its file, whatever other
\* handles write to it: the unsigned difference of the read cannot wrap and
\* the copy into the program's memory is as short as the rest of the file.
OffsetInRange ==
  ~exited => \A h \in Handles :
    handle[h].isactive /\ handle[h].isfile => handle[h].offset <= Size(h)

\* What the tables stand for: contents under names, and for each handle in use a
\* name with a position.
Contents ==
  [name \in {files[i].name : i \in 1..Len(files)} |-> files[FindFile({name}, 1)].data]
Opened ==
  [h \in {g \in Handles : handle[g].isactive} |->
     IF handle[h].isfile
     THEN [name |-> files[handle[h].file].name, pos |-> handle[h].offset]
     ELSE [name |-> Emm, pos |-> 0]]

\* The table of files and the table of handles implement named contents and
\* positions, for a program that creates only new names and leaves a handle
\* free: no handle is given out twice, every read returns what was written.
Contract == INSTANCE DosFileContract WITH
  Device <- Emm, content <- Contents, open <- Opened, ended <- exited

ContractSpec == Contract!Spec

=============================================================================
