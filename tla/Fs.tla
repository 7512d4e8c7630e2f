--------------------------------- MODULE Fs ---------------------------------
(***************************************************************************)
(* The file table of src/src/fs/fs.c.  Files are found by name, the first  *)
(* of that name wins; creating appends an entry, also when the name is     *)
(* taken; a file never shrinks and never goes away (INT 21h 41h, delete,   *)
(* answers success and does nothing).  Names are lower case in the table   *)
(* and in a search, so a name is one member of Names.                      *)
(***************************************************************************)
EXTENDS Integers, Sequences

CONSTANTS
  Names,
  Bytes,             \* what a byte of a file can be
  Mounted,           \* the files of the disk image: FinishMountStorage
  MaxFiles           \* bound: 1024 in the code, which CreateFile does not check

FileRecords == [name : Names, data : Seq(Bytes)]

ASSUME FsAssumption ==
  /\ Mounted \in Seq(FileRecords)
  /\ MaxFiles \in Nat

VARIABLE files       \* files[0 .. nfiles-1]

FsTypeOK == files \in Seq(FileRecords)

FsInit == files = Mounted

CreateFile(name) ==
  /\ Len(files) < MaxFiles
  /\ files' = Append(files, [name |-> name, data |-> <<>>])

\* FindFile: the first entry from index on whose name the pattern matches, 0 if
\* there is none.  A pattern is the set of names it matches: one name, or all
\* names with the ending behind a star.
Bug_FindFile(pattern, index) ==
  LET found == {i \in index..Len(files) : files[i].name \in pattern}
  IN  IF found = {} THEN 0 ELSE CHOOSE i \in found : \A j \in found : i >= j

FindFile(pattern, index) ==
  LET found == {i \in index..Len(files) : files[i].name \in pattern}
  IN  IF found = {} THEN 0 ELSE CHOOSE i \in found : \A j \in found : i <= j

\* WriteFile: a longer copy when the write runs over the end, then the bytes.
Overwritten(data, chunk, offset) ==
  LET newsize == offset + Len(chunk)
  IN  [i \in 1..(IF Len(data) < newsize THEN newsize ELSE Len(data)) |->
         IF i \in (offset + 1)..newsize THEN chunk[i - offset] ELSE data[i]]

WriteFile(file, chunk, offset) ==
  files' = [files EXCEPT ![file].data = Overwritten(@, chunk, offset)]

=============================================================================
