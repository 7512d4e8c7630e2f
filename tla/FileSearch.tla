----------------------------- MODULE FileSearch -----------------------------
(***************************************************************************)
(* Find first and find next, INT 21h 4Eh and 4Fh (src/src/dos/dos.c), over *)
(* the file table of fs.c.  All that is kept between two calls is a 16-bit *)
(* index in the disk transfer area, memory of the program, which moves the *)
(* area with call 1Ah; the pattern is read again from ds:dx each time.  A  *)
(* program has a listing in each of its areas, goes from one to the other, *)
(* breaks off and starts again, and creates and closes files meanwhile.    *)
(*                                                                         *)
(* A guest either works with handles, as DosFiles says, or lists files.    *)
(***************************************************************************)
EXTENDS DosFiles

CONSTANTS
  Patterns,          \* the sets of names the patterns of a program match
  Areas              \* the transfer areas of a program

ASSUME SearchAssumption == Patterns \subseteq SUBSET Names /\ Areas # {}

DefaultArea == CHOOSE a \in Areas : TRUE   \* the end of the program's prefix

VARIABLES
  guest,             \* chosen once: "handles" or "listing"
  dta,               \* dtaseg:dtaofs, the area in use
  dtaIndex,          \* of each area, the word at offset 6
  found,             \* the file the program sees in an area, 0: none
  pattern,           \* the program's: what it lists there, {} before the start
  more,              \* the last call for an area found a file
  listed             \* history: the files found since find first

searchVars == <<dta, dtaIndex, found, pattern, more, listed>>
handleVars == <<handle, reply, exited>>

TypesOK ==
  /\ TypeOK
  /\ guest \in {"handles", "listing"}
  /\ dta \in Areas
  /\ dtaIndex \in [Areas -> Nat]
  /\ found \in [Areas -> 0..Len(files)]
  /\ pattern \in [Areas -> SUBSET Names]
  /\ more \in [Areas -> BOOLEAN]
  /\ listed \in [Areas -> Seq(1..Len(files))]

SearchInit ==
  /\ Init
  /\ guest \in {"handles", "listing"}
  /\ dta = DefaultArea
  /\ dtaIndex = [a \in Areas |-> 1]
  /\ found = [a \in Areas |-> 0]
  /\ pattern = [a \in Areas |-> {}]
  /\ more = [a \in Areas |-> FALSE]
  /\ listed = [a \in Areas |-> <<>>]

Bug_Report(index) ==
  /\ dtaIndex' = [a \in Areas |-> index + 1]
  /\ found' = [found EXCEPT ![dta] = index]
  /\ more' = [more EXCEPT ![dta] = TRUE]

\* A file is found: its index + 1 and its entry go to the transfer area.
Report(index) ==
  /\ dtaIndex' = [dtaIndex EXCEPT ![dta] = index + 1]
  /\ found' = [found EXCEPT ![dta] = index]
  /\ more' = [more EXCEPT ![dta] = TRUE]

\* Nothing is found: the carry flag, the transfer area stays.
ReportNone ==
  /\ more' = [more EXCEPT ![dta] = FALSE]
  /\ UNCHANGED <<dtaIndex, found>>

FindFirst(p) ==
  LET index == FindFile(p, 1)
  IN  /\ pattern' = [pattern EXCEPT ![dta] = p]
      /\ IF index # 0
         THEN Report(index) /\ listed' = [listed EXCEPT ![dta] = <<index>>]
         ELSE ReportNone /\ listed' = [listed EXCEPT ![dta] = <<>>]
      /\ UNCHANGED <<files, dta>>

\* A program goes on while files are found.
FindNext ==
  LET index == FindFile(pattern[dta], dtaIndex[dta])
  IN  /\ more[dta]
      /\ IF index # 0
         THEN Report(index) /\ listed' = [listed EXCEPT ![dta] = Append(@, index)]
         ELSE ReportNone /\ UNCHANGED listed
      /\ UNCHANGED <<files, dta, pattern>>

\* Call 1Ah; 2Fh answers dta and changes nothing.
SetTransferArea(a) ==
  /\ dta' = a
  /\ UNCHANGED <<files, dtaIndex, found, pattern, more, listed>>

\* A guest that lists files creates and closes others meanwhile.
SearchNext ==
  \/ /\ guest = "handles"
     /\ Next
     /\ UNCHANGED <<guest, searchVars>>
  \/ /\ guest = "listing"
     /\ \/ \E p \in Patterns : FindFirst(p)
        \/ FindNext
        \/ \E a \in Areas : SetTransferArea(a)
     /\ UNCHANGED <<guest, handleVars>>
  \/ /\ guest = "listing"
     /\ \/ \E name \in Names : Create(name)
        \/ \E h \in Handles : handle[h].isactive /\ Close(h)
     /\ UNCHANGED <<guest, searchVars>>

SearchSpec == SearchInit /\ [][SearchNext]_<<vars, guest, searchVars>>

\* What a program lists in one of its areas is what matches, in the order of the
\* table, each file once, without a gap up to the file found last, whatever it
\* does with its other areas meanwhile.
ListsEachMatchOnce ==
  \A a \in Areas : pattern[a] # {} =>
    /\ \A i, j \in 1..Len(listed[a]) : i < j => listed[a][i] < listed[a][j]
    /\ {listed[a][i] : i \in 1..Len(listed[a])} =
         {f \in 1..Len(files) : /\ files[f].name \in pattern[a]
                                /\ listed[a] # <<>>
                                /\ f <= listed[a][Len(listed[a])]}

\* When the call says that there are no more files, every file that matches has
\* been listed, those included that were created during the listing.
EndsAfterTheLast ==
  [][\A a \in Areas : pattern'[a] = pattern[a] /\ more[a] /\ ~more'[a] =>
       \A f \in 1..Len(files) :
         files[f].name \in pattern[a] => \E i \in 1..Len(listed'[a]) : listed'[a][i] = f]_more

=============================================================================
