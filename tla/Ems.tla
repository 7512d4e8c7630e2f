-------------------------------- MODULE Ems --------------------------------
(***************************************************************************)
(* The expanded memory manager, INT 67h, src/src/devices/ems.c.  A window  *)
(* of the page frame is not a view of its logical page but a copy: mapping *)
(* saves the old page of the window and copies the new one in.  Contents   *)
(* of a 16 KB page are one member of Data.                                 *)
(*                                                                         *)
(* The guest calls are the legal ones: a window 0..3, a handle that was    *)
(* given out, a logical page the handle has.  The code checks none of      *)
(* these.                                                                  *)
(***************************************************************************)
EXTENDS Integers

CONSTANTS
  Windows,           \* 0..3, the 16 KB windows at E0000h
  Data,              \* what a page can hold
  NoPage,            \* a window that is not mapped: -1 in the code
  PageCounts,        \* how many pages a guest asks for
  MaxHandle,         \* bound: 255, the map has 256 entries
  Aliases            \* the guest maps one logical page into two windows, which
                     \* then show copies of it

ASSUME EmsAssumption ==
  /\ NoPage \notin Nat \X Nat
  /\ NoPage \notin Data
  /\ PageCounts \subseteq Nat
  /\ MaxHandle \in Nat
  /\ Aliases \in BOOLEAN

VARIABLES
  map,               \* the pages of the handles: <<handle, page>> -> data
  nexthandle,
  nfreepages,        \* an int, decreased without a check
  current,           \* currenthandle and currentpage of each window
  frame,             \* the memory of each window
  call               \* history: the last step of the guest

vars == <<map, nexthandle, nfreepages, current, frame, call>>

PagesOf(handle, n) == {handle} \X (0..(n - 1))

TypeOK ==
  /\ nexthandle \in 1..(MaxHandle + 1)
  /\ DOMAIN map \subseteq (1..(nexthandle - 1)) \X Nat
  /\ map \in [DOMAIN map -> Data]
  /\ nfreepages \in Int
  /\ current \in [Windows -> DOMAIN map \cup {NoPage}]
  /\ frame \in [Windows -> Data]
  /\ call \in {"none", "allocate", "map", "write"}

EMSInit ==
  /\ map = [page \in {} |-> NoPage]
  /\ nexthandle = 1
  /\ nfreepages = 948
  /\ current = [w \in Windows |-> NoPage]
  /\ frame \in [Windows -> Data]
  /\ call = "none"

Bug_AllocatePages(n) ==
  /\ nexthandle <= MaxHandle
  /\ \E contents \in [PagesOf(nexthandle, n) -> Data] :
       map' = [page \in DOMAIN map \cup PagesOf(nexthandle, n) |->
                 IF page \in DOMAIN map THEN map[page] ELSE contents[page]]
  /\ nfreepages' = nfreepages - n
  /\ call' = "allocate"
  /\ UNCHANGED <<nexthandle, current, frame>>

\* ah = 43h.  The pages come from malloc: their contents are arbitrary.
AllocatePages(n) ==
  /\ nexthandle <= MaxHandle
  /\ \E contents \in [PagesOf(nexthandle, n) -> Data] :
       map' = [page \in DOMAIN map \cup PagesOf(nexthandle, n) |->
                 IF page \in DOMAIN map THEN map[page] ELSE contents[page]]
  /\ nfreepages' = nfreepages - n
  /\ nexthandle' = nexthandle + 1
  /\ call' = "allocate"
  /\ UNCHANGED <<current, frame>>

\* ah = 44h: save the old page of the window, then load the new one (which may
\* be the page just saved).
Saved(w) ==
  IF current[w] = NoPage THEN map ELSE [map EXCEPT ![current[w]] = frame[w]]

\* A legal guest does not have one page in two windows, unless Aliases.
MayMap(w, page) == Aliases \/ \A v \in Windows \ {w} : current[v] # page

Bug_MapPage(w, page) ==
  /\ page \in DOMAIN map
  /\ MayMap(w, page)
  /\ map' = Saved(w)
  /\ current' = [current EXCEPT ![w] = page]
  /\ frame' = [frame EXCEPT ![w] = map[page]]
  /\ call' = "map"
  /\ UNCHANGED <<nexthandle, nfreepages>>

MapPage(w, page) ==
  /\ page \in DOMAIN map
  /\ MayMap(w, page)
  /\ map' = Saved(w)
  /\ current' = [current EXCEPT ![w] = page]
  /\ frame' = [frame EXCEPT ![w] = Saved(w)[page]]
  /\ call' = "map"
  /\ UNCHANGED <<nexthandle, nfreepages>>

\* Any store of the guest into the page frame; Write8 knows nothing of pages.
GuestWrite(w, d) ==
  /\ frame' = [frame EXCEPT ![w] = d]
  /\ call' = "write"
  /\ UNCHANGED <<map, nexthandle, nfreepages, current>>

Next ==
  \/ \E n \in PageCounts : AllocatePages(n)
  \/ \E w \in Windows : \E page \in DOMAIN map : MapPage(w, page)
  \/ \E w \in Windows, d \in Data : GuestWrite(w, d)

Spec == EMSInit /\ [][Next]_vars

-----------------------------------------------------------------------------
\* What a logical page holds: the copy in its window is newer than the saved one.
Contents ==
  [page \in DOMAIN map |->
     IF \E w \in Windows : current[w] = page
     THEN frame[CHOOSE w \in Windows : current[w] = page]
     ELSE map[page]]

\* The copying implements windows that are views, for a guest that has no page
\* in two windows: no write is lost, whatever is mapped and remapped.
Contract == INSTANCE EmsContract WITH
  store <- Contents,
  view <- current,
  plain <- [w \in Windows |-> IF current[w] = NoPage THEN frame[w] ELSE NoPage]

ContractSpec == Contract!Spec

=============================================================================
