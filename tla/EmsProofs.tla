----------------------------- MODULE EmsProofs -----------------------------
(***************************************************************************)
(* Proofs about Ems, for every number of windows, pages and handles: type  *)
(* correctness, and that the copying page frame implements the windows of  *)
(* EmsContract as long as no page is in two windows.                       *)
(***************************************************************************)
EXTENDS Ems, TLAPS

\* The strengthening the refinement rests on: a page is in one window at most.
Exclusive ==
  \A v, w \in Windows : current[v] = current[w] /\ current[v] # NoPage => v = w

IInv == TypeOK /\ (~Aliases => Exclusive)

LEMMA PagesOfNew ==
  ASSUME NEW h \in Nat, NEW n \in Nat
  PROVE  /\ PagesOf(h, n) \subseteq {h} \X Nat
         /\ \A page \in PagesOf(h, n) : page[1] = h
  BY DEF PagesOf

LEMMA TypeInit == EMSInit => TypeOK
<1> SUFFICES ASSUME EMSInit PROVE TypeOK
  OBVIOUS
<1> USE EmsAssumption DEF EMSInit
<1>1. DOMAIN map = {}
  OBVIOUS
<1>2. map \in [DOMAIN map -> Data]
  OBVIOUS
<1>3. nexthandle \in 1..(MaxHandle + 1)
  OBVIOUS
<1>4. current \in [Windows -> DOMAIN map \cup {NoPage}]
  OBVIOUS
<1> QED
  BY <1>1, <1>2, <1>3, <1>4 DEF TypeOK

LEMMA SavedTyped ==
  ASSUME TypeOK, NEW w \in Windows
  PROVE  Saved(w) \in [DOMAIN map -> Data]
<1>1. CASE current[w] = NoPage
  BY <1>1 DEF Saved, TypeOK
<1>2. CASE current[w] # NoPage
  <2>1. current[w] \in DOMAIN map /\ frame[w] \in Data
    BY <1>2 DEF TypeOK
  <2> QED
    BY <1>2, <2>1 DEF Saved, TypeOK
<1> QED
  BY <1>1, <1>2

LEMMA TypeAllocate ==
  ASSUME TypeOK, NEW n \in PageCounts, AllocatePages(n)
  PROVE  /\ TypeOK'
         /\ DOMAIN map' = DOMAIN map \cup PagesOf(nexthandle, n)
         /\ \A page \in DOMAIN map : map'[page] = map[page]
<1> USE EmsAssumption
<1> DEFINE new == PagesOf(nexthandle, n)
<1>1. PICK contents \in [new -> Data] :
         map' = [page \in DOMAIN map \cup new |->
                   IF page \in DOMAIN map THEN map[page] ELSE contents[page]]
  BY DEF AllocatePages
<1>2. DOMAIN map' = DOMAIN map \cup new
  BY <1>1
<1>3. \A page \in DOMAIN map : map'[page] = map[page]
  BY <1>1
<1>4. map' \in [DOMAIN map' -> Data]
  <2>1. ASSUME NEW page \in DOMAIN map' PROVE map'[page] \in Data
    BY <1>1, <1>2, <2>1 DEF TypeOK
  <2>2. map' = [page \in DOMAIN map' |-> map'[page]]
    BY <1>1
  <2> QED
    BY <2>1, <2>2
<1>5. nexthandle' \in 1..(MaxHandle + 1) /\ nexthandle' = nexthandle + 1
  BY DEF AllocatePages, TypeOK
<1>6. DOMAIN map' \subseteq (1..(nexthandle' - 1)) \X Nat
  <2>1. new \subseteq (1..nexthandle) \X Nat
    <3>1. nexthandle \in Nat /\ n \in Nat /\ nexthandle \in 1..nexthandle
      BY DEF TypeOK
    <3> QED
      BY <3>1, PagesOfNew
  <2>2. DOMAIN map \subseteq (1..nexthandle) \X Nat
    <3>1. 1..(nexthandle - 1) \subseteq 1..nexthandle
      BY DEF TypeOK
    <3> QED
      BY <3>1 DEF TypeOK
  <2>3. nexthandle' - 1 = nexthandle
    BY <1>5 DEF TypeOK
  <2> QED
    BY <1>2, <2>1, <2>2, <2>3
<1>7. nfreepages' \in Int
  BY DEF AllocatePages, TypeOK
<1>8. /\ current' \in [Windows -> DOMAIN map' \cup {NoPage}]
      /\ frame' \in [Windows -> Data]
      /\ call' = "allocate"
  BY <1>2 DEF AllocatePages, TypeOK
<1> QED
  BY <1>2, <1>3, <1>4, <1>5, <1>6, <1>7, <1>8 DEF TypeOK

LEMMA TypeMap ==
  ASSUME TypeOK, NEW w \in Windows, NEW page \in DOMAIN map, MapPage(w, page)
  PROVE  TypeOK'
<1>1. map' \in [DOMAIN map -> Data]
  BY SavedTyped DEF MapPage
<1>2. DOMAIN map' = DOMAIN map
  BY <1>1
<1>3. frame' \in [Windows -> Data]
  BY SavedTyped DEF MapPage, TypeOK
<1>4. current' \in [Windows -> DOMAIN map \cup {NoPage}]
  BY DEF MapPage, TypeOK
<1> QED
  BY <1>1, <1>2, <1>3, <1>4 DEF MapPage, TypeOK

LEMMA TypeNext ==
  ASSUME TypeOK, [Next]_vars
  PROVE  TypeOK'
<1>1. ASSUME NEW n \in PageCounts, AllocatePages(n) PROVE TypeOK'
  BY <1>1, TypeAllocate
<1>2. ASSUME NEW w \in Windows, NEW page \in DOMAIN map, MapPage(w, page) PROVE TypeOK'
  BY <1>2, TypeMap
<1>3. ASSUME NEW w \in Windows, NEW d \in Data, GuestWrite(w, d) PROVE TypeOK'
  BY <1>3 DEF GuestWrite, TypeOK
<1>4. CASE UNCHANGED vars
  BY <1>4 DEF TypeOK, vars
<1> QED
  BY <1>1, <1>2, <1>3, <1>4 DEF Next

LEMMA ExclusiveNext ==
  ASSUME TypeOK, ~Aliases, Exclusive, [Next]_vars
  PROVE  Exclusive'
<1>1. ASSUME NEW n \in PageCounts, AllocatePages(n) PROVE Exclusive'
  BY <1>1 DEF AllocatePages, Exclusive
<1>2. ASSUME NEW w \in Windows, NEW page \in DOMAIN map, MapPage(w, page) PROVE Exclusive'
  <2>1. \A v \in Windows \ {w} : current[v] # page
    BY <1>2 DEF MapPage, MayMap
  <2>2. current' = [current EXCEPT ![w] = page]
    BY <1>2 DEF MapPage
  <2> QED
    BY <2>1, <2>2 DEF Exclusive, TypeOK
<1>3. ASSUME NEW w \in Windows, NEW d \in Data, GuestWrite(w, d) PROVE Exclusive'
  BY <1>3 DEF GuestWrite, Exclusive
<1>4. CASE UNCHANGED vars
  BY <1>4 DEF Exclusive, vars
<1> QED
  BY <1>1, <1>2, <1>3, <1>4 DEF Next

\* The tables of the expanded memory manager are well formed in every reachable
\* state: a window is unmapped or shows a page some handle has.
THEOREM TypeCorrect == Spec => []TypeOK
<1>1. EMSInit => TypeOK
  BY TypeInit
<1>2. TypeOK /\ [Next]_vars => TypeOK'
  BY TypeNext
<1> QED
  BY <1>1, <1>2, PTL DEF Spec

LEMMA Invariant == Spec => []IInv
<1>1. EMSInit => IInv
  <2>1. EMSInit => Exclusive
    BY DEF EMSInit, Exclusive
  <2> QED
    BY <2>1, TypeInit DEF IInv
<1>2. IInv /\ [Next]_vars => IInv'
  BY TypeNext, ExclusiveNext DEF IInv
<1> QED
  BY <1>1, <1>2, PTL DEF Spec

-----------------------------------------------------------------------------
\* What Contents is at a page: the window's copy, if there is one.
LEMMA ContentsMapped ==
  ASSUME TypeOK, Exclusive, NEW w \in Windows, current[w] # NoPage
  PROVE  Contents[current[w]] = frame[w]
<1>1. current[w] \in DOMAIN map
  BY DEF TypeOK
<1>2. (CHOOSE v \in Windows : current[v] = current[w]) = w
  BY DEF Exclusive
<1> QED
  BY <1>1, <1>2 DEF Contents

LEMMA ContentsUnmapped ==
  ASSUME NEW page \in DOMAIN map, \A w \in Windows : current[w] # page
  PROVE  Contents[page] = map[page]
  BY DEF Contents

LEMMA ContentsTyped == TypeOK => Contents \in [DOMAIN map -> Data]
<1> SUFFICES ASSUME TypeOK PROVE Contents \in [DOMAIN map -> Data]
  OBVIOUS
<1>1. ASSUME NEW page \in DOMAIN map, \E w \in Windows : current[w] = page
      PROVE  frame[CHOOSE w \in Windows : current[w] = page] \in Data
  BY <1>1 DEF TypeOK
<1>2. ASSUME NEW page \in DOMAIN map PROVE map[page] \in Data
  BY DEF TypeOK
<1> QED
  BY <1>1, <1>2 DEF Contents

Plain == [w \in Windows |-> IF current[w] = NoPage THEN frame[w] ELSE NoPage]

LEMMA InitRefines == EMSInit => Contract!Init
<1> SUFFICES ASSUME EMSInit PROVE Contract!Init
  OBVIOUS
<1>1. Contents = [page \in {} |-> NoPage]
  BY DEF EMSInit, Contents
<1>2. current = [w \in Windows |-> NoPage]
  BY DEF EMSInit
<1>3. Plain \in [Windows -> Data]
  BY DEF EMSInit, Plain
<1>4. call = "none"
  BY DEF EMSInit
<1> QED
  BY <1>1, <1>2, <1>3, <1>4 DEF Contract!Init, Plain

LEMMA AllocateRefines ==
  ASSUME TypeOK, NEW n \in PageCounts, AllocatePages(n)
  PROVE  Contract!Allocate
<1>1. TypeOK' /\ DOMAIN map \subseteq DOMAIN map' /\ \A page \in DOMAIN map : map'[page] = map[page]
  BY TypeAllocate
<1>2. current' = current /\ frame' = frame /\ call' = "allocate"
  BY DEF AllocatePages
<1>3. Contents' \in [DOMAIN map' -> Data]
  <2>1. ASSUME NEW page \in DOMAIN map', \E w \in Windows : current'[w] = page
        PROVE  frame'[CHOOSE w \in Windows : current'[w] = page] \in Data
    BY <1>1, <2>1 DEF TypeOK
  <2>2. ASSUME NEW page \in DOMAIN map' PROVE map'[page] \in Data
    BY <1>1 DEF TypeOK
  <2> QED
    BY <2>1, <2>2 DEF Contents
<1>4. Contents \in [DOMAIN map -> Data]
  BY ContentsTyped
<1>5. ASSUME NEW page \in DOMAIN map PROVE Contents'[page] = Contents[page]
  BY <1>1, <1>2 DEF Contents
<1>6. Plain' = Plain
  BY <1>2 DEF Plain
<1> QED
  BY <1>1, <1>2, <1>3, <1>4, <1>5, <1>6 DEF Contract!Allocate, Plain

\* Mapping moves a copy from the window to the store and one from the store to
\* the window: what each page holds is the same before and after.
LEMMA MapKeepsContents ==
  ASSUME TypeOK, Exclusive, Exclusive', TypeOK',
         NEW w \in Windows, NEW page \in DOMAIN map, MapPage(w, page), ~Aliases
  PROVE  Contents' = Contents
<1>1. map' = Saved(w) /\ current' = [current EXCEPT ![w] = page]
      /\ frame' = [frame EXCEPT ![w] = Saved(w)[page]]
  BY DEF MapPage
<1>2. DOMAIN map' = DOMAIN map
  BY <1>1, SavedTyped
<1>3. current'[w] = page /\ frame'[w] = Saved(w)[page] /\ page # NoPage
  <2>1. page # NoPage
    BY EmsAssumption DEF TypeOK
  <2> QED
    BY <1>1, <2>1 DEF TypeOK
<1>4. ASSUME NEW v \in Windows \ {w} PROVE current'[v] = current[v] /\ frame'[v] = frame[v]
  BY <1>1 DEF TypeOK
<1>5. \A v \in Windows \ {w} : current[v] # page
  BY DEF MapPage, MayMap
<1>6. ASSUME NEW q \in DOMAIN map PROVE Contents'[q] = Contents[q]
  <2>1. CASE q = page
    <3>1. Contents'[q] = Saved(w)[page]
      <4>1. (CHOOSE v \in Windows : current'[v] = current'[w]) = w
        BY <1>3 DEF Exclusive
      <4> QED
        BY <1>2, <1>3, <2>1, <4>1 DEF Contents
    <3>2. CASE current[w] = page
      <4>1. Contents[q] = frame[w]
        BY <1>3, <2>1, <3>2, ContentsMapped
      <4>2. Saved(w)[page] = frame[w]
        BY <1>3, <3>2 DEF Saved, TypeOK
      <4> QED
        BY <3>1, <4>1, <4>2
    <3>3. CASE current[w] # page
      <4>1. Contents[q] = map[page]
        BY <1>5, <2>1, <3>3, ContentsUnmapped
      <4>2. Saved(w)[page] = map[page]
        BY <3>3 DEF Saved, TypeOK
      <4> QED
        BY <3>1, <4>1, <4>2
    <3> QED
      BY <3>2, <3>3
  <2>2. CASE q # page /\ current[w] = q
    <3>1. current[w] # NoPage
      BY <2>2, EmsAssumption DEF TypeOK
    <3>2. Contents[q] = frame[w]
      BY <2>2, <3>1, ContentsMapped
    <3>3. \A v \in Windows : current'[v] # q
      BY <1>3, <1>4, <2>2, <3>1 DEF Exclusive
    <3>4. Contents'[q] = map'[q]
      BY <1>2, <3>3 DEF Contents
    <3>5. map'[q] = frame[w]
      BY <1>1, <2>2, <3>1 DEF Saved, TypeOK
    <3> QED
      BY <3>2, <3>4, <3>5
  <2>3. CASE q # page /\ current[w] # q
    <3>1. map'[q] = map[q]
      BY <1>1, <2>3 DEF Saved, TypeOK
    <3>2. \A v \in Windows : current'[v] = q <=> current[v] = q
      BY <1>3, <1>4, <2>3
    <3>3. CASE \E v \in Windows : current[v] = q
      <4>1. PICK v \in Windows : current[v] = q
        BY <3>3
      <4>2. v # w /\ q # NoPage
        BY <2>3, <4>1, EmsAssumption DEF TypeOK
      <4>3. Contents[q] = frame[v]
        BY <4>1, <4>2, ContentsMapped
      <4>4. (CHOOSE u \in Windows : current'[u] = q) = v
        BY <3>2, <4>1, <4>2 DEF Exclusive
      <4>5. Contents'[q] = frame'[v]
        BY <1>2, <3>2, <4>1, <4>4 DEF Contents
      <4> QED
        BY <1>4, <4>2, <4>3, <4>5
    <3>4. CASE ~ \E v \in Windows : current[v] = q
      BY <1>2, <3>1, <3>2, <3>4 DEF Contents
    <3> QED
      BY <3>3, <3>4
  <2> QED
    BY <2>1, <2>2, <2>3
<1> QED
  BY <1>2, <1>6 DEF Contents

LEMMA MapRefines ==
  ASSUME TypeOK, TypeOK', Exclusive, Exclusive', ~Aliases,
         NEW w \in Windows, NEW page \in DOMAIN map, MapPage(w, page)
  PROVE  Contract!Map(w)
<1>1. Contents' = Contents
  BY MapKeepsContents
<1>2. page \in DOMAIN Contents
  BY DEF Contents
<1>3. current' = [current EXCEPT ![w] = page] /\ page # NoPage /\ call' = "map"
  BY EmsAssumption DEF MapPage, TypeOK
<1>4. Plain' = [Plain EXCEPT ![w] = NoPage]
  <2>1. frame' = [frame EXCEPT ![w] = Saved(w)[page]]
    BY DEF MapPage
  <2> QED
    BY <1>3, <2>1 DEF Plain, TypeOK
<1> QED
  BY <1>1, <1>2, <1>3, <1>4 DEF Contract!Map, Plain

LEMMA WriteRefines ==
  ASSUME TypeOK, Exclusive, NEW w \in Windows, NEW d \in Data, GuestWrite(w, d)
  PROVE  Contract!Write(w, d)
<1>1. /\ frame' = [frame EXCEPT ![w] = d]
      /\ map' = map /\ current' = current /\ call' = "write"
  BY DEF GuestWrite
<1>2. CASE current[w] = NoPage
  <2>1. Plain' = [Plain EXCEPT ![w] = d]
    BY <1>1, <1>2 DEF Plain, TypeOK
  <2>2. ASSUME NEW v \in Windows, NEW q \in DOMAIN map, current[v] = q PROVE frame'[v] = frame[v]
    BY <1>1, <1>2, <2>2, EmsAssumption DEF TypeOK
  <2>3. Contents' = Contents
    <3>1. ASSUME NEW q \in DOMAIN map PROVE Contents'[q] = Contents[q]
      BY <1>1, <2>2 DEF Contents
    <3> QED
      BY <1>1, <3>1 DEF Contents
  <2> QED
    BY <1>1, <1>2, <2>1, <2>3 DEF Contract!Write, Plain
<1>3. CASE current[w] # NoPage
  <2>1. Plain' = Plain
    BY <1>1, <1>3 DEF Plain, TypeOK
  <2>2. current[w] \in DOMAIN map
    BY <1>3 DEF TypeOK
  <2>3. Contents' = [Contents EXCEPT ![current[w]] = d]
    <3>1. (CHOOSE v \in Windows : current[v] = current[w]) = w
      BY <1>3 DEF Exclusive
    <3>2. Contents'[current[w]] = d
      BY <1>1, <2>2, <3>1 DEF Contents, TypeOK
    <3>3. ASSUME NEW q \in DOMAIN map, q # current[w] PROVE Contents'[q] = Contents[q]
      BY <1>1, <3>3 DEF Contents, TypeOK
    <3>4. Contents = [q \in DOMAIN map |-> Contents[q]]
      BY DEF Contents
    <3>5. Contents' = [q \in DOMAIN map |-> Contents'[q]]
      BY <1>1 DEF Contents
    <3> HIDE DEF Contents
    <3> QED
      BY <2>2, <3>2, <3>3, <3>4, <3>5
  <2> QED
    BY <1>1, <1>3, <2>1, <2>3 DEF Contract!Write, Plain
<1> QED
  BY <1>2, <1>3

\* For a guest that never has a logical page in two windows, the page frame of
\* copies implements the page frame of views: a page read through any window is
\* what was last written to it, whatever was mapped in between.
THEOREM ImplementsContract ==
  ASSUME ~Aliases
  PROVE  Spec => ContractSpec
<1>1. EMSInit => Contract!Init
  BY InitRefines
<1>2. IInv /\ IInv' /\ [Next]_vars => [Contract!Next]_(Contract!vars)
  <2> SUFFICES ASSUME IInv, IInv', [Next]_vars PROVE [Contract!Next]_(Contract!vars)
    OBVIOUS
  <2> USE DEF IInv
  <2>1. ASSUME NEW n \in PageCounts, AllocatePages(n) PROVE Contract!Next
    BY <2>1, AllocateRefines DEF Contract!Next
  <2>2. ASSUME NEW w \in Windows, NEW page \in DOMAIN map, MapPage(w, page) PROVE Contract!Next
    BY <2>2, MapRefines DEF Contract!Next
  <2>3. ASSUME NEW w \in Windows, NEW d \in Data, GuestWrite(w, d) PROVE Contract!Next
    BY <2>3, WriteRefines DEF Contract!Next
  <2>4. CASE UNCHANGED vars
    BY <2>4 DEF vars, Contract!vars, Contents
  <2> QED
    BY <2>1, <2>2, <2>3, <2>4 DEF Next
<1> QED
  BY <1>1, <1>2, Invariant, PTL DEF Spec, ContractSpec, Contract!Spec

=============================================================================
