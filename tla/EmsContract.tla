---------------------------- MODULE EmsContract ----------------------------
(***************************************************************************)
(* What expanded memory promises a guest: logical pages that keep what was *)
(* written, and a page frame of windows.  A window is a view: it shows the *)
(* logical page that is mapped into it, and a write to the window is a     *)
(* write to that page.  An unmapped window is ordinary memory.             *)
(*                                                                         *)
(* call says what the guest did, so that a step that moves a view cannot   *)
(* pass for a write the guest never made.                                  *)
(***************************************************************************)
CONSTANTS
  Windows,           \* the physical pages of the page frame
  Data,              \* what a page can hold
  NoPage             \* a window that is not mapped

VARIABLES
  store,             \* logical page -> what it holds
  view,              \* window -> the logical page it shows
  plain,             \* window -> what the memory of an unmapped window holds
  call               \* the last step of the guest

vars == <<store, view, plain, call>>

Init ==
  /\ store = [page \in {} |-> NoPage]
  /\ view = [w \in Windows |-> NoPage]
  /\ plain \in [Windows -> Data]
  /\ call = "none"

\* A new handle comes with new pages, whose first contents are arbitrary.
Allocate ==
  /\ DOMAIN store \subseteq DOMAIN store'
  /\ store' \in [DOMAIN store' -> Data]
  /\ \A page \in DOMAIN store : store'[page] = store[page]
  /\ call' = "allocate"
  /\ UNCHANGED <<view, plain>>

\* Mapping moves the view; no page changes.  The memory behind the window is
\* out of reach from now on.
Map(w) ==
  /\ \E page \in DOMAIN store : view' = [view EXCEPT ![w] = page]
  /\ plain' = [plain EXCEPT ![w] = NoPage]
  /\ call' = "map"
  /\ UNCHANGED store

Write(w, d) ==
  /\ IF view[w] = NoPage
     THEN plain' = [plain EXCEPT ![w] = d] /\ UNCHANGED <<store, view>>
     ELSE store' = [store EXCEPT ![view[w]] = d] /\ UNCHANGED <<view, plain>>
  /\ call' = "write"

Next ==
  \/ Allocate
  \/ \E w \in Windows : Map(w) \/ \E d \in Data : Write(w, d)

Spec == Init /\ [][Next]_vars

=============================================================================
