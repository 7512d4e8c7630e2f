---------------------------- MODULE EgaContract ----------------------------
(***************************************************************************)
(* What the 16-colour modes promise a program that paints with the         *)
(* set/reset colour: a byte of the window stands for eight pixels, counted *)
(* from the left; a pixel is the set of the planes that are on.  A store   *)
(* gives the pixels of the mask the colour and leaves every other pixel    *)
(* alone; a load tells which of the eight pixels are on in one plane, or   *)
(* which have the colour compared with; the picture begins at start.       *)
(***************************************************************************)
EXTENDS Integers

CONSTANTS
  Bytes,             \* the window addresses a program uses
  Planes,            \* 0..3
  Pages              \* the pages it shows, in units of 256 bytes

Positions == 0..7

VARIABLES
  on,                \* a 16-colour mode is set
  pixels,            \* pixels[<<a, i>>]: the planes of pixel i of byte a
  regs,              \* mask, color, comparing, plane, compare, care
  start,             \* the byte the picture begins with
  loads,             \* byte -> what a load of it returns: a set of positions
  picture            \* the first eight pixels of the picture

vars == <<on, pixels, regs, start, loads, picture>>

Load(a) ==
  {i \in Positions :
     IF regs.comparing
     THEN \A p \in regs.care : (p \in pixels[<<a, i>>]) = (p \in regs.compare)
     ELSE regs.plane \in pixels[<<a, i>>]}

\* What is seen is always what the pixels and the registers say.
Seen ==
  /\ on
  /\ loads = [a \in Bytes |-> Load(a)]
  /\ start \in Bytes => picture = [i \in Positions |-> pixels[<<start, i>>]]

Init ==
  /\ ~on
  /\ pixels = [at \in Bytes \X Positions |-> {}]

SetMode ==
  /\ on'
  /\ UNCHANGED regs
  /\ UNCHANGED pixels

\* One register at a time.
Program ==
  /\ \E name \in DOMAIN regs : regs' = [regs EXCEPT ![name] = regs'[name]]
  /\ UNCHANGED <<on, pixels, start>>

\* The picture begins with another page, or where it did.
Flip ==
  /\ on => start' = start \/ \E v \in Pages : start' = 256 * v
  /\ UNCHANGED <<on, pixels, regs>>

Store(a) ==
  /\ on
  /\ pixels' = [at \in Bytes \X Positions |->
                  IF at[1] = a /\ at[2] \in regs.mask THEN regs.color ELSE pixels[at]]
  /\ UNCHANGED <<on, regs, start>>

Next ==
  /\ SetMode \/ Program \/ Flip \/ \E a \in Bytes : Store(a)
  /\ on' => Seen'

Spec == Init /\ [][Next]_vars

=============================================================================
