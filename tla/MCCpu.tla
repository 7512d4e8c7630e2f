------------------------------- MODULE MCCpu -------------------------------
(***************************************************************************)
(* The jobs of CpuSession: registers at the edges of their ranges for the  *)
(* arithmetic, strings of 0 to 3 elements with both directions and at the  *)
(* end of the segment, and interrupts for a few jobs of every program.     *)
(***************************************************************************)
EXTENDS CpuSession

Job(task, ax, cx, dx, bx, si, di, sp, flags, n) ==
  [task |-> task, flags |-> flags, irqs |-> n, h |-> [i \in 0..7 |-> 4097 * i + 40],
   r |-> [i \in 0..7 |-> <<ax, cx, dx, bx, sp, 77, si, di>>[i + 1]]]

Numbers(task, ax, cx, dx, bx, n) == Job(task, ax, cx, dx, bx, 0, 0, 256, 512, n)

Highs == {0, 1, 32767, 32768, 65535}
Lows == {0, 1, 65535}
BCD == {16 * t + u : t \in {0, 4, 7, 8, 9}, u \in {0, 1, 5, 9}}
Bytes == {0, 1, 2, 127, 128, 255}

Arithmetic ==
  {Numbers(t, a, c, d, b, 0) : t \in {"compare", "sum"}, a \in Lows, b \in Lows, c \in Highs, d \in Highs}
  \cup {Numbers("shift", a, n, d, 0, 0) : a \in Lows, n \in {1, 3}, d \in {0, 1, 4095, 61440, 65535}}
  \cup {Numbers("wide", a, n, 0, 0, 0) : a \in Lows, n \in {1, 9, 12}}
  \cup {Numbers(t, a, 0, 0, b, 0) : t \in {"product", "signed"}, a \in Bytes, b \in Bytes}
  \cup {Numbers(t, a, 0, 0, b, 0) : t \in {"decimal", "borrow"}, a \in BCD, b \in BCD}
  \cup {Numbers("ascii", a, 0, 0, b, 0) : a \in {0, 4, 7, 9}, b \in {0, 1, 5, 6, 9}}
  \cup {Numbers("unpack", a, 0, 0, 0, 0) : a \in {0, 9, 10, 59, 99}}

\* Flags 200h: interrupts on; 600h: also df.
Strings ==
  {Job(t, 1798, n, 969, 0, si, di, 256, f, IF n = 2 THEN 1 ELSE 0) :
     t \in {"copy", "fill", "search", "match", "output"}, n \in 0..3, f \in {512, 1536},
     si \in {0, 1, 4096, 65535}, di \in {0, 1, 65534}}
  \cup {Job(t, 1798, n, 0, 0, si, di, 256, f, 0) :
     t \in {"searchloop", "matchloop"}, n \in 1..3, f \in {512, 1536}, si \in {0, 4096}, di \in {0, 65534}}

Calls ==
  {Job("recurse", 9, n, 0, 0, 0, 0, sp, 512, 1) : n \in 0..2, sp \in {256, 4}}
  \cup {Job("frame", 9, 0, 0, b, 0, 0, 256, 512, 1) : b \in {0, 65535}}
  \cup {Job(t, 65535, 3, 1, 2, 5, 6, 256, f, 1) : t \in {"save", "save32", "far", "indirect"}, f \in {512, 32469}}
  \cup {Numbers("wait", 5, 1, 0, 0, 2)}
  \cup {Numbers(t, 65535, 3, 4095, 1, 1) : t \in {"compare", "sum", "shift"}}

MCJobs == Arithmetic \cup Strings \cup Calls
=============================================================================
