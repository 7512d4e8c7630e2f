-------------------------- MODULE DosFileContract --------------------------
(***************************************************************************)
(* What the handle calls of DOS promise a program: files are contents      *)
(* under a name, an open handle is a name and a position in it, a handle   *)
(* that is given out was not in use, and a program that makes a mistake is *)
(* ended.                                                                  *)
(***************************************************************************)
EXTENDS Integers, Sequences

CONSTANTS
  Handles,
  Names,             \* the names of files
  Device,            \* the name of a device, which has no contents
  ReadSizes, Chunks  \* what a program reads and writes at a time

VARIABLES
  content,           \* name -> the bytes of the file
  open,              \* handle in use -> name and position
  reply,             \* what the last read or seek returned
  ended

vars == <<content, open, reply, ended>>

Init ==
  /\ open = [h \in {} |-> 0]
  /\ reply = <<"bytes", <<>>>>
  /\ ended = FALSE

Give(name) ==
  \E h \in Handles \ DOMAIN open :
    open' = [g \in DOMAIN open \cup {h} |->
               IF g = h THEN [name |-> name, pos |-> 0] ELSE open[g]]

Create(name) ==
  /\ content' = [n \in DOMAIN content \cup {name} |-> IF n = name THEN <<>> ELSE content[n]]
  /\ Give(name)
  /\ UNCHANGED <<reply, ended>>

Open(name) ==
  /\ name \in DOMAIN content \cup {Device}
  /\ Give(name)
  /\ UNCHANGED <<content, reply, ended>>

Close(h) ==
  /\ open' = [g \in DOMAIN open \ {h} |-> open[g]]
  /\ UNCHANGED <<content, reply, ended>>

IsFile(h) == h \in DOMAIN open /\ open[h].name # Device
Contents(h) == content[open[h].name]

\* At most n bytes, fewer at the end of the file.
Read(h, n) ==
  LET pos == open[h].pos
      end == IF pos + n < Len(Contents(h)) THEN pos + n ELSE Len(Contents(h))
  IN  /\ reply' = <<"bytes", SubSeq(Contents(h), pos + 1, end)>>
      /\ open' = [open EXCEPT ![h].pos = end]
      /\ UNCHANGED <<content, ended>>

\* Overwrites, and extends the file when it runs over its end.
Write(h, chunk) ==
  LET old == Contents(h)
      pos == open[h].pos
      end == pos + Len(chunk)
  IN  /\ content' = [content EXCEPT ![open[h].name] =
                       SubSeq(old, 1, pos) \o chunk \o SubSeq(old, end + 1, Len(old))]
      /\ open' = [open EXCEPT ![h].pos = end]
      /\ UNCHANGED <<reply, ended>>

Seek(h) ==
  /\ \E pos \in 0..Len(Contents(h)) :
       /\ open' = [open EXCEPT ![h].pos = pos]
       /\ reply' = <<"position", pos>>
  /\ UNCHANGED <<content, ended>>

Fail ==
  /\ ended' = TRUE
  /\ UNCHANGED <<content, reply>>

Next ==
  /\ ~ended
  /\ \/ \E name \in Names : Create(name) \/ Open(name)
     \/ Open(Device)
     \/ \E h \in Handles :
          \/ Close(h)
          \/ /\ IsFile(h)
             /\ \/ Seek(h)
                \/ \E n \in ReadSizes : Read(h, n)
                \/ \E chunk \in Chunks : Write(h, chunk)
     \/ Fail

Spec == Init /\ [][Next]_vars

=============================================================================
