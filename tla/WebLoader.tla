----------------------------- MODULE WebLoader -----------------------------
(***************************************************************************)
(* The host of the browser build, src/dos.js: Main(version) starts a load  *)
(* of the emulator and a disk image and stops the running loop; when both  *)
(* have arrived the new instance is started; Loop runs a slice of the      *)
(* emulator and asks for the next animation frame.  Main is called when    *)
(* the page opens, by the four version buttons (src/index.html) and by the *)
(* exit import of an instance that ends with a status other than 0.        *)
(*                                                                         *)
(* The variables are the globals of the page, shared by everything that    *)
(* runs: a callback runs to its end before another starts.                 *)
(***************************************************************************)
EXTENDS Integers, FiniteSets

CONSTANTS
  Versions,          \* 1..4
  Calls,             \* bound: names for the calls of Main
  Settings           \* the users, programs and browsers: see setting

None == 0

ASSUME LoaderAssumption ==
  /\ None \notin Versions
  /\ IsFiniteSet(Calls) /\ None \notin Calls
  /\ Settings \subseteq [patient : BOOLEAN, faulty : BOOLEAN, offline : BOOLEAN]

VARIABLES
  setting,           \* rigid: [patient] a button is used only when nothing is
                     \* being loaded, [faulty] a program may fault and exit with a
                     \* status other than 0, [offline] a load may fail
  doStopLoop,
  loading,           \* the calls of Main whose promises are pending
  version,           \* what a call of Main was made with, None: not made yet
  game,              \* the call of Main whose instance game is, None: {}
  frames,            \* the animation frames that are requested
  selected,          \* history: the version the user asked for last
  overtaken          \* history: the loads that ended before the frame of a
                     \* stopped loop, since the page was last without a loop

vars == <<setting, doStopLoop, loading, version, game, frames, selected, overtaken>>

TypeOK ==
  /\ setting \in Settings
  /\ doStopLoop \in BOOLEAN
  /\ loading \subseteq {c \in Calls : version[c] # None}
  /\ version \in [Calls -> Versions \cup {None}]
  /\ game = None \/ (game \in Calls /\ version[game] # None)
  /\ frames \in 0..Cardinality(Calls)
  /\ selected \in Versions \cup {None}
  /\ overtaken \in Nat

Init ==
  /\ setting \in Settings
  /\ doStopLoop = TRUE
  /\ loading = {}
  /\ version = [c \in Calls |-> None]
  /\ game = None
  /\ frames = 0
  /\ selected = None
  /\ overtaken = 0

-----------------------------------------------------------------------------
\* A new call of Main, if the bound leaves one.
Unmade == {c \in Calls : version[c] = None}
NextCall == CHOOSE c \in Unmade : TRUE

\* Main: fetch, fetch, instantiate; pending is what else is pending.
Bug_Main(v, pending) ==
  /\ Unmade # {}
  /\ loading' = pending \cup {NextCall}
  /\ version' = [version EXCEPT ![NextCall] = v]
  /\ UNCHANGED doStopLoop

Main(v, pending) ==
  /\ Unmade # {}
  /\ doStopLoop' = TRUE
  /\ loading' = pending \cup {NextCall}
  /\ version' = [version EXCEPT ![NextCall] = v]

\* The page opens, or a version button is pressed.
Select(v) ==
  /\ setting.patient => loading = {}
  /\ Main(v, loading)
  /\ selected' = v
  /\ UNCHANGED <<setting, game, frames, overtaken>>

Bug_LoopRunsForgets(call, rest, pending) ==
  \/ /\ frames' = rest + 1
     /\ doStopLoop' = FALSE
     /\ loading' = pending
     /\ UNCHANGED version
  \/ /\ setting.faulty
     /\ frames' = rest
     /\ Main(None, pending)

Bug_LoopRunsDefault(call, rest, pending) ==
  \/ /\ frames' = rest + 1
     /\ doStopLoop' = FALSE
     /\ loading' = pending
     /\ UNCHANGED version
  \/ /\ setting.faulty
     /\ frames' = rest
     /\ Main(CHOOSE v \in Versions : TRUE, pending)

\* Loop, from if (doStopLoop) return to requestAnimationFrame; rest is the
\* number of frames that stay requested.  When the program faults the exit
\* import calls Main with the version it was made with and does not return
\* into the instance (the call is followed by a trap): no frame is requested.
LoopRuns(call, rest, pending) ==
  \/ /\ frames' = rest + 1
     /\ doStopLoop' = FALSE
     /\ loading' = pending
     /\ UNCHANGED version
  \/ /\ setting.faulty
     /\ frames' = rest
     /\ Main(version[call], pending)

Frame ==
  /\ frames > 0
  /\ ~doStopLoop
  /\ LoopRuns(game, frames - 1, loading)
  /\ UNCHANGED <<setting, game, selected, overtaken>>

FrameStops ==
  /\ frames > 0
  /\ doStopLoop
  /\ frames' = frames - 1
  /\ UNCHANGED <<setting, doStopLoop, loading, version, game, selected, overtaken>>

\* Whether the stopped loop has not seen doStopLoop when a load ends.
Overtakes == IF frames = 0 THEN 0 ELSE IF doStopLoop THEN overtaken + 1 ELSE overtaken

\* Both promises of a call of Main are resolved: the new instance replaces the
\* old one and its loop starts, wherever the loop that was stopped is.
Bug_Loaded(call) ==
  /\ call \in loading
  /\ game' = call
  /\ frames' = frames
  /\ doStopLoop' = FALSE
  /\ loading' = loading \ {call}
  /\ overtaken' = Overtakes
  /\ UNCHANGED <<setting, version, selected>>

Loaded(call) ==
  /\ call \in loading
  /\ game' = call
  /\ LoopRuns(call, frames, loading \ {call})
  /\ overtaken' = Overtakes
  /\ UNCHANGED <<setting, selected>>

\* err => alert(err): the loop that Main stopped stays stopped.
LoadFails(call) ==
  /\ setting.offline
  /\ call \in loading
  /\ loading' = loading \ {call}
  /\ UNCHANGED <<setting, doStopLoop, version, game, frames, selected, overtaken>>

Next ==
  \/ \E v \in Versions : Select(v)
  \/ Frame \/ FrameStops
  \/ \E call \in Calls : Loaded(call) \/ LoadFails(call)

Spec == Init /\ [][Next]_vars

\* The page opens; the browser shows frames and ends every load.
FairSpec ==
  /\ Spec
  /\ WF_vars(selected = None /\ \E v \in Versions : Select(v))
  /\ WF_vars(Frame) /\ WF_vars(FrameStops)
  /\ \A call \in Calls : WF_vars(Loaded(call) \/ LoadFails(call))

-----------------------------------------------------------------------------
\* Each loop beyond the first runs one more slice per frame on the one instance
\* in game.  For a user who waits for a load there is one loop more for each load
\* that ended before the frame that would have told the old loop to stop, as a
\* load from the cache may, and none for anything else: not for faults, restarts,
\* failed loads or late frames.
LoopsAreOvertaken == setting.patient => frames <= 1 + overtaken

\* When everything has been loaded and the loop runs, it runs the version the
\* user asked for last, the one whose button is highlighted.
SelectedRuns == loading = {} /\ ~doStopLoop => version[game] = selected

\* A user who waits for each load gets what was asked for, through faults that
\* restart it and loads that fail.
PatientUserIsServed == setting.patient => SelectedRuns

\* As long as no load fails, the page is never dead: something is being loaded
\* or the loop is on and a frame is requested, whatever buttons are pressed and
\* whatever faults.
NeverDead ==
  ~setting.offline /\ selected # None => loading # {} \/ (~doStopLoop /\ frames > 0)

\* Unless a load fails, the page comes to rest with a running emulator after the
\* last call of Main.
EventuallyRuns == setting.offline \/ <>[](~doStopLoop /\ frames > 0)

=============================================================================
