---------------------------- MODULE AppRuntimeProofs ----------------------------
(***************************************************************************)
(* Proofs about AppRuntime, for any set of slots and whatever comes from   *)
(* outside.  The slot loader never keeps an image loaded behind another    *)
(* app's back; and unless an install or a wipe was overtaken, core 1 never *)
(* calls into an image the flash no longer holds, and an install finds     *)
(* every app torn down.                                                    *)
(***************************************************************************)
EXTENDS AppRuntime, TLAPS

USE DEF None

\* LoadedInFront, with what makes it inductive: by the time app_run is about to
\* enter an app, the one before it has been left and forgotten.
LoaderInv ==
  /\ LoadedInFront
  /\ pc1 \in {"exit", "flush"} => cur = "slot"
  /\ pc1 = "enter" => loaded = None

\* No step of core 0 touches the loader; each step of app_run keeps its invariant.
LEMMA LoaderStep == LoaderInv /\ [Next]_vars => LoaderInv'
<1> SUFFICES ASSUME LoaderInv, [Next]_vars PROVE LoaderInv'
  OBVIOUS
<1> USE DEF LoaderInv, LoadedInFront
<1>1. CASE Core0
  <2>1. UNCHANGED <<cur, loaded, pc1>>
    BY <1>1 DEF Core0, LaunchStep, Uploading, Launch, Begin, MenuLaunch, MenuUninstall,
      LaunchPending, LaunchReinit, Accept, Decline, Promote, UploadOp, UploadEnd,
      UploadAbort, Linger, Prompt, PromptCancel, PowerToggle, MenuExit, MenuKey, WipeTest, Wipe,
      runtime, frame
  <2>2. QED
    BY <2>1
<1>2. CASE DialogFrame \/ UploadFrame \/ RunBegin \/ RunWant \/ RunClear
  BY <1>2 DEF DialogFrame, UploadFrame, RunBegin, RunWant, RunClear, runtime
<1>3. CASE RunReinit
  BY <1>3 DEF RunReinit, runtime
<1>4. CASE RunFlushed
  BY <1>4 DEF RunFlushed, runtime
<1>5. CASE RunExit
  BY <1>5 DEF RunExit
<1>6. CASE RunEnter
  BY <1>6 DEF RunEnter
<1>7. CASE TickSlot \/ TickLauncher
  BY <1>7 DEF TickSlot, TickLauncher, runtime
<1>8. CASE UNCHANGED vars
  BY <1>8 DEF vars, runtime, frame
<1>9. QED
  BY <1>1, <1>2, <1>3, <1>4, <1>5, <1>6, <1>7, <1>8 DEF Next, Frame

\* An image is loaded only for the app in the foreground (slot_enter, slot_exit and
\* the switch in app_run), so app_base and the save sector derived from it always
\* belong to the app that runs.
THEOREM OnlyForeground == Spec => []LoadedInFront
<1>1. Init => LoaderInv
  BY DEF Init, LoaderInv, LoadedInFront
<1>2. LoaderInv => LoadedInFront
  BY DEF LoaderInv
<1>3. QED
  BY <1>1, <1>2, LoaderStep, PTL DEF Spec

\* TypeOK in two parts, for the provers: the flags, and everything else.
Flags ==
  /\ slotPending \in BOOLEAN /\ reinit \in BOOLEAN /\ ready \in BOOLEAN /\ off \in BOOLEAN
  /\ dlgOn \in BOOLEAN /\ upOn \in BOOLEAN /\ stale \in BOOLEAN /\ overtaken \in BOOLEAN

Names ==
  /\ {slotBase, invalid, upSlot, del, loaded} \subseteq Slots \cup {None}
  /\ dlg = "upload" \/ up \in {"EXITING", "AUTH"} => upSlot # None
  /\ up \in {"IDLE", "PENDING", "EXITING", "AUTH", "DONE"}
  /\ dlg \in {"none", "upload", "prompt"} /\ menu \in {"off", "open", "page", "closing", "stuck"}
  /\ header \subseteq Slots
  /\ pc0 \in {"idle", "pending", "reinit", "wipe"} /\ (pc0 = "wipe" => del # None)
  /\ cur \in {"launcher", "slot"} /\ want \in {"launcher", "slot"}
  /\ pc1 \in {"idle", "want", "reinit", "flush", "exit", "enter", "clear", "tick"}

\* Each step of either core keeps the flags' types ...
LEMMA FlagsStep == Flags /\ [Next]_vars => Flags'
<1> SUFFICES ASSUME Flags, [Next]_vars PROVE Flags'
  OBVIOUS
<1> USE DEF Flags, request, upload, runtime, frame
<1>1. ASSUME NEW s \in Slots, Launch(s) \/ Begin(s) \/ MenuLaunch(s) \/ MenuUninstall(s)
      PROVE  Flags'
  BY <1>1, Zenon DEF Launch, Begin, MenuLaunch, MenuUninstall
<1>2. CASE LaunchStep \/ Uploading
  BY <1>2, Zenon DEF LaunchStep, LaunchPending, LaunchReinit, Uploading, Accept, Decline,
     Promote, UploadOp, UploadEnd, UploadAbort, Linger
<1>3. CASE Prompt \/ PromptCancel \/ PowerToggle \/ MenuExit \/ MenuKey \/ WipeTest \/ Wipe
  BY <1>3, Zenon DEF Prompt, PromptCancel, PowerToggle, MenuExit, MenuKey, WipeTest, Wipe
<1>4. CASE DialogFrame \/ UploadFrame \/ RunBegin
  <2>1. CASE DialogFrame
    BY <2>1 DEF DialogFrame
  <2>2. CASE UploadFrame
    <3>1. upOn' = (up \in {"AUTH", "DONE"})
      BY <2>2, Zenon DEF UploadFrame
    <3>2. upOn' \in BOOLEAN
      BY <3>1
    <3>3. QED
      BY <2>2, <3>2, Zenon DEF UploadFrame
  <2>3. CASE RunBegin
    BY <2>3 DEF RunBegin
  <2>4. QED
    BY <1>4, <2>1, <2>2, <2>3
<1>5. CASE RunWant \/ RunReinit \/ RunFlushed \/ RunExit \/ RunEnter \/ RunClear
  BY <1>5, Zenon DEF RunWant, RunReinit, RunFlushed, RunExit, RunEnter, RunClear
<1>6. CASE TickSlot \/ TickLauncher
  BY <1>6, Zenon DEF TickSlot, TickLauncher, LaunchHere
<1>7. CASE UNCHANGED vars
  BY <1>7 DEF vars
<1>8. QED
  BY <1>1, <1>2, <1>3, <1>4, <1>5, <1>6, <1>7 DEF Next, Core0, Frame

\* ... and those of the other variables.
LEMMA NamesStep == Names /\ [Next]_vars => Names'
<1> SUFFICES ASSUME Names, [Next]_vars PROVE Names'
  OBVIOUS
<1> USE SlotsAssumption DEF Names, request, upload, runtime, frame
<1>1. ASSUME NEW s \in Slots, Launch(s) \/ Begin(s) \/ MenuLaunch(s) \/ MenuUninstall(s)
      PROVE  Names'
  BY <1>1 DEF Launch, Begin, MenuLaunch, MenuUninstall, Closed
<1>2. CASE LaunchStep \/ Uploading
  <2>1. CASE LaunchStep
    BY <2>1 DEF LaunchStep, LaunchPending, LaunchReinit
  <2>2. CASE Accept \/ Decline \/ Promote
    BY <2>2 DEF Accept, Decline, Promote, Closed
  <2>3. CASE UploadOp
    BY <2>3 DEF UploadOp
  <2>4. CASE UploadEnd
    BY <2>4 DEF UploadEnd
  <2>5. CASE UploadAbort \/ Linger
    BY <2>5 DEF UploadAbort, Linger
  <2>6. QED
    BY <1>2, <2>1, <2>2, <2>3, <2>4, <2>5 DEF Uploading
<1>3. CASE Prompt \/ PromptCancel \/ PowerToggle \/ MenuExit \/ MenuKey \/ WipeTest \/ Wipe
  BY <1>3 DEF Prompt, PromptCancel, PowerToggle, MenuExit, MenuKey, WipeTest, Wipe, Closed
<1>4. CASE DialogFrame \/ UploadFrame \/ RunBegin
  BY <1>4 DEF DialogFrame, UploadFrame, RunBegin
<1>5. CASE RunWant \/ RunReinit \/ RunFlushed \/ RunExit \/ RunClear
  BY <1>5 DEF RunWant, RunReinit, RunFlushed, RunExit, RunClear
<1>6. CASE RunEnter
  BY <1>6 DEF RunEnter
<1>7. CASE TickSlot \/ TickLauncher
  BY <1>7 DEF TickSlot, TickLauncher, LaunchHere
<1>8. CASE UNCHANGED vars
  BY <1>8 DEF vars
<1>9. QED
  BY <1>1, <1>2, <1>3, <1>4, <1>5, <1>6, <1>7, <1>8 DEF Next, Core0, Frame

\* The variables keep their types, for any set of slots and whatever comes from outside.
THEOREM TypeCorrect == Spec => []TypeOK
<1>1. Init => Flags /\ Names
  BY DEF Init, Flags, Names
<1>2. Flags /\ Names => TypeOK
  BY DEF Flags, Names, TypeOK
<1>3. QED
  BY <1>1, <1>2, FlagsStep, NamesStep, PTL DEF Spec

(***************************************************************************)
(* What keeps the flash and core 1 apart, whatever comes from outside.     *)
(***************************************************************************)

\* app_run has read whether a slot app is wanted, and acts on it.
Late == pc1 \notin {"idle", "want"}

\* The menu keeps app_run out; an install is told of the launcher while it waits; the
\* app in front is the one wanted once it is in; and only a loaded image is stale.
Always ==
  /\ pc1 # "idle" => menu = "off"
  /\ ready => up = "EXITING"
  /\ pc1 \in {"clear", "tick"} => cur = want
  /\ stale => loaded # None

\* The image of a slot no longer asked for is on its way out: it is left before
\* the next tick, and until then nothing is wiped.
InFront == loaded \notin {None, slotBase} =>
  /\ del = None /\ menu \notin {"open", "page"}
  /\ (pc1 \in {"idle", "want", "reinit"} /\ reinit) \/ pc1 \in {"flush", "exit"}

\* The app whose header is to be wiped was sent home, or is not the one asked for.
Wiping ==
  /\ del # None /\ slotBase = del => ~slotPending /\ (Late => want = "launcher")
  /\ pc0 = "wipe" => cur = "launcher" \/ slotBase # del

\* An install waits for the launcher, which then stays.
Installing ==
  /\ up = "EXITING" /\ Late /\ want = "launcher" => ~slotPending
  /\ ready => ~slotPending /\ menu = "off" /\ cur = "launcher" /\ (Late => want = "launcher")
  /\ up = "AUTH" => /\ cur = "launcher" /\ (Late => want = "launcher")
                    /\ pc1 = "want" => ~slotPending

\* So it is as long as nothing overtakes an install or a wipe, and again once core 1
\* has settled in the launcher.
Waited == InFront /\ Wiping /\ Installing /\ ~stale

WaitedInv == LoaderInv /\ Always /\ (~overtaken => Waited)

\* Each step of either core keeps it.
LEMMA WaitedStep ==
  ASSUME Flags, Names, WaitedInv, [Next]_vars, LoaderInv'
  PROVE  WaitedInv'
<1> USE SlotsAssumption DEF WaitedInv, Always, Waited, InFront, Wiping, Installing, Late,
      LoaderInv, LoadedInFront, Flags, Names, request, upload, runtime, frame
<1>1. ASSUME NEW s \in Slots, Launch(s)  PROVE WaitedInv'
  BY <1>1 DEF Launch, Overtakes, Closed
<1>2. ASSUME NEW s \in Slots, Begin(s)  PROVE WaitedInv'
  BY <1>2 DEF Begin
<1>3. ASSUME NEW s \in Slots, MenuLaunch(s)  PROVE WaitedInv'
  BY <1>3 DEF MenuLaunch
<1>4. ASSUME NEW s \in Slots, MenuUninstall(s)  PROVE WaitedInv'
  BY <1>4 DEF MenuUninstall
<1>5. CASE Accept
  BY <1>5 DEF Accept, Closed
<1>6. CASE Promote
  BY <1>6 DEF Promote
<1>7. CASE UploadOp
  BY <1>7 DEF UploadOp
<1>8. CASE UploadEnd
  BY <1>8 DEF UploadEnd
<1>9. CASE Decline \/ UploadAbort \/ Linger \/ Prompt \/ PromptCancel \/ PowerToggle
  BY <1>9 DEF Decline, UploadAbort, Linger, Prompt, PromptCancel, PowerToggle
<1>10. CASE MenuExit \/ MenuKey
  BY <1>10 DEF MenuExit, MenuKey, Closed
<1>11. CASE WipeTest
  BY <1>11 DEF WipeTest, MayWipe
<1>12. CASE Wipe
  BY <1>12 DEF Wipe
<1>13. CASE DialogFrame \/ UploadFrame
  BY <1>13 DEF DialogFrame, UploadFrame
<1>14. CASE RunBegin
  BY <1>14 DEF RunBegin
<1>15. CASE RunWant
  BY <1>15 DEF RunWant
<1>16. CASE RunReinit
  BY <1>16 DEF RunReinit
<1>17. CASE RunFlushed \/ RunExit
  BY <1>17 DEF RunFlushed, RunExit
<1>18. CASE RunEnter
  BY <1>18 DEF RunEnter
<1>19. CASE RunClear
  BY <1>19 DEF RunClear
<1>20. CASE TickSlot
  BY <1>20 DEF TickSlot, LaunchHere
<1>21. CASE TickLauncher
  <2>1. CASE UNCHANGED <<request, overtaken>>
    BY <1>21, <2>1 DEF TickLauncher
  <2>2. ASSUME NEW s \in header, LaunchHere(s),
               overtaken' = (overtaken \/ up = "EXITING" \/ del # None)
        PROVE  WaitedInv'
    <3>1. ~overtaken' => ~overtaken /\ up # "EXITING" /\ del = None
      BY <2>2, Zenon
    <3>2. ready' = (ready \/ up = "EXITING")
      BY <1>21, Zenon DEF TickLauncher
    <3>3. ready' => up = "EXITING"
      BY <3>2, Zenon DEF Always
    <3>4. QED
      BY <1>21, <2>2, <3>1, <3>3 DEF TickLauncher, LaunchHere
  <2>3. QED
    BY <1>21, <2>1, <2>2, Zenon DEF TickLauncher
<1>22. CASE LaunchPending
  BY <1>22 DEF LaunchPending, Overtakes
<1>23. CASE LaunchReinit
  BY <1>23 DEF LaunchReinit
<1>24. CASE UNCHANGED vars
  BY <1>24 DEF vars
<1> HIDE DEF WaitedInv
<1>25. QED
  BY <1>1, <1>2, <1>3, <1>4, <1>5, <1>6, <1>7, <1>8, <1>9, <1>10, <1>11, <1>12, <1>13,
     <1>14, <1>15, <1>16, <1>17, <1>18, <1>19, <1>20, <1>21, <1>22, <1>23, <1>24, Zenon
     DEF Next, Core0, Frame, Uploading, LaunchStep

\* All of it together, from the first state on.
LEMMA WaitedFor == Spec => [](WaitedInv /\ Names)
<1>1. Init => WaitedInv /\ Flags /\ Names
  BY DEF Init, WaitedInv, Always, Waited, InFront, Wiping, Installing, Late, LoaderInv,
     LoadedInFront, Flags, Names
<1>2. WaitedInv /\ Flags /\ Names /\ [Next]_vars => WaitedInv'
  BY WaitedStep, LoaderStep DEF WaitedInv
<1>3. QED
  BY <1>1, <1>2, FlagsStep, NamesStep, PTL DEF Spec

\* Core 1 never calls an app's exit or tick in an image the flash no longer holds
\* (app_loader.c, app_sys.c, app_upload.c), for any set of slots and whatever comes from
\* outside, unless the install or the wipe was overtaken: by the 800 ms, or by a launch.
THEOREM NeverStale == Spec => []NoStaleCall
<1>1. WaitedInv => NoStaleCall
  BY DEF WaitedInv, Waited, NoStaleCall
<1>2. QED
  BY <1>1, WaitedFor, PTL

\* An install that was not overtaken reaches the flash only with every app left and the
\* launcher in front (app_upload_task's wait), and nothing brings an app back under it.
THEOREM InstallsAlone == Spec => []TornDown
<1>1. WaitedInv /\ Names => TornDown
  BY DEF WaitedInv, Waited, Installing, LoaderInv, LoadedInFront, Names, TornDown
<1>2. QED
  BY <1>1, WaitedFor, PTL
===============================================================================
