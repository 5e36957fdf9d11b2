------------------------------- MODULE AppRuntime -------------------------------
(***************************************************************************)
(* Core 1's app runtime (app/app.c) and slot loader (app/app_loader.c):    *)
(* which app is in the foreground and which slot's image is loaded, while  *)
(* core 0 launches apps, installs over a slot (app_upload.c) and wipes     *)
(* headers (app_sys.c).  Core 1 reads the shared variables one at a time;  *)
(* the flash changes only where core 1 goes through the trap: between      *)
(* frames, and where it spins for a save (FlashPark).                      *)
(***************************************************************************)
EXTENDS Naturals

CONSTANTS Slots,        \* slot bases
          Outside       \* what may come on top of installs and the menu: "launch" (a host
                        \* LAUNCH), "prompt" (the firmware-flash dialog), "off" (the LCD
                        \* On/Off key)

ASSUME SlotsAssumption == 0 \notin Slots
ASSUME OutsideAssumption == Outside \subseteq {"launch", "prompt", "off"}

None == 0

VARIABLES
  slotBase, slotPending, reinit,        \* app.c's launch request
  invalid,                              \* s_invalidate_base
  up, upSlot, ready,                    \* app_upload.c: state, slot, s_launcher_ready
  dlg,                                  \* the dialog: "none", "upload", "prompt"
  off,                                  \* now_lcd_off, the panel is switched off
  menu,                                 \* menu_view: "off", "open", "closing" (fading out), or
                                        \* on a page core 1 draws whatever the phase (LCD TEST,
                                        \* an editor): "page", "stuck" once told to close
  del,                                  \* header wipe in progress, a slot or None
  header,                               \* slots with an app header
  pc0,                                  \* core 0, inside app_launch_slot or a wipe
  cur, loaded,                          \* core 1: foreground app, g_loaded_base
  pc1, want,                            \* core 1, inside app_run
  dlgOn, upOn,                          \* core 1: overlay was on screen last frame
  \* history
  stale,                                \* the loaded image left the flash
  overtaken                             \* an install or a wipe was not waited for (Promote,
                                        \* Overtakes, TickLauncher), and core 1 has not
                                        \* settled in the launcher since

request == <<slotBase, slotPending, reinit>>
upload  == <<up, upSlot, ready>>
runtime == <<cur, loaded, stale, overtaken>>
frame   == <<pc1, want, dlgOn, upOn>>
vars == <<request, invalid, upload, dlg, off, menu, del, header, pc0, runtime, frame>>

Init ==
  /\ slotBase = None /\ slotPending = FALSE /\ reinit = FALSE
  /\ invalid = None
  /\ up = "IDLE" /\ upSlot = None /\ ready = FALSE
  /\ dlg = "none" /\ off = FALSE /\ menu = "off" /\ del = None
  /\ header \in SUBSET Slots
  /\ pc0 = "idle"
  /\ cur = "launcher" /\ loaded = None /\ stale = FALSE /\ overtaken = FALSE
  /\ pc1 = "idle" /\ want = "launcher" /\ dlgOn = FALSE /\ upOn = FALSE

\* menu_exit: the menu fades out, on core 1, if the page it shows lets it.
Closed == CASE menu = "off" -> "off"
            [] menu \in {"open", "closing"} -> "closing"
            [] menu \in {"page", "stuck"} -> "stuck"

(***************************************************************************)
(* Core 0.                                                                 *)
(***************************************************************************)

\* A launch by the host takes no notice of an install or a wipe that waits, nor of the
\* app in front.
Overtakes == cur = "slot" \/ up \in {"EXITING", "AUTH"} \/ del # None

\* A host LAUNCH closes the menu and calls app_launch_slot: base, then pending,
\* then the request to enter again.  The scan table may still list a wiped slot.
Launch(s) ==
  /\ "launch" \in Outside /\ pc0 = "idle"
  /\ menu' = Closed /\ slotBase' = s /\ pc0' = "pending"
  /\ overtaken' = (overtaken \/ Overtakes)
  /\ UNCHANGED <<off, slotPending, reinit, invalid, upload, dlg, del, header, cur, loaded, stale, frame>>

LaunchPending ==
  /\ pc0 = "pending"
  /\ slotPending' = TRUE /\ pc0' = "reinit"
  /\ overtaken' = (overtaken \/ Overtakes)
  /\ UNCHANGED <<off, slotBase, reinit, invalid, upload, dlg, menu, del, header, cur, loaded, stale, frame>>

LaunchReinit ==
  /\ pc0 = "reinit"
  /\ reinit' = TRUE /\ pc0' = "idle"
  /\ UNCHANGED <<off, slotBase, slotPending, invalid, upload, dlg, menu, del, header, runtime, frame>>

\* As a bug would have it: the slot to write is not recorded.
BeginForgetsSlot(s) ==
  /\ pc0 = "idle" /\ up = "IDLE" /\ dlg = "none"
  /\ up' = "PENDING" /\ dlg' = "upload"
  /\ UNCHANGED <<off, request, invalid, upSlot, ready, menu, del, header, pc0, runtime, frame>>

\* A host BEGIN for slot s: the confirmation dialog opens.
Begin(s) ==
  /\ pc0 = "idle" /\ up = "IDLE" /\ dlg = "none"
  /\ upSlot' = s /\ up' = "PENDING" /\ dlg' = "upload"
  /\ UNCHANGED <<off, request, invalid, ready, menu, del, header, pc0, runtime, frame>>

\* INSTALL: app_upload_accept sends core 1 back to the launcher and waits for it.
Accept ==
  /\ pc0 = "idle" /\ dlg = "upload"
  /\ dlg' = "none" /\ menu' = Closed
  /\ slotPending' = FALSE /\ ready' = FALSE /\ up' = "EXITING"
  /\ UNCHANGED <<off, slotBase, reinit, invalid, upSlot, del, header, pc0, runtime, frame>>

Decline ==
  /\ pc0 = "idle" /\ dlg = "upload"
  /\ dlg' = "none" /\ up' = "IDLE" /\ ready' = FALSE
  /\ UNCHANGED <<off, request, invalid, upSlot, menu, del, header, pc0, runtime, frame>>

Prompt ==
  /\ "prompt" \in Outside /\ pc0 = "idle" /\ dlg = "none"
  /\ dlg' = "prompt"
  /\ UNCHANGED <<off, request, invalid, upload, menu, del, header, pc0, runtime, frame>>

PromptCancel ==
  /\ pc0 = "idle" /\ dlg = "prompt"
  /\ dlg' = "none"
  /\ UNCHANGED <<off, request, invalid, upload, menu, del, header, pc0, runtime, frame>>

\* The LCD On/Off key.
PowerToggle ==
  /\ "off" \in Outside /\ pc0 = "idle"
  /\ off' = ~off
  /\ UNCHANGED <<request, invalid, upload, dlg, menu, del, header, pc0, runtime, frame>>

\* lcd_is_on: core 1 draws no frame on a panel switched off, but for a dialog.
Lit == ~off \/ dlg # "none"

\* As a bug would have it: the host is let go ahead as if the launcher were up.
PromoteAtOnce ==
  /\ pc0 = "idle" /\ up = "EXITING"
  /\ up' = "AUTH" /\ ready' = FALSE
  /\ UNCHANGED <<off, request, invalid, upSlot, dlg, menu, del, header, pc0, runtime, frame>>

\* app_upload_task: the launcher is up, or 800 ms have passed, wherever core 1 is.
Promote ==
  /\ pc0 = "idle" /\ up = "EXITING"
  /\ up' = "AUTH" /\ ready' = FALSE
  /\ overtaken' = (overtaken \/ ~ready)
  /\ UNCHANGED <<off, request, invalid, upSlot, dlg, menu, del, header, pc0, cur, loaded, stale, frame>>

\* Where core 1 can be parked, so where core 0's flash operations take place.
Parkable == pc1 \in {"idle", "flush"}

\* The host erases and programs the slot.
UploadOp ==
  /\ pc0 = "idle" /\ up = "AUTH" /\ Parkable
  /\ header' = header \ {upSlot}
  /\ stale' = (stale \/ loaded = upSlot)
  /\ UNCHANGED <<off, request, invalid, upload, dlg, menu, del, pc0, cur, loaded, overtaken, frame>>

\* END: back to the launcher, and the slot must be loaded afresh.
UploadEnd ==
  /\ pc0 = "idle" /\ up = "AUTH"
  /\ up' = "DONE" /\ header' = header \cup {upSlot}
  /\ slotPending' = FALSE /\ invalid' = upSlot
  /\ UNCHANGED <<off, slotBase, reinit, upSlot, ready, dlg, menu, del, pc0, runtime, frame>>

UploadAbort ==
  /\ pc0 = "idle" /\ up = "AUTH"
  /\ up' = "IDLE"
  /\ UNCHANGED <<off, request, invalid, upSlot, ready, dlg, menu, del, header, pc0, runtime, frame>>

\* The banner of a finished session goes away.
Linger ==
  /\ pc0 = "idle" /\ up = "DONE"
  /\ up' = "IDLE"
  /\ UNCHANGED <<off, request, invalid, upSlot, ready, dlg, menu, del, header, pc0, runtime, frame>>

\* The menu launches the app in focus, and fades out before core 1 acts on it.
MenuLaunch(s) ==
  /\ pc0 = "idle" /\ menu = "open" /\ dlg = "none" /\ del = None /\ s \in header
  /\ slotBase' = s /\ slotPending' = TRUE /\ reinit' = TRUE /\ menu' = "closing"
  /\ UNCHANGED <<off, invalid, upload, dlg, del, header, pc0, runtime, frame>>

\* The menu's UNINSTALL of the app in slot s: when it is the one that runs, core 1
\* is sent back to the launcher.
MenuUninstall(s) ==
  /\ pc0 = "idle" /\ menu = "open" /\ dlg = "none" /\ del = None /\ s \in header
  /\ del' = s
  /\ IF slotBase = s THEN slotPending' = FALSE /\ menu' = "closing"
                     ELSE UNCHANGED <<slotPending, menu>>
  /\ UNCHANGED <<off, slotBase, reinit, invalid, upload, dlg, header, pc0, runtime, frame>>

\* Esc or the idle timeout; the menu waits for an uninstall it started.
MenuExit ==
  /\ pc0 = "idle" /\ menu \in {"open", "page"} /\ del = None
  /\ menu' = Closed
  /\ UNCHANGED <<off, request, invalid, upload, dlg, del, header, pc0, runtime, frame>>

\* Keys lead to LCD TEST and back; a menu that is closing still takes them, and opens
\* an editor or LCD TEST, which Enter or Esc leaves.
MenuKey ==
  /\ pc0 = "idle" /\ dlg = "none"
  /\ \/ menu = "open" /\ menu' = "page"
     \/ menu = "page" /\ menu' = "open"
     \/ menu = "closing" /\ menu' = "stuck"
     \/ menu = "stuck" /\ menu' = "closing"
  /\ UNCHANGED <<off, request, invalid, upload, dlg, del, header, pc0, runtime, frame>>

\* As a bug would have it: a running app does not hold the wipe back.
MayWipeAlways == TRUE

\* As a bug would have it: the slot asked for last blocks even after its app was left.
MayWipeByBase == slotBase # del

\* app_delete_may_run, tested by every pass of the service.
MayWipe == cur # "slot" \/ slotBase # del

\* A pass of app_sys_service finds that the wipe may run ...
WipeTest ==
  /\ pc0 = "idle" /\ del # None /\ MayWipe
  /\ pc0' = "wipe"
  /\ UNCHANGED <<off, request, invalid, upload, dlg, menu, del, header, runtime, frame>>

\* ... and erases the header sector once core 1 is parked.
Wipe ==
  /\ pc0 = "wipe" /\ Parkable
  /\ header' = header \ {del} /\ del' = None /\ pc0' = "idle"
  /\ stale' = (stale \/ loaded = del)
  /\ UNCHANGED <<off, request, invalid, upload, dlg, menu, cur, loaded, overtaken, frame>>

(***************************************************************************)
(* Core 1: display_task_user, then app_run.                                *)
(***************************************************************************)

\* A dialog has the frame to itself; the frame after it asks for a re-entry.
DialogFrame ==
  /\ pc1 = "idle" /\ Lit
  /\ dlgOn' = (dlg # "none")
  /\ \/ dlg # "none" /\ UNCHANGED reinit
     \/ dlg = "none" /\ dlgOn /\ reinit' = TRUE
  /\ UNCHANGED <<off, slotBase, slotPending, invalid, upload, dlg, menu, del, header, pc0,
                 runtime, pc1, want, upOn>>

\* So does the upload screen, from AUTH on.
UploadFrame ==
  /\ pc1 = "idle" /\ Lit /\ dlg = "none" /\ ~dlgOn /\ up # "EXITING"
  /\ upOn' = (up \in {"AUTH", "DONE"})
  /\ \/ up \in {"AUTH", "DONE"} /\ UNCHANGED reinit
     \/ up \notin {"AUTH", "DONE"} /\ upOn /\ reinit' = TRUE
  /\ UNCHANGED <<off, slotBase, slotPending, invalid, upload, dlg, menu, del, header, pc0,
                 runtime, pc1, want, dlgOn>>

\* app_run goes ahead, unless the menu has the frame; in EXITING the upload screen is
\* drawn after it.  (LCD TEST and the editors are drawn before the phase is looked at.)
RunBegin ==
  /\ pc1 = "idle" /\ Lit /\ dlg = "none" /\ ~dlgOn
  /\ up = "EXITING" \/ (up \notin {"AUTH", "DONE"} /\ ~upOn)
  /\ upOn' = (up = "EXITING")
  /\ IF menu = "off" THEN pc1' = "want" /\ UNCHANGED menu
     ELSE UNCHANGED pc1 /\ menu' \in IF menu = "closing" THEN {"closing", "off"} ELSE {menu}
  /\ UNCHANGED <<off, request, invalid, upload, dlg, del, header, pc0, runtime, want, dlgOn>>

RunWant ==
  /\ pc1 = "want"
  /\ want' = IF slotPending THEN "slot" ELSE "launcher"
  /\ pc1' = "reinit"
  /\ UNCHANGED <<off, request, invalid, upload, dlg, menu, del, header, pc0, runtime, dlgOn, upOn>>

\* As a bug would have it: only a re-entry that was asked for is made.
RunReinitAsked ==
  /\ pc1 = "reinit"
  /\ pc1' = IF ~reinit THEN "clear" ELSE IF cur = "slot" THEN "flush" ELSE "enter"
  /\ UNCHANGED <<off, request, invalid, upload, dlg, menu, del, header, pc0, runtime, want, dlgOn, upOn>>

\* Switching, or entering the same app again, starts by leaving a slot app.
RunReinit ==
  /\ pc1 = "reinit"
  /\ pc1' = IF want = cur /\ ~reinit THEN "clear"
            ELSE IF cur = "slot" THEN "flush" ELSE "enter"
  /\ UNCHANGED <<off, request, invalid, upload, dlg, menu, del, header, pc0, runtime, want, dlgOn, upOn>>

\* app_slot_flush_pending_save is through with its save.
RunFlushed ==
  /\ pc1 = "flush"
  /\ pc1' = "exit"
  /\ UNCHANGED <<off, request, invalid, upload, dlg, menu, del, header, pc0, runtime, want, dlgOn, upOn>>

\* As a bug would have it: the image counts as loaded after it was left.
RunExitKeepsLoaded ==
  /\ pc1 = "exit"
  /\ pc1' = "enter"
  /\ UNCHANGED <<off, request, invalid, upload, dlg, menu, del, header, pc0, runtime, want, dlgOn, upOn>>

\* slot_exit calls the app's exit and forgets the image.
RunExit ==
  /\ pc1 = "exit"
  /\ loaded' = None /\ stale' = FALSE
  /\ pc1' = "enter"
  /\ UNCHANGED <<off, request, invalid, upload, dlg, menu, del, header, pc0, cur, overtaken, want,
                 dlgOn, upOn>>

\* cur = want; slot_enter loads the base requested now, if its header is there.
RunEnter ==
  /\ pc1 = "enter"
  /\ cur' = want
  /\ overtaken' = (overtaken /\ (want = "slot" \/ slotPending \/ pc0 # "idle"))
  /\ IF want = "slot"
       THEN /\ invalid' = IF invalid = slotBase THEN None ELSE invalid
            /\ IF slotBase # loaded \/ invalid = slotBase
                 THEN /\ loaded' = IF slotBase \in header THEN slotBase ELSE None
                      /\ stale' = FALSE
                 ELSE UNCHANGED <<loaded, stale>>
       ELSE UNCHANGED <<invalid, loaded, stale>>
  /\ pc1' = "clear"
  /\ UNCHANGED <<off, request, upload, dlg, menu, del, header, pc0, want, dlgOn, upOn>>

RunClear ==
  /\ pc1 = "clear"
  /\ reinit' = FALSE
  /\ pc1' = "tick"
  /\ UNCHANGED <<off, slotBase, slotPending, invalid, upload, dlg, menu, del, header, pc0,
                 runtime, want, dlgOn, upOn>>

\* app_launch_slot, on core 1 itself.
LaunchHere(s) == slotBase' = s /\ slotPending' = TRUE /\ reinit' = TRUE

\* The slot app's tick: it may go home, launch another app, open the menu, or wipe
\* a header (SETTINGS; its own only after going home) and then wait for that.
TickSlot ==
  /\ pc1 = "tick" /\ cur = "slot"
  /\ \/ UNCHANGED <<request, menu, del>>
     \/ /\ loaded # None /\ del = None
        /\ \/ slotPending' = FALSE /\ UNCHANGED <<slotBase, reinit, menu, del>>
           \/ (\E s \in header : LaunchHere(s)) /\ UNCHANGED <<menu, del>>
           \/ menu' = "open" /\ UNCHANGED <<request, del>>
           \/ /\ \E s \in header : /\ del' = s
                                   /\ slotPending' = (slotPending /\ s # loaded)
              /\ UNCHANGED <<slotBase, reinit, menu>>
  /\ pc1' = "idle"
  /\ UNCHANGED <<off, invalid, upload, dlg, header, pc0, runtime, want, dlgOn, upOn>>

\* The launcher's tick may launch the app in focus, also while an install or a wipe
\* waits; then app_run tells a waiting upload that the launcher is on screen.
TickLauncher ==
  /\ pc1 = "tick" /\ cur = "launcher"
  /\ \/ UNCHANGED <<request, overtaken>>
     \/ /\ \E s \in header : LaunchHere(s)
        /\ overtaken' = (overtaken \/ up = "EXITING" \/ del # None)
  /\ ready' = (ready \/ up = "EXITING")
  /\ pc1' = "idle"
  /\ UNCHANGED <<off, invalid, up, upSlot, dlg, menu, del, header, pc0, cur, loaded, stale, want,
                 dlgOn, upOn>>

LaunchStep == LaunchPending \/ LaunchReinit
Uploading  == Accept \/ Decline \/ Promote \/ UploadOp \/ UploadEnd
              \/ UploadAbort \/ Linger
Core0 == \/ \E s \in Slots : Launch(s) \/ Begin(s) \/ MenuLaunch(s) \/ MenuUninstall(s)
         \/ LaunchStep \/ Uploading \/ Prompt \/ PromptCancel \/ PowerToggle
         \/ MenuExit \/ MenuKey \/ WipeTest \/ Wipe
Frame == \/ DialogFrame \/ UploadFrame \/ RunBegin \/ RunWant \/ RunReinit \/ RunFlushed
         \/ RunExit \/ RunEnter \/ RunClear \/ TickSlot \/ TickLauncher

Next == Core0 \/ Frame

Spec == Init /\ [][Next]_vars

\* Both cores run: core 1 draws frames, a menu that is fading out ends, and the dialogs
\* that hosts and users open leave it frames of the other kinds; core 0 finishes a
\* launch, its dialogs time out, and housekeeping promotes, wipes and drops the banner.
\* Nothing else is assumed of the host, and nothing of the keys: a menu may stay open,
\* or on a page that keeps it up.
Fairness ==
  /\ WF_vars(Frame) /\ SF_vars(DialogFrame /\ dlg = "none") /\ SF_vars(UploadFrame)
  /\ SF_vars(RunBegin /\ menu' = "off")
  /\ WF_vars(LaunchStep) /\ WF_vars(Accept \/ Decline) /\ WF_vars(PromptCancel)
  /\ WF_vars(Promote) /\ SF_vars(WipeTest) /\ SF_vars(Wipe) /\ WF_vars(Linger)

FairSpec == Spec /\ Fairness
-------------------------------------------------------------------------------
\* The type invariant: header only ever names slots, a wipe and an install always
\* name one.
TypeOK ==
  /\ slotBase \in Slots \cup {None} /\ slotPending \in BOOLEAN /\ reinit \in BOOLEAN
  /\ invalid \in Slots \cup {None}
  /\ up \in {"IDLE", "PENDING", "EXITING", "AUTH", "DONE"} /\ upSlot \in Slots \cup {None}
  /\ ready \in BOOLEAN
  /\ dlg \in {"none", "upload", "prompt"} /\ off \in BOOLEAN
  /\ menu \in {"off", "open", "page", "closing", "stuck"}
  /\ del \in Slots \cup {None} /\ header \subseteq Slots
  /\ pc0 \in {"idle", "pending", "reinit", "wipe"}
  /\ pc0 = "wipe" => del # None
  /\ cur \in {"launcher", "slot"} /\ loaded \in Slots \cup {None}
  /\ pc1 \in {"idle", "want", "reinit", "flush", "exit", "enter", "clear", "tick"}
  /\ want \in {"launcher", "slot"} /\ dlgOn \in BOOLEAN /\ upOn \in BOOLEAN
  /\ stale \in BOOLEAN /\ overtaken \in BOOLEAN

\* Core 1 does not call into an image the flash no longer holds: neither an app's exit
\* nor its tick runs after its slot was wiped or written over, unless the install or the
\* wipe was overtaken: the 800 ms let an install go ahead before core 1 was back in the
\* launcher (app_upload.c:320), an app was launched while one waited, or the host
\* launched over the app in front.
NoStaleCall ==
  (pc1 = "exit" \/ (pc1 = "tick" /\ cur = "slot")) /\ ~overtaken => ~stale

\* app_upload.h:29, "slot app tearing down before flash": an install that was not
\* overtaken touches the flash only with every app left and the launcher in front, for
\* as long as it lasts.
TornDown == up = "AUTH" /\ ~overtaken => loaded = None /\ cur = "launcher"

\* The same of every install.  It is not so: a menu kept up on LCD TEST, or opened by a
\* tick that met the INSTALL, or a dark panel, keeps app_run from leaving the app.
AlwaysTornDown == up = "AUTH" => loaded = None /\ cur = "launcher"

\* An image is loaded only for the app in the foreground.
LoadedInFront == loaded # None => cur = "slot"

\* Going home works: an app that was sent home leaves the foreground, unless another
\* launch or an install comes between, or core 1 is kept from app_run: by a menu that is
\* up (open, or told to close on a page that keeps it), or a panel switched off.
GoesHome ==
  (~slotPending /\ cur = "slot")
    ~> \/ cur = "launcher" \/ slotPending
       \/ up = "AUTH" \/ menu \in {"open", "page", "stuck"} \/ off

\* app_sys.c:128-135, a wipe waits for a running app to leave its slot and is then
\* done, unless that app is launched again first, or still in front because an install
\* has the screen, a page keeps the menu up, or the panel was switched off.
WipeEnds ==
  (del # None)
    ~> \/ del = None
       \/ /\ cur = "slot" /\ slotBase = del
          /\ slotPending \/ up = "AUTH" \/ menu = "stuck" \/ off
===============================================================================
