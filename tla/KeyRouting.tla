------------------------------- MODULE KeyRouting -------------------------------
(***************************************************************************)
(* Who gets a key (user_function.c): the USB host, a modal dialog, the OS  *)
(* menu or the running app; what the host is told is held; and SOCD ("snap *)
(* tap"), which lets go of the opposite direction while a newer one is     *)
(* held.  All of it runs on core 0; only the menu's fade-out is core 1's.  *)
(***************************************************************************)
CONSTANTS Plain,        \* ordinary keys
          Socd,         \* SOCD keys: ST(W), ST(A), ST(S), ST(D)
          Opposite      \* SOCD_KEY: the other key of each one's group

Keys == Plain \cup Socd

ASSUME SocdAssumption ==
  /\ Plain \cap Socd = {}
  /\ Opposite \in [Socd -> Socd]
  /\ \A k \in Socd : Opposite[k] # k /\ Opposite[Opposite[k]] = k

VARIABLES
  down,      \* keys held down
  report,    \* keys the host is told are held
  socd,      \* socd_key_state
  mode,      \* app_input_mode()
  dlg,       \* a dialog is up: "yes" or "no"
  menu,      \* menu_view: "off", "open", "closing"
  calm       \* history: "yes" when the keys have gone to the host alone since the
             \* SOCD keys were last all up and forgotten

vars == <<down, report, socd, mode, dlg, menu, calm>>

Init == /\ down = {} /\ report = {} /\ socd = {}
        /\ mode = "KEYBOARD" /\ dlg = "no" /\ menu = "off" /\ calm = "yes"

\* menu_exit.
Closed == IF menu = "off" THEN "off" ELSE "closing"

\* clear_keyboard; app_input_release_all as far as the host is concerned.
Clear == report' = {} /\ calm' = "no"

\* dialog_fire: Enter, Esc or the timeout; INSTALL closes the menu too.
Fire == dlg' = "no" /\ Clear /\ menu' \in {menu, Closed}

(***************************************************************************)
(* A key that process_record_user leaves to QMK goes to the host; one of   *)
(* the SOCD keys through post_process_record_user, which a menu mutes.     *)
(***************************************************************************)

\* As a bug would have it: the opposite direction stays down.
HostPressBoth(k) ==
  IF k \in Plain THEN report' = report \cup {k} /\ UNCHANGED <<socd, calm>>
  ELSE IF menu # "off" THEN calm' = "no" /\ UNCHANGED <<report, socd>>
  ELSE socd' = socd \cup {k} /\ report' = report \cup {k} /\ UNCHANGED calm

\* As a bug would have it: every key is tracked.
HostPressTracksAll(k) ==
  /\ socd' = socd \cup {k} /\ report' = report \cup {k} /\ UNCHANGED calm

HostPress(k) ==
  IF k \in Plain THEN report' = report \cup {k} /\ UNCHANGED <<socd, calm>>
  ELSE IF menu # "off" THEN calm' = "no" /\ UNCHANGED <<report, socd>>
  ELSE /\ socd' = socd \cup {k}
       /\ report' = (report \ ({Opposite[k]} \cap socd)) \cup {k}
       /\ UNCHANGED calm

\* As a bug would have it: the opposite direction comes back whether held or not.
HostReleaseBack(k) ==
  IF k \in Plain THEN report' = report \ {k} /\ UNCHANGED <<socd, calm>>
  ELSE IF menu # "off" THEN calm' = "no" /\ UNCHANGED <<report, socd>>
  ELSE /\ socd' = socd \ {k}
       /\ report' = (report \ {k}) \cup {Opposite[k]}
       /\ UNCHANGED calm

\* As a bug would have it: the direction held longer is forgotten.
HostReleaseOnly(k) ==
  IF k \in Plain THEN report' = report \ {k} /\ UNCHANGED <<socd, calm>>
  ELSE IF menu # "off" THEN calm' = "no" /\ UNCHANGED <<report, socd>>
  ELSE /\ socd' = socd \ {k} /\ report' = report \ {k}
       /\ UNCHANGED calm

HostRelease(k) ==
  IF k \in Plain THEN report' = report \ {k} /\ UNCHANGED <<socd, calm>>
  ELSE IF menu # "off" THEN calm' = "no" /\ UNCHANGED <<report, socd>>
  ELSE /\ socd' = socd \ {k}
       /\ report' = (report \ {k}) \cup ({Opposite[k]} \cap socd)
       /\ UNCHANGED calm

\* Swallowed by a dialog, the menu or the ring of AppInput.
Swallow(k) == calm' = (IF k \in Socd THEN "no" ELSE calm) /\ UNCHANGED <<report, socd>>

ToDialog == dlg = "yes"
ToMenu   == dlg = "no" /\ menu # "off" /\ mode = "OS"
ToApp    == dlg = "no" /\ menu = "off" /\ mode = "OS"
ToHost   == dlg = "no" /\ mode = "KEYBOARD"

\* A key goes down.  A dialog or the menu may act on it and close.
Press(k) ==
  /\ k \in Keys \ down
  /\ down' = down \cup {k}
  /\ \/ /\ ToDialog
        /\ \/ k \in Plain /\ Fire /\ UNCHANGED socd
           \/ Swallow(k) /\ UNCHANGED <<dlg, menu>>
     \/ /\ ToMenu
        /\ Swallow(k) /\ menu' \in (IF k \in Plain THEN {menu, Closed} ELSE {menu})
        /\ UNCHANGED dlg
     \/ ToApp /\ Swallow(k) /\ UNCHANGED <<dlg, menu>>
     \/ ToHost /\ HostPress(k) /\ UNCHANGED <<dlg, menu>>
  /\ UNCHANGED mode

Release(k) ==
  /\ k \in down
  /\ down' = down \ {k}
  /\ IF ToHost THEN HostRelease(k) ELSE Swallow(k)
  /\ UNCHANGED <<mode, dlg, menu>>

\* app_input_set_mode: the gif key, a mode an app asked for, the idle timeout, MODE.
SetMode(m) ==
  /\ m # mode
  /\ mode' = m /\ Clear
  /\ UNCHANGED <<down, socd, dlg, menu>>

\* As a bug would have it: a dialog comes up over keys the host still holds.
OpenDialogOnly ==
  /\ dlg' = "yes" /\ calm' = "no"
  /\ UNCHANGED <<down, report, socd, mode, menu>>

\* BEGIN and FLASH from the host: dialog_open.
OpenDialog ==
  /\ dlg' = "yes" /\ Clear
  /\ UNCHANGED <<down, socd, mode, menu>>

\* dialog_task: the countdown ends.
Timeout ==
  /\ dlg = "yes" /\ Fire
  /\ UNCHANGED <<down, socd, mode>>

\* CAPTURE, the first operation of an upload, LAUNCH and the LShift+RShift commands.
ReleaseAll ==
  /\ Clear /\ menu' \in {menu, Closed}
  /\ UNCHANGED <<down, socd, mode, dlg>>

\* menu_service: an app has asked for the menu.
OpenMenu ==
  /\ menu' = "open"
  /\ UNCHANGED <<down, report, socd, mode, dlg, calm>>

\* menu_housekeeping_task closes an idle menu ...
MenuIdle ==
  /\ menu = "open" /\ dlg = "no"
  /\ menu' = "closing"
  /\ UNCHANGED <<down, report, socd, mode, dlg, calm>>

\* ... and core 1 ends its fade-out.
MenuGone ==
  /\ menu = "closing"
  /\ menu' = "off"
  /\ UNCHANGED <<down, report, socd, mode, dlg, calm>>

\* History: with every SOCD key up and forgotten, what went before is settled.
Settle ==
  /\ calm = "no" /\ down \cap Socd = {} /\ socd = {}
  /\ calm' = "yes"
  /\ UNCHANGED <<down, report, socd, mode, dlg, menu>>

Next == \/ \E k \in Keys : Press(k) \/ Release(k)
        \/ \E m \in {"KEYBOARD", "OS"} : SetMode(m)
        \/ OpenDialog \/ Timeout \/ ReleaseAll
        \/ OpenMenu \/ MenuIdle \/ MenuGone
        \/ Settle

Spec == Init /\ [][Next]_vars
-------------------------------------------------------------------------------
\* The type invariant: only SOCD keys are tracked.
TypeOK ==
  /\ down \subseteq Keys /\ report \subseteq Keys /\ socd \subseteq Socd
  /\ mode \in {"KEYBOARD", "OS"} /\ dlg \in {"yes", "no"}
  /\ menu \in {"off", "open", "closing"} /\ calm \in {"yes", "no"}

\* No ordinary key sticks: whatever took the keyboard between its press and its
\* release, the host is not left holding it (process_record_user swallows releases;
\* every change of consumer has to clear the report).
PlainHeld == report \cap Plain \subseteq down

\* The host never holds two opposite directions, stale state or not
\* (post_process_record_user).
OneDirection == \A k \in Socd \cap report : Opposite[k] \notin report

\* While nothing else takes the keys, the host holds a direction of a pair as long
\* as one is held: letting the newer one go brings the older one back.
HeldIsSeen ==
  calm = "yes" => \A k \in Socd : (k \in down \/ Opposite[k] \in down) =>
                                    (k \in report \/ Opposite[k] \in report)

\* The host is only ever told to press keys that are down, as long as none of the events
\* of a direction went elsewhere (post_process_record_user): what a release brings back
\* is still held.
PressesHeld == [][(calm = "yes" /\ calm' = "yes") => report' \ report \subseteq down']_vars
================================================================================
