---------------------------------- MODULE Panel ----------------------------------
(***************************************************************************)
(* The panel's power (c1_display.c): a manual switch, idle sleep and USB   *)
(* sleep decide on core 0 whether it is lit; a dialog or the upload screen *)
(* wakes it from core 1 and puts it back.  Both cores run lcd_switch, which *)
(* takes 200 ms to light the panel and 130 ms to cut its power, and which  *)
(* has no lock: one core may begin inside the other's.                     *)
(***************************************************************************)
EXTENDS Naturals

CONSTANTS Limit,     \* lcd_sleep_timeout_ticks
          Grace,     \* the 2500 ms of lcd_idle_on_wake, in ticks
          Period,    \* timer_read32 wraps
          Bus        \* states of the USB device that events report

ASSUME PanelAssumption ==
  /\ Limit \in Nat \ {0, 1} /\ Grace \in Nat \ {0} /\ Period \in Nat
  /\ Grace < Period
  /\ "CONFIGURED" \in Bus /\ Bus \subseteq {"CONFIGURED", "SUSPEND", "INIT"}

Overlays == {"dialog", "upload"}
Hardware == {"rail", "backlight", "gfx"}
Cores    == {"core0", "core1"}

VARIABLES
  dark,      \* why it is dark: "manual" now_lcd_off, "idle" lcd_idle_off, "usb" lcd_usb_off
  hw,        \* what is on: GP17, the backlight, the compositor (not lcd_gfx_frozen)
  holdoff,   \* lcd_bl_holdoff: "yes" or "no"
  sw,        \* where each core is in lcd_switch, or "idle"
  pc0,       \* where core 0 is in a pass of the main loop
  idle,      \* kb_idle_timer, up to Limit
  now,       \* timer_read32
  grace,     \* lcd_idle_wake_grace_until
  usb,       \* configure_state
  up,        \* overlays to be shown: dialog_is_active, an upload's states
  on,        \* overlays core 1 has entered
  resume,    \* their resume_idle
  menu,      \* menu_view: "off", "open", "closing"
  crossed    \* history: of the last two lcd_switch one began inside the other

core0 == <<pc0, idle, now, grace, usb>>
view1 == <<on, resume>>
vars  == <<dark, hw, holdoff, sw, core0, up, view1, menu, crossed>>

Init == /\ dark = {} /\ hw = Hardware /\ holdoff = "no"
        /\ sw = [c \in Cores |-> "idle"]
        /\ pc0 = "scan" /\ idle = 0 /\ now = 0 /\ grace = 0 /\ usb = "CONFIGURED"
        /\ up = {} /\ on = {} /\ resume = {}
        /\ menu = "off" /\ crossed = FALSE

(***************************************************************************)
(* lcd_switch, step by step between its waits.                             *)
(***************************************************************************)

\* lcd_present_black: the backlight comes on with the first black frame.
PresentBlack ==
  /\ hw' = (IF holdoff = "yes" THEN hw \cup {"backlight"} ELSE hw)
  /\ holdoff' = "no"

At(c, from, to) == sw[c] = from /\ sw' = [sw EXCEPT ![c] = to]

SwitchOn(c) ==
  \/ At(c, "on1", "on2") /\ hw' = hw \cup {"rail"} /\ UNCHANGED holdoff
  \/ At(c, "on2", "on3") /\ holdoff' = "yes" /\ UNCHANGED hw
  \/ At(c, "on3", "on4") /\ PresentBlack
  \/ At(c, "on4", "idle") /\ hw' = hw \cup {"gfx"} /\ UNCHANGED holdoff

\* lcd_panel_apply_hard_off, lcd_panel_powerdown.
SwitchOff(c) ==
  \/ At(c, "off1", "off2") /\ hw' = hw \ {"gfx", "backlight"} /\ holdoff' = "no"
  \/ At(c, "off2", "off3") /\ PresentBlack
  \/ At(c, "off3", "idle") /\ hw' = hw \ {"rail"} /\ UNCHANGED holdoff

Switch(c) == /\ SwitchOn(c) \/ SwitchOff(c)
             /\ UNCHANGED <<dark, core0, up, view1, menu, crossed>>

\* A core starts lcd_switch, wherever the other one is, or goes on without it.
Begin(c, how) ==
  /\ sw' = [sw EXCEPT ![c] = how]
  /\ crossed' = (\E d \in Cores : sw[d] # "idle")
  /\ UNCHANGED holdoff

Start(c, how) == Begin(c, how) /\ UNCHANGED hw
NoSwitch      == UNCHANGED <<sw, hw, holdoff, crossed>>
BacklightOff  == hw' = hw \ {"backlight"} /\ UNCHANGED <<sw, holdoff, crossed>>

(***************************************************************************)
(* Core 0: matrix scan, idle policy, keys and tasks, USB events, and again. *)
(***************************************************************************)
Pass(from, to) == sw["core0"] = "idle" /\ pc0 = from /\ pc0' = to

\* lcd_usb_sleep_enter.
UsbEnter ==
  IF dark \cap {"manual", "usb"} # {} THEN BacklightOff /\ UNCHANGED dark
  ELSE /\ dark' = dark \cup {"usb"}
       /\ IF "idle" \in dark THEN BacklightOff ELSE Start("core0", "off1")

\* As a bug would have it: the manual switch is forgotten.
UsbLeaveAlways ==
  IF "usb" \notin dark THEN NoSwitch /\ UNCHANGED dark
  ELSE /\ dark' = dark \ {"usb"}
       /\ IF "idle" \in dark THEN BacklightOff ELSE Start("core0", "on1")

\* As a bug would have it: the rail is left as it is.
UsbLeaveRail ==
  IF "usb" \notin dark THEN NoSwitch /\ UNCHANGED dark
  ELSE /\ dark' = dark \ {"usb"}
       /\ hw' = (IF dark' = {} THEN hw \cup {"backlight", "gfx"} ELSE hw)
       /\ UNCHANGED <<sw, holdoff, crossed>>

\* lcd_usb_sleep_leave.
UsbLeave ==
  IF "usb" \notin dark THEN NoSwitch /\ UNCHANGED dark
  ELSE /\ dark' = dark \ {"usb"}
       /\ IF dark \cap {"manual", "idle"} # {} THEN BacklightOff
          ELSE Start("core0", "on1")

LcdIsOn == dark = {} \/ "dialog" \in up

\* Half a second is longer than a switch of the panel, a frame and a pass.
Shown(o) == o \in up <=> o \in on
Settled  == /\ sw["core1"] = "idle"
            /\ LcdIsOn => Shown("dialog") /\ ("dialog" \in up \/ Shown("upload"))

\* matrix_scan: a key that is down clears the idle timer, a half second counts.
Scan(key, tick) ==
  /\ Pass("scan", "poll") /\ NoSwitch
  /\ tick => Settled
  /\ now' = (IF tick THEN (now + 1) % Period ELSE now)
  /\ idle' = (IF key THEN 0 ELSE IF tick /\ idle < Limit THEN idle + 1 ELSE idle)
  /\ UNCHANGED <<dark, grace, usb, up, view1, menu>>

\* As a bug would have it: a panel that sleeps is left alone.
PollBlockedAsleep == dark # {} \/ "dialog" \in up \/ menu # "off"

\* lcd_idle_poll_core0: who else decides.
PollBlocked == dark \cap {"manual", "usb"} # {} \/ "dialog" \in up \/ menu # "off"

PollSkip == PollBlocked /\ NoSwitch /\ UNCHANGED <<dark, grace, idle>>

\* As a bug would have it: a deadline that does not wrap.
PollWakeUnwrapped ==
  /\ ~PollBlocked /\ "idle" \in dark /\ idle < Limit
  /\ dark' = dark \ {"idle"} /\ idle' = 0 /\ grace' = now + Grace
  /\ Begin("core0", "on1") /\ hw' = hw \ {"backlight"}

\* A key has been pressed: lcd_idle_on_wake, and light.
PollWake ==
  /\ ~PollBlocked /\ "idle" \in dark /\ idle < Limit
  /\ dark' = dark \ {"idle"} /\ idle' = 0 /\ grace' = (now + Grace) % Period
  /\ Begin("core0", "on1") /\ hw' = hw \ {"backlight"}

PollAsleep ==
  /\ ~PollBlocked /\ "idle" \in dark /\ idle >= Limit
  /\ BacklightOff /\ UNCHANGED <<dark, grace, idle>>

\* As a bug would have it: a deadline that is the clock's last value never passes.
PollAwakeAfter ==
  /\ ~PollBlocked /\ "idle" \notin dark
  /\ IF now > grace /\ idle >= Limit
     THEN dark' = dark \cup {"idle"} /\ Start("core0", "off1")
     ELSE NoSwitch /\ UNCHANGED dark
  /\ UNCHANGED <<grace, idle>>

PollAwake ==
  /\ ~PollBlocked /\ "idle" \notin dark
  /\ IF now >= grace /\ idle >= Limit
     THEN dark' = dark \cup {"idle"} /\ Start("core0", "off1")
     ELSE NoSwitch /\ UNCHANGED dark
  /\ UNCHANGED <<grace, idle>>

\* hook_keyboard_loop: the idle policy, then the bus.
Poll == /\ Pass("poll", "hook")
        /\ PollSkip \/ PollWake \/ PollAsleep \/ PollAwake
        /\ UNCHANGED <<now, usb, up, view1, menu>>

Hook == /\ Pass("hook", "task")
        /\ IF usb = "SUSPEND" THEN UsbEnter ELSE NoSwitch /\ UNCHANGED dark
        /\ UNCHANGED <<idle, now, grace, usb, up, view1, menu>>

\* The tasks of a pass, any number of them, until the next scan.
Task    == Pass("task", "task") /\ UNCHANGED <<idle, now, grace, view1>>
EndPass == Pass("task", "scan") /\ NoSwitch
           /\ UNCHANGED <<dark, idle, now, grace, usb, up, view1, menu>>

\* notify_usb_device_state_change_user, from the event queue.
UsbEvent(state) ==
  /\ Task /\ usb' = state
  /\ IF state = "CONFIGURED" THEN UsbLeave ELSE UsbEnter
  /\ UNCHANGED <<up, menu>>

\* display_power_toggle: a key, so the timer has just been cleared.
Toggle ==
  /\ Task /\ idle = 0 /\ UNCHANGED <<usb, up, menu>>
  /\ IF "manual" \in dark THEN dark' = dark \ {"manual"} /\ Start("core0", "on1")
     ELSE dark' = dark \cup {"manual"} /\ Start("core0", "off1")

\* The host asks for a dialog; a key or the countdown ends it, and an upload may
\* start; an upload ends, or one is aborted.
OpenDialog ==
  /\ Task /\ "dialog" \notin up
  /\ up' = up \cup {"dialog"} /\ NoSwitch /\ UNCHANGED <<dark, usb, menu>>

CloseDialog ==
  /\ Task /\ "dialog" \in up
  /\ up' \in {up \ {"dialog"}, (up \ {"dialog"}) \cup {"upload"}}
  /\ up' # up \ {"dialog"} => idle = 0
  /\ NoSwitch /\ UNCHANGED <<dark, usb, menu>>

EndUpload ==
  /\ Task /\ "upload" \in up
  /\ up' = up \ {"upload"} /\ NoSwitch /\ UNCHANGED <<dark, usb, menu>>

\* menu_service, when the app on screen answers a key with the menu;
\* menu_housekeeping_task, a key or a launch closes it.
OpenMenu ==
  /\ Task /\ menu = "off" /\ idle = 0 /\ dark = {}
  /\ menu' = "open" /\ NoSwitch /\ UNCHANGED <<dark, usb, up>>

CloseMenu ==
  /\ Task /\ menu = "open"
  /\ menu' = "closing" /\ NoSwitch /\ UNCHANGED <<dark, usb, up>>

Core0 == \/ \E key, tick \in BOOLEAN : Scan(key, tick)
         \/ Poll \/ Hook \/ EndPass
         \/ \E state \in Bus : UsbEvent(state)
         \/ Toggle \/ OpenDialog \/ CloseDialog \/ EndUpload
         \/ OpenMenu \/ CloseMenu

(***************************************************************************)
(* Core 1: a frame of display_task_user.                                   *)
(***************************************************************************)
Frame == /\ sw["core1"] = "idle" /\ LcdIsOn
         /\ UNCHANGED <<core0, up>>

\* The overlay whose turn it is.
Turn(o) == o = "dialog" \/ (o = "upload" /\ "dialog" \notin up \cup on)

\* Its first frame: lcd_panel_wake_for_overlay, if the panel is dark.
EnterOverlay(o) ==
  /\ Frame /\ Turn(o) /\ o \in up \ on
  /\ on' = on \cup {o}
  /\ IF dark = {} THEN NoSwitch /\ UNCHANGED <<dark, resume>>
     ELSE /\ resume' = (IF "idle" \in dark /\ "manual" \notin dark
                        THEN resume \cup {o} ELSE resume \ {o})
          /\ dark' = dark \ {"idle", "usb"} /\ Start("core1", "on1")
  /\ UNCHANGED menu

\* The frame after its last: lcd_panel_restore_after_overlay.
LeaveOverlay(o) ==
  /\ Frame /\ Turn(o) /\ o \in on \ up
  /\ on' = on \ {o} /\ resume' = resume \ {o}
  /\ IF "manual" \in dark THEN Start("core1", "off1") /\ UNCHANGED dark
     ELSE IF o \in resume THEN dark' = dark \cup {"idle"} /\ Start("core1", "off1")
     ELSE NoSwitch /\ UNCHANGED dark
  /\ UNCHANGED menu

\* app_run: the menu's fade-out ends.
MenuGone ==
  /\ Frame /\ up = {} /\ on = {} /\ dark = {} /\ "gfx" \in hw
  /\ menu = "closing" /\ menu' = "off"
  /\ NoSwitch /\ UNCHANGED <<dark, view1>>

Core1 == MenuGone \/ \E o \in Overlays : EnterOverlay(o) \/ LeaveOverlay(o)

Next == Core0 \/ Core1 \/ \E c \in Cores : Switch(c)

(***************************************************************************)
(* Both cores run, lcd_switch ends, and half seconds pass.  Nobody has to  *)
(* press a key, and no dialog, upload or menu has to end.                  *)
(***************************************************************************)
Fairness ==
  /\ \A from \in {"scan", "poll", "hook", "task"} :
       WF_vars(Core0 /\ pc0 = from /\ pc0' # from)
  /\ SF_vars(\E key \in BOOLEAN : Scan(key, TRUE))
  /\ WF_vars(Core1)
  /\ \A c \in Cores : WF_vars(Switch(c))

Spec == Init /\ [][Next]_vars /\ Fairness
-------------------------------------------------------------------------------
\* The type invariant.
TypeOK ==
  /\ dark \subseteq {"manual", "idle", "usb"} /\ hw \subseteq Hardware
  /\ holdoff \in {"yes", "no"}
  /\ sw \in [Cores -> {"idle", "on1", "on2", "on3", "on4", "off1", "off2", "off3"}]
  /\ pc0 \in {"scan", "poll", "hook", "task"}
  /\ idle \in 0 .. Limit /\ now \in 0 .. Period - 1 /\ grace \in 0 .. Period - 1
  /\ usb \in Bus
  /\ up \subseteq Overlays /\ on \subseteq Overlays /\ resume \subseteq on
  /\ menu \in {"off", "open", "closing"} /\ crossed \in BOOLEAN

\* With no reason left to be dark, and no core switching it, the panel has power,
\* light and frames, whichever reasons came and went in whichever order
\* (lcd_usb_sleep_leave, lcd_idle_poll_core0, display_power_toggle, the overlays),
\* unless the last two switches overlapped: lcd_switch has no lock, and then it may
\* be dark until a switch of one core alone puts it right.
PanelLit ==
  (dark = {} /\ ~crossed /\ \A c \in Cores : sw[c] = "idle") => hw = Hardware

\* The inductive invariant behind it: as long as no switch began inside another, at
\* most one core is switching; with no reason to be dark it is lighting the panel, and
\* has switched on what its program point says, or everything is on.
OneSwitches == \A c, d \in Cores : sw[c] # "idle" /\ sw[d] # "idle" => c = d
LitSoFar(c) ==
  /\ sw[c] \notin {"off1", "off2", "off3"}
  /\ sw[c] \in {"on2", "on3", "on4"} => "rail" \in hw
  /\ sw[c] = "on3" => holdoff = "yes"
  /\ sw[c] = "on4" => "backlight" \in hw
LitInv == ~crossed =>
            /\ OneSwitches
            /\ dark = {} => PanelLit /\ \A c \in Cores : LitSoFar(c)

\* A panel the user switched off is lit by no one but the user and an overlay.
OffStaysOff ==
  [][("manual" \in dark \cap dark' /\ up = {})
       => \A c \in Cores : ~(sw[c] = "idle" /\ sw'[c] = "on1")]_vars

\* An idle panel wakes when a key is pressed, unless something else keeps it dark
\* or has the keys (lcd_idle_poll_core0; a menu or a dialog that was there when it
\* went dark does, see DialogLit), or core 1 is still cutting its power as core 0
\* lights it (lcd_switch has no lock).
WakesOnKey ==
  ("idle" \in dark /\ idle < Limit)
    ~> \/ hw = Hardware \/ idle = Limit \/ crossed
       \/ dark \cap {"manual", "usb"} # {} \/ "dialog" \in up \/ menu # "off"

\* A panel nobody uses goes to sleep, however often the clock has wrapped.
IdleSleeps ==
  idle = Limit ~> (dark # {} \/ idle < Limit \/ up # {} \/ menu # "off")

\* c1_display.c:943, a dialog "force-wakes the panel": once core 1 draws it and no
\* core is switching, it can be seen, if the user or the bus did not darken it since
\* and no two switches overlapped.
DialogLit ==
  ("dialog" \in up \cap on /\ ~crossed /\ \A c \in Cores : sw[c] = "idle")
    => hw = Hardware \/ dark \cap {"manual", "usb"} # {}
================================================================================
