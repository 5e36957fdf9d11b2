-------------------------------- MODULE PanelProofs --------------------------------
(***************************************************************************)
(* Proofs about Panel, for every limit, grace and clock, with both cores   *)
(* free to switch the panel at any time: its typing, that a panel switched *)
(* off stays off, and that one nothing wants dark is lit, unless its last  *)
(* two switches overlapped.                                                *)
(***************************************************************************)
EXTENDS Panel, TLAPS

\* lcd_switch's parts keep its state in range, whichever core runs it.
LEMMA SwitchTyped ==
  ASSUME TypeOK, NEW c \in Cores, Switch(c)
  PROVE  TypeOK'
<1>1. hw' \subseteq Hardware /\ holdoff' \in {"yes", "no"}
  BY DEF TypeOK, Switch, SwitchOn, SwitchOff, PresentBlack, Hardware
<1>2. sw' \in [Cores -> {"idle", "on1", "on2", "on3", "on4", "off1", "off2", "off3"}]
  BY DEF TypeOK, Switch, SwitchOn, SwitchOff, At
<1>3. UNCHANGED <<dark, pc0, idle, now, grace, usb, up, on, resume, menu, crossed>>
  BY DEF Switch, core0, view1
<1> QED BY <1>1, <1>2, <1>3 DEF TypeOK

\* What starts lcd_switch, or leaves it be, is typed.
LEMMA StartTyped ==
  ASSUME TypeOK, NEW c \in Cores,
         \/ NoSwitch \/ BacklightOff
         \/ \E how \in {"on1", "off1"} : Start(c, how)
         \/ Begin(c, "on1") /\ hw' = hw \ {"backlight"}
  PROVE  /\ hw' \subseteq Hardware /\ holdoff' \in {"yes", "no"}
         /\ sw' \in [Cores -> {"idle", "on1", "on2", "on3", "on4", "off1", "off2", "off3"}]
         /\ crossed' \in BOOLEAN
<1>1. crossed' \in BOOLEAN
  BY Zenon DEF TypeOK, NoSwitch, BacklightOff, Start, Begin
<1>2. hw' \subseteq Hardware /\ holdoff' \in {"yes", "no"}
  BY DEF TypeOK, NoSwitch, BacklightOff, Start, Begin, Hardware
<1>3. sw' \in [Cores -> {"idle", "on1", "on2", "on3", "on4", "off1", "off2", "off3"}]
  BY DEF TypeOK, NoSwitch, BacklightOff, Start, Begin
<1> QED BY <1>1, <1>2, <1>3

\* The initial state is typed.
LEMMA InitTyped == Init => TypeOK
<1> SUFFICES ASSUME Init PROVE TypeOK
  OBVIOUS
<1>1. crossed \in BOOLEAN
  BY DEF Init
<1>2. sw \in [Cores -> {"idle", "on1", "on2", "on3", "on4", "off1", "off2", "off3"}]
  BY DEF Init
<1> QED BY <1>1, <1>2, PanelAssumption DEF Init, TypeOK, Hardware, Overlays

\* A step of core 0 keeps the types.
LEMMA Core0Typed ==
  ASSUME TypeOK, Core0
  PROVE  TypeOK'
<1> USE PanelAssumption DEF Cores, Overlays
<1>1. ASSUME NEW key \in BOOLEAN, NEW tick \in BOOLEAN, Scan(key, tick) PROVE TypeOK'
  <2>1. now' \in 0 .. Period - 1 /\ idle' \in 0 .. Limit
    BY <1>1 DEF TypeOK, Scan
  <2>2. UNCHANGED <<dark, hw, holdoff, sw, grace, usb, up, on, resume, menu, crossed>>
        /\ pc0' = "poll"
    BY <1>1 DEF Scan, Pass, NoSwitch, view1
  <2> QED BY <2>1, <2>2 DEF TypeOK
<1>2. ASSUME Poll PROVE TypeOK'
  <2>1. pc0' = "hook" /\ UNCHANGED <<now, usb, up, on, resume, menu>>
    BY <1>2 DEF Poll, Pass, view1
  <2>2. /\ hw' \subseteq Hardware /\ holdoff' \in {"yes", "no"}
        /\ sw' \in [Cores -> {"idle", "on1", "on2", "on3", "on4", "off1", "off2", "off3"}]
        /\ crossed' \in BOOLEAN
    BY <1>2, StartTyped DEF Poll, PollSkip, PollWake, PollAsleep, PollAwake
  <2>3. /\ dark' \subseteq {"manual", "idle", "usb"}
        /\ idle' \in 0 .. Limit /\ grace' \in 0 .. Period - 1
    <3>1. CASE PollSkip \/ PollAsleep \/ PollAwake
      BY <3>1 DEF TypeOK, PollSkip, PollAsleep, PollAwake
    <3>2. CASE PollWake
      <4>1. now \in Nat /\ Grace \in Nat /\ Period \in Nat \ {0}
        BY DEF TypeOK
      <4>2. (now + Grace) % Period \in 0 .. Period - 1
        BY <4>1
      <4>3. dark' \subseteq dark /\ idle' = 0 /\ grace' = (now + Grace) % Period
        BY <3>2 DEF PollWake
      <4> QED BY <4>2, <4>3 DEF TypeOK
    <3> QED BY <1>2, <3>1, <3>2 DEF Poll
  <2> QED BY <2>1, <2>2, <2>3 DEF TypeOK
<1>3. ASSUME Hook PROVE TypeOK'
  <2>1. pc0' = "task" /\ UNCHANGED <<idle, now, grace, usb, up, on, resume, menu>>
    BY <1>3 DEF Hook, Pass, view1
  <2>2. /\ hw' \subseteq Hardware /\ holdoff' \in {"yes", "no"}
        /\ sw' \in [Cores -> {"idle", "on1", "on2", "on3", "on4", "off1", "off2", "off3"}]
        /\ crossed' \in BOOLEAN
    BY <1>3, StartTyped DEF Hook, UsbEnter
  <2>3. dark' \subseteq {"manual", "idle", "usb"}
    BY <1>3 DEF TypeOK, Hook, UsbEnter
  <2> QED BY <2>1, <2>2, <2>3 DEF TypeOK
<1>4. ASSUME EndPass PROVE TypeOK'
  BY <1>4 DEF TypeOK, EndPass, Pass, NoSwitch, view1
<1>5. ASSUME NEW state \in Bus, UsbEvent(state) PROVE TypeOK'
  <2>1. pc0' = "task" /\ usb' = state /\ UNCHANGED <<idle, now, grace, up, on, resume, menu>>
    BY <1>5 DEF UsbEvent, Task, Pass, view1
  <2>2. /\ hw' \subseteq Hardware /\ holdoff' \in {"yes", "no"}
        /\ sw' \in [Cores -> {"idle", "on1", "on2", "on3", "on4", "off1", "off2", "off3"}]
        /\ crossed' \in BOOLEAN
    BY <1>5, StartTyped DEF UsbEvent, UsbEnter, UsbLeave
  <2>3. dark' \subseteq {"manual", "idle", "usb"}
    BY <1>5 DEF TypeOK, UsbEvent, UsbEnter, UsbLeave
  <2> QED BY <2>1, <2>2, <2>3 DEF TypeOK
<1>6. ASSUME Toggle PROVE TypeOK'
  <2>1. pc0' = "task" /\ UNCHANGED <<idle, now, grace, usb, up, on, resume, menu>>
    BY <1>6 DEF Toggle, Task, Pass, view1
  <2>2. /\ hw' \subseteq Hardware /\ holdoff' \in {"yes", "no"}
        /\ sw' \in [Cores -> {"idle", "on1", "on2", "on3", "on4", "off1", "off2", "off3"}]
        /\ crossed' \in BOOLEAN
    BY <1>6, StartTyped DEF Toggle
  <2>3. dark' \subseteq {"manual", "idle", "usb"}
    BY <1>6 DEF TypeOK, Toggle
  <2> QED BY <2>1, <2>2, <2>3 DEF TypeOK
<1>7. ASSUME OpenDialog \/ CloseDialog \/ EndUpload \/ OpenMenu \/ CloseMenu PROVE TypeOK'
  BY <1>7 DEF TypeOK, OpenDialog, CloseDialog, EndUpload, OpenMenu, CloseMenu, Task,
              Pass, NoSwitch, view1
<1> QED BY <1>1, <1>2, <1>3, <1>4, <1>5, <1>6, <1>7 DEF Core0

\* A frame of core 1 keeps the types.
LEMMA Core1Typed ==
  ASSUME TypeOK, Core1
  PROVE  TypeOK'
<1>1. ASSUME MenuGone PROVE TypeOK'
  BY <1>1 DEF TypeOK, MenuGone, Frame, NoSwitch, core0, view1
<1>2. ASSUME NEW o \in Overlays, EnterOverlay(o) PROVE TypeOK'
  <2>1. UNCHANGED <<pc0, idle, now, grace, usb, up, menu>>
    BY <1>2 DEF EnterOverlay, Frame, core0
  <2>2. /\ hw' \subseteq Hardware /\ holdoff' \in {"yes", "no"}
        /\ sw' \in [Cores -> {"idle", "on1", "on2", "on3", "on4", "off1", "off2", "off3"}]
        /\ crossed' \in BOOLEAN
    BY <1>2, StartTyped DEF EnterOverlay, Cores
  <2>3. /\ dark' \subseteq {"manual", "idle", "usb"}
        /\ on' \subseteq Overlays /\ resume' \subseteq on'
    BY <1>2 DEF TypeOK, EnterOverlay
  <2> QED BY <2>1, <2>2, <2>3 DEF TypeOK
<1>3. ASSUME NEW o \in Overlays, LeaveOverlay(o) PROVE TypeOK'
  <2>1. UNCHANGED <<pc0, idle, now, grace, usb, up, menu>>
    BY <1>3 DEF LeaveOverlay, Frame, core0
  <2>2. /\ hw' \subseteq Hardware /\ holdoff' \in {"yes", "no"}
        /\ sw' \in [Cores -> {"idle", "on1", "on2", "on3", "on4", "off1", "off2", "off3"}]
        /\ crossed' \in BOOLEAN
    BY <1>3, StartTyped DEF LeaveOverlay, Cores
  <2>3. /\ dark' \subseteq {"manual", "idle", "usb"}
        /\ on' \subseteq Overlays /\ resume' \subseteq on'
    BY <1>3 DEF TypeOK, LeaveOverlay
  <2> QED BY <2>1, <2>2, <2>3 DEF TypeOK
<1> QED BY <1>1, <1>2, <1>3 DEF Core1

\* Every state of the panel's power is typed: flags, hardware, timers, overlays.
THEOREM PanelTyped == Spec => []TypeOK
<1>1. TypeOK /\ [Next]_vars => TypeOK'
  <2>1. ASSUME TypeOK, UNCHANGED vars PROVE TypeOK'
    BY <2>1 DEF TypeOK, vars, core0, view1
  <2> QED BY <2>1, Core0Typed, Core1Typed, SwitchTyped DEF Next
<1> QED BY <1>1, InitTyped, PTL DEF Spec

\* A core that is free begins to light the panel.
Lights(c) == sw[c] = "idle" /\ sw'[c] = "on1"

\* A panel the user switched off is lit by no step of either core, as long as no
\* overlay is up: not by a bus that wakes, not by a key, not by a frame.
THEOREM StaysOff == Spec => OffStaysOff
<1> DEFINE Off == "manual" \in dark \cap dark' /\ up = {}
           Dark == \A c \in Cores : ~Lights(c)
<1>1. ASSUME TypeOK, Off, Core0 PROVE Dark
  <2>1. \/ NoSwitch \/ BacklightOff \/ Start("core0", "off1")
        \/ \E key, tick \in BOOLEAN : Scan(key, tick)
    BY <1>1 DEF Core0, Poll, PollSkip, PollWake, PollAsleep, PollAwake, PollBlocked, Hook,
                EndPass, UsbEvent, UsbEnter, UsbLeave, Toggle, OpenDialog, CloseDialog,
                EndUpload, OpenMenu, CloseMenu
  <2>2. UNCHANGED sw \/ sw' = [sw EXCEPT !["core0"] = "off1"]
    BY <2>1 DEF NoSwitch, BacklightOff, Start, Begin, Scan
  <2> QED BY <1>1, <2>2 DEF TypeOK, Lights, Cores
<1>2. ASSUME TypeOK, Off, Core1 PROVE Dark
  <2>1. UNCHANGED sw \/ sw' = [sw EXCEPT !["core1"] = "off1"]
    BY <1>2 DEF Core1, MenuGone, EnterOverlay, LeaveOverlay, NoSwitch, Start, Begin
  <2> QED BY <1>2, <2>1 DEF TypeOK, Lights, Cores
<1>3. ASSUME TypeOK, NEW c \in Cores, Switch(c) PROVE Dark
  <2>1. \E from \in {"on1", "on2", "on3", "on4", "off1", "off2", "off3"},
           to \in {"on2", "on3", "on4", "off2", "off3", "idle"} : At(c, from, to)
    BY <1>3 DEF Switch, SwitchOn, SwitchOff
  <2> QED BY <1>3, <2>1 DEF TypeOK, Lights, At
<1>4. ASSUME UNCHANGED vars PROVE Dark
  BY <1>4 DEF vars, Lights
<1>5. TypeOK /\ [Next]_vars => [Off => Dark]_vars
  BY <1>1, <1>2, <1>3, <1>4 DEF Next
<1> QED BY <1>5, PanelTyped, PTL DEF Spec, OffStaysOff, Lights

\* A part of lcd_switch that ends leaves the panel lit, or on its way there, when
\* nothing wants it dark: each part has done what the next one relies on.
LEMMA SwitchLit ==
  ASSUME TypeOK, LitInv, NEW c \in Cores, Switch(c)
  PROVE  LitInv'
<1> SUFFICES ASSUME ~crossed
             PROVE  OneSwitches' /\ (dark' = {} => PanelLit' /\ \A d \in Cores : LitSoFar(d)')
  BY DEF Switch, LitInv
<1>1. \E to \in {"on2", "on3", "on4", "off2", "off3", "idle"} : sw' = [sw EXCEPT ![c] = to]
  BY DEF Switch, SwitchOn, SwitchOff, At
<1>2. sw[c] # "idle" /\ UNCHANGED dark
  BY DEF Switch, SwitchOn, SwitchOff, At
<1>3. \A d \in Cores \ {c} : sw[d] = "idle" /\ sw'[d] = "idle"
  BY <1>1, <1>2 DEF TypeOK, LitInv, OneSwitches
<1>4. OneSwitches'
  BY <1>3 DEF OneSwitches
<1>5. ASSUME dark' = {} PROVE PanelLit' /\ \A d \in Cores : LitSoFar(d)'
  <2>1. SwitchOn(c) /\ LitSoFar(c)
    BY <1>2, <1>5 DEF Switch, SwitchOff, At, LitInv, LitSoFar
  <2>2. sw'[c] \in {"on2", "on3", "on4", "idle"}
    BY <2>1 DEF TypeOK, SwitchOn, At
  <2>3. LitSoFar(c)' /\ (sw'[c] = "idle" => hw' = Hardware)
    <3>1. CASE At(c, "on1", "on2") /\ hw' = hw \cup {"rail"} /\ UNCHANGED holdoff
      BY <3>1 DEF TypeOK, At, LitSoFar
    <3>2. CASE At(c, "on2", "on3") /\ holdoff' = "yes" /\ UNCHANGED hw
      BY <3>2, <2>1 DEF TypeOK, At, LitSoFar
    <3>3. CASE At(c, "on3", "on4") /\ PresentBlack
      BY <3>3, <2>1 DEF TypeOK, At, LitSoFar, PresentBlack
    <3>4. CASE At(c, "on4", "idle") /\ hw' = hw \cup {"gfx"} /\ UNCHANGED holdoff
      BY <3>4, <2>1 DEF At, LitSoFar, TypeOK, Hardware
    <3> QED BY <2>1, <3>1, <3>2, <3>3, <3>4 DEF SwitchOn
  <2> QED BY <1>3, <2>2, <2>3 DEF PanelLit, LitSoFar
<1> QED BY <1>4, <1>5

\* What a core does to the panel between two switches keeps it lit, as long as it
\* takes the light away, or a switch to dark begins, only with a reason to be dark,
\* and the last reason goes only with a switch to light.  (A switch that begins while
\* no core is in one makes good what was crossed before.)
LEMMA StartLit ==
  ASSUME TypeOK, LitInv, NEW c \in Cores,
         \/ NoSwitch /\ (dark' = {} => dark = {})
         \/ BacklightOff /\ dark' # {}
         \/ Start(c, "off1") /\ dark' # {}
         \/ Start(c, "on1")
         \/ Begin(c, "on1")
  PROVE  LitInv'
<1>1. CASE NoSwitch /\ (dark' = {} => dark = {})
  BY <1>1 DEF NoSwitch, LitInv, OneSwitches, PanelLit, LitSoFar
<1>2. CASE BacklightOff /\ dark' # {}
  BY <1>2 DEF BacklightOff, LitInv, OneSwitches
<1>3. CASE Start(c, "off1") /\ dark' # {}
  <2>1. ~crossed' => \A d \in Cores \ {c} : sw'[d] = "idle"
    BY <1>3 DEF TypeOK, Start, Begin
  <2> QED BY <1>3, <2>1 DEF LitInv, OneSwitches
<1>4. CASE Begin(c, "on1")
  <2>1. ~crossed' => sw'[c] = "on1" /\ \A d \in Cores \ {c} : sw'[d] = "idle"
    BY <1>4 DEF TypeOK, Begin
  <2> QED BY <2>1 DEF LitInv, OneSwitches, PanelLit, LitSoFar
<1> QED BY <1>1, <1>2, <1>3, <1>4 DEF Start

\* A step of core 0 does one of these things.
LEMMA Core0Lit ==
  ASSUME TypeOK, LitInv, Core0
  PROVE  LitInv'
<1> "core0" \in Cores
  BY DEF Cores
<1>1. ASSUME NEW key \in BOOLEAN, NEW tick \in BOOLEAN, Scan(key, tick) PROVE LitInv'
  BY <1>1, StartLit DEF Scan
<1>2. CASE Poll
  BY <1>2, StartLit DEF Poll, PollSkip, PollWake, PollAsleep, PollAwake
<1>3. ASSUME UsbEnter PROVE LitInv'
  BY <1>3, StartLit DEF UsbEnter
<1>4. ASSUME UsbLeave PROVE LitInv'
  BY <1>4, StartLit DEF UsbLeave
<1>5. CASE Hook
  BY <1>3, <1>5, StartLit DEF Hook
<1>6. ASSUME NEW state \in Bus, UsbEvent(state) PROVE LitInv'
  BY <1>3, <1>4, <1>6 DEF UsbEvent
<1>7. CASE Toggle
  BY <1>7, StartLit DEF Toggle
<1>8. CASE EndPass \/ OpenDialog \/ CloseDialog \/ EndUpload \/ OpenMenu \/ CloseMenu
  BY <1>8, StartLit DEF EndPass, OpenDialog, CloseDialog, EndUpload, OpenMenu, CloseMenu
<1> QED BY <1>1, <1>2, <1>5, <1>6, <1>7, <1>8 DEF Core0

\* So does a frame of core 1.
LEMMA Core1Lit ==
  ASSUME TypeOK, LitInv, Core1
  PROVE  LitInv'
<1> "core1" \in Cores
  BY DEF Cores
<1>1. CASE MenuGone
  BY <1>1, StartLit DEF MenuGone
<1>2. ASSUME NEW o \in Overlays, EnterOverlay(o) PROVE LitInv'
  BY <1>2, StartLit DEF EnterOverlay
<1>3. ASSUME NEW o \in Overlays, LeaveOverlay(o) PROVE LitInv'
  BY <1>3, StartLit DEF LeaveOverlay
<1> QED BY <1>1, <1>2, <1>3 DEF Core1

\* A panel that nothing wants dark has power, light and frames, whichever reasons
\* came and went, unless the last two runs of lcd_switch, one on each core, overlapped.
THEOREM LitWhenWanted == Spec => []PanelLit
<1>1. Init => LitInv
  BY DEF Init, LitInv, OneSwitches, PanelLit, LitSoFar, Hardware, Cores
<1>2. TypeOK /\ LitInv /\ [Next]_vars => LitInv'
  <2>1. ASSUME LitInv, UNCHANGED vars PROVE LitInv'
    BY <2>1 DEF vars, LitInv, OneSwitches, PanelLit, LitSoFar
  <2> QED BY <2>1, Core0Lit, Core1Lit, SwitchLit DEF Next
<1>3. LitInv => PanelLit
  BY DEF LitInv, PanelLit, Cores
<1> QED BY <1>1, <1>2, <1>3, PanelTyped, PTL DEF Spec
====================================================================================
