# Athena75 RGB Advanced: a TLA+ model of the keyboard's firmware

`src/keyboards/ydkb/athena75_rgb_advanced` (called KB below) turns a keyboard
into a small computer. Its RP2040 runs QMK on core 0 and, on core 1, a display
with a launcher, an OS-style menu and downloadable "slot apps"; a command-line
`host_tool` installs apps and boot animations over raw HID. Both cores execute
from one flash chip and talk through plain `volatile` variables, with no lock
and no queue library. This directory holds TLA+ modules of the parts where the
cores, the host and the flash meet, TLC configurations that check them, and
TLAPS proofs of the invariants that matter most.

    tlc -workers 2 -config input.cfg AppInput.tla       # one run
    tlapm AppInputProofs.tla                            # one proof module

`PROJECT.json` holds the same inventory for tools: components, runs, a mutant
for every property, the map from definitions to source lines, findings,
hazards and theorems.


## 1. The system

Paths are relative to KB/src. Everything in the rest of `src/` (QMK, Vial,
ChibiOS, drivers) is upstream code, present here only as the callers of the
keyboard's hooks.

| component | state it keeps | operations | hard behaviours |
|---|---|---|---|
| OS input bridge, `firmware/app_input.c` | mode, request mailbox, idle timer, key ring (`inq`, head, tail) | push, poll, set/toggle/request mode, release_all, service | two cores on one ring with no lock; the flush writes the consumer's index; the mailbox is read and cleared in two steps; an idle timeout |
| Flash parking, `firmware/c1_main.c`, `probe_flash.c`, `athena75_rgb_advanced.c` | `c1_stop_flag`, `c1_restart_flag` | before/after a flash operation on core 0, the trap on core 1 | two busy-waits on each other's flags; core 1 must not fetch from flash during an access; EEPROM writes use the same handshake |
| System services, `firmware/app_sys.c` | one mailbox per service: save, RGB, caps, scope, sleep, app delete | request on core 1, apply on core 0 in housekeeping | two flags per mailbox; saves need core 1 parked while core 1 may be waiting for them; a wipe waits for the app it would pull away |
| Upload session, `firmware/app_upload.c` | session state, target, slot, sizes, page buffer | BEGIN (app, update, boot), dialog buttons, erase, write, END, abort, promotion, linger | a host, a user and two timers drive one state machine; power loss; regions rounded to sectors and pages; occupancy read back from flash |
| Host tool, `host/app_cmds.c` | one process per command | install, update, boot install, launch, list, uninstall | polls with its own timeout; retries; may be interrupted anywhere; late replies |
| App runtime and loader, `firmware/app/app.c`, `app_loader.c` | foreground app, re-entry request, slot base and pending flag, loaded base, invalidation | launch, reconcile, enter, exit, tick | core 0 writes what core 1 reconciles from; an image stays loaded while its flash may change |
| Modal dialog, `firmware/dialog.c` | open flag, descriptor, focus, deadline | open, key, task (timeout), close | callbacks run from keys and from a timeout; one dialog replaces another; core 1 renders the descriptor |
| Raw-HID dispatch, `firmware/user_rawhid.c` | last LAUNCH slot, capture cursor | APP, BOOT, FLASH, MODE, CAPTURE, ... commands | decides which session or app a command reaches |
| Key routing, `firmware/user_function.c` | layer and SOCD state, flash prompt | process_record, housekeeping | a key may be pressed under one consumer and released under another |
| Display loop and power, `firmware/c1_display.c` | panel state, wake grace, capture handshake | per-frame order: dialog, upload screen, menu, app | two sleep reasons (idle, USB) and a manual switch; frames stop when the panel is dark |
| OS menu, `firmware/menu.c`, `menu_model.c` | page stack, overlays, published copy, the app's model, open/resume requests | open, navigate, activate, suspend, resume, uninstall, exit | core 0 decides, core 1's frame carries it out; both write the published copy; the app underneath is suspended; waits for an uninstall |
| Launcher, `firmware/app/launcher.c` | grid focus, remembered slot, number of apps | enter, focus, launch, request a mode | launches from core 1; core 0 may rebuild the table it indexes |
| App scan, `firmware/app_scan.c` | table of apps and its count | scan, find, slot states | rebuilt in place from either core, entry by entry; a second view of what `occupied_map` reads |
| Boot animation, `firmware/app/boot.c`, `qgf.c` | play position, RLE decoder | play, skip | reads a file that an interrupted install left behind |
| UI toolkit and renderers | widget focus | draw | pixels |
| Simulator (`sim`), games (`app`), other host commands | | | not part of the device, leaf programs, sequential tools |

How they interact. `user_rawhid.c` and `user_function.c` (core 0) call
`app_upload`, `dialog`, `app_input` and `app_launch_slot`. `housekeeping_task_user`
runs `app_input_service`, `app_sys_service`, `app_upload_task` and `dialog_task`.
Core 1 repeats `display_task_user` (dialog, upload screen, then `app_run`) and
`c1_cooperate_with_flash` between frames. Core 0 never interrupts core 1; it
asks core 1 to park and waits. Flash is written by core 0 only.

What makes each part correct:

- bridge: every accepted event is delivered whole, once, in order, or flushed;
  OS mode ends when nobody uses it;
- parking: core 1 is in RAM during every access, no flag survives an operation,
  and neither core waits for ever, saves included;
- upload: an operation touches only what the accepted session was given, no app
  overlaps another, DONE means the app is there, and what runs is what the user
  agreed to;
- runtime: core 1 never calls into an image that flash no longer holds, an app
  is left when it should be, and a launch, a trip home or a wipe gets done;
- key routing: no key sticks on the host, and the host holds what the fingers do;
- panel: lit when nothing keeps it dark, woken by a key, off when switched off;
- menu: the tree on the screen is that of the app under it, what is uninstalled is
  what was chosen, and each of its waits, and the menu itself, comes to an end;
- scan: the table lists what is in flash, each app once, a name launches its own app.


## 2. What is modelled

`InputQueue` is the abstract specification: a bounded FIFO of events with
accept, reject, take and flush. Its promise ends (`Break`) when a flush overlaps
a take, because then the code keeps none.

`AppInput` is `app_input.c`, one step per access of a shared variable. `pc0`
and `pc1` say where each core is in the file; `PushBegin .. PushPublish`,
`PollTail .. PollAdvance`, `FlushTail`, `FlushHead` and
`ServiceRead .. ServiceIdle` are the accesses in program order. Events are
numbered, and an entry's two fields are kept apart, so that a torn entry is
visible. `gone`, `floor`, `taken`, `pushRes`, `raced` are history: what a
reader of the code would ask about an event, never read by a guard.

`FlashPark` is the handshake of `c1_main.c` around every access of
`probe_flash.c` and of the EEPROM driver (`backing_store_lock`), and the save
service with it: `SaveNow`/`RaiseReq` on core 1, `SaveService` and `OpDone` on
core 0, and the spin of `app_slot_flush_pending_save`, which serves the trap
itself (`SpinBusy` and the trap's `back`). A program counter per core again.

`AppUpload` composes four parties over one flash: the session state machine of
`app_upload.c`, the dialog that authorises it, the raw-HID handlers, and
`host_tool` processes with the plan of erases and writes that `app_cmds.c`
computes. Flash is an array of pages that hold `<<app, page>>`, nothing, or
garbage (programmed without an erase); headers, spans and occupancy are read
from it as `occupied_map` does. `Uninstall` and core 1's `LingerTest` and
`LingerStore` are the other writers; `Reboot` is power loss at any point.
`owned` is history: which slots hold an app nobody uninstalled.

`AppRuntime` is core 1's frame as `display_task_user` and `app_run` order it,
with the reads of `slot_pending`, `reinit_req` and `slot_base` as separate steps
(`RunWant .. RunClear`), the load and exit of `app_loader.c`, and what core 0
may do meanwhile: an install (with the EXITING handshake and its 800 ms, which may
pass wherever core 1 is), a wipe, host launches, the flash prompt, the menu and the
panel key. A menu is fading out ("closing"), or on a page that core 1 draws before it
looks at the phase ("page"; "stuck" once it was told to close): LCD TEST and an open
editor, which only a key ends (`MenuKey`). The upload session is reduced here to the
states the runtime sees, and the flash to "has a header". `Parkable` is what `FlashPark`
shows: the flash changes only where core 1 can be parked. `stale` and `overtaken` are
history: the loaded image has left the flash; an install or a wipe was not waited for,
because the 800 ms passed before core 1 said it was in the launcher, or an app was
launched meanwhile. `overtaken` ends when core 1 enters the launcher with no launch
pending.

`KeyRouting` is `user_function.c`: each press and release goes to the dialog, the
menu, the ring of `AppInput` or the host, by the order of the tests in
`process_record_user` (`ToDialog`, `ToMenu`, `ToApp`, `ToHost`), and
`post_process_record_user` turns the four ST keys into presses of W, A, S and D
(`HostPress`, `HostRelease`). `report` is what the host is told; whatever calls
`clear_keyboard` empties it (`Clear`): a change of mode, a dialog that opens or
ends, LAUNCH, CAPTURE, an upload's first operation. The handlers of dialog and
menu are reduced to whether they close. `calm` is history: the keys went to the
host alone since the ST keys were last all up and forgotten.

`Panel` is the power of the display in `c1_display.c`. `dark` holds the reasons
to be dark (`now_lcd_off`, `lcd_idle_off`, `lcd_usb_off`), `hw` what is really
on. `lcd_switch` takes 200 ms to light the panel and 130 ms to cut its power, so
it is a program of its own, run by either core between its waits (`SwitchOn`,
`SwitchOff`; `sw` says where each core is). Core 0 goes round a pass of the main
loop: matrix scan (`Scan`), idle policy (`Poll`), the hook's look at the bus
(`Hook`), then keys, tasks and USB events, which open and close dialogs, uploads
and the menu. Core 1's frames enter and leave the overlays, waking the panel and
putting it back (`EnterOverlay`, `LeaveOverlay`); `up` is what core 0 wants
shown, `on` and `resume` are core 1's local flags, which may lag behind. The
millisecond timer wraps. Nothing keeps the two cores from being in `lcd_switch` at the
same time; `crossed` is history: of the last two switches one began inside the other.

`Menu` is the engine of `menu.c` on core 0 and what core 1 does with it. A page
is its path (`path`, `at`), rows come from the app's tree (`Tree`, `gen_app` for the
installed apps), and `life`/`shown` are the engine's copy and the published view, each
"off", "open" or "closing" (`active` with `phase`). A key goes in two steps: `Key`
gives it to the menu and `KeyAct` is what it does there (`KeyMove`, `KeyOpen`,
`KeyBack`, `KeySuspend`, the arrow challenge, `KeyUninstall`, ...). `OpenTake`,
`OpenEnter`, `Resume`, `Finished`, `Uninstalled`, `ConfExpired`, `IdleExit` and `Wipe`
are housekeeping. Core 1's frame is `FrameMenu` or `FrameApp`, `Draw`, `Close` and a
tick of the app in front: SETTINGS opens a menu, suspends it for a screen of its own,
resumes it, leaves (`TickOpen`, `TickScreen`, `TickResume`, `TickLeave`). `Launch`,
`Accept` with `Installed`, and `Reinit` are what a host, an upload and overlays do
meanwhile. `chosen`, `late` and `moved` are history: the app whose row was opened,
whether a key reached this menu after it had been told to close, and whether an install
has ended since the row was opened, which rescans the table under the open menu.

`AppScan` is `app_scan.c` store by store (`Begin`, `Load`, `Store`, `Name`, `Base`)
on both cores at once: core 0 scans after an install or a wipe and for a LAUNCH whose
name it does not find, core 1 on entering the launcher and for SETTINGS once its wipe
is done. With it the lookups (`app_scan_find`), the launcher's focus, kept by slot,
and the slot states STORAGE shows (`State`), whose `Occupancy` is the rule
`occupied_map` has in `AppUpload`. Headers are good, bad or of an older format. `mixed`,
`dirty`, `disturbed` and `wrong` are history.

`MCUpload` gives `AppUpload` its apps, `MCKeys` gives `KeyRouting` the pairs, `MCMenu`
gives `Menu` a game and SETTINGS with their trees.
The definitions whose comment begins
"As a bug would have it" are the mutants: no specification uses them.


## 3. Runs

| run | asks | answer |
|---|---|---|
| `input` | does the ring deliver events whole, once, in order (`PollsOldest`, `RingInv`); is it the FIFO of `InputQueue` (`IsFifo`); is an accepted key taken or flushed in the end, if core 1 goes on polling or the keys are left alone (`AcceptedIsTaken`), and does OS mode time out (`IdleEndsOs`) | yes, the first two until a flush overlaps a poll |
| `flash_park` | is core 1 parked in every access, is nothing left over, do saves exclude each other, does every operation end, does core 1 come back, does a save complete | yes |
| `upload_session` | do writes stay in the session's region (`ConfinedWrites`), do apps never overlap (`SpansDisjoint`), does DONE mean the app is there (`DoneHoldsApp`), do the host's plan and the firmware's window agree (`PlanAllowed`) | yes, whatever is cancelled, restarted, interrupted or unplugged |
| `runtime` | whatever core 0, the host and the keys do: is an image loaded only for the app in front (`LoadedInFront`), is no replaced image called (`NoStaleCall`), is every app left before the host writes (`TornDown`) | yes, the last two unless an install or a wipe was overtaken, which the code allows |
| `runtime_live` | with everything done at the keyboard: does an app sent home leave (`GoesHome`), is a wipe done (`WipeEnds`) | yes, unless a menu on LCD TEST or an editor is left standing |
| `panel` | is the panel lit when nothing keeps it dark (`PanelLit`), does off stay off (`OffStaysOff`), does a key wake it unless a dialog or a menu has the keys (`WakesOnKey`), does it go to sleep (`IdleSleeps`), in whatever order the reasons come and go and however often the timer wraps | yes, `PanelLit` and `WakesOnKey` unless the last two switches crossed |
| `panel_dialog` | can a dialog always be seen (`DialogLit`) | no: finding 1 |
| `keys` | whoever takes the keyboard and whenever: does no ordinary key stick (`PlainHeld`), are two opposite directions never down (`OneDirection`), does a direction still held come back (`HeldIsSeen`), is the host only told to press what is held (`PressesHeld`) | yes; the last two only while nothing else takes the keys |
| `menu` | is the tree shown that of the app under it (`ModelLoaded`), is the app wiped the one chosen (`ChosenIsWiped`), do a held frame and the "Uninstalling" page end (`HeldFrameEnds`, `UninstallEnds`), does a menu left alone close (`MenuEnds`) | yes, the first two up to a key that reaches a closing menu, the second also up to an install that ends under the menu, the last unless core 1 is kept from it |
| `menu_lcd` | does the idle exit always close the menu (`IdleCloses`) | no: finding 2 |
| `scan` | does the table list what is in flash (`TableRight`), are STORAGE's states true (`StatesRight`), does a name launch its own app (`LaunchesNamed`), does the launcher's focus stay on its app (`FocusKept`) | yes, unless scans overlap or one runs under the reader |
| `scan_both` | is a scan safe from either core (`SafeFromEither`) | no: finding 3 |

Findings, each the counterexample of its run:

1. `c1_display.c:841`. A dialog times out on a keyboard nobody uses, the idle
   policy is free again in the same pass, and the panel goes dark before core 1
   draws a frame without the dialog. `lcd_is_on` now keeps frames from coming, and
   `on` in `dialog_render_tick` stays true. The next dialog does not wake the
   panel, and takes the keys unseen.
2. `menu.c:1225`. The idle exit sets the phase to closing and leaves the page as it
   is. `menu_render_task` draws LCD TEST, or an open editor, and returns before it
   looks at the phase: the menu never ends by itself, its app stays suspended, and
   it keeps the keys until Enter or Esc. LAUNCH and INSTALL meet the same.
3. `app_scan.c:67`. `app_sys.c:277` lowers its busy flag before its own scan, and
   SETTINGS rescans on seeing it: two scans rebuild one table through one count, and
   an app is missing or listed twice until the next scan.

Seen in the models and left without a run. Where a definition and a cfg are named, put
the one in the other to see the counterexample.

- A flush does not always drop what was queued (`NoStaleEvent`, in `input.cfg`).
  `inq_reset` on core 0 stores the consumer's index (`app_input.c:26`); a poll core 1
  has begun stores its own afterwards, and the ring appears to hold the events from
  before the flush.
- A partly updated app is not protected (`PartialKept`, in `upload_session.cfg`). An
  update erases the header's sector first and occupancy is the header's magic
  (`app_upload.c:63`): interrupted there, the app's slots count as free.
- An install does not always wait for the app to be torn down (`AlwaysTornDown`, in
  `runtime.cfg`, also with `Outside = {}`), although `app_upload.h:29` says so.
  `app_run` is kept from leaving the app for longer than the 800 ms of
  `app_upload.c:320`: by a menu told to close on LCD TEST, which stays up until a key
  (`menu.c:1225`, `app/app.c:85`), by a menu the app's tick opens just after INSTALL
  closed the last, by a panel switched off, which gets no frame (`c1_display.c:255`), or
  by the flash prompt. The host then writes over the image in front, and the old app's
  exit is later called in the new one. The same follows when something is launched while
  an install or a wipe waits; a host LAUNCH also changes the base the wipe's gate looks
  at (`app_sys.c:138`) before the old app has been left (`NoStaleCall` without
  `~overtaken`).
- Two switches that cross (`PanelLit` without `~crossed`, in `panel.cfg`;
  `c1_display.c:178`). A key closes a dialog over a sleeping panel; core 1
  starts to put the panel back to sleep; the key has cleared the idle timer, so core 0
  switches it on at once; the powerdown cuts the rail 130 ms later, inside the 200 ms
  core 0 waits. A dark panel, with every flag saying it is on, which further keys do not
  wake.
- Ghost presses (`PressesHeld` without its `calm`). Under the OS
  `post_process_record_user` returns before it updates `socd_key_state`
  (`user_function.c:191`). Hold W, then S, switch to the OS, let W go, switch back,
  let S go: W is registered, with no key down.
- Two `host_tool` processes at once (two `Hosts`): one that was cancelled and takes the
  other's AUTH for its own writes its header inside the other's data. Hence one host
  in the run and in the proofs.
- Uploads: a BEGIN refused under an open dialog resets `s_slot` and `s_target` and
  leaves the dialog up, so that INSTALL authorises a session it does not show
  (`app_upload.c:141`; no window opens in the app area for it); a second BEGIN takes a
  running session over (`app_upload.c:139`) although `app_cmds.c:1139` lists "another
  upload is in flight" as a refusal; a declined dialog leaves IDLE where
  `app_upload.h:26` says DENIED; core 1 tests for DONE and stores IDLE in two steps, so
  that a BEGIN between them is discarded with its dialog on screen (`app_upload.c:315`).
- Runtime: `app_run` clears `reinit_req` at its end although core 0 may have set it
  since it was read, and a second launch is lost (`app/app.c:118`).
- Panel: a menu that is open or closing as the panel goes dark keeps the idle policy
  aside (`c1_display.c:296`), so no key wakes the panel; the wake grace is compared
  without regard to the timer's wrap (`c1_display.c:311`), so a wake just before it
  blocks sleep until the timer comes round; a manual switch during USB sleep powers the
  panel with the bus still asleep; a dialog closed on a dark panel is not torn down
  until the panel is lit.
- Input: a mode requested between `ServiceRead` and `ServiceClear` is lost
  (`app_input.c:64`).
- Menu: a key in the closing phase can open an editor, can leave a screen of the app's
  (its menu's model is dropped then), and a second Enter on DELETE uninstalls the app
  that has come to the index of the first; the waiting flag then stays until the next
  menu. An install may end, and the table be rescanned, under an open menu once its
  800 ms have passed: the DELETE page's index then means another app
  (`app_upload.c:320`, `ChosenIsWiped` without its `~moved'`). An overlay torn down over
  the menu asks for a re-entry, so that SETTINGS, left with Esc, is entered again and
  opens its menu again. A LAUNCH between
  `menu_request_open` and `menu_service` is held until the menu is left. `menu_view.seq`
  is written and never compared. Esc and Enter in one frame of STORAGE (`storage_input`
  goes on after `menu_resume`) resume the menu with the app in SLOT_DETAIL; its model
  is dropped when the menu ends, and the next resume shows the built-in tree at
  SETTINGS's path. The model takes one key a frame, and has no such step.
- Scan: a rescan on core 0, for a LAUNCH of an unknown name, moves the launcher's focus
  under its tick; and core 1 entering the launcher while the scan at END still runs
  overlaps it.


## 4. Bounds

- `input`: `Size = 3` (APP_IN_QSZ is 32), `MaxEvents = 3` accepted events, so
  the ring fills, rejects, and both indices wrap; `Requests = {"KEYBOARD"}` is
  what the launcher asks for; `IdleLimit = 1` tick. The proofs cover every size
  and any number of events.
- `flash_park`: `MaxPages = 2`, one page more than a single access; the
  operation's number of accesses only repeats the handshake. The proofs have no
  bound.
- `upload_session`: three slots, two packages of one slot and one of two slots
  with data (a version of the first), boot animations of zero, three and too
  many pages, four initial flashes, two BEGINs by one host process at a time,
  any interruption between. A slot is six pages in three sectors: a sector of
  two pages is the least that tells rounding to sectors from rounding to pages,
  and the sizes are chosen so that a code image ends inside the icon's sector
  and a data blob inside a sector. Two sessions are what any of the properties
  needs: one to leave something behind, one to meet it. A process that is
  killed (`HostExit`) leaves its session to the next one.
- `runtime`, `runtime_live`: two slots, the running app's and another. `Outside` selects
  what may come on top of installs and the menu: `"launch"` a host LAUNCH, `"prompt"` the
  flash prompt, `"off"` the LCD On/Off key. `runtime` has them all. `runtime_live` has
  none: a dark panel and a launch that comes between are what its properties except, and
  the prompt and the dialog of an install hold `app_run` back alike. (With `"off"` they
  hold too, in twice the time.)
- `panel`, `panel_dialog`: `Limit = 2` half seconds of idleness (one to be counted, one to
  reach the limit), `Grace = 1`, and a timer of `Period = 2` (`panel`) or 3, so that it
  wraps in every cycle of sleep and waking. `panel` leaves out the INIT
  state of the bus, which differs from SUSPEND only in that the hook does not look
  for it; `panel_dialog` has it.
- `keys`: one ordinary key and the four ST keys in their two pairs, which is all
  there is; nothing is counted.
- `menu`, `menu_lcd`: two apps, a game whose tree has an editor and SETTINGS whose tree
  has every kind of row; `PathMax = 4`, the code's own MENU_PATH_MAX, which the way
  to an uninstall (HUB, INSTALLED, ITEM, DELETE) fills; two apps are what it takes for an
  index to come to mean another. One key reaches a menu that is closing (its end is a frame away), more
  only when core 1 is kept from ending it; one key a frame on a screen of the app's.
- `scan`, `scan_both`: two slots, headers of 0, 1 and 2 slots: one that makes no sense,
  one that spans the area, and two apps side by side. Nothing else is counted, and the
  proofs cover any number of slots.

Every bound is a CONSTANT or stands in the guard that applies it.


## 5. Fairness

- `AppInput`: both cores run, so a started push, poll, flush or service pass is
  finished (weak fairness), but nothing makes core 1 begin a poll: a panel switched off
  gets no frames, a failed load has no tick, and an app need not look at its keys;
  housekeeping's `ServiceRead` competes with key events for core 0's main loop and is reached again and again (strong);
  milliseconds pass. Nothing makes a user press a key.
- `FlashPark`: the busy-waits run (weak); `app_sys_service` is called once per
  main loop and frames end (strong, as other operations may come first).
  Nobody is assumed to ask for a save.
- `AppRuntime`: core 1 draws frames (weak); a menu that fades out is off after some of
  them, and dialogs leave frames of the other kinds (strong); core 0 finishes
  `app_launch_slot`, a dialog is answered or times out (`dialog_task`,
  LCD_APP_PROMPT_MS), and housekeeping promotes and drops the banner (weak); a wipe is
  looked at again and again, and one that has passed its test gets core 1 parked
  (`OperationEnds` of `FlashPark`; strong). Nothing is assumed of the host, and nothing
  of the keys: a menu may stay open, or on a page that keeps it up.
- `Panel`: core 0 goes round its loop, core 1 draws frames and a started `lcd_switch`
  goes on (weak); half seconds pass (strong). A half second is counted only
  when no switch is under way on core 1 and it has drawn what is up: it is longer
  than both. Nobody is assumed to press a key, and no dialog, upload or menu to end.
- `Menu`: core 1 draws frames and finishes them, core 0 finishes the key or the open it
  is in (weak); housekeeping looks at requests and at the wait for a wipe again and
  again, and a wipe that may run gets core 1 parked (strong: keys and frames may come
  between, and close or reopen the condition); the idle timer runs once the user is
  gone. No key is assumed.
- `KeyRouting`, `AppUpload` and `AppScan` have no liveness property and assume no
  fairness: a host may stop at any point.


## 6. Proofs

| module | theorem | argument |
|---|---|---|
| `AppInputProofs` | `TypeCorrect`: both indices stay in the array | inductive by itself; `SuccWraps` is the only arithmetic |
| | `RingCorrect`, `OldestFirst`: `RingInv`, hence `PollsOldest` | see below |
| | `ImplementsFifo`: `IsFifo`, the refinement of `InputQueue` | initial states map to initial states and each action to a push, a refused push, a poll, a flush or a stutter of the FIFO; see below |
| `FlashParkProofs` | `HandshakeCorrect`, hence `MutualExclusion` and `CleanStart` | `HandshakeInv` says, for each point of core 0, what the two flags are and where core 1 can be; "core 1 is parked during an access" alone is not inductive, since leaving the wait relies on who lowered the flag |
| | `SavesExclusive`: `BusyCoversSave` | `SaveInv` adds that request, service and the raising core exclude each other |
| | `TypeCorrect` | `left > 0` from the start of an operation to its access |
| `AppRuntimeProofs` | `OnlyForeground`: `LoadedInFront` | strengthened with where core 1 is: an image is kept only past `exit` and is loaded only by an `enter` into "slot" |
| | `TypeCorrect` | in two parts, the flags and the slots' names |
| | `NeverStale`, `InstallsAlone`: `NoStaleCall`, `TornDown`, whatever comes from outside | `WaitedInv`, see below |
| `KeyRoutingProofs` | `TypeCorrect`, `NothingPlainSticks`, `NeverBothDirections`, `HeldDirectionSeen`, `OnlyHeldArePressed` | one invariant, `RoutingInv`: with a dialog up or under the OS the host holds nothing (`Silent`), every direction it holds is tracked (`SocdTracked`), and while `calm` the tracked directions are exactly those held (`CalmInv`) |
| `PanelProofs` | `PanelTyped` | inductive by itself |
| | `StaysOff`: `OffStaysOff` | typing, and the guard of each action that starts a switch: with the manual flag set before and after, and no overlay up, none of them may begin to light the panel |
| | `LitWhenWanted`: `PanelLit`, the cores switching whenever they will | `LitInv`, see below |
| `AppScanProofs` | `TypeCorrect`: no index leaves the table, both cores scanning at once | two parts, `Tables` and `Places`, with: a core that fills an entry has its slot and its entry in range |
| | `StartsWhatIsNamed`: `LaunchesNamed` | `NamedInv`, see below |
| | `ListsWhatIsThere`: `TableRight` | `ScanInv`, see below |
| | `ShowsWhatIsThere`: `StatesRight` | the same, and that the apps in flash are disjoint (`SpansInv`), so that which of two entries is asked first about a slot does not matter |
| | `FocusStays`: `FocusKept` | `FocusInv`, see below |
| `MenuProofs` | `RightTree`: `ModelLoaded` | `MenuInv`, see below |
| | `Typed`: `TypeOK` | in five parts (flags, words, names, tables, stack); a scan lists apps (`ScanLists`), a row that opens an app stands for one (`RowOpens`), a pop lands on a row that is there |
| | `WipesTheChosen`: `ChosenIsWiped` | `ChoiceInv`, see below |
| `AppUploadProofs` | `KeptApart`, `WritesConfined`, `NothingRefused`: `SpansDisjoint`, `ConfinedWrites`, `PlanAllowed`, with one host | `UploadInv`, see below |
| | `DoneIsThere`: `DoneHoldsApp`, with one host | `DoneInv`, see below |
| | `Typed`: `TypeOK`, with one host | the address of an operation is in the range of its plan (`OpTyped`), and a grant names slots of the area |

`RingInv` is needed because `PollsOldest` speaks of the moment a poll ends,
while what makes it true is the whole ring: the entries from tail to head are
the events not yet gone, in order (`RingHolds`), a push holds the producer's
index and has at least one entry to spare (`PushInv`), and a poll holds the
consumer's index (`PollInv`). All of it is conditional on `~raced`, the history
variable a flush over a poll sets: what breaks then is the first of section 3's
list. The position of an
index is its distance from the tail going round (`Ahead`), and the lemmas about
`Ahead` carry the wrap-around once for all steps. `ImplementsFifo` rests on the same
invariant: the FIFO's queue is the run of events from `gone` to `pub`, a push joins it
at the store of `head` and a poll leaves it at the store of `tail`, wherever the other
core is. The FIFO may refuse a push only when it holds `Size - 1` events, so that part
says that `Full`, a comparison of indices, means just that.

`LitInv` speaks of the state in the middle of `lcd_switch`, as long as the switch was not
begun inside another nor another inside it: then at most one core is in it
(`OneSwitches`), and when nothing keeps the panel dark that core is lighting the panel and
has switched on what its program point says (`LitSoFar`), or everything is on. A switch
that begins with no other under way makes good whatever a crossing left behind, because
`SwitchOn` sets every part of the hardware. `PanelLit`, which asks only of the ends, is
not inductive.

`WaitedInv` is what the reconciler relies on without saying it. Some of it always holds
(`Always`): a menu keeps `app_run` out, an install hears of the launcher only while it
waits, and only a loaded image is stale. The rest (`Waited`) holds as long as nothing was
overtaken: an image other than that of the slot asked for last is on its way out, and
until then no wipe waits and no menu is open (`InFront`); a wipe waits only for an app
that was sent home or is not the one asked for (`Wiping`); and an install that was told of
the launcher finds it in front with nothing pending, which stays so until it is over
(`Installing`). Each step of either core needs several of them. Once core 1 enters the
launcher with nothing pending all of it holds again, so one overtaken install does not
void what is said of the next.

`UploadInv` joins the slot map with the sessions. A host at work owns the session
(`HostInv`), the session is the one its job asked for (`Granted`), and the slots of that
job are still its own (`Reserved`): they lie in the area, no other header claims one of
them, and a header in the first of them claims just these. `SpansDisjoint` alone is not
inductive, because a header is written many steps after the slots were found free. Most
steps add no header (`Fewer`) and so keep everything (`Kept`); the operation that does
add one adds its own, in its own slot (`OpHeader`). From the same invariant the windows
of `session_allows` lie in the granted slots and miss the save sector (`Window`,
`WindowSlots`), and every operation of a plan is in a window (`PlanSeq`, `Opens`), whatever
the sizes: this is where rounding to sectors and pages is settled. It takes one host
(section 3 says what two do), and a flash in which the apps are apart to begin with.

`DoneInv` adds what each step of a plan has left behind. A page of the plan that was
written holds what was sent, and one still to be written that an erase has been over is
blank (`Written`); that is inductive because a plan erases each page it writes, before
(`EraseCovers`, `Reached`), and writes no page twice: its writes go up through the code
and then the icon, whose offset lies above them (`Rising`, `PlanShape`). From the first
operation to the end of the banner the session is active or done, so that no dialog ends
it and nothing is uninstalled (`Busy`). A host that waits for DONE has no operation left,
so what it finds is the whole image. `Shaped` and the lemmas that join
two plans are about sequences and stand without the state.

`MenuInv` says who may hold the model: a request for a menu or a resume is made by the
app in front (`AskedInv`), a frame and a suspended screen keep it (`FrameInv`,
`SuspendInv`), and a menu that is shown, or that is about to be given a key, has the tree
of the app under it (`TreeInv`).

`ChoiceInv` is why an index that was taken when INSTALLED was shown still means the same
app two pages and a challenge later. On a path the pages of one app come last (`Pages`);
while one of them is shown by an open menu, no wipe is waited for and no install has ended
since (`moved`), the index stands
in the table for the app it was chosen as, and the only app that may be due to be wiped is
the one in front (`SelInv`), which the launcher must replace first, and that takes
the menu down. The rest says when this may be relied on (`HoldInv`): an open menu is on
the screen and not about to be ended, it is never suspended on those pages, the wait for
a wipe is on the page UNINSTALL, and a key was read when no wipe was due. A rescan under
the menu is what each of these excludes.

`NamedInv` follows the entry a lookup may meet: an entry is whole except the one a scan
has in hand (`Entire`), and no two scans run unless `mixed` says so (`Turns`). `ScanInv`
says how far a scan has come: the entries done list the apps below its slot, each once and
in order, and there is an entry left for each slot above (`Halfway`); at the end that is
`TableRight`. `FocusInv` adds that the launcher, once entered, has its selection on the
entry of its app: apps that come or go between visits move the entry, and `Entered` looks
it up again in a table that nothing but core 0's own scans changes under it.

The assumptions are those of the modules: `Size` is a natural number above 1,
`IdleLimit` and `MaxPages` positive, the panel's `Grace` shorter than its `Period`,
`MaxEvents` any number, requests are modes, slot 0 is no slot, the opposite of an ST
key's opposite is the key itself, sizes, counts and the number of slots are natural
numbers, no app is called "blank", "garbage" or "splash" (the flash model's words), and
SETTINGS is an app. Two say what the programs that feed the models do. What is
installed at first (`InstalledAssumption`) is a choice of apps in slots. A tree an app
hands to `menu_run` names its own pages, values, INSTALLED and LCDTEST in its rows
(`TreeAssumption`): `menu_model.c:606` says that no node of an app collides with the
firmware's, and that just these two are open to an app; an app that named an installed app's
own pages would show them with nothing selected. The slots, hence the apps, are finitely
many. No theorem uses a bound of a run; type invariants are proved rather
than checked where that saves a run's property (`AppInput`, `FlashPark`, `Panel`,
`KeyRouting`, `AppRuntime`), as are `HandshakeInv`, `SaveInv` and the invariants above.

Every invariant the passing runs check has a theorem, and so have the refinement and the
action properties. The one hypothesis is one host_tool, in the theorems of `AppUpload`, as
in its run; section 3 says what two do. What a property excepts is in its statement, as a
history variable that says what has happened (`raced`, `overtaken`, `crossed`, `late`,
`moved`, `calm`, `mixed`, `dirty`, `disturbed`), and section 3 says what happens then.

Left to TLC: everything that asks whether something will happen, and so everything
that rests on fairness or on what is ENABLED, which the prover does not reason about
(`AcceptedIsTaken`, `IdleEndsOs`, `OperationEnds`, `Core1Resumes`, `SaveCompletes`,
`GoesHome`, `WipeEnds`, `WakesOnKey`, `IdleSleeps`, `HeldFrameEnds`, `UninstallEnds`,
`MenuEnds`), and the three runs whose property the code does not have. (`Scan` of `Menu`
and `Right` of `AppScan` say what is listed by counting and comparing, not by sorting: the
prover has no induction over a recursive sort.)


## 7. Not modelled, and why

- What is programmed by a save, an app's header and RAM bounds, CRCs, fonts,
  colours, layout: data no property here tells apart.
- Buffering one flash page from several reports (`app_upload_do_write`) is one
  step: reports of one page come from one process, in order.
- The boot splash: the runtime's model starts when it is over.
- Time is a tick (`AppInput`) or a choice: the 800 ms of an install may pass at any
  point. In `Menu` a key (microseconds) is done before core 1's frame (milliseconds) is,
  and the published pair of active and phase is read as one.
- Names in `AppScan` are the slot numbers, so that the case of a table older than the
  flash, with another app in the slot by now, is not seen: `LaunchesNamed` says that the
  lookup and the start use one whole entry, not that the flash still agrees with it.
- The menu's value rows, auto-repeat and drawing, and its REBOOT and BOOTSEL, which end
  the program. The built-in tree is opened by no app, and `MA_APP_LAUNCH` is used by no
  row: neither has a step.
- The settings mailboxes of `app_sys.c` (RGB, caps, scope, sleep), the capture handshake
  and a dialog's descriptor while core 1 draws it: section 8. `PROJECT.json` has the
  components, but not the hazards of these parts.
- The simulator, the games and the host tool's other commands: not the device,
  leaf programs, and sequential file or packet work.
- QMK, Vial, ChibiOS and drivers: upstream, present as callers. They are by far most
  of the repository's lines, with the pictures and fonts of `gfx`.


## 8. Plan

In this order, the most exposed parts first. Each module gets a run, a type
invariant, the properties named here, and proofs where noted.

1. `Settings`: the RGB, caps, scope and sleep mailboxes of `app_sys.c`, field by
   field across the two cores. Abstract specification: a register that delivers
   the last value set. A value applied was set as a whole; the last one is
   applied.
2. `Capture`, the freeze handshake of a screenshot, beside `Panel`: a captured
   frame does not change.
3. `Dialog`: descriptor, focus, countdown, replacement while core 1 draws.
   Every dialog fires one callback, once; core 1 draws one descriptor.
4. `HostXfer`: requests, retries and late replies of `host_tool`.
5. Smaller, if they earn it: debounce, the QGF reader.

Proofs to come: the invariants of the modules above; `OneSwitches` at all times if
the firmware is given a lock round `lcd_switch`, and `AlwaysTornDown` if an install is
made to wait for `ready`; `DoneHoldsApp` for several hosts, which needs
a session to be the host's that asked for it.
