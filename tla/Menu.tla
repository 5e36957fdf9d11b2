--------------------------------- MODULE Menu ---------------------------------
(***************************************************************************)
(* The OS menu (menu.c, menu_model.c): an engine on core 0 that apps on    *)
(* core 1 open on a tree of their own (menu_run), that draws over the      *)
(* suspended app, and that two things end: the engine decides, core 1's    *)
(* frame carries it out.  With it the part of app_run that gives way to    *)
(* the menu, SETTINGS's use of it (screens of its own between a suspend    *)
(* and a resume), and the uninstall that waits for app_sys.c.              *)
(*                                                                         *)
(* Rows are values (toggles), folders (named by their node), "EDITOR"      *)
(* (color, slider or text overlay), "SUSPEND" (an action that shows a      *)
(* screen of the app's) and "EXIT".  The nodes INSTALLED, ITEM, INFO,      *)
(* DELETE and LCDTEST are the firmware's own.                              *)
(***************************************************************************)
EXTENDS Naturals, Sequences, FiniteSets, SequencesExt

CONSTANTS Apps,         \* the installable apps, named by their slot, in flash order
          Settings,     \* the one whose tree leads to INSTALLED
          Tree,         \* app -> node -> its rows
          PathMax,      \* MENU_PATH_MAX
          Overlays      \* TRUE: dialogs and wakes ask for a re-entry (app_request_reinit)

Home == 0

ASSUME AppsAssumption ==
  Apps \subseteq Nat \ {Home} /\ IsFiniteSet(Apps) /\ Settings \in Apps
ASSUME PathAssumption == PathMax \in Nat /\ Overlays \in BOOLEAN

Firmware == {"INSTALLED", "ITEM", "INFO", "DELETE", "LCDTEST"}
Nodes == Firmware \cup UNION {DOMAIN Tree[a] : a \in Apps}
Leaves == {"VALUE", "EDITOR", "SUSPEND", "EXIT"}

\* An app's own rows lead to its pages, and of the firmware's to INSTALLED and LCDTEST.
ASSUME TreeAssumption ==
  \A a \in Apps :
    /\ DOMAIN Tree[a] \cap (Firmware \cup Leaves) = {}
    /\ \A n \in DOMAIN Tree[a] :
         Tree[a][n] \in Seq((Nodes \ {"ITEM", "INFO", "DELETE"}) \cup Leaves)

VARIABLES
  life, shown,          \* menu_wr and menu_view: "off", "open" or "closing" (active, phase)
  path, at,             \* menu_wr.path; saved_focus with the focus itself at the end
  editor,               \* menu_wr.overlay
  susp,                 \* s_suspend_stack
  openReq, openModel, resumeReq, pending,   \* s_open_req, _model, s_resume_req, s_open_pending
  model,                \* g_app_model
  conf, waiting,        \* the arrow challenge, g_uninstall_waiting
  sel,                  \* g_selected_app, an index into the scan table
  chosen,               \* history: the app it stood for when it was selected
  moved,                \* history: an install has ended since, under the open menu
  header, table, listed,        \* flash, app_scan's table, node_tbl[MN_APP].count
  del,                  \* the header app_sys is to wipe, or Home
  base, want,           \* app.c: slot_base, and slot_base while slot_pending, else Home
  again,                \* reinit_req
  cur, scr, after,      \* core 1: loaded app; where its tick is; *_after_menu
  install,              \* the app an accepted upload is to write, or Home
  late,                 \* history: a key has reached this menu after it was told to close
  pc0, pc1,             \* core 0 inside a key or an open, core 1 inside a frame
  user                  \* "here" or "gone"

view    == <<life, shown, path, at, editor, susp>>
request == <<openReq, openModel, resumeReq>>
remove  == <<conf, waiting, sel, chosen, moved>>
flash   == <<header, table, del>>
launch  == <<base, want>>
app     == <<cur, scr, after>>
vars == <<view, request, pending, model, remove, flash, listed, launch, again, app,
          install, late, pc0, pc1, user>>

\* app_scan: the apps whose header is in flash, in slot order.
Before(a, h) == {b \in h : b < a}
Scan(h) == [i \in 1..Cardinality(h) |-> CHOOSE a \in h : Cardinality(Before(a, h)) = i - 1]

Init ==
  /\ life = "off" /\ shown = "off" /\ path = <<>> /\ at = <<0>>
  /\ editor = FALSE /\ susp = FALSE
  /\ openReq = FALSE /\ openModel = Home /\ resumeReq = FALSE /\ pending = FALSE
  /\ model = Home
  /\ conf = "ask" /\ waiting = FALSE /\ sel = 0 /\ chosen = Home /\ moved = FALSE
  /\ header \in {h \in SUBSET Apps : Settings \in h}
  /\ table = Scan(header) /\ del = Home /\ listed = Max({1, Len(table)})
  /\ base = Home /\ want = Home /\ again = FALSE
  /\ cur = Home /\ scr = "play" /\ after = FALSE /\ install = Home
  /\ late = FALSE /\ pc0 = "idle" /\ pc1 = "top" /\ user = "here"

(***************************************************************************)
(* The tree and the stack.                                                 *)
(***************************************************************************)
Node(p) == IF p = <<>> THEN "ROOT" ELSE Last(p)

\* Rows under a node: gen_app for the installed apps, app_node_count elsewhere.
Rows(n) ==
  CASE n = "INSTALLED" -> [i \in 1..listed |-> IF i <= Len(table) THEN "ITEM" ELSE "VALUE"]
    [] n = "ITEM" -> <<"INFO", "DELETE">>
    [] n \in {"INFO", "DELETE", "LCDTEST"} -> <<>>
    [] model # Home /\ n \in DOMAIN Tree[model] -> Tree[model][n]
    [] OTHER -> <<>>

Clamp(f, n) == IF n = 0 THEN 0 ELSE IF f >= n THEN n - 1 ELSE f
ClampLast(s, n) == Append(Front(s), Clamp(Last(s), n))

Focus == Last(at)
Row == Rows(Node(path))[Focus + 1]
HasRow == Focus < Len(Rows(Node(path)))

\* menu_push, where the stack has room.
Push(n) ==
  IF Len(path) >= PathMax THEN UNCHANGED <<path, at, conf, waiting>>
  ELSE /\ path' = Append(path, n) /\ at' = Append(at, 0)
       /\ IF n = "DELETE" THEN conf' = "ask" /\ waiting' = FALSE
          ELSE UNCHANGED <<conf, waiting>>

\* As a bug would have it: the focus of the page above is put on the stack again.
PopPushesFocus ==
  IF path = <<>> THEN UNCHANGED <<path, at, conf>>
  ELSE path' = Front(path) /\ at' = Append(at, 0) /\ conf' = "ask"

\* menu_pop with no editor open: back to the saved row, if it is still there.  (The
\* challenge is begun again by every push of DELETE; elsewhere it is put down here.)
Pop ==
  IF path = <<>> THEN UNCHANGED <<path, at, conf>>
  ELSE /\ path' = Front(path)
       /\ at' = ClampLast(Front(at), Len(Rows(Node(Front(path)))))
       /\ conf' = "ask"

Publish(l) == life' = l /\ shown' = l

\* menu_publish of a change of page: the view takes over whatever life the engine has.
Shows == shown' = life /\ UNCHANGED life

\* As a bug would have it: the phase is changed but not published.
VisualExitUnpublished == life' = "closing" /\ UNCHANGED shown /\ editor' = FALSE

\* menu_visual_exit closes an open editor and asks core 1 to fade out.
VisualExit == Publish("closing") /\ editor' = FALSE
MenuExit == VisualExit /\ susp' = FALSE /\ waiting' = FALSE

\* `if (menu_is_active()) menu_exit()`.
ExitIfActive ==
  IF shown = "off" THEN UNCHANGED <<life, shown, editor, susp, waiting>> ELSE MenuExit

(***************************************************************************)
(* Keys, on core 0.  menu_process_key first looks at the published view;   *)
(* by the time the key is acted on core 1 may have ended the menu.         *)
(***************************************************************************)

\* app_delete_may_run: not while the slot app in front is the one to wipe (by the
\* base last asked for).
WipeDue == del # Home /\ (cur = Home \/ base # del)

elsewhere == <<request, pending, model, header, table, launch, again, app, install, pc1, user>>

\* Core 1 cannot end the menu: it draws the calibration screen or an editor first.
Stuck == shown = "closing" /\ (editor \/ Node(path) = "LCDTEST")

\* (A wipe that is due comes before the next scan of the keys.  Bound: one key reaches
\* a menu that is closing, whose end is a frame away, unless it is stuck.)
Key ==
  /\ pc0 = "idle" /\ user = "here" /\ shown # "off" /\ ~WipeDue
  /\ late /\ shown = "closing" => Stuck
  /\ pc0' = "key"
  /\ UNCHANGED <<view, remove, del, listed, late, elsewhere>>

Keyed == pc0 = "key" /\ pc0' = "idle" /\ late' = (late \/ life # "open")
OnPage == ~editor /\ Node(path) \notin {"INFO", "DELETE", "LCDTEST"}

\* A key with nothing to do here: a release, a shift, an arrow in an editor, any
\* key while the flash is being erased.
KeyIgnored ==
  /\ Keyed
  /\ UNCHANGED <<view, remove, del, listed, elsewhere>>

\* Enter or Esc in an editor commits or cancels: overlay_close.
KeyEditor ==
  /\ Keyed /\ editor /\ Node(path) # "DELETE"
  /\ editor' = FALSE /\ Shows
  /\ UNCHANGED <<path, at, susp, remove, del, listed, elsewhere>>

\* Esc (also Enter under INFO and LCDTEST, Left on an ordinary page) goes up.
KeyBack ==
  /\ Keyed /\ ~editor /\ path # <<>> /\ ~(Node(path) = "DELETE" /\ waiting)
  /\ Pop /\ Shows
  /\ UNCHANGED <<editor, susp, waiting, sel, chosen, moved, del, listed, elsewhere>>

\* Esc at the root, or the row that says so, leaves the menu.
KeyExit ==
  /\ Keyed /\ OnPage
  /\ path = <<>> \/ (HasRow /\ Row = "EXIT")
  /\ MenuExit
  /\ UNCHANGED <<path, at, conf, sel, chosen, moved, del, listed, elsewhere>>

\* menu_move_focus: Up and Down roll over (the repeat of a held key does not).
KeyMove ==
  LET n == Len(Rows(Node(path))) IN
  /\ Keyed /\ OnPage /\ n > 0
  /\ \E f \in {IF Focus = 0 THEN n - 1 ELSE Focus - 1, IF Focus + 1 >= n THEN 0 ELSE Focus + 1} :
       at' = Append(Front(at), Clamp(f, n))
  /\ Shows
  /\ UNCHANGED <<path, editor, susp, remove, del, listed, elsewhere>>

\* menu_open_folder_item for a picker: the editor opens over the page.
KeyOpenEditor ==
  /\ Keyed /\ OnPage /\ HasRow /\ Row = "EDITOR"
  /\ editor' = TRUE /\ Shows
  /\ UNCHANGED <<path, at, susp, remove, del, listed, elsewhere>>

\* menu_open_folder_item, and the rows DETAILS and UNINSTALL: one page down.  An
\* installed app is selected by its row; INSTALLED is scanned afresh.
KeyOpen ==
  /\ Keyed /\ OnPage /\ HasRow /\ Row \in Nodes
  /\ IF Node(path) = "INSTALLED"
     THEN sel' = Focus /\ chosen' = table[Focus + 1] /\ moved' = FALSE
     ELSE UNCHANGED <<sel, chosen, moved>>
  /\ IF Row = "INSTALLED"
     THEN table' = Scan(header) /\ listed' = Max({1, Len(Scan(header))})
     ELSE UNCHANGED <<table, listed>>
  /\ Push(Row) /\ Shows
  /\ UNCHANGED <<editor, susp, del, request, pending, model, header, launch, again, app,
                 install, pc1, user>>

\* SETTINGS's STORAGE (which scans) and SYSTEM rows: a screen of its own once the menu
\* is gone.
KeySuspend ==
  /\ Keyed /\ OnPage /\ HasRow /\ Row = "SUSPEND"
  /\ table' \in {table, Scan(header)}
  /\ after' = TRUE /\ susp' = TRUE /\ VisualExit
  /\ UNCHANGED <<path, at, remove, del, listed, request, pending, model, header, launch,
                 again, cur, scr, install, pc1, user>>

\* The arrow challenge: on it goes, is passed, or is failed for a while.
KeyArrow ==
  /\ Keyed /\ Node(path) = "DELETE" /\ ~waiting /\ conf = "ask"
  /\ conf' \in {"ask", "ok", "err"} /\ Shows
  /\ UNCHANGED <<path, at, editor, susp, waiting, sel, chosen, moved, del, listed, elsewhere>>

\* As a bug would have it: the app under the menu is waited for like any other.
KeyUninstallWaits ==
  /\ Keyed /\ Node(path) = "DELETE" /\ ~waiting /\ conf = "ok" /\ del = Home /\ sel < Len(table)
  /\ del' = table[sel + 1] /\ waiting' = TRUE /\ Shows
  /\ want' = IF base = del' THEN Home ELSE want
  /\ UNCHANGED <<path, at, conf, editor, susp, sel, chosen, moved, listed, request, pending, model, header,
                 table, base, again, app, install, pc1, user>>

\* Enter with the challenge passed: the header of the selected app is wiped, now
\* or when the app has been left.
KeyUninstall ==
  /\ Keyed /\ Node(path) = "DELETE" /\ ~waiting /\ conf = "ok"
  /\ IF sel < Len(table) /\ del = Home
     THEN /\ del' = table[sel + 1]
          /\ IF base = table[sel + 1]
             THEN want' = Home /\ MenuExit /\ UNCHANGED <<path, at, conf>>
             ELSE /\ waiting' = TRUE /\ Shows
                  /\ UNCHANGED <<want, path, at, conf, editor, susp>>
     ELSE Pop /\ Shows /\ UNCHANGED <<del, want, editor, susp, waiting>>
  /\ UNCHANGED <<sel, chosen, moved, listed, request, pending, model, header, table, base, again,
                 app, install, pc1, user>>

KeyAct ==
  \/ KeyIgnored \/ KeyEditor \/ KeyBack \/ KeyExit \/ KeyMove \/ KeyOpenEditor
  \/ KeyOpen \/ KeySuspend \/ KeyArrow \/ KeyUninstall

(***************************************************************************)
(* Housekeeping, on core 0.                                                *)
(***************************************************************************)

\* menu_service: an app's request to open binds its tree, then enters the menu.
OpenTake ==
  /\ pc0 = "idle" /\ openReq
  /\ openReq' = FALSE /\ model' = openModel /\ pc0' = "open"
  /\ UNCHANGED <<view, openModel, resumeReq, pending, remove, flash, listed, launch, again, app,
                 install, late, pc1, user>>

OpenEnter ==
  /\ pc0 = "open"
  /\ Publish("open") /\ path' = <<>> /\ at' = <<0>> /\ editor' = FALSE
  /\ conf' = "ask" /\ sel' = 0 /\ chosen' = Home      \* nothing selected on a new stack
  /\ susp' = FALSE /\ waiting' = FALSE /\ late' = FALSE /\ moved' = FALSE /\ pc0' = "idle"
  /\ UNCHANGED <<request, pending, model, flash, listed, launch, again, app,
                 install, pc1, user>>

\* menu_resume_enter: the same page again.
Resume ==
  /\ pc0 = "idle" /\ resumeReq
  /\ resumeReq' = FALSE /\ susp' = FALSE /\ Publish("open")
  /\ UNCHANGED <<path, at, editor, openReq, openModel, pending, model, remove, flash, listed,
                 launch, again, app, install, late, pc0, pc1, user>>

\* As a bug would have it: the tree of a suspended menu is dropped too.
FinishedDropsAll ==
  /\ pc0 = "idle" /\ shown = "off" /\ (life # "off" \/ model # Home)
  /\ life' = "off" /\ model' = Home
  /\ UNCHANGED <<shown, path, at, editor, susp, request, pending, remove, flash, listed, launch,
                 again, app, install, late, pc0, pc1, user>>

\* menu_exit_finished: core 1 has ended the menu, and it is not suspended.
Finished ==
  /\ pc0 = "idle" /\ shown = "off" /\ ~susp
  /\ life # "off" \/ model # Home
  /\ life' = "off" /\ model' = Home
  /\ UNCHANGED <<shown, path, at, editor, susp, request, pending, remove, flash, listed, launch,
                 again, app, install, late, pc0, pc1, user>>

\* As a bug would have it: the page, and the index it stands for, stay.
UninstalledStays ==
  /\ pc0 = "idle" /\ shown # "off" /\ waiting /\ del = Home
  /\ waiting' = FALSE /\ table' = Scan(header) /\ listed' = Max({1, Cardinality(header)})
  /\ conf' = "ask" /\ Shows
  /\ UNCHANGED <<path, at, editor, susp, request, pending, model, sel, chosen, moved, header, del, launch,
                 again, app, install, late, pc0, pc1, user>>

\* menu_housekeeping_task: the wipe is over, back to INSTALLED, scanned afresh.
Uninstalled ==
  LET n == Max({0} \cup {i \in 1..Len(path) : path[i] = "INSTALLED"})
      apps == Scan(header)
      rows == IF n = 0 THEN Len(Rows("ROOT")) ELSE Max({1, Len(apps)})
  IN
  /\ pc0 = "idle" /\ shown # "off" /\ waiting /\ del = Home
  /\ waiting' = FALSE
  /\ table' = apps /\ listed' = Max({1, Len(apps)})
  /\ path' = SubSeq(path, 1, n) /\ at' = ClampLast(SubSeq(at, 1, n + 1), rows)
  /\ conf' = "ask"
  /\ Shows
  /\ UNCHANGED <<editor, susp, request, pending, model, sel, chosen, moved, header, del, launch,
                 again, app, install, late, pc0, pc1, user>>

\* A wrong arrow has been shown long enough.
ConfExpired ==
  /\ pc0 = "idle" /\ shown # "off" /\ Node(path) = "DELETE" /\ ~waiting /\ conf = "err"
  /\ IF editor THEN editor' = FALSE /\ UNCHANGED <<path, at, conf>> ELSE Pop /\ UNCHANGED editor
  /\ Shows
  /\ UNCHANGED <<susp, waiting, sel, chosen, moved, flash, listed, request, pending, model, launch,
                 again, app, install, late, pc0, pc1, user>>

\* LCD_MENU_IDLE_MS without a key.
IdleExit ==
  /\ pc0 = "idle" /\ shown # "off" /\ ~waiting /\ life = "open"
  /\ MenuExit
  /\ UNCHANGED <<path, at, conf, sel, chosen, moved, flash, listed, request, pending, model, launch,
                 again, app, install, late, pc0, pc1, user>>

\* app_sys_service wipes the header, with core 1 parked, and scans.
Wipe ==
  /\ pc0 = "idle" /\ WipeDue /\ pc1 = "top"
  /\ header' = header \ {del} /\ table' = Scan(header \ {del}) /\ del' = Home
  /\ UNCHANGED <<view, request, pending, model, remove, listed, launch, again, app, install, late,
                 pc0, pc1, user>>

(***************************************************************************)
(* What else core 0 does to the menu.                                      *)
(***************************************************************************)

\* A host LAUNCH of an app the table knows, or does after another scan.
Launch(a) ==
  /\ pc0 = "idle" /\ a \in header \cup Range(table)
  /\ table' = IF a \in Range(table) THEN table ELSE Scan(header)
  /\ ExitIfActive
  /\ base' = a /\ want' = a /\ again' = TRUE
  /\ UNCHANGED <<path, at, request, pending, model, conf, sel, chosen, moved, header, del, listed, app,
                 install, late, pc0, pc1, user>>

\* INSTALL in an upload's dialog: app_upload_accept.
Accept(a) ==
  /\ pc0 = "idle" /\ user = "here" /\ ~WipeDue /\ install = Home /\ a \notin header
  /\ ExitIfActive
  /\ want' = Home /\ install' = a
  /\ UNCHANGED <<path, at, request, pending, model, conf, sel, chosen, moved, flash, listed, base, again,
                 app, late, pc0, pc1, user>>

\* The upload, once the launcher is up or 800 ms have passed wherever core 1 is: END
\* scans, and a menu that an app has opened in between goes on with its row.
Installed ==
  /\ pc0 = "idle" /\ install # Home /\ pc1 = "top"
  /\ header' = header \cup {install} /\ table' = Scan(header \cup {install})
  /\ install' = Home /\ want' = Home
  /\ moved' = (moved \/ life = "open")
  /\ UNCHANGED <<view, request, pending, model, conf, waiting, sel, chosen, del, listed, base, again,
                 app, late, pc0, pc1, user>>

\* A dialog's or upload's overlay is torn down, or the panel wakes.
Reinit ==
  /\ Overlays /\ pc0 = "idle" /\ pc1 = "top" /\ ~again /\ cur # Home
  /\ again' = TRUE
  /\ UNCHANGED <<view, request, pending, model, remove, flash, listed, launch, app, install, late,
                 pc0, pc1, user>>

UserLeaves ==
  /\ user = "here" /\ pc0 = "idle"
  /\ user' = "gone"
  /\ UNCHANGED <<view, request, pending, model, remove, flash, listed, launch, again, app,
                 install, late, pc0, pc1>>

(***************************************************************************)
(* Core 1's frame: app_run.                                                *)
(***************************************************************************)
core0 == <<life, path, at, editor, susp, model, remove, flash, listed, install, late, pc0, user>>

\* As a bug would have it: a frame under the menu does not end the wait for it.
FrameMenuHolds ==
  /\ pc1 = "top" /\ shown # "off"
  /\ pc1' = "draw"
  /\ UNCHANGED <<core0, shown, request, pending, launch, again, app>>

\* While the menu is up, or asked for and not yet up, the app neither ticks nor changes.
FrameMenu ==
  /\ pc1 = "top" /\ shown # "off"
  /\ pending' = FALSE /\ pc1' = "draw"
  /\ UNCHANGED <<core0, shown, request, launch, again, app>>

\* Otherwise the app is reconciled with what is wanted, entered (settings_enter) if
\* it changed or was asked to, and ticks.  An image that is gone does not load.
\* (Frames begin milliseconds apart, a key takes microseconds: none spans the start
\* of two frames.)
FrameApp ==
  /\ pc1 = "top" /\ shown = "off" /\ ~pending /\ pc0 # "key"
  /\ cur' = want /\ again' = FALSE /\ pc1' = "tick"
  /\ IF want # cur \/ again
     THEN /\ scr' = CASE want \notin header \cup {Home} -> "leave"
                      [] want = Settings -> "start"
                      [] OTHER -> "play"
          /\ after' = FALSE
     ELSE UNCHANGED <<scr, after>>
  /\ UNCHANGED <<core0, shown, request, pending, launch>>

\* menu_render_task: the pages that are drawn before the phase is looked at.
Draw ==
  /\ pc1 = "draw"
  /\ pc1' = IF shown = "closing" /\ ~editor /\ Node(path) # "LCDTEST" THEN "close" ELSE "top"
  /\ UNCHANGED <<core0, shown, request, pending, launch, again, app>>

\* An app's menu goes at once.  (The built-in one, which no app opens, would fade out
\* over some frames first.)
Close ==
  /\ pc1 = "close"
  /\ shown' = "off" /\ pc1' = "top"
  /\ UNCHANGED <<core0, request, pending, launch, again, app>>

Ticked == pc1 = "tick" /\ pc1' = "top"

TickNothing ==
  /\ Ticked
  /\ scr \in {"play", "screen"} \/ (scr = "menu" /\ ~after /\ (shown # "off" \/ pending))
  /\ UNCHANGED <<core0, shown, request, pending, launch, again, app>>

\* menu_run, from settings_tick once, from a game when its key is pressed.
TickOpen ==
  /\ Ticked
  /\ scr = "start" \/ (scr = "play" /\ cur # Home /\ user = "here")
  /\ openModel' = cur /\ pending' = TRUE /\ openReq' = TRUE
  /\ scr' = IF scr = "start" THEN "menu" ELSE scr
  /\ UNCHANGED <<core0, shown, resumeReq, launch, again, cur, after>>

\* settings_tick: the menu is gone, for the screen it was suspended for or for good.
TickScreen ==
  /\ Ticked /\ scr = "menu" /\ after
  /\ after' = FALSE /\ scr' = "screen"
  /\ UNCHANGED <<core0, shown, request, pending, launch, again, cur>>

TickLeave ==
  /\ Ticked /\ scr = "menu" /\ ~after /\ shown = "off" /\ ~pending
  /\ scr' = "leave"
  /\ UNCHANGED <<core0, shown, request, pending, launch, again, cur, after>>

\* Esc on the screen: back to the menu.  (Bound: one key a frame; see the README for
\* Esc and Enter in one.)
TickResume ==
  /\ Ticked /\ scr = "screen" /\ user = "here"
  /\ scr' = "menu" /\ pending' = TRUE /\ resumeReq' = TRUE
  /\ UNCHANGED <<core0, shown, openReq, openModel, launch, again, cur, after>>

\* app_return_to_launcher, by settings_tick, a failed load, or a game's key.
TickHome ==
  /\ Ticked
  /\ scr = "leave" \/ (scr = "play" /\ cur # Home /\ user = "here")
  /\ want' = Home
  /\ UNCHANGED <<core0, shown, request, pending, base, again, app>>

\* The launcher starts an app of the table.
TickLaunch(a) ==
  /\ Ticked /\ cur = Home /\ user = "here" /\ a \in Range(table)
  /\ base' = a /\ want' = a /\ again' = TRUE
  /\ UNCHANGED <<core0, shown, request, pending, app>>

Tick ==
  \/ TickNothing \/ TickOpen \/ TickScreen \/ TickLeave \/ TickResume \/ TickHome
  \/ \E a \in Apps : TickLaunch(a)

\* display_task_user on core 1, from one frame to the next.
Core1 == FrameMenu \/ FrameApp \/ Draw \/ Close \/ Tick

Next ==
  \/ Key \/ KeyAct
  \/ OpenTake \/ OpenEnter \/ Resume \/ Finished \/ Uninstalled \/ ConfExpired \/ IdleExit \/ Wipe
  \/ \E a \in Apps : Launch(a) \/ Accept(a)
  \/ Installed \/ Reinit \/ UserLeaves
  \/ Core1

Spec == Init /\ [][Next]_vars

\* Core 1 draws frames and finishes them; core 0 finishes what it is in
\* and goes round its loop, so requests, the wait for a wipe and the idle timer are looked
\* at again and again.  A wipe gets core 1 parked (OperationEnds of FlashPark).  No key
\* is assumed.
FairSpec ==
  /\ Spec
  /\ WF_vars(KeyAct \/ OpenEnter) /\ WF_vars(user = "gone" /\ IdleExit)
  /\ SF_vars(OpenTake \/ Resume) /\ SF_vars(Uninstalled) /\ SF_vars(Wipe)
  /\ WF_vars(Core1)

-------------------------------------------------------------------------------
\* The type invariant: every page has its saved focus, and the path its bound.
TypeOK ==
  /\ life \in {"off", "open", "closing"} /\ shown \in {"off", "open", "closing"}
  /\ path \in Seq(Nodes) /\ Len(path) <= PathMax
  /\ at \in Seq(Nat) /\ Len(at) = Len(path) + 1
  /\ editor \in BOOLEAN /\ susp \in BOOLEAN
  /\ {openReq, resumeReq, pending, waiting, again, after} \subseteq BOOLEAN
  /\ {model, openModel, chosen, del, base, want, cur, install} \subseteq Apps \cup {Home}
  /\ conf \in {"ask", "ok", "err"} /\ sel \in Nat /\ listed \in Nat \ {0}
  /\ late \in BOOLEAN /\ moved \in BOOLEAN /\ header \subseteq Apps /\ Range(table) \subseteq Apps
  /\ scr \in {"start", "menu", "screen", "leave", "play"}
  /\ pc0 \in {"idle", "key", "open"}
  /\ pc1 \in {"top", "draw", "close", "tick"}
  /\ user \in {"here", "gone"}

\* The tree on the screen is that of the app that lies suspended under it, and so
\* is the tree of a menu put away for a while: app_run keeps both.
ModelLoaded ==
  ~late /\ (shown # "off" \/ (scr = "screen" /\ susp)) => model = cur /\ cur # Home

\* What an uninstall wipes is the app whose row the user opened, although the row is
\* kept as an index into a table that other parts of the firmware rebuild.  (Not so
\* for a key that reaches a menu already told to close, nor when an install has ended
\* since: the 800 ms let one go ahead although an app opened its menu meanwhile.)
ChosenIsWiped == [][~late' /\ ~moved' /\ del' # del /\ del' # Home => del' = chosen]_vars

\* A frame held for a menu that was asked for is not held for ever (app.c:91).
HeldFrameEnds == pending ~> ~pending

\* The page that says "Uninstalling", on which every key is dead, is left again
\* (menu.c:614).
UninstallEnds == (waiting /\ shown # "off" /\ ~late) ~> (~waiting \/ shown = "off")

\* Once nobody uses the keyboard the menu closes, unless core 1 is kept from it.
MenuEnds == (user = "gone" /\ shown # "off") ~> (shown = "off" \/ Stuck)

\* menu.c:629: "Auto-exit after a stretch of no input".
IdleCloses == (user = "gone" /\ shown = "open") ~> (shown = "off")
===============================================================================
