-------------------------------- MODULE AppScan --------------------------------
(***************************************************************************)
(* The app table (app_scan.c): either core rebuilds it from the slots'     *)
(* headers, one store at a time, while the other may be doing the same or  *)
(* reading it.  Core 0 scans after an install or a wipe and for a LAUNCH   *)
(* of an app it does not find; core 1 scans on entering the launcher       *)
(* (launcher.c), which keeps its focus by slot, and for SETTINGS once a    *)
(* slot it asked to have wiped is.  Flash changes only with core 1 parked  *)
(* between frames (FlashPark); placement is AppUpload's.                   *)
(***************************************************************************)
EXTENDS Naturals

CONSTANTS N,        \* APP_SLOT_TOTAL, the number of slots (and of table entries)
          Counts    \* slot counts that headers give

ASSUME SlotsAssumption == N \in Nat \ {0} /\ Counts \subseteq Nat

Slots == 1..N
None  == 0
Cores == {0, 1}

\* A header: "good" passes every check of app_scan, "bad" fails one (an install cut
\* short, another ABI), "old" is shorter than app_header_t.
Headers == [count : Counts, is : {"good", "bad", "old"}]
Blank   == [count |-> 0, is |-> "none"]

\* An app's name stands for the slot it was installed in.
Entries == [name : Slots \cup {None}, base : Slots \cup {None}, span : Counts \cup {0}]

VARIABLES
  header,               \* flash: what each slot begins with
  count, entry,         \* s_count, s_apps
  scan, pos, idx,       \* per core: where it is in app_scan, the slot, the entry
  del, upload, target,  \* the header to wipe; an upload: "no", "yes", "done" (DONE); its slot
  at0, asked,           \* core 0 between its steps; the app a LAUNCH asks for
  want, front, again,   \* app.c: the app wanted, the one in front (None: launcher), reinit_req
  held,                 \* a menu is over the app, which does not tick
  erasing,              \* SETTINGS waits for a wipe
  at1, n, sel, focus,   \* core 1 in a frame; launcher's n, lau_sel, lau_focus
  mixed, dirty,         \* history: the last scan ran beside another; the flash changed since
  disturbed,            \* history: a key or a scan on core 0 since the launcher's last frame
  wrong                 \* history: a LAUNCH by name, with core 1 not at the table, of another app

table   == <<count, entry>>
history == <<mixed, disturbed>>
scans   == <<scan, pos, idx, history>>
flash   == <<header, dirty>>
session == <<upload, target>>
request == <<want, again>>
launcher == <<n, sel, focus>>
vars == <<flash, table, scans, del, session, at0, asked, request, front, held, erasing, at1,
          launcher, wrong>>

(***************************************************************************)
(* Headers.                                                                *)
(***************************************************************************)

\* The checks of app_scan.
Valid(s) == header[s].is = "good" /\ header[s].count # 0 /\ s + header[s].count - 1 <= N
Installed == {s \in Slots : Valid(s)}

\* As a bug would have it: a span up to the last slot is taken for one past it.
SpanToLast(h, s) ==
  LET c == IF h[s].is = "old" THEN 1 ELSE h[s].count
  IN  IF h[s] = Blank THEN {} ELSE s .. s + (IF c = 0 \/ c >= N - (s - 1) THEN 1 ELSE c) - 1

\* What a slot is used for by its header: itself once it has the magic, with the slots
\* it spans if the count makes sense.
Span(h, s) ==
  LET c == IF h[s].is = "old" THEN 1 ELSE h[s].count
  IN  IF h[s] = Blank THEN {} ELSE s .. s + (IF c = 0 \/ c > N - (s - 1) THEN 1 ELSE c) - 1

\* slot_occupancy, and occupied_map of app_upload.c.
Occupancy == UNION {Span(header, s) : s \in Slots}

Listed(a) == a \in 1..count
SpanOf(a) == {s \in Slots : entry[a].base <= s /\ s < entry[a].base + entry[a].span}

\* app_slots_fill_states.
State(s) ==
  IF s \notin Occupancy THEN "FREE"
  ELSE IF \E a \in 1..count : entry[a].base = s THEN "OK"
  ELSE IF \E a \in 1..count : s \in SpanOf(a) THEN "OK_EXT"
  ELSE "RESERVED"

\* No two spans overlap (SpansDisjoint of AppUpload).
Disjoint(h) == \A s, t \in Slots : s # t => Span(h, s) \cap Span(h, t) = {}

Init ==
  /\ header \in {h \in [Slots -> Headers \cup {Blank}] : Disjoint(h)} /\ dirty = TRUE
  /\ count = 0 /\ entry = [a \in Slots |-> [name |-> None, base |-> None, span |-> 0]]
  /\ scan = [c \in Cores |-> "no"] /\ pos = [c \in Cores |-> 1] /\ idx = [c \in Cores |-> 0]
  /\ del = None /\ upload = "no" /\ target = None /\ at0 = "idle" /\ asked = None
  /\ want = None /\ front = None /\ again = TRUE /\ held = FALSE /\ erasing = FALSE
  /\ at1 = "frame" /\ n = 0 /\ sel = 0 /\ focus = None
  /\ mixed = FALSE /\ disturbed = FALSE
  /\ wrong = FALSE

(***************************************************************************)
(* app_scan, on core c.                                                    *)
(***************************************************************************)
\* As a bug would have it: the table is added to.
BeginAppends(c) ==
  /\ scan' = [scan EXCEPT ![c] = "load"]
  /\ mixed' = (scan[1 - c] # "no") /\ dirty' = FALSE
  /\ disturbed' = (disturbed \/ c = 0)
  /\ UNCHANGED <<count, entry, pos, idx, header>>

Begin(c) ==
  /\ count' = 0
  /\ scan' = [scan EXCEPT ![c] = "load"]
  /\ mixed' = (scan[1 - c] # "no") /\ dirty' = FALSE
  /\ disturbed' = (disturbed \/ c = 0)
  /\ UNCHANGED <<entry, pos, idx, header>>

besides == <<flash, del, session, at0, asked, request, front, held, erasing, at1, launcher,
             wrong, history>>

\* As a bug would have it: the table's bound is not looked at.
LoadUnbounded(c) ==
  LET next == {s \in Installed : s >= pos[c]} IN
  /\ scan[c] = "load"
  /\ IF next = {}
     THEN /\ scan' = [scan EXCEPT ![c] = "no"]
          /\ pos' = [pos EXCEPT ![c] = 1] /\ idx' = [idx EXCEPT ![c] = 0]
     ELSE /\ scan' = [scan EXCEPT ![c] = "store"]
          /\ pos' = [pos EXCEPT ![c] = CHOOSE s \in next : \A t \in next : s <= t]
          /\ idx' = [idx EXCEPT ![c] = count + 1]
  /\ UNCHANGED <<table, besides>>

\* The next slot with an app, and the index it gets (s_count is read once for the
\* bound and the index); or the end.
Load(c) ==
  LET next == {s \in Installed : s >= pos[c]} IN
  /\ scan[c] = "load"
  /\ IF next = {} \/ count >= N
     THEN /\ scan' = [scan EXCEPT ![c] = "no"]
          /\ pos' = [pos EXCEPT ![c] = 1] /\ idx' = [idx EXCEPT ![c] = 0]
     ELSE /\ scan' = [scan EXCEPT ![c] = "store"]
          /\ pos' = [pos EXCEPT ![c] = CHOOSE s \in next : \A t \in next : s <= t]
          /\ idx' = [idx EXCEPT ![c] = count + 1]
  /\ UNCHANGED <<table, besides>>

\* s_count++, before the entry is filled.
Store(c) ==
  /\ scan[c] = "store"
  /\ count' = idx[c] /\ scan' = [scan EXCEPT ![c] = "name"]
  /\ UNCHANGED <<entry, pos, idx, besides>>

Name(c) ==
  /\ scan[c] = "name"
  /\ entry' = [entry EXCEPT ![idx[c]].name = pos[c]] /\ scan' = [scan EXCEPT ![c] = "base"]
  /\ UNCHANGED <<count, pos, idx, besides>>

Base(c) ==
  /\ scan[c] = "base"
  /\ entry' = [entry EXCEPT ![idx[c]].base = pos[c], ![idx[c]].span = header[pos[c]].count]
  /\ scan' = [scan EXCEPT ![c] = "load"]
  /\ pos' = [pos EXCEPT ![c] = @ + 1] /\ idx' = [idx EXCEPT ![c] = 0]
  /\ UNCHANGED <<count, besides>>

Scan(c) == Load(c) \/ Store(c) \/ Name(c) \/ Base(c)

(***************************************************************************)
(* Core 0.                                                                 *)
(***************************************************************************)

\* app_sys_service has wiped a header (not under a running app: MayWipe of AppRuntime)
\* and lets go of the request ...
Wipe ==
  /\ at0 = "idle" /\ del # None /\ del # front /\ at1 = "frame"
  /\ header' = [header EXCEPT ![del] = Blank] /\ dirty' = TRUE
  /\ del' = None /\ at0' = "list"
  /\ UNCHANGED <<table, scans, session, asked, request, front, held, erasing, at1, launcher,
                 wrong>>

\* ... before it scans; so does the end of an upload.
List ==
  /\ at0 = "list" /\ scan[0] = "no"
  /\ Begin(0) /\ at0' = "listing"
  /\ UNCHANGED <<del, session, asked, request, front, held, erasing, at1, launcher, wrong>>

ListEnd ==
  /\ at0 = "listing" /\ scan[0] = "no"
  /\ at0' = "idle"
  /\ UNCHANGED <<flash, table, scans, del, session, asked, request, front, held, erasing, at1,
                 launcher, wrong>>

\* An accepted upload writes the header of a free run, or of the app it updates.
UploadStart(s, c) ==
  /\ at0 = "idle" /\ upload = "no" /\ at1 = "frame" /\ front = None /\ want = None
  /\ c # 0 /\ s + c - 1 <= N
  /\ \/ (s .. s + c - 1) \cap Occupancy = {}
     \/ header[s] # Blank /\ header[s].is # "old" /\ header[s].count = c
  /\ upload' = "yes" /\ target' = s
  /\ header' = [header EXCEPT ![s] = [count |-> c, is |-> "bad"]] /\ dirty' = TRUE
  /\ UNCHANGED <<table, scans, del, at0, asked, request, front, held, erasing, at1, launcher,
                 wrong>>

\* END: back to the launcher, and a scan.  (A wipe asked for before may have come in between.)
UploadEnd ==
  /\ at0 = "idle" /\ upload = "yes" /\ at1 = "frame"
  /\ header' = IF header[target] = Blank THEN header ELSE [header EXCEPT ![target].is = "good"]
  /\ dirty' = TRUE
  /\ upload' = "done" /\ target' = None /\ want' = None /\ at0' = "list"
  /\ UNCHANGED <<table, scans, del, asked, again, front, held, erasing, at1, launcher, wrong>>

\* ABORT, or the end of the banner (which core 1 may find to be over): core 1 takes
\* its overlay down and enters the app in front again.
UploadGone ==
  /\ at1 = "frame"
  /\ \/ upload = "yes" /\ at0 = "idle"
     \/ upload = "done"
  /\ upload' = "no" /\ target' = None /\ again' = TRUE
  /\ UNCHANGED <<flash, table, scans, del, at0, asked, want, front, held, erasing, at1, launcher,
                 wrong>>

\* app_scan_find, and the launch of what it found.
Found(s) == {a \in 1..count : entry[a].name = s}

\* As a bug would have it: the index of what was found is not kept.
StartFirst(s) ==
  /\ want' = entry[1].base /\ again' = TRUE /\ held' = FALSE
  /\ wrong' = (wrong \/ (entry[1].base # s /\ ~mixed /\ scan[1] = "no"))

Start(s) ==
  LET a == CHOOSE b \in Found(s) : \A d \in Found(s) : b <= d IN
  /\ want' = entry[a].base /\ again' = TRUE /\ held' = FALSE
  /\ wrong' = (wrong \/ (entry[a].base # s /\ ~mixed /\ scan[1] = "no"))

\* A LAUNCH from the host, of an app the table has ...
Launch(s) ==
  /\ at0 = "idle" /\ Found(s) # {}
  /\ Start(s)
  /\ UNCHANGED <<flash, table, scans, del, session, at0, asked, front, erasing, at1, launcher>>

\* ... or does not: it is scanned once more.
LaunchScan(s) ==
  /\ at0 = "idle" /\ Found(s) = {}
  /\ Begin(0) /\ at0' = "launch" /\ asked' = s
  /\ UNCHANGED <<del, session, request, front, held, erasing, at1, launcher, wrong>>

LaunchFound ==
  /\ at0 = "launch" /\ scan[0] = "no"
  /\ at0' = "idle" /\ asked' = None
  /\ IF Found(asked) # {} THEN Start(asked) ELSE UNCHANGED <<request, held, wrong>>
  /\ UNCHANGED <<flash, table, scans, del, session, front, erasing, at1, launcher>>

\* The menu over an app comes and goes; on its way it scans for INSTALLED and for
\* STORAGE, and uninstalls.
Menu ==
  /\ at0 = "idle" /\ at1 = "frame" /\ front \in Installed
  /\ held' = ~held
  /\ UNCHANGED <<flash, table, scans, del, session, at0, asked, request, front, erasing, at1,
                 launcher, wrong>>

MenuScan ==
  /\ at0 = "idle" /\ held
  /\ at0' = "list"
  /\ UNCHANGED <<flash, table, scans, del, session, asked, request, front, held, erasing, at1,
                 launcher, wrong>>

Uninstall ==
  /\ at0 = "idle" /\ held /\ del = None
  /\ \E a \in 1..count :
       /\ del' = entry[a].base
       /\ IF want = entry[a].base THEN want' = None /\ held' = FALSE ELSE UNCHANGED <<want, held>>
  /\ UNCHANGED <<flash, table, scans, session, at0, asked, again, front, erasing, at1,
                 launcher, wrong>>

(***************************************************************************)
(* Core 1's frames.                                                        *)
(***************************************************************************)
Runs == at1 = "frame" /\ upload = "no" /\ ~held

\* app_run changes or re-enters the app; launcher_enter begins with a scan.
Enter ==
  /\ Runs /\ (want # front \/ again)
  /\ front' = want /\ again' = FALSE /\ erasing' = FALSE
  /\ IF want = None THEN Begin(1) /\ at1' = "enter"
     ELSE UNCHANGED <<flash, table, scans, at1>>
  /\ UNCHANGED <<del, session, at0, asked, want, held, launcher, wrong>>

\* As a bug would have it: the index is kept.
EnteredKeepsIndex ==
  /\ at1 = "enter" /\ scan[1] = "no" /\ at1' = "tick"
  /\ UNCHANGED <<flash, table, scans, del, session, at0, asked, request, front, held, erasing,
                 launcher, wrong>>

\* The rest of launcher_enter: the focus goes to the app it was on, wherever it is now.
Entered ==
  LET there == {a \in 1..count : entry[a].base = focus} IN
  /\ at1 = "enter" /\ scan[1] = "no"
  /\ IF focus # None /\ there # {}
     THEN sel' = (CHOOSE a \in there : \A b \in there : a <= b) - 1 /\ UNCHANGED focus
     ELSE sel' = 0 /\ focus' = None
  /\ at1' = "tick"
  /\ UNCHANGED <<flash, table, scans, del, session, at0, asked, request, front, held, erasing,
                 n, wrong>>

\* launcher_tick: the number of apps is read once ...
Tick ==
  /\ at1 = "tick" \/ (Runs /\ front = None /\ want = None /\ ~again)
  /\ n' = count /\ at1' = "input"
  /\ UNCHANGED <<flash, table, scans, del, session, at0, asked, request, front, held, erasing,
                 sel, focus, wrong>>

\* ... arrows move the selection ...
Arrow ==
  /\ at1 = "input" /\ n > 0
  /\ sel' \in 0 .. n - 1 /\ disturbed' = TRUE
  /\ UNCHANGED <<flash, table, scan, pos, idx, mixed, del, session, at0, asked, request, front,
                 held, erasing, at1, n, focus, wrong>>

\* ... Enter launches it ...
EnterKey ==
  /\ at1 = "input" /\ n > 0 /\ Listed(sel + 1)
  /\ focus' = entry[sel + 1].base /\ disturbed' = TRUE
  /\ want' = entry[sel + 1].base /\ again' = TRUE
  /\ UNCHANGED <<flash, table, scan, pos, idx, mixed, del, session, at0, asked, front, held,
                 erasing, at1, n, sel, wrong>>

\* ... and the frame shows it, and remembers the slot.
Draw ==
  /\ at1 = "input"
  /\ sel' = IF n > 0 /\ sel >= n THEN n - 1 ELSE sel
  /\ focus' = IF n > 0 /\ Listed(sel' + 1) THEN entry[sel' + 1].base ELSE None
  /\ disturbed' = (scan[0] # "no") /\ at1' = "frame" /\ n' = 0
  /\ UNCHANGED <<flash, table, scan, pos, idx, mixed, del, session, at0, asked, request, front,
                 held, erasing, wrong>>

\* An app goes home.
Home ==
  /\ Runs /\ front # None
  /\ want' = None
  /\ UNCHANGED <<flash, table, scans, del, session, at0, asked, again, front, held, erasing, at1,
                 launcher, wrong>>

\* SETTINGS's STORAGE has a slot wiped that is held by no app (erase_start) ...
Reclaim(s) ==
  /\ Runs /\ front \in Installed /\ want = front /\ ~erasing /\ del = None /\ State(s) = "RESERVED"
  /\ del' \in {t \in Slots : s \in Span(header, t)} /\ erasing' = TRUE
  /\ UNCHANGED <<flash, table, scans, session, at0, asked, request, front, held, at1, launcher,
                 wrong>>

\* ... and scans when that is done (erasing_tick).
Reclaimed ==
  /\ Runs /\ erasing /\ want = front /\ del = None
  /\ erasing' = FALSE /\ Begin(1) /\ at1' = "rescan"
  /\ UNCHANGED <<del, session, at0, asked, request, front, held, launcher, wrong>>

Rescanned ==
  /\ at1 = "rescan" /\ scan[1] = "no"
  /\ at1' = "frame"
  /\ UNCHANGED <<flash, table, scans, del, session, at0, asked, request, front, held, erasing,
                 launcher, wrong>>

Next ==
  \/ \E c \in Cores : Scan(c)
  \/ Wipe \/ List \/ ListEnd \/ UploadEnd \/ UploadGone \/ LaunchFound
  \/ \E s \in Slots : \/ Launch(s) \/ LaunchScan(s) \/ Reclaim(s)
                     \/ \E c \in Counts : UploadStart(s, c)
  \/ Menu \/ MenuScan \/ Uninstall
  \/ Enter \/ Entered \/ Tick \/ Arrow \/ EnterKey \/ Draw \/ Home \/ Reclaimed \/ Rescanned

Spec == Init /\ [][Next]_vars

-------------------------------------------------------------------------------
\* The type invariant: whatever the cores do to each other, no index leaves the table.
TypeOK ==
  /\ header \in [Slots -> Headers \cup {Blank}]
  /\ count \in 0..N /\ entry \in [Slots -> Entries]
  /\ scan \in [Cores -> {"no", "load", "store", "name", "base"}]
  /\ pos \in [Cores -> 1 .. N + 1] /\ idx \in [Cores -> 0..N]
  /\ {del, target, asked, want, front, focus} \subseteq Slots \cup {None}
  /\ upload \in {"no", "yes", "done"} /\ at0 \in {"idle", "list", "listing", "launch"}
  /\ {again, held, erasing, mixed, dirty, disturbed, wrong} \subseteq BOOLEAN
  /\ at1 \in {"frame", "enter", "rescan", "tick", "input"} /\ n \in 0..N /\ sel \in 0..N

Quiet == \A c \in Cores : scan[c] = "no"

\* The first k entries are the apps below slot p, each once, in slot order.
Lists(k, p) ==
  /\ \A a \in 1..k : LET s == entry[a].base
                     IN  s \in Installed /\ s < p
                         /\ entry[a].name = s /\ entry[a].span = header[s].count
  /\ \A a, b \in 1..k : a < b => entry[a].base < entry[b].base
  /\ \A s \in Installed : s < p => \E a \in 1..k : entry[a].base = s

\* The table lists the apps in the flash.
Right == Lists(count, N + 1)

\* Between scans the table lists the apps that were in flash at the last one, if that
\* did not run beside another.
TableRight == Quiet /\ ~dirty /\ ~mixed => Right

\* app_scan.h:28, a scan is "safe to call from either core when no flash write is in
\* flight".
SafeFromEither == Quiet /\ ~dirty => Right

\* Then what SETTINGS shows of the slots is true: the first slot of an app, the rest
\* of one, and none of either free to be written over.
StatesRight ==
  Quiet /\ ~dirty /\ ~mixed =>
    \A s \in Slots :
      /\ State(s) = "OK" <=> s \in Installed
      /\ State(s) = "OK_EXT" <=> \E t \in Installed : t < s /\ s < t + header[t].count

\* A LAUNCH by name starts that app, unless core 1 was at the table at the time.
LaunchesNamed == ~wrong

\* The launcher's focus stays on its app while that is installed and the user leaves
\* it there, whatever is installed, removed or run meanwhile, unless core 0 scans
\* under it.
FocusKept ==
  [][(focus \in Installed /\ focus' # focus)
       => (disturbed \/ disturbed' \/ mixed)]_vars
===============================================================================
