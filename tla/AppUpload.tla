------------------------------- MODULE AppUpload -------------------------------
(***************************************************************************)
(* Installing apps and boot animations over raw HID: the session state     *)
(* machine of app_upload.c, the modal dialog that authorises it            *)
(* (dialog.c), the command handlers of user_rawhid.c, core 1's release of  *)
(* the finished session, uninstalling (app_sys.c) and the host tool that   *)
(* drives a session (host/app_cmds.c).                                     *)
(*                                                                         *)
(* Flash is page-granular: addresses count pages, the boot region starts   *)
(* at BootBegin and the slots follow it.  A page holds Blank, Garbage (it  *)
(* was programmed twice) or <<a, k>>, page k of app a's package.           *)
(***************************************************************************)
EXTENDS Integers, Sequences

CONSTANTS Apps,         \* name |-> [id, code, data, count], sizes in pages
          Splashes,     \* sizes of boot animations, in pages
          Installed,    \* what the flash may hold at first: sets of <<app, slot>>
          NSlots,       \* slots in the app area
          Hosts,        \* host_tool processes
          MaxBegins     \* bound on the sessions asked for

SlotPages   == 6        \* APP_SLOT_SIZE: three sectors of two pages
SectorPages == 2        \* FLASH_SECTOR_SIZE
IconOffset  == 3        \* APP_SLOT_ICON_OFFSET, the icon is one page
CodeMax     == IconOffset
SaveOffset  == 4        \* the save sector, the slot's last

BootBegin == SlotPages
AreaBegin == 2 * SlotPages            \* also BOOT_AREA_END
AreaEnd   == AreaBegin + NSlots * SlotPages

ASSUME NSlotsAssumption == NSlots \in Nat \ {0}
ASSUME MaxBeginsAssumption == MaxBegins \in Nat
ASSUME SplashesAssumption == Splashes \subseteq Nat
ASSUME AppsAssumption ==
  /\ \A a \in DOMAIN Apps : {Apps[a].code, Apps[a].data, Apps[a].count} \subseteq Nat
  /\ DOMAIN Apps \cap {"blank", "garbage", "splash"} = {}

Blank   == <<"blank", 0>>
Garbage == <<"garbage", 0>>
Splash  == "splash"
Flash   == BootBegin .. AreaEnd - 1
SlotIds == 0 .. NSlots - 1
Base(i) == AreaBegin + i * SlotPages
ASSUME InstalledAssumption == \A s \in Installed : s \subseteq (DOMAIN Apps) \X SlotIds
RoundUp(x, grain) == ((x + grain - 1) \div grain) * grain
Down(x, grain)    == (x \div grain) * grain

AutoSlot  == 0            \* the wire's slot 0: place it anywhere
Jobs == [kind : {"app"}, app : DOMAIN Apps, slot : {AutoSlot} \cup {Base(i) : i \in SlotIds},
         codeOnly : BOOLEAN]
        \cup [kind : {"boot"}, total : Splashes]
NoJob == [kind |-> "none"]

VARIABLES
  state, target, slot, code, data, total,   \* app_upload.c's s_ variables
  dlg,       \* the dialog on screen: "none", "upload" or "flash"
  linger,    \* core 1, in app_upload_release_linger_if_due: "idle" or "store"
  flash,     \* contents of the boot region and the app area
  hosts,     \* each host_tool process
  begins,    \* BEGINs so far
  owned      \* history: slots an app got and nobody uninstalled since

session == <<state, target, slot, code, data, total>>
vars == <<session, dlg, linger, flash, hosts, begins, owned>>

Overlay == {"EXITING", "AUTH", "ACTIVE"}
InFlight == Overlay \cup {"PENDING"}

(***************************************************************************)
(* The slot map, read from the headers in flash.                           *)
(***************************************************************************)

\* An app header: page 0 of a package, at the start of a slot.
HasHeader(i) == flash[Base(i)][1] \in DOMAIN Apps /\ flash[Base(i)][2] = 0
HeaderOf(i)  == Apps[flash[Base(i)][1]]

\* The slots occupied_map charges to the header in slot i.
Span(i) == LET n == HeaderOf(i).count
           IN  i .. i + (IF n = 0 \/ n > NSlots - i THEN 1 ELSE n) - 1

Used == UNION {Span(i) : i \in {j \in SlotIds : HasHeader(j)}}

\* As a bug would have it: only the first slot is looked at.
RunFreeFirstOnly(first, count) ==
  count > 0 /\ first + count <= NSlots /\ first \notin Used

RunFree(first, count) ==
  count > 0 /\ first + count <= NSlots /\ (first .. first + count - 1) \cap Used = {}

\* As a bug would have it: the slot's number for its address.
FirstFreeIndex(count) ==
  LET free == {i \in SlotIds : RunFree(i, count)}
  IN  IF free = {} THEN 0 ELSE CHOOSE i \in free : \A j \in free : i <= j

\* The address first_free_slot picks, 0 when there is none.
FirstFree(count) ==
  LET free == {i \in SlotIds : RunFree(i, count)}
  IN  IF free = {} THEN 0 ELSE Base(CHOOSE i \in free : \A j \in free : i <= j)

(***************************************************************************)
(* What an accepted session may touch.                                     *)
(***************************************************************************)

InBootUpload(addr, len, grain) ==
  LET end == RoundUp(BootBegin + total, grain)
  IN  addr >= BootBegin /\ addr + len <= IF end > AreaBegin THEN AreaBegin ELSE end

InArea(addr, len) == addr >= AreaBegin /\ addr + len <= AreaEnd

\* As a bug would have it: the end is not rounded up.
InRegionUnrounded(addr, len, lo, hi, grain) == addr >= Down(lo, grain) /\ addr + len <= hi

InRegion(addr, len, lo, hi, grain) == addr >= Down(lo, grain) /\ addr + len <= RoundUp(hi, grain)

InUploadRegion(addr, len, grain) ==
  \/ InRegion(addr, len, slot, slot + code, grain)
  \/ InRegion(addr, len, slot + IconOffset, slot + IconOffset + 1, grain)
  \/ data > 0 /\ InRegion(addr, len, slot + SlotPages, slot + SlotPages + data, grain)

SessionAllows(addr, len, grain) ==
  IF target = "BOOT" THEN InBootUpload(addr, len, grain)
                     ELSE InArea(addr, len) /\ InUploadRegion(addr, len, grain)

(***************************************************************************)
(* Requests.                                                               *)
(***************************************************************************)

ExpectedSlots(pages) == 1 + RoundUp(pages, SlotPages) \div SlotPages

SizesOk(a) == /\ a.code > 0 /\ a.code <= CodeMax
              /\ a.count > 0 /\ a.count <= NSlots
              /\ a.data > 0 => a.count = ExpectedSlots(a.data)

\* As a bug would have it: an update may change the number of slots.
UpdatesAnyCount(i, a) == HasHeader(i) /\ HeaderOf(i).id = a.id

\* Slot i holds the app a code-only update is for, in the same layout.
Updates(i, a) == HasHeader(i) /\ HeaderOf(i).count = a.count /\ HeaderOf(i).id = a.id

\* The slot the request gets, 0 when it is refused.
Placement(j) ==
  LET a == Apps[j.app]
      i == (j.slot - AreaBegin) \div SlotPages
  IN  IF ~SizesOk(a) THEN 0
      ELSE IF j.codeOnly
             THEN IF j.slot # AutoSlot /\ Updates(i, a) THEN j.slot ELSE 0
      ELSE IF j.slot = AutoSlot THEN FirstFree(a.count)
      ELSE IF RunFree(i, a.count) THEN j.slot ELSE 0

Open(s) == /\ state' = "PENDING" /\ dlg' = "upload"
           /\ target' = s.target /\ slot' = s.slot
           /\ code' = s.code /\ data' = s.data /\ total' = s.total

\* app_upload_request: the slot and the target are reset before anything is tested.
Request(j) ==
  LET a == Apps[j.app]
      d == IF j.codeOnly THEN 0 ELSE a.data
  IN  IF Placement(j) = 0
        THEN /\ state' = "DENIED" /\ target' = "SLOT" /\ slot' = 0
             /\ UNCHANGED <<code, data, total, dlg>>
        ELSE Open([target |-> "SLOT", slot |-> Placement(j), code |-> a.code,
                   data |-> d, total |-> a.code + 1 + d])

\* app_upload_request_boot.
RequestBoot(j) ==
  IF j.total = 0 \/ j.total > AreaBegin - BootBegin
    THEN /\ state' = "DENIED" /\ target' = "BOOT" /\ slot' = 0 /\ code' = 0 /\ data' = 0
         /\ UNCHANGED <<total, dlg>>
    ELSE Open([target |-> "BOOT", slot |-> BootBegin, code |-> 0, data |-> 0,
               total |-> j.total])

\* app_upload_finish.
Finish(st) == state' = st /\ UNCHANGED <<target, slot, code, data, total>>

(***************************************************************************)
(* host_tool: one process asks, polls, erases, programs, ends and verifies.*)
(***************************************************************************)

\* The addresses lo, lo + step, ... below hi.
Addrs(lo, hi, step) == [k \in 1 .. (hi - lo) \div step |-> lo + (k - 1) * step]
Erases(lo, hi) == [k \in DOMAIN Addrs(lo, hi, SectorPages) |->
                     [op |-> "erase", addr |-> Addrs(lo, hi, SectorPages)[k]]]
Writes(lo, len) == [k \in 1 .. len |-> [op |-> "write", addr |-> lo + k - 1]]

\* As a bug would have it: a partial last sector is not erased.
EraseEndShort(addr) == Down(addr, SectorPages)

\* Erasing goes up to the end of the sector that holds the last page.
EraseEnd(addr) == RoundUp(addr, SectorPages)

\* The operations app_upload and boot_session go through for a job placed at b.
\* A code image that reaches the icon's sector has erased it already.
Plan(j, b) ==
  IF j.kind = "boot"
    THEN Erases(b, EraseEnd(b + j.total)) \o Writes(b, j.total)
    ELSE LET a    == Apps[j.app]
             end  == EraseEnd(b + a.code)
             icon == Down(b + IconOffset, SectorPages)
             d    == IF j.codeOnly THEN 0 ELSE a.data
         IN  Erases(b, end)
             \o (IF icon < end THEN <<>> ELSE Erases(icon, icon + SectorPages))
             \o Erases(b + SlotPages, EraseEnd(b + SlotPages + d))
             \o Writes(b, a.code) \o Writes(b + IconOffset, 1)
             \o Writes(b + SlotPages, d)

PlanOf(h) == Plan(hosts[h].job, hosts[h].base)
NextOp(h) == PlanOf(h)[hosts[h].step]
Content(h, addr) == <<IF hosts[h].job.kind = "boot" THEN Splash ELSE hosts[h].job.app,
                      addr - hosts[h].base>>

Resting == [phase |-> "idle", job |-> NoJob, base |-> 0, step |-> 0]
Phase(h, ph) == hosts' = [hosts EXCEPT ![h].phase = ph]

\* A code-only update names its slot; the host looked it up by the app's name.
HostBegin(h, j) ==
  /\ hosts[h].phase = "idle" /\ begins < MaxBegins
  /\ j.kind = "app" => (j.codeOnly => j.slot # AutoSlot)
  /\ begins' = begins + 1
  /\ IF j.kind = "app" THEN Request(j) ELSE RequestBoot(j)
  /\ hosts' = IF slot' = 0 THEN hosts
              ELSE [hosts EXCEPT ![h] = [phase |-> "polling", job |-> j,
                                         base |-> slot', step |-> 1]]
  /\ UNCHANGED <<linger, flash, owned>>

\* STATUS: go ahead, or take it as cancelled on the keyboard.
HostPoll(h) ==
  /\ hosts[h].phase = "polling"
  /\ \/ state \in {"AUTH", "ACTIVE"} /\ Phase(h, "working")
     \/ state \in {"DENIED", "IDLE"} /\ hosts' = [hosts EXCEPT ![h] = Resting]
  /\ UNCHANGED <<session, dlg, linger, flash, begins, owned>>

\* It waited long enough, or an operation was refused.
HostGiveUp(h) ==
  /\ hosts[h].phase = "polling"
  /\ Phase(h, "abort")
  /\ UNCHANGED <<session, dlg, linger, flash, begins, owned>>

HostAbort(h) ==
  /\ hosts[h].phase = "abort"
  /\ Finish("IDLE")
  /\ hosts' = [hosts EXCEPT ![h] = Resting]
  /\ UNCHANGED <<dlg, linger, flash, begins, owned>>

Program(old, new) == IF old = Blank THEN new ELSE Garbage

\* app_upload_do_erase or app_upload_do_write.  The access parks core 1, which is
\* then not in the middle of releasing a session.
HostOp(h) ==
  LET o     == NextOp(h)
      grain == IF o.op = "erase" THEN SectorPages ELSE 1
      pages == o.addr .. o.addr + grain - 1
  IN  /\ hosts[h].phase = "working" /\ hosts[h].step <= Len(PlanOf(h))
      /\ IF state \in {"AUTH", "ACTIVE"} /\ SessionAllows(o.addr, grain, grain)
           THEN /\ linger = "idle"
                /\ state' = "ACTIVE"
                /\ flash' = [p \in Flash |->
                     IF p \notin pages THEN flash[p]
                     ELSE IF o.op = "erase" THEN Blank
                     ELSE Program(flash[p], Content(h, p))]
                /\ hosts' = [hosts EXCEPT ![h].step = @ + 1]
                /\ owned' = owned \cup Used'
           ELSE Phase(h, "abort") /\ UNCHANGED <<state, flash, owned>>
      /\ UNCHANGED <<target, slot, code, data, total, dlg, linger, begins>>

HostEnd(h) ==
  /\ hosts[h].phase = "working" /\ hosts[h].step > Len(PlanOf(h))
  /\ Finish("DONE")
  /\ Phase(h, "verify")
  /\ UNCHANGED <<dlg, linger, flash, begins, owned>>

\* The process is finished, is interrupted, or gets no reply to a request.
HostExit(h) ==
  /\ hosts[h].phase # "idle"
  /\ hosts' = [hosts EXCEPT ![h] = Resting]
  /\ UNCHANGED <<session, dlg, linger, flash, begins, owned>>

(***************************************************************************)
(* The keyboard: the dialog's buttons, housekeeping, core 1, power.        *)
(***************************************************************************)

\* INSTALL: dialog_fire runs app_upload_accept.
Install ==
  /\ dlg = "upload"
  /\ dlg' = "none" /\ state' = "EXITING"
  /\ UNCHANGED <<target, slot, code, data, total, linger, flash, hosts, begins, owned>>

\* CANCEL, Esc or the dialog's timeout: app_upload_decline.
Cancel ==
  /\ dlg = "upload"
  /\ dlg' = "none" /\ state' = "IDLE"
  /\ UNCHANGED <<target, slot, code, data, total, linger, flash, hosts, begins, owned>>

\* flash_prompt_request, from another host command, takes the dialog over.
FlashPrompt ==
  /\ dlg # "flash"
  /\ dlg' = "flash"
  /\ UNCHANGED <<session, linger, flash, hosts, begins, owned>>

FlashCancel ==
  /\ dlg = "flash"
  /\ dlg' = "none"
  /\ UNCHANGED <<session, linger, flash, hosts, begins, owned>>

\* app_upload_task: the launcher is on screen, or 800 ms have passed.
Promote ==
  /\ state = "EXITING"
  /\ state' = "AUTH"
  /\ UNCHANGED <<target, slot, code, data, total, dlg, linger, flash, hosts, begins, owned>>

\* app_upload_task: the "loaded" banner has been up for 1500 ms.
Linger ==
  /\ state = "DONE"
  /\ state' = "IDLE"
  /\ UNCHANGED <<target, slot, code, data, total, dlg, linger, flash, hosts, begins, owned>>

\* The same test and store on core 1, app_upload_render_tick.
LingerTest ==
  /\ linger = "idle" /\ state = "DONE"
  /\ linger' = "store"
  /\ UNCHANGED <<session, dlg, flash, hosts, begins, owned>>

LingerStore ==
  /\ linger = "store"
  /\ linger' = "idle" /\ state' = "IDLE"
  /\ UNCHANGED <<target, slot, code, data, total, dlg, flash, hosts, begins, owned>>

\* Uninstalling (menu or SETTINGS) wipes the header sector.  Neither runs while the
\* upload screen is up.
Uninstall(i) ==
  /\ state \notin {"AUTH", "ACTIVE", "DONE"} /\ linger = "idle" /\ HasHeader(i)
  /\ flash' = [p \in Flash |-> IF p \in Base(i) .. Base(i) + SectorPages - 1
                                 THEN Blank ELSE flash[p]]
  /\ owned' = owned \ Span(i)
  /\ UNCHANGED <<session, dlg, linger, hosts, begins>>

\* Power loss, or FLASH accepted: RAM is gone, and every process loses its device.
Reboot ==
  /\ state' = "IDLE" /\ target' = "SLOT" /\ slot' = 0
  /\ code' = 0 /\ data' = 0 /\ total' = 0
  /\ dlg' = "none" /\ linger' = "idle"
  /\ hosts' = [h \in Hosts |-> Resting]
  /\ UNCHANGED <<flash, begins, owned>>

\* What the flash holds when the packages in set s are installed.
Holding(s) ==
  [p \in Flash |->
     LET here(x) == LET k == p - Base(x[2]) IN
                    k \in (0 .. Apps[x[1]].code - 1) \cup {IconOffset}
                          \cup (SlotPages .. SlotPages + Apps[x[1]].data - 1)
     IN  IF \E x \in s : here(x)
           THEN LET x == CHOOSE y \in s : here(y) IN <<x[1], p - Base(x[2])>>
           ELSE Blank]

Init ==
  /\ state = "IDLE" /\ target = "SLOT" /\ slot = 0 /\ code = 0 /\ data = 0 /\ total = 0
  /\ dlg = "none" /\ linger = "idle"
  /\ flash \in {Holding(s) : s \in Installed}
  /\ hosts = [h \in Hosts |-> Resting]
  /\ begins = 0
  /\ owned = Used

Host(h) == \/ \E j \in Jobs : HostBegin(h, j)
           \/ HostPoll(h) \/ HostGiveUp(h) \/ HostAbort(h)
           \/ HostOp(h) \/ HostEnd(h) \/ HostExit(h)
Dialog  == Install \/ Cancel \/ FlashPrompt \/ FlashCancel

Next == \/ \E h \in Hosts : Host(h)
        \/ Dialog
        \/ Promote \/ Linger \/ LingerTest \/ LingerStore
        \/ \E i \in SlotIds : Uninstall(i)
        \/ Reboot

Spec == Init /\ [][Next]_vars
-------------------------------------------------------------------------------
\* The type invariant: the address handed to a host is that of a page an upload
\* may start at, and every flash page holds a page of a package, or nothing.
TypeOK ==
  /\ state \in InFlight \cup {"IDLE", "DENIED", "DONE"}
  /\ target \in {"SLOT", "BOOT"} /\ slot \in {0} \cup Flash
  /\ code \in Nat /\ data \in Nat /\ total \in Nat
  /\ dlg \in {"none", "upload", "flash"} /\ linger \in {"idle", "store"}
  /\ \A p \in Flash : flash[p] \in {Blank, Garbage} \cup ((DOMAIN Apps \cup {Splash}) \X Nat)
  /\ \A h \in Hosts : /\ hosts[h].phase \in {"idle", "polling", "working", "abort", "verify"}
                      /\ hosts[h].phase # "idle" => hosts[h].job \in Jobs
                      /\ hosts[h].base \in {0} \cup Flash /\ hosts[h].step \in Nat
  /\ begins \in 0 .. MaxBegins /\ owned \subseteq SlotIds

SlotOf(p) == (p - AreaBegin) \div SlotPages

\* What a step under an accepted session may change.
Confined ==
  state' = "ACTIVE" =>
    \A p \in Flash : flash'[p] # flash[p] =>
      IF target = "BOOT" THEN p < AreaBegin
      ELSE /\ p >= AreaBegin
           /\ ~(p \in slot + SaveOffset .. slot + SlotPages - 1)
           /\ \A i \in SlotIds : (HasHeader(i) /\ Base(i) # slot) => SlotOf(p) \notin Span(i)

\* An upload stays inside the run of slots its session was given: whatever was
\* asked for, accepted, aborted or uninstalled meanwhile, it never changes a page of
\* another app, nor the save sector of the app it writes, and a boot animation
\* never reaches the slots (session_allows with the placement that preceded it).
ConfinedWrites == [][Confined]_vars

\* No two installed apps ever claim the same slot (occupied_map, run_free).
SpansDisjoint ==
  \A i, j \in SlotIds : (i # j /\ HasHeader(i) /\ HasHeader(j)) => Span(i) \cap Span(j) = {}

\* app_upload.h:28, "finished; slot holds the app": when a session has ended with
\* DONE, every page its host wrote is in the flash, intact.
DoneHoldsApp ==
  \A h \in Hosts : (hosts[h].phase = "verify" /\ state = "DONE") =>
    \A k \in DOMAIN PlanOf(h) : LET o == PlanOf(h)[k] IN
      o.op = "write" => flash[o.addr] = Content(h, o.addr)

\* The host's plan and the firmware's window agree: in an accepted session no
\* operation of the plan is refused (app_cmds.c against session_allows).
PlanAllowed ==
  \A h \in Hosts :
    (hosts[h].phase = "working" /\ state \in {"AUTH", "ACTIVE"}
       /\ hosts[h].step <= Len(PlanOf(h))) =>
      LET grain == IF NextOp(h).op = "erase" THEN SectorPages ELSE 1
      IN  SessionAllows(NextOp(h).addr, grain, grain)

\* app_upload.c:54-57, "a partially installed [...] app must not be silently
\* overwritten": a full install is never placed over an app nobody uninstalled.
PartialKept ==
  [][\A h \in Hosts :
       (hosts[h].phase = "idle" /\ hosts'[h].phase = "polling"
          /\ hosts'[h].job.kind = "app" /\ ~hosts'[h].job.codeOnly) =>
         SlotOf(hosts'[h].base) .. SlotOf(hosts'[h].base) + Apps[hosts'[h].job.app].count - 1
           \cap owned = {}]_vars
===============================================================================
