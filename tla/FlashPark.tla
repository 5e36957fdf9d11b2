------------------------------- MODULE FlashPark -------------------------------
(***************************************************************************)
(* Parking core 1 while core 0 erases or programs the flash both execute   *)
(* from (c1_main.c, probe_flash.c), together with the save service that    *)
(* makes core 0 do so on core 1's behalf (app_sys.c) while core 1 may spin *)
(* for its completion (app_slot_flush_pending_save in app_loader.c).       *)
(***************************************************************************)
EXTENDS Naturals

CONSTANT MaxPages       \* bound on the pages of one save

ASSUME MaxPagesAssumption == MaxPages \in Nat \ {0}

VARIABLES
  stop,      \* c1_stop_flag
  restart,   \* c1_restart_flag
  saveReq,   \* s_save_req
  saveBusy,  \* s_save_busy
  pc0,       \* core 0
  left,      \* core 0: flash accesses left in the current operation
  saving,    \* core 0: "yes" while the operation is a save
  pc1,       \* core 1
  back,      \* core 1: where the trap returns to
  staged     \* core 1: "yes" when s_cfg_stage_pending

vars == <<stop, restart, saveReq, saveBusy, pc0, left, saving, pc1, back, staged>>

core0 == <<pc0, left, saving>>
core1 == <<pc1, back, staged>>

Flag == {"yes", "no"}

Init ==
  /\ stop = "no" /\ restart = "no" /\ saveReq = "no" /\ saveBusy = "no"
  /\ pc0 = "idle" /\ left = 0 /\ saving = "no"
  /\ pc1 = "boot" /\ back = "work" /\ staged = "no"

(***************************************************************************)
(* Core 0: flash accesses, each between c1_before_flash_operation (Stop,   *)
(* WaitParked) and c1_after_flash_operation (Restart, WaitResumed).        *)
(***************************************************************************)

\* A sector erase, a page program, a JEDEC read or an EEPROM write-back.
SingleOp ==
  /\ pc0 = "idle"
  /\ pc0' = "stop" /\ left' = 1 /\ saving' = "no"
  /\ UNCHANGED <<stop, restart, saveReq, saveBusy, core1>>

\* As a bug would have it: the request stays up while it is served.
SaveServiceKeepsReq ==
  /\ pc0 = "idle" /\ saveReq = "yes"
  /\ pc0' = "stop" /\ saving' = "yes"
  /\ \E pages \in 1 .. MaxPages : left' = pages + 1
  /\ UNCHANGED <<stop, restart, saveReq, saveBusy, core1>>

\* As a bug would have it: busy drops when the save starts.
SaveServiceDropsBusy ==
  /\ pc0 = "idle" /\ saveReq = "yes"
  /\ saveReq' = "no" /\ saveBusy' = "no"
  /\ pc0' = "stop" /\ saving' = "yes"
  /\ \E pages \in 1 .. MaxPages : left' = pages + 1
  /\ UNCHANGED <<stop, restart, core1>>

\* The save branch of app_sys_service: one erase, then the pages.
SaveService ==
  /\ pc0 = "idle" /\ saveReq = "yes"
  /\ saveReq' = "no"
  /\ pc0' = "stop" /\ saving' = "yes"
  /\ \E pages \in 1 .. MaxPages : left' = pages + 1
  /\ UNCHANGED <<stop, restart, saveBusy, core1>>

Stop ==
  /\ pc0 = "stop"
  /\ stop' = "yes" /\ pc0' = "wait_parked"
  /\ UNCHANGED <<restart, saveReq, saveBusy, left, saving, core1>>

\* As a bug would have it: core 0 does not wait for the acknowledgement.
WaitParkedNot ==
  /\ pc0 = "wait_parked"
  /\ pc0' = "flash"
  /\ UNCHANGED <<stop, restart, saveReq, saveBusy, left, saving, core1>>

WaitParked ==
  /\ pc0 = "wait_parked" /\ stop = "no"
  /\ pc0' = "flash"
  /\ UNCHANGED <<stop, restart, saveReq, saveBusy, left, saving, core1>>

\* The access itself, with interrupts off; then c1_after_flash_operation.
Access ==
  /\ pc0 = "flash"
  /\ left' = left - 1
  /\ pc0' = "restart"
  /\ UNCHANGED <<stop, restart, saveReq, saveBusy, saving, core1>>

Restart ==
  /\ pc0 = "restart"
  /\ restart' = "yes" /\ pc0' = "wait_resumed"
  /\ UNCHANGED <<stop, saveReq, saveBusy, left, saving, core1>>

\* As a bug would have it: core 0 does not wait until core 1 has left the trap.
WaitResumedNot ==
  /\ pc0 = "wait_resumed"
  /\ pc0' = IF left > 0 THEN "stop" ELSE "done"
  /\ UNCHANGED <<stop, restart, saveReq, saveBusy, left, saving, core1>>

\* As a bug would have it: one access too many.
WaitResumedOnceMore ==
  /\ pc0 = "wait_resumed" /\ restart = "no"
  /\ pc0' = IF left >= 0 THEN "stop" ELSE "done"
  /\ UNCHANGED <<stop, restart, saveReq, saveBusy, left, saving, core1>>

WaitResumed ==
  /\ pc0 = "wait_resumed" /\ restart = "no"
  /\ pc0' = IF left > 0 THEN "stop" ELSE "done"
  /\ UNCHANGED <<stop, restart, saveReq, saveBusy, left, saving, core1>>

\* As a bug would have it: busy is never dropped.
OpDoneStaysBusy ==
  /\ pc0 = "done"
  /\ saving' = "no" /\ pc0' = "idle"
  /\ UNCHANGED <<stop, restart, saveReq, saveBusy, left, core1>>

OpDone ==
  /\ pc0 = "done"
  /\ saveBusy' = IF saving = "yes" THEN "no" ELSE saveBusy
  /\ saving' = "no" /\ pc0' = "idle"
  /\ UNCHANGED <<stop, restart, saveReq, left, core1>>

(***************************************************************************)
(* Core 1.                                                                 *)
(***************************************************************************)

\* display_init, then the main task's thread starts.
Boot ==
  /\ pc1 = "boot"
  /\ pc1' = "work"
  /\ UNCHANGED <<stop, restart, saveReq, saveBusy, core0, back, staged>>

\* One pass of c1_main_task ends; the loop goes through the trap.
FrameEnd ==
  /\ pc1 = "work"
  /\ pc1' = "trap" /\ back' = "work"
  /\ UNCHANGED <<stop, restart, saveReq, saveBusy, core0, staged>>

\* loader_cfg_save stages an app's settings; loader_cfg_flush drops them again when
\* the flash holds the same.
StageCfg ==
  /\ pc1 = "work"
  /\ staged' = "yes" \/ (saveBusy = "no" /\ staged' = "no")
  /\ UNCHANGED <<stop, restart, saveReq, saveBusy, core0, pc1, back>>

\* app_sys_save_request: refused while busy; raises busy, then the request.
\* The app goes on at once; loader_cfg_flush unstages what it handed over, and
\* loader_save_write does not.
SaveNow ==
  /\ pc1 = "work" /\ saveBusy = "no"
  /\ saveBusy' = "yes"
  /\ pc1' = "raise" /\ back' = "work"
  /\ staged' \in {staged, "no"}
  /\ UNCHANGED <<stop, restart, saveReq, core0>>

RaiseReq ==
  /\ pc1 = "raise"
  /\ saveReq' = "yes"
  /\ pc1' = back
  /\ UNCHANGED <<stop, restart, saveBusy, core0, back, staged>>

\* app_slot_flush_pending_save: the app is being left.
FlushBegin ==
  /\ pc1 = "work"
  /\ pc1' = "spin_before"
  /\ UNCHANGED <<stop, restart, saveReq, saveBusy, core0, back, staged>>

\* As a bug would have it: the spin does not go through the trap.
SpinBusyDeaf ==
  /\ pc1 \in {"spin_before", "spin_after"} /\ saveBusy = "yes"
  /\ UNCHANGED vars

\* while (app_sys_save_busy()) c1_cooperate_with_flash();
SpinBusy ==
  /\ pc1 \in {"spin_before", "spin_after"} /\ saveBusy = "yes"
  /\ pc1' = "trap" /\ back' = pc1
  /\ UNCHANGED <<stop, restart, saveReq, saveBusy, core0, staged>>

\* The first spin is over: nothing staged, or the flash holds it already, or it
\* is handed to the save service.
SpinBeforeDone ==
  /\ pc1 = "spin_before" /\ saveBusy = "no"
  /\ staged' = "no"
  /\ \/ staged = "no" /\ pc1' = "work" /\ UNCHANGED <<saveBusy, back>>
     \/ staged = "yes" /\ pc1' = "spin_after" /\ UNCHANGED <<saveBusy, back>>
     \/ staged = "yes" /\ saveBusy' = "yes" /\ pc1' = "raise" /\ back' = "spin_after"
  /\ UNCHANGED <<stop, restart, saveReq, core0>>

SpinAfterDone ==
  /\ pc1 = "spin_after" /\ saveBusy = "no"
  /\ pc1' = "work"
  /\ UNCHANGED <<stop, restart, saveReq, saveBusy, core0, back, staged>>

\* As a bug would have it: the trap does not look at the flag.
TrapTestBlind ==
  /\ pc1 = "trap"
  /\ pc1' = back
  /\ UNCHANGED <<stop, restart, saveReq, saveBusy, core0, back, staged>>

\* c1_trap_for_flash_operation: test, acknowledge, wait, resume.
TrapTest ==
  /\ pc1 = "trap"
  /\ pc1' = IF stop = "yes" THEN "ack" ELSE back
  /\ UNCHANGED <<stop, restart, saveReq, saveBusy, core0, back, staged>>

\* As a bug would have it: the acknowledgement is forgotten.
TrapAckForgotten ==
  /\ pc1 = "ack"
  /\ pc1' = "parked"
  /\ UNCHANGED <<stop, restart, saveReq, saveBusy, core0, back, staged>>

TrapAck ==
  /\ pc1 = "ack"
  /\ stop' = "no" /\ pc1' = "parked"
  /\ UNCHANGED <<restart, saveReq, saveBusy, core0, back, staged>>

TrapWait ==
  /\ pc1 = "parked" /\ restart = "yes"
  /\ pc1' = "resume"
  /\ UNCHANGED <<stop, restart, saveReq, saveBusy, core0, back, staged>>

TrapResume ==
  /\ pc1 = "resume"
  /\ restart' = "no" /\ pc1' = back
  /\ UNCHANGED <<stop, saveReq, saveBusy, core0, back, staged>>

Handshake0 == Stop \/ WaitParked \/ Access \/ Restart \/ WaitResumed \/ OpDone
Core0 == SingleOp \/ SaveService \/ Handshake0
Trap  == TrapTest \/ TrapAck \/ TrapWait \/ TrapResume
Spin  == SpinBusy \/ SpinBeforeDone \/ SpinAfterDone
Core1 == Boot \/ FrameEnd \/ StageCfg \/ SaveNow \/ RaiseReq \/ FlushBegin \/ Spin \/ Trap

Next == Core0 \/ Core1

Spec == Init /\ [][Next]_vars

\* Both cores run; core 0's main loop reaches app_sys_service again and again;
\* core 1's frames end.
Fairness == /\ WF_vars(Handshake0) /\ SF_vars(SaveService)
            /\ WF_vars(Boot) /\ SF_vars(FrameEnd)
            /\ WF_vars(RaiseReq) /\ WF_vars(Spin) /\ WF_vars(Trap)

FairSpec == Spec /\ Fairness
-------------------------------------------------------------------------------
Pc0 == {"idle", "stop", "wait_parked", "flash", "restart", "wait_resumed", "done"}
Pc1 == {"boot", "work", "raise", "spin_before", "spin_after",
        "trap", "ack", "parked", "resume"}

\* The type invariant: no access is made beyond those of the operation.
TypeOK ==
  /\ stop \in Flag /\ restart \in Flag /\ saveReq \in Flag /\ saveBusy \in Flag
  /\ pc0 \in Pc0 /\ left \in Nat /\ saving \in Flag
  /\ pc0 \in {"stop", "wait_parked", "flash"} => left > 0
  /\ pc1 \in Pc1 /\ back \in {"work", "spin_before", "spin_after"} /\ staged \in Flag

\* While core 0 accesses the flash, core 1 is inside the RAM-resident trap and
\* nowhere else: it never fetches from a chip that is busy (c1_main.c:12-34).
ParkedDuringAccess == pc0 \in {"flash", "restart"} => pc1 = "parked"

\* No wake-up or stop request is ever left over: between operations both flags
\* are down and core 1 is not parked, so the next operation starts clean.
NothingLeftOver ==
  pc0 \in {"idle", "stop", "done"} =>
    stop = "no" /\ restart = "no" /\ pc1 \notin {"ack", "parked", "resume"}

\* The service's two flags agree: a request or a save in progress implies busy,
\* so a second save cannot be accepted before the first is in the flash.
BusyCoversSave ==
  (saveReq = "yes" \/ saving = "yes" \/ pc1 = "raise") => saveBusy = "yes"

\* The inductive invariant of the handshake: at each point of core 0, what the
\* flags are and where core 1 can be.
HandshakeInv ==
  /\ NothingLeftOver
  /\ pc0 = "wait_parked" =>
       /\ restart = "no"
       /\ \/ stop = "yes" /\ pc1 \notin {"parked", "resume"}
          \/ stop = "no" /\ pc1 = "parked"
  /\ pc0 \in {"flash", "restart"} => stop = "no" /\ restart = "no" /\ pc1 = "parked"
  /\ pc0 = "wait_resumed" =>
       /\ stop = "no"
       /\ \/ restart = "yes" /\ pc1 \in {"parked", "resume"}
          \/ restart = "no" /\ pc1 \notin {"ack", "parked", "resume"}

\* The inductive invariant of the save service: one save at a time, in one place.
SaveInv ==
  /\ BusyCoversSave
  /\ saveReq = "yes" => saving = "no" /\ pc1 # "raise"
  /\ saving = "yes" => pc1 # "raise"

\* Every flash operation ends, whatever core 1 was doing.
OperationEnds == (pc0 # "idle") ~> (pc0 = "idle")

\* Core 1 always gets back to work: leaving an app never hangs on its save, and
\* parking is temporary.
Core1Resumes == []<>(pc1 = "work")

\* A save that was accepted reaches the flash.
SaveCompletes == (saveBusy = "yes") ~> (saveBusy = "no")
===============================================================================
