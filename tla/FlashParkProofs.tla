---------------------------- MODULE FlashParkProofs ----------------------------
(***************************************************************************)
(* Proofs about FlashPark: the handshake parks core 1 for every access,    *)
(* and saves do not overlap, however many pages a save has.                *)
(***************************************************************************)
EXTENDS FlashPark, TLAPS

USE DEF Flag, Pc0, Pc1, core0, core1

\* Every step of either core keeps the types.
LEMMA TypeStep == TypeOK /\ [Next]_vars => TypeOK'
<1> SUFFICES ASSUME TypeOK, [Next]_vars PROVE TypeOK'
  OBVIOUS
<1> USE DEF TypeOK
<1>1. CASE SingleOp
  BY <1>1 DEF SingleOp
<1>2. CASE SaveService
  BY <1>2, MaxPagesAssumption DEF SaveService
<1>3. CASE Handshake0
  BY <1>3 DEF Handshake0, Stop, WaitParked, Access, Restart, WaitResumed, OpDone
<1>5. CASE Boot \/ FrameEnd \/ StageCfg \/ SaveNow \/ RaiseReq \/ FlushBegin
  BY <1>5 DEF Boot, FrameEnd, StageCfg, SaveNow, RaiseReq, FlushBegin
<1>6. CASE Spin
  BY <1>6 DEF Spin, SpinBusy, SpinBeforeDone, SpinAfterDone
<1>7. CASE Trap
  BY <1>7 DEF Trap, TrapTest, TrapAck, TrapWait, TrapResume
<1>8. CASE UNCHANGED vars
  BY <1>8 DEF vars
<1>9. QED
  BY <1>1, <1>2, <1>3, <1>5, <1>6, <1>7, <1>8 DEF Next, Core0, Core1

\* Typing holds in every reachable state, whatever the length of a save.
THEOREM TypeCorrect == Spec => []TypeOK
<1>1. Init => TypeOK
  BY DEF Init, TypeOK
<1>2. QED
  BY <1>1, TypeStep, PTL DEF Spec

\* Each half of the handshake moves the other half's wait to the right place.
LEMMA HandshakeStep == TypeOK /\ HandshakeInv /\ [Next]_vars => HandshakeInv'
<1> SUFFICES ASSUME TypeOK, HandshakeInv, [Next]_vars PROVE HandshakeInv'
  OBVIOUS
<1> USE DEF TypeOK, HandshakeInv, NothingLeftOver
<1>1. CASE SingleOp \/ SaveService
  BY <1>1 DEF SingleOp, SaveService
<1>2. CASE Handshake0
  BY <1>2 DEF Handshake0, Stop, WaitParked, Access, Restart, WaitResumed, OpDone
<1>3. CASE Boot \/ FrameEnd \/ StageCfg \/ SaveNow \/ RaiseReq \/ FlushBegin
  BY <1>3 DEF Boot, FrameEnd, StageCfg, SaveNow, RaiseReq, FlushBegin
<1>4. CASE Spin
  BY <1>4 DEF Spin, SpinBusy, SpinBeforeDone, SpinAfterDone
<1>5. CASE Trap
  BY <1>5 DEF Trap, TrapTest, TrapAck, TrapWait, TrapResume
<1>6. CASE UNCHANGED vars
  BY <1>6 DEF vars
<1>7. QED
  BY <1>1, <1>2, <1>3, <1>4, <1>5, <1>6 DEF Next, Core0, Core1

\* The stop and restart flags of c1_main.c and both cores' places in the handshake
\* always agree.
THEOREM HandshakeCorrect == Spec => []HandshakeInv
<1>1. Init => HandshakeInv
  BY DEF Init, HandshakeInv, NothingLeftOver
<1>2. QED
  BY <1>1, HandshakeStep, TypeCorrect, PTL DEF Spec

\* Core 1 is in the RAM-resident trap throughout every flash access.
THEOREM MutualExclusion == Spec => []ParkedDuringAccess
<1>1. HandshakeInv => ParkedDuringAccess
  BY DEF HandshakeInv, ParkedDuringAccess
<1>2. QED
  BY <1>1, HandshakeCorrect, PTL

\* No operation inherits a flag or a parked core from the one before it.
THEOREM CleanStart == Spec => []NothingLeftOver
<1>1. HandshakeInv => NothingLeftOver
  BY DEF HandshakeInv
<1>2. QED
  BY <1>1, HandshakeCorrect, PTL

\* Neither a request nor the service opens a second save (app_sys.c:176-188,
\* 250-265).
LEMMA SaveStep == TypeOK /\ SaveInv /\ [Next]_vars => SaveInv'
<1> SUFFICES ASSUME TypeOK, SaveInv, [Next]_vars PROVE SaveInv'
  OBVIOUS
<1> USE DEF TypeOK, SaveInv, BusyCoversSave
<1>1. CASE SingleOp \/ SaveService
  BY <1>1 DEF SingleOp, SaveService
<1>2. CASE Handshake0
  BY <1>2 DEF Handshake0, Stop, WaitParked, Access, Restart, WaitResumed, OpDone
<1>3. CASE Boot \/ FrameEnd \/ StageCfg \/ SaveNow \/ RaiseReq \/ FlushBegin
  BY <1>3 DEF Boot, FrameEnd, StageCfg, SaveNow, RaiseReq, FlushBegin
<1>4. CASE Spin
  BY <1>4 DEF Spin, SpinBusy, SpinBeforeDone, SpinAfterDone
<1>5. CASE Trap
  BY <1>5 DEF Trap, TrapTest, TrapAck, TrapWait, TrapResume
<1>6. CASE UNCHANGED vars
  BY <1>6 DEF vars
<1>7. QED
  BY <1>1, <1>2, <1>3, <1>4, <1>5, <1>6 DEF Next, Core0, Core1

\* A save request, or a save in progress, always shows as busy: two saves never
\* overlap and the buffer handed over is not reused under the service.
THEOREM SavesExclusive == Spec => []BusyCoversSave
<1>1. Init => SaveInv
  BY DEF Init, SaveInv, BusyCoversSave
<1>2. SaveInv => BusyCoversSave
  BY DEF SaveInv
<1>3. QED
  BY <1>1, <1>2, SaveStep, TypeCorrect, PTL DEF Spec
================================================================================
