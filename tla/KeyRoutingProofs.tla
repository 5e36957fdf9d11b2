---------------------------- MODULE KeyRoutingProofs ----------------------------
(***************************************************************************)
(* Proofs about KeyRouting, for any set of ordinary keys and any pairs of  *)
(* SOCD keys.                                                              *)
(***************************************************************************)
EXTENDS KeyRouting, TLAPS

\* Each SOCD key the host holds is tracked in socd_key_state.
SocdTracked == report \cap Socd \subseteq socd

\* HeldIsSeen, with what makes it inductive: while the keys go to the host alone,
\* socd_key_state is exactly the SOCD keys that are down.
CalmInv ==
  calm = "yes" => /\ socd = down \cap Socd
                  /\ \A k \in socd : k \in report \/ Opposite[k] \in report

\* With a dialog up or the keys going to the OS, the host holds nothing.
Silent == ~ToHost => report = {}

RoutingInv == TypeOK /\ PlainHeld /\ OneDirection /\ SocdTracked /\ CalmInv /\ Silent

\* A key that reaches the host leaves the report and the SOCD state consistent.
LEMMA HostPressKeeps ==
  ASSUME RoutingInv, NEW k \in Keys, k \notin down, down' = down \cup {k},
         ToHost, HostPress(k), UNCHANGED <<mode, dlg, menu>>
  PROVE  RoutingInv'
<1> USE SocdAssumption DEF RoutingInv, TypeOK, Keys, Silent, ToHost
<1>1. CASE k \in Plain
  BY <1>1 DEF HostPress, PlainHeld, OneDirection, SocdTracked, CalmInv
<1>2. CASE k \in Socd /\ menu # "off"
  BY <1>2 DEF HostPress, PlainHeld, OneDirection, SocdTracked, CalmInv
<1>3. CASE k \in Socd /\ menu = "off"
  <2>1. /\ socd' = socd \cup {k}
        /\ report' = (report \ ({Opposite[k]} \cap socd)) \cup {k}
        /\ calm' = calm
    BY <1>3 DEF HostPress
  <2>2. TypeOK' /\ PlainHeld' /\ SocdTracked'
    BY <1>3, <2>1 DEF PlainHeld, SocdTracked
  <2>3. OneDirection'
    BY <1>3, <2>1 DEF OneDirection, SocdTracked
  <2>4. CalmInv'
    BY <1>3, <2>1 DEF CalmInv
  <2>5. QED
    BY <2>2, <2>3, <2>4
<1>4. QED
  BY <1>1, <1>2, <1>3

\* The same for a key that is let go.
LEMMA HostReleaseKeeps ==
  ASSUME RoutingInv, NEW k \in Keys, k \in down, down' = down \ {k},
         ToHost, HostRelease(k), UNCHANGED <<mode, dlg, menu>>
  PROVE  RoutingInv'
<1> USE SocdAssumption DEF RoutingInv, TypeOK, Keys, Silent, ToHost
<1>1. CASE k \in Plain
  BY <1>1 DEF HostRelease, PlainHeld, OneDirection, SocdTracked, CalmInv
<1>2. CASE k \in Socd /\ menu # "off"
  BY <1>2 DEF HostRelease, PlainHeld, OneDirection, SocdTracked, CalmInv
<1>3. CASE k \in Socd /\ menu = "off"
  <2>1. /\ socd' = socd \ {k}
        /\ report' = (report \ {k}) \cup ({Opposite[k]} \cap socd)
        /\ calm' = calm
    BY <1>3 DEF HostRelease
  <2>2. TypeOK' /\ PlainHeld' /\ SocdTracked'
    BY <1>3, <2>1 DEF PlainHeld, SocdTracked
  <2>3. OneDirection'
    BY <1>3, <2>1 DEF OneDirection
  <2>4. CalmInv'
    BY <1>3, <2>1 DEF CalmInv
  <2>5. QED
    BY <2>2, <2>3, <2>4
<1>4. QED
  BY <1>1, <1>2, <1>3

\* What the user's own consumers do to the report keeps it consistent: they clear
\* it, and with it what is known about the SOCD keys.
LEMMA ClearKeeps ==
  ASSUME RoutingInv, Clear, socd' = socd, down' \subseteq Keys,
         mode' \in {"KEYBOARD", "OS"}, dlg' \in {"yes", "no"},
         menu' \in {"off", "open", "closing"}
  PROVE  RoutingInv'
BY DEF RoutingInv, TypeOK, Clear, PlainHeld, OneDirection, SocdTracked, CalmInv, Silent

\* A key that is swallowed, with the host still holding nothing that is not down.
LEMMA SwallowKeeps ==
  ASSUME RoutingInv, NEW k \in Keys, Swallow(k),
         ~ToHost, down' \in {down \cup {k}, down \ {k}},
         mode' = mode, dlg' = dlg, menu' \in {"off", "open", "closing"}
  PROVE  RoutingInv'
BY SocdAssumption
   DEF RoutingInv, TypeOK, Keys, Swallow, PlainHeld, OneDirection, SocdTracked, CalmInv,
       Silent, ToHost

\* Every step of Next keeps the invariant.
LEMMA RoutingStep == RoutingInv /\ [Next]_vars => RoutingInv'
<1> SUFFICES ASSUME RoutingInv, [Next]_vars PROVE RoutingInv'
  OBVIOUS
<1>m. menu \in {"off", "open", "closing"} /\ Closed \in {"off", "open", "closing"}
  BY DEF RoutingInv, TypeOK, Closed
<1>1. ASSUME NEW k \in Keys, Press(k) PROVE RoutingInv'
  <2>1. k \notin down /\ down' = down \cup {k} /\ down' \subseteq Keys /\ mode' = mode
    BY <1>1 DEF Press, RoutingInv, TypeOK
  <2>2. CASE ToDialog /\ k \in Plain /\ Fire /\ UNCHANGED socd
    BY <1>m, <2>1, <2>2, ClearKeeps DEF Fire, RoutingInv, TypeOK
  <2>3. CASE ToDialog /\ Swallow(k) /\ UNCHANGED <<dlg, menu>>
    BY <1>m, <2>1, <2>3, SwallowKeeps DEF ToDialog, ToHost
  <2>4. CASE /\ ToMenu /\ Swallow(k) /\ UNCHANGED dlg
             /\ menu' \in (IF k \in Plain THEN {menu, Closed} ELSE {menu})
    BY <1>m, <2>1, <2>4, SwallowKeeps DEF ToMenu, ToHost
  <2>5. CASE ToApp /\ Swallow(k) /\ UNCHANGED <<dlg, menu>>
    BY <1>m, <2>1, <2>5, SwallowKeeps DEF ToApp, ToHost
  <2>6. CASE ToHost /\ HostPress(k) /\ UNCHANGED <<dlg, menu>>
    BY <2>1, <2>6, HostPressKeeps
  <2>7. QED
    BY <1>1, <2>2, <2>3, <2>4, <2>5, <2>6 DEF Press
<1>2. ASSUME NEW k \in Keys, Release(k) PROVE RoutingInv'
  <2>1. k \in down /\ down' = down \ {k} /\ UNCHANGED <<mode, dlg, menu>>
    BY <1>2 DEF Release
  <2>2. CASE ToHost /\ HostRelease(k)
    BY <2>1, <2>2, HostReleaseKeeps
  <2>3. CASE ~ToHost /\ Swallow(k)
    BY <1>m, <2>1, <2>3, SwallowKeeps
  <2>4. QED
    BY <1>2, <2>2, <2>3 DEF Release
<1>3. ASSUME NEW m \in {"KEYBOARD", "OS"}, SetMode(m) PROVE RoutingInv'
  BY <1>3, ClearKeeps DEF SetMode, RoutingInv, TypeOK
<1>4. CASE OpenDialog
  BY <1>4, ClearKeeps DEF OpenDialog, RoutingInv, TypeOK
<1>5. CASE Timeout
  BY <1>5, <1>m, ClearKeeps DEF Timeout, Fire, RoutingInv, TypeOK
<1>6. CASE ReleaseAll
  BY <1>6, <1>m, ClearKeeps DEF ReleaseAll, RoutingInv, TypeOK
<1>7. CASE OpenMenu \/ MenuIdle \/ MenuGone
  BY <1>7 DEF OpenMenu, MenuIdle, MenuGone, RoutingInv, TypeOK, PlainHeld,
     OneDirection, SocdTracked, CalmInv, Silent, ToHost
<1>8. CASE Settle
  BY <1>8 DEF Settle, RoutingInv, TypeOK, PlainHeld, OneDirection, SocdTracked,
     CalmInv, Silent, ToHost
<1>9. CASE UNCHANGED vars
  BY <1>9 DEF vars, RoutingInv, TypeOK, PlainHeld, OneDirection, SocdTracked,
     CalmInv, Silent, ToHost
<1>10. QED
  BY <1>1, <1>2, <1>3, <1>4, <1>5, <1>6, <1>7, <1>8, <1>9 DEF Next

\* The invariant holds in every state of every behaviour.
LEMMA RoutingInvariant == Spec => []RoutingInv
<1>1. Init => RoutingInv
  BY DEF Init, RoutingInv, TypeOK, PlainHeld, OneDirection, SocdTracked, CalmInv,
     Silent, ToHost
<1>2. QED
  BY <1>1, RoutingStep, PTL DEF Spec

\* The variables keep their types: only SOCD keys are tracked in socd_key_state.
THEOREM TypeCorrect == Spec => []TypeOK
BY RoutingInvariant, PTL DEF RoutingInv

\* Whatever takes the keyboard over between a press and its release, no ordinary key
\* sticks on the host (the swallowed releases of process_record_user).
THEOREM NothingPlainSticks == Spec => []PlainHeld
BY RoutingInvariant, PTL DEF RoutingInv

\* The host is never told of two opposite directions at once, even from a
\* socd_key_state that is out of date (post_process_record_user).
THEOREM NeverBothDirections == Spec => []OneDirection
BY RoutingInvariant, PTL DEF RoutingInv

\* While the keys go to the host alone, letting the newer of two directions go
\* brings back the one still held (post_process_record_user).
THEOREM HeldDirectionSeen == Spec => []HeldIsSeen
<1>1. RoutingInv => HeldIsSeen
  BY SocdAssumption DEF RoutingInv, TypeOK, CalmInv, HeldIsSeen
<1>2. QED
  BY <1>1, RoutingInvariant, PTL

\* While none of a direction's events goes elsewhere, the host is told to press keys
\* that are down and no others: what a release brings back is still held
\* (post_process_record_user).
THEOREM OnlyHeldArePressed == Spec => PressesHeld
<1>1. ASSUME RoutingInv, Next, calm = "yes", calm' = "yes"
      PROVE  report' \ report \subseteq down'
  <2> USE SocdAssumption, <1>1 DEF RoutingInv, TypeOK, Keys, CalmInv
  <2>1. ASSUME NEW k \in Keys, Press(k) PROVE report' \ report \subseteq down'
    BY <2>1 DEF Press, HostPress, Swallow, Fire, Clear
  <2>2. ASSUME NEW k \in Keys, Release(k) PROVE report' \ report \subseteq down'
    BY <2>2 DEF Release, HostRelease, Swallow
  <2>3. ASSUME NEW m \in {"KEYBOARD", "OS"}, SetMode(m) PROVE report' \ report \subseteq down'
    BY <2>3 DEF SetMode, Clear
  <2>4. CASE OpenDialog \/ Timeout \/ ReleaseAll
    BY <2>4 DEF OpenDialog, Timeout, ReleaseAll, Fire, Clear
  <2>5. CASE OpenMenu \/ MenuIdle \/ MenuGone \/ Settle
    BY <2>5 DEF OpenMenu, MenuIdle, MenuGone, Settle
  <2>6. QED
    BY <2>1, <2>2, <2>3, <2>4, <2>5 DEF Next
<1>2. RoutingInv /\ [Next]_vars
        => [(calm = "yes" /\ calm' = "yes") => report' \ report \subseteq down']_vars
  BY <1>1
<1>3. QED
  BY <1>2, RoutingInvariant, PTL DEF Spec, PressesHeld
================================================================================
