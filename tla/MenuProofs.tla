------------------------------- MODULE MenuProofs -------------------------------
(***************************************************************************)
(* Proofs about Menu, for any apps, any trees and any depth of the path.   *)
(*                                                                         *)
(* RightTree: the tree on the screen is that of the app that lies          *)
(* suspended under it.  It rests on how the two cores take turns: a        *)
(* request to open or to resume the menu keeps core 1 at the top of its    *)
(* loop until core 0 has answered it, and a key keeps core 0 from dropping *)
(* the tree.                                                               *)
(*                                                                         *)
(* Typed: the type invariant, for which a scan must list apps and the rows *)
(* that open a page must lie under the focus.                              *)
(*                                                                         *)
(* WipesTheChosen: an uninstall wipes the app it was chosen as.  While a   *)
(* page of that app is shown the table does not change, because the only   *)
(* app that may be waiting to be wiped is the one in front.                *)
(***************************************************************************)
EXTENDS Menu, FiniteSetTheorems, SequenceTheorems, TLAPS

\* A request for the menu, or core 0 acting on one to open it.
Asked == openReq \/ resumeReq \/ pc0 = "open"

\* While it lasts no menu is up, the app is held, and it is the one that asked.
AskedInv ==
  /\ Asked => shown = "off" /\ pending /\ pc1 = "top" /\ pc0 # "key" /\ scr # "screen"
  /\ ~(openReq /\ resumeReq) /\ (pc0 = "open" => ~openReq /\ ~resumeReq)
  /\ openReq \/ pc0 = "open" => openModel = cur /\ cur # Home /\ (scr = "menu" => ~after)
  /\ pc0 = "open" => model = cur
  /\ resumeReq => ~after /\ (~late => model = cur /\ cur # Home /\ susp)

\* Where core 1 is in its frame, and its app in what it does.
FrameInv ==
  /\ pc1 = "tick" => shown = "off" /\ pc0 # "key" /\ ~pending
  /\ scr \in {"start", "menu", "screen"} => cur # Home
  /\ scr = "start" => pc1 = "tick" /\ ~after
  /\ scr = "screen" => shown = "off" /\ pc0 # "key" /\ ~after

\* From the key that suspends the menu to the screen it was suspended for.
SuspendInv ==
  ~late =>
    /\ scr = "menu" /\ after => life # "open"
    /\ scr = "menu" /\ after /\ ~susp => (again \/ want = Home) /\ pc1 # "tick"
    /\ scr = "menu" /\ after /\ susp => model = cur
    /\ scr = "screen" => susp /\ model = cur

\* The tree of a menu that is up, or that a key is about to be given to.
TreeInv == ~late /\ (shown # "off" \/ pc0 = "key") => model = cur /\ cur # Home

MenuInv == AskedInv /\ FrameInv /\ SuspendInv /\ TreeInv

\* No step breaks it: first a key, which acts on the tree it was given to ...
LEMMA KeyStep == ASSUME MenuInv, KeyAct PROVE MenuInv'
<1> USE DEF MenuInv, Asked, AskedInv, FrameInv, SuspendInv, TreeInv, Keyed, Shows, Publish,
      VisualExit, MenuExit, elsewhere, view, request, remove, flash, launch, app
<1>1. CASE KeyIgnored
  BY <1>1 DEF KeyIgnored
<1>2. CASE KeyEditor
  BY <1>2 DEF KeyEditor
<1>3. CASE KeyBack
  BY <1>3 DEF KeyBack
<1>4. CASE KeyExit
  BY <1>4 DEF KeyExit
<1>5. CASE KeyMove
  BY <1>5 DEF KeyMove
<1>6. CASE KeyOpenEditor
  BY <1>6 DEF KeyOpenEditor
<1>7. CASE KeyOpen
  BY <1>7 DEF KeyOpen
<1>8. CASE KeySuspend
  BY <1>8 DEF KeySuspend
<1>9. CASE KeyArrow
  BY <1>9 DEF KeyArrow
<1>10. CASE KeyUninstall
  BY <1>10 DEF KeyUninstall
<1>11. QED
  BY <1>1, <1>2, <1>3, <1>4, <1>5, <1>6, <1>7, <1>8, <1>9, <1>10 DEF KeyAct

\* ... then housekeeping, which opens, resumes and drops it ...
LEMMA ServiceStep ==
  ASSUME MenuInv, Key \/ OpenTake \/ OpenEnter \/ Resume \/ Finished \/ Uninstalled
                  \/ ConfExpired \/ IdleExit \/ Wipe
  PROVE  MenuInv'
<1> USE DEF MenuInv, Asked, AskedInv, FrameInv, SuspendInv, TreeInv, Shows, Publish,
      VisualExit, MenuExit, elsewhere, view, request, remove, flash, launch, app
<1>1. CASE Key
  BY <1>1 DEF Key
<1>2. CASE OpenTake
  BY <1>2 DEF OpenTake
<1>3. CASE OpenEnter
  BY <1>3 DEF OpenEnter
<1>4. CASE Resume
  BY <1>4 DEF Resume
<1>5. CASE Finished
  BY <1>5 DEF Finished
<1>6. CASE Uninstalled
  BY <1>6 DEF Uninstalled
<1>7. CASE ConfExpired
  BY <1>7 DEF ConfExpired
<1>8. CASE IdleExit
  BY <1>8 DEF IdleExit
<1>9. CASE Wipe
  BY <1>9 DEF Wipe
<1>10. QED
  BY <1>1, <1>2, <1>3, <1>4, <1>5, <1>6, <1>7, <1>8, <1>9

\* ... then what else core 0 does ...
LEMMA OutsideStep ==
  ASSUME MenuInv,
         (\E a \in Apps : Launch(a) \/ Accept(a)) \/ Installed \/ Reinit \/ UserLeaves
  PROVE  MenuInv'
<1> USE DEF MenuInv, Asked, AskedInv, FrameInv, SuspendInv, TreeInv, Publish,
      VisualExit, MenuExit, ExitIfActive, view, request, remove, flash, launch, app
<1>1. ASSUME NEW a \in Apps, Launch(a)  PROVE MenuInv'
  BY <1>1 DEF Launch
<1>2. ASSUME NEW a \in Apps, Accept(a)  PROVE MenuInv'
  BY <1>2 DEF Accept
<1>3. CASE Installed
  BY <1>3 DEF Installed
<1>4. CASE Reinit \/ UserLeaves
  BY <1>4 DEF Reinit, UserLeaves
<1>5. QED
  BY <1>1, <1>2, <1>3, <1>4

\* ... and core 1's frame, which ends the menu and changes the app.
LEMMA Core1Step == ASSUME MenuInv, Core1 PROVE MenuInv'
<1> USE AppsAssumption DEF MenuInv, Asked, AskedInv, FrameInv, SuspendInv, TreeInv, core0,
      remove, flash, view, request, launch, app, Ticked, Home
<1>1. CASE FrameMenu
  BY <1>1 DEF FrameMenu
<1>2. CASE FrameApp
  BY <1>2 DEF FrameApp
<1>3. CASE Draw
  BY <1>3 DEF Draw
<1>4. CASE Close
  BY <1>4 DEF Close
<1>5. CASE Tick
  <2>1. CASE TickNothing
    BY <2>1 DEF TickNothing
  <2>2. CASE TickOpen
    BY <2>2 DEF TickOpen
  <2>3. CASE TickScreen
    BY <2>3 DEF TickScreen
  <2>4. CASE TickLeave
    BY <2>4 DEF TickLeave
  <2>5. CASE TickResume
    BY <2>5 DEF TickResume
  <2>6. CASE TickHome
    BY <2>6 DEF TickHome
  <2>7. ASSUME NEW a \in Apps, TickLaunch(a)  PROVE MenuInv'
    BY <2>7 DEF TickLaunch
  <2>8. QED
    BY <1>5, <2>1, <2>2, <2>3, <2>4, <2>5, <2>6, <2>7 DEF Tick
<1>6. QED
  BY <1>1, <1>2, <1>3, <1>4, <1>5 DEF Core1

\* It holds at power-on.
LEMMA MenuStarts == Init => MenuInv
BY DEF Init, MenuInv, Asked, AskedInv, FrameInv, SuspendInv, TreeInv

\* Every step keeps it.
LEMMA MenuStep == ASSUME MenuInv, [Next]_vars PROVE MenuInv'
<1>1. MenuInv /\ Next => MenuInv'
  BY KeyStep, ServiceStep, OutsideStep, Core1Step DEF Next
<1>2. MenuInv /\ UNCHANGED vars => MenuInv'
  BY DEF MenuInv, Asked, AskedInv, FrameInv, SuspendInv, TreeInv, vars, view, request,
     launch, app
<1>3. QED
  BY <1>1, <1>2

\* The tree on the screen is that of the suspended app, and so is that of a menu put
\* away for a screen of the app's (menu.c, menu_model.c, app.c), for any apps, any
\* trees, and whatever a host, a dialog or an install does meanwhile; up to a key that
\* reaches a menu already told to close.
THEOREM RightTree == Spec => []ModelLoaded
<1>1. MenuInv => ModelLoaded
  BY DEF MenuInv, FrameInv, SuspendInv, TreeInv, ModelLoaded
<1>2. QED
  BY <1>1, MenuStarts, MenuStep, PTL DEF Spec

-------------------------------------------------------------------------------
\* A scan lists apps whose header is there: each place has the app with so many before it.
LEMMA ScanLists ==
  ASSUME NEW h \in SUBSET Apps
  PROVE  Scan(h) \in Seq(h)
<1> DEFINE n == Cardinality(h)
           rank == [a \in h |-> Cardinality(Before(a, h))]
<1>1. h \subseteq Nat /\ IsFiniteSet(h) /\ n \in Nat
  BY AppsAssumption, FS_Subset, FS_CardinalityType
<1>2. ASSUME NEW a \in h
      PROVE  /\ IsFiniteSet(Before(a, h)) /\ rank[a] \in 0 .. n - 1
             /\ \A b \in h : b < a => rank[b] # rank[a]
  <2>1. IsFiniteSet(Before(a, h)) /\ Cardinality(Before(a, h)) \in Nat
    BY <1>1, FS_Subset, FS_CardinalityType DEF Before
  <2>2. Before(a, h) \cup {a} \subseteq h /\ a \notin Before(a, h)
    BY <1>1 DEF Before
  <2>3. Cardinality(Before(a, h) \cup {a}) = Cardinality(Before(a, h)) + 1
    BY <2>1, <2>2, FS_AddElement
  <2>4. Cardinality(Before(a, h)) + 1 <= n
    BY <1>1, <2>2, <2>3, FS_Subset
  <2>5. ASSUME NEW b \in h, b < a  PROVE rank[b] # rank[a]
    <3>1. Before(b, h) \in SUBSET Before(a, h) /\ b \in Before(a, h) /\ b \notin Before(b, h)
      <4>1. a \in Nat /\ b \in Nat /\ \A c \in h : c \in Nat
        BY <1>1
      <4> HIDE DEF rank, n
      <4>2. \A c \in h : c < b => c < a
        BY <2>5, <4>1
      <4>3. Before(b, h) \subseteq Before(a, h)
        BY <4>2, Zenon DEF Before
      <4>4. b \in Before(a, h)
        BY <2>5, Zenon DEF Before
      <4>5. ~(b < b)
        BY <4>1
      <4>6. b \notin Before(b, h)
        BY <4>5, Zenon DEF Before
      <4>7. QED
        BY <4>3, <4>4, <4>6
    <3>2. Cardinality(Before(b, h)) # Cardinality(Before(a, h))
      BY <2>1, <3>1, FS_Subset
    <3>3. QED
      BY <3>2
  <2> HIDE DEF n
  <2>6. QED
    BY <1>1, <2>1, <2>4, <2>5
<1>3. rank \in Injection(h, 0 .. n - 1)
  <2>1. rank \in [h -> 0 .. n - 1]
    BY <1>2
  <2>2. \A a, b \in h : rank[a] = rank[b] => a = b
    BY <1>1, <1>2
  <2> HIDE DEF rank, n
  <2>3. QED
    BY <2>1, <2>2 DEF Injection, IsInjective
<1>4. rank \in Surjection(h, 0 .. n - 1)
  <2>1. IsFiniteSet(0 .. n - 1) /\ Cardinality(0 .. n - 1) = n
    <3> HIDE DEF n, rank
    <3>1. n - 1 \in Int /\ 0 \in Int /\ (0 > n - 1 => n = 0) /\ n - 1 - 0 + 1 = n
      BY <1>1
    <3>2. QED
      BY <3>1, FS_Interval
  <2> HIDE DEF rank
  <2>2. QED
    BY <1>3, <2>1, FS_Injection
<1>5. ASSUME NEW i \in 1 .. n
      PROVE  (CHOOSE a \in h : Cardinality(Before(a, h)) = i - 1) \in h
  <2>1. i - 1 \in 0 .. n - 1
    BY <1>1
  <2>2. PICK a \in h : rank[a] = i - 1
    <3> HIDE DEF rank, n
    <3> QED
      BY <1>4, <2>1 DEF Surjection
  <2>3. Cardinality(Before(a, h)) = i - 1
    BY <2>2
  <2>4. QED
    BY <2>3
<1> HIDE DEF n, rank
<1>6. Scan(h) = [i \in 1 .. n |-> CHOOSE a \in h : Cardinality(Before(a, h)) = i - 1]
  BY DEF Scan, n
<1>7. Scan(h) \in [1 .. n -> h]
  BY <1>5, <1>6
<1>8. QED
  BY <1>1, <1>7

\* The greatest of some numbers up to N.
LEMMA Greatest ==
  ASSUME NEW N \in Nat, NEW S \in SUBSET (0 .. N), S # {}
  PROVE  Max(S) \in S /\ \A x \in S : x <= Max(S)
<1> DEFINE Above == {p \in Nat \X Nat : p[1] < p[2]}
           T == {N - x : x \in S}
<1>1. IsWellFoundedOn(Above, Nat)
  BY NatLessThanWellFounded DEF OpToRel
<1>2. T \in SUBSET Nat /\ T # {}
  <2>1. \A x \in S : N - x \in Nat
    OBVIOUS
  <2>2. QED
    BY <2>1
<1>3. PICK m \in T : \A t \in T : ~(<<t, m>> \in Above)
  <2> HIDE DEF Above, T
  <2> QED
    BY <1>1, <1>2, WFMin
<1>4. PICK x \in S : m = N - x
  BY <1>3
<1>5. ASSUME NEW y \in S  PROVE x >= y
  <2>1. N - y \in T /\ N - y \in Nat /\ m \in Nat
    BY <1>2
  <2>2. ~(N - y < m)
    BY <1>3, <2>1
  <2>3. x \in Int /\ y \in Int
    OBVIOUS
  <2>4. QED
    BY <1>4, <2>2, <2>3
<1>6. Max(S) \in S /\ \A y \in S : Max(S) >= y
  <2>1. \E z \in S : \A y \in S : z >= y
    BY <1>5
  <2>2. QED
    BY <2>1, Zenon DEF Max
<1>7. QED
  BY <1>6

\* What is TRUE or FALSE ...
FlagsOK ==
  /\ editor \in BOOLEAN /\ susp \in BOOLEAN /\ late \in BOOLEAN /\ moved \in BOOLEAN
  /\ openReq \in BOOLEAN /\ resumeReq \in BOOLEAN /\ pending \in BOOLEAN
  /\ waiting \in BOOLEAN /\ again \in BOOLEAN /\ after \in BOOLEAN

\* ... stays so.
LEMMA FlagsStep == ASSUME FlagsOK, [Next]_vars PROVE FlagsOK'
<1> USE DEF FlagsOK, Keyed, Shows, Publish, VisualExit, MenuExit, ExitIfActive, elsewhere, view,
      request, remove, flash, launch, app, core0, Ticked, Push, Pop
<1>1. CASE KeyAct
  <2>1. CASE KeyIgnored \/ KeyEditor \/ KeyMove \/ KeyOpenEditor \/ KeyArrow
    BY <2>1 DEF KeyIgnored, KeyEditor, KeyMove, KeyOpenEditor, KeyArrow
  <2>2. CASE KeyBack
    BY <2>2 DEF KeyBack
  <2>3. CASE KeyExit
    BY <2>3 DEF KeyExit
  <2>4. CASE KeySuspend
    BY <2>4 DEF KeySuspend
  <2>5. CASE KeyUninstall
    BY <2>5 DEF KeyUninstall
  <2>6. CASE KeyOpen
    BY <2>6 DEF KeyOpen
  <2>7. QED
    BY <1>1, <2>1, <2>2, <2>3, <2>4, <2>5, <2>6 DEF KeyAct
<1>2. CASE Key
  BY <1>2 DEF Key
<1>3. CASE OpenTake
  BY <1>3 DEF OpenTake
<1>4. CASE OpenEnter
  BY <1>4 DEF OpenEnter
<1>5. CASE Resume
  BY <1>5 DEF Resume
<1>6. CASE Finished
  BY <1>6 DEF Finished
<1>7. CASE Uninstalled
  BY <1>7 DEF Uninstalled
<1>8. CASE ConfExpired
  BY <1>8 DEF ConfExpired
<1>9. CASE IdleExit
  BY <1>9 DEF IdleExit
<1>10. CASE Wipe
  BY <1>10 DEF Wipe
<1>11. ASSUME NEW a \in Apps, Launch(a)  PROVE FlagsOK'
  BY <1>11 DEF Launch
<1>12. ASSUME NEW a \in Apps, Accept(a)  PROVE FlagsOK'
  BY <1>12 DEF Accept
<1>13. CASE Installed
  <2>1. moved' = (moved \/ life = "open")
    BY <1>13, Zenon DEF Installed
  <2>2. moved' \in BOOLEAN
    BY <2>1
  <2>3. UNCHANGED <<editor, susp, late, openReq, resumeReq, pending, waiting, again, after>>
    BY <1>13 DEF Installed
  <2>4. QED
    BY <2>2, <2>3
<1>14. CASE Reinit
  BY <1>14 DEF Reinit
<1>15. CASE UserLeaves
  BY <1>15 DEF UserLeaves
<1>16. CASE FrameMenu \/ Draw \/ Close
  <2>1. CASE FrameMenu
    BY <2>1 DEF FrameMenu
  <2>2. CASE Draw
    BY <2>2 DEF Draw
  <2>3. CASE Close
    BY <2>3 DEF Close
  <2>4. QED
    BY <1>16, <2>1, <2>2, <2>3
<1>17. CASE FrameApp
  <2>1. again' = FALSE /\ (after' = FALSE \/ after' = after)
    BY <1>17 DEF FrameApp
  <2>2. UNCHANGED <<core0, shown, request, pending, launch>>
    BY <1>17 DEF FrameApp
  <2>3. QED
    BY <2>1, <2>2
<1>18. CASE Tick
  <2>1. CASE TickNothing \/ TickOpen \/ TickScreen \/ TickLeave
    BY <2>1 DEF TickNothing, TickOpen, TickScreen, TickLeave
  <2>2. CASE TickResume
    BY <2>2 DEF TickResume
  <2>3. CASE TickHome
    BY <2>3 DEF TickHome
  <2>4. ASSUME NEW a \in Apps, TickLaunch(a)  PROVE FlagsOK'
    BY <2>4 DEF TickLaunch
  <2>5. QED
    BY <1>18, <2>1, <2>2, <2>3, <2>4 DEF Tick
<1>19. CASE UNCHANGED vars
  BY <1>19 DEF vars
<1>20. QED
  BY <1>1, <1>2, <1>3, <1>4, <1>5, <1>6, <1>7, <1>8, <1>9, <1>10, <1>11, <1>12, <1>13, <1>14,
     <1>15, <1>16, <1>17, <1>18, <1>19 DEF Next, Core1
\* What has a value of a few words ...
WordsOK ==
  /\ life \in {"off", "open", "closing"} /\ shown \in {"off", "open", "closing"}
  /\ conf \in {"ask", "ok", "err"} /\ scr \in {"start", "menu", "screen", "leave", "play"}
  /\ pc0 \in {"idle", "key", "open"} /\ pc1 \in {"top", "draw", "close", "tick"}
  /\ user \in {"here", "gone"}

\* ... stays so.
LEMMA WordsStep == ASSUME WordsOK, [Next]_vars PROVE WordsOK'
<1> USE DEF WordsOK, Keyed, Shows, Publish, VisualExit, MenuExit, ExitIfActive, elsewhere, view,
      request, remove, flash, launch, app, core0, Ticked, Push, Pop
<1>1. CASE KeyAct
  <2>1. CASE KeyIgnored \/ KeyEditor \/ KeyMove \/ KeyOpenEditor \/ KeyArrow
    BY <2>1 DEF KeyIgnored, KeyEditor, KeyMove, KeyOpenEditor, KeyArrow
  <2>2. CASE KeyBack \/ KeyExit \/ KeySuspend
    BY <2>2 DEF KeyBack, KeyExit, KeySuspend
  <2>3. CASE KeyUninstall \/ KeyOpen
    BY <2>3 DEF KeyUninstall, KeyOpen
  <2>4. QED
    BY <1>1, <2>1, <2>2, <2>3 DEF KeyAct
<1>2. CASE Key \/ OpenTake \/ OpenEnter \/ Resume \/ Finished
  BY <1>2 DEF Key, OpenTake, OpenEnter, Resume, Finished
<1>3. CASE Uninstalled \/ ConfExpired \/ IdleExit \/ Wipe
  BY <1>3 DEF Uninstalled, ConfExpired, IdleExit, Wipe
<1>4. ASSUME NEW a \in Apps, Launch(a) \/ Accept(a)  PROVE WordsOK'
  BY <1>4 DEF Launch, Accept
<1>5. CASE Installed \/ Reinit \/ UserLeaves
  BY <1>5 DEF Installed, Reinit, UserLeaves
<1>6. CASE FrameMenu \/ FrameApp \/ Draw \/ Close
  BY <1>6 DEF FrameMenu, FrameApp, Draw, Close
<1>7. CASE Tick
  BY <1>7 DEF Tick, TickNothing, TickOpen, TickScreen, TickLeave, TickResume, TickHome, TickLaunch
<1>8. CASE UNCHANGED vars
  BY <1>8 DEF vars
<1>9. QED
  BY <1>1, <1>2, <1>3, <1>4, <1>5, <1>6, <1>7, <1>8 DEF Next, Core1

\* The apps by name ...
NamesOK ==
  /\ model \in Apps \cup {Home} /\ openModel \in Apps \cup {Home}
  /\ base \in Apps \cup {Home} /\ want \in Apps \cup {Home}
  /\ cur \in Apps \cup {Home} /\ install \in Apps \cup {Home}

\* ... and those of the flash and of the scan's table.
TableOK ==
  /\ header \subseteq Apps /\ table \in Seq(Apps) /\ listed \in Nat \ {0} /\ sel \in Nat
  /\ chosen \in Apps \cup {Home} /\ del \in Apps \cup {Home}

\* Every page has its saved focus, and the path its bound.
StackOK ==
  /\ path \in Seq(Nodes) /\ Len(path) <= PathMax
  /\ at \in Seq(Nat) /\ Len(at) = Len(path) + 1

\* What a scan leaves in the table, and the rows INSTALLED then has.
LEMMA Rescan ==
  ASSUME NEW h \in SUBSET Apps
  PROVE  Scan(h) \in Seq(Apps) /\ Max({1, Len(Scan(h))}) \in Nat \ {0}
<1>1. Scan(h) \in Seq(Apps) /\ Len(Scan(h)) \in Nat
  <2>1. Scan(h) \in Seq(h)
    BY ScanLists
  <2>2. QED
    BY <2>1, SeqMonotonic, LenProperties
<1>2. PICK n \in Nat : n = Len(Scan(h))
  BY <1>1
<1>3. {1, n} \in SUBSET (0 .. n + 1) /\ {1, n} # {}
  OBVIOUS
<1>4. Max({1, n}) \in {1, n} /\ 1 <= Max({1, n})
  BY <1>3, Greatest
<1>5. QED
  BY <1>1, <1>2, <1>4

\* The pages of one installed app.
Own == {"ITEM", "INFO", "DELETE"}

\* What the rows of a page are: those of INSTALLED stand for apps, and no other page but
\* ITEM leads to DETAILS or UNINSTALL.
LEMMA RowsAre ==
  ASSUME NamesOK, TableOK, NEW n \in Nodes \cup {"ROOT"}
  PROVE  /\ Len(Rows(n)) \in Nat
         /\ n = "INSTALLED" => /\ Len(Rows(n)) = listed
                               /\ \A i \in 1 .. listed :
                                    Rows(n)[i] = IF i <= Len(table) THEN "ITEM" ELSE "VALUE"
         /\ n = "ITEM" => Rows(n) = <<"INFO", "DELETE">>
         /\ n \in {"INFO", "DELETE", "LCDTEST"} => Rows(n) = <<>>
         /\ n \notin {"INSTALLED", "ITEM"} => \A i \in 1 .. Len(Rows(n)) : Rows(n)[i] \notin Own
<1>0. n \in Firmware => ~(model # Home /\ n \in DOMAIN Tree[model])
  BY TreeAssumption DEF NamesOK
<1>1. CASE n = "INSTALLED"
  <2>1. Rows(n) = [i \in 1..listed |-> IF i <= Len(table) THEN "ITEM" ELSE "VALUE"]
    BY <1>0, <1>1 DEF Rows, Firmware
  <2>2. listed \in Nat
    BY DEF TableOK
  <2>3. QED
    BY <1>1, <2>1, <2>2
<1>2. CASE n = "ITEM"
  <2>1. Rows(n) = <<"INFO", "DELETE">>
    BY <1>0, <1>2 DEF Rows, Firmware
  <2>2. QED
    BY <1>2, <2>1
<1>3. CASE n \in {"INFO", "DELETE", "LCDTEST"}
  <2>1. Rows(n) = <<>>
    BY <1>0, <1>3 DEF Rows, Firmware
  <2>2. QED
    BY <1>3, <2>1
<1>4. CASE n \notin Firmware
  <2>1. CASE model # Home /\ n \in DOMAIN Tree[model]
    <3>1. Rows(n) = Tree[model][n]
      BY <1>4, <2>1 DEF Rows, Firmware
    <3>2. Rows(n) \in Seq((Nodes \ {"ITEM", "INFO", "DELETE"}) \cup Leaves)
      BY <2>1, <3>1, TreeAssumption DEF NamesOK
    <3>3. \A i \in 1 .. Len(Rows(n)) :
            Rows(n)[i] \in (Nodes \ {"ITEM", "INFO", "DELETE"}) \cup Leaves
      BY <3>2, ElementOfSeq
    <3>4. Len(Rows(n)) \in Nat
      BY <3>2, LenProperties
    <3>5. QED
      BY <1>4, <3>3, <3>4 DEF Own, Leaves, Firmware
  <2>2. CASE ~(model # Home /\ n \in DOMAIN Tree[model])
    <3>1. Rows(n) = <<>>
      BY <1>4, <2>2 DEF Rows, Firmware
    <3>2. QED
      BY <1>4, <3>1 DEF Firmware
  <2>3. QED
    BY <2>1, <2>2
<1>5. QED
  BY <1>1, <1>2, <1>3, <1>4 DEF Firmware

\* The last page of a path is one of the tree's.
LEMMA NodeIs == ASSUME NEW p \in Seq(Nodes) PROVE Node(p) \in Nodes \cup {"ROOT"}
  BY DEF Node, Last

\* The saved focus of the page on the screen, and what is left without it.
LEMMA AtIs ==
  ASSUME StackOK
  PROVE  /\ Focus \in Nat /\ Front(at) \in Seq(Nat) /\ Len(Front(at)) = Len(path)
         /\ \A f \in Nat : Append(Front(at), f) \in Seq(Nat) /\ Len(Append(Front(at), f)) = Len(at)
<1>1. at \in Seq(Nat) /\ Len(at) \in Nat /\ Len(at) >= 1 /\ Len(path) \in Nat
        /\ Len(at) = Len(path) + 1
  BY DEF StackOK
<1>2. Focus \in Nat
  BY <1>1 DEF Focus, Last
<1>3. Front(at) \in Seq(Nat) /\ Len(Front(at)) = Len(path)
  <2>1. \A i \in 1 .. Len(at) - 1 : at[i] \in Nat
    BY <1>1
  <2>2. QED
    BY <1>1, <2>1, SubSeqProperties DEF Front
<1>4. QED
  BY <1>1, <1>2, <1>3

\* The names stay names: of an app, or none.
LEMMA NamesStep == ASSUME NamesOK, [Next]_vars PROVE NamesOK'
<1> USE DEF NamesOK, Keyed, Shows, Publish, VisualExit, MenuExit, ExitIfActive, elsewhere, view,
      request, remove, flash, launch, app, core0, Ticked, Push, Pop
<1>1. CASE KeyAct
  BY <1>1 DEF KeyAct, KeyIgnored, KeyEditor, KeyMove, KeyOpenEditor, KeyArrow, KeyBack, KeyExit,
              KeySuspend, KeyUninstall, KeyOpen
<1>2. CASE Key \/ OpenTake \/ OpenEnter \/ Resume \/ Finished
  BY <1>2 DEF Key, OpenTake, OpenEnter, Resume, Finished
<1>3. CASE Uninstalled \/ ConfExpired \/ IdleExit \/ Wipe
  BY <1>3 DEF Uninstalled, ConfExpired, IdleExit, Wipe
<1>4. ASSUME NEW a \in Apps, Launch(a) \/ Accept(a)  PROVE NamesOK'
  BY <1>4 DEF Launch, Accept
<1>5. CASE Installed \/ Reinit \/ UserLeaves
  BY <1>5 DEF Installed, Reinit, UserLeaves
<1>6. CASE FrameMenu \/ FrameApp \/ Draw \/ Close
  BY <1>6 DEF FrameMenu, FrameApp, Draw, Close
<1>7. CASE Tick
  BY <1>7 DEF Tick, TickNothing, TickOpen, TickScreen, TickLeave, TickResume, TickHome, TickLaunch
<1>8. CASE UNCHANGED vars
  BY <1>8 DEF vars
<1>9. QED
  BY <1>1, <1>2, <1>3, <1>4, <1>5, <1>6, <1>7, <1>8 DEF Next, Core1

\* A row that opens a page is no leaf; the app it opens stands in the table.
LEMMA RowOpens ==
  ASSUME NamesOK, TableOK, StackOK, HasRow, Row \in Nodes, Node(path) = "INSTALLED"
  PROVE  Focus + 1 \in 1 .. Len(table) /\ Row = "ITEM" /\ table[Focus + 1] \in Apps
<1>1. "VALUE" \notin Nodes
  BY TreeAssumption DEF Nodes, Firmware, Leaves
<1>2. Focus \in Nat /\ Len(table) \in Nat /\ listed \in Nat
  BY AtIs DEF TableOK
<1>3. Len(Rows("INSTALLED")) = listed
        /\ \A i \in 1 .. listed : Rows("INSTALLED")[i] = IF i <= Len(table) THEN "ITEM" ELSE "VALUE"
  BY RowsAre DEF Nodes, Firmware
<1>4. Focus + 1 \in 1 .. listed
  BY <1>2, <1>3 DEF HasRow
<1>5. Focus + 1 <= Len(table) /\ Row = "ITEM"
  BY <1>1, <1>3, <1>4 DEF Row
<1>6. QED
  BY <1>2, <1>4, <1>5, ElementOfSeq DEF TableOK

\* A scan keeps its table, and what is chosen from it is an app.
LEMMA TableStep == ASSUME NamesOK, TableOK, StackOK, [Next]_vars PROVE TableOK'
<1> USE DEF TableOK, Keyed, elsewhere, remove, flash, core0, Ticked
<1>1. CASE KeyOpen
  <2>1. Focus \in Nat
    BY AtIs
  <2>2. header' = header /\ del' = del /\ header \in SUBSET Apps
    BY <1>1 DEF KeyOpen
  <2>3. table' \in Seq(Apps) /\ listed' \in Nat \ {0}
    BY <1>1, <2>2, Rescan DEF KeyOpen
  <2>4. sel' \in Nat /\ chosen' \in Apps \cup {Home}
    BY <1>1, <2>1, RowOpens DEF KeyOpen
  <2>5. QED
    BY <2>2, <2>3, <2>4
<1>2. CASE KeyUninstall
  <2>1. ASSUME sel < Len(table)  PROVE table[sel + 1] \in Apps
    <3>1. sel \in Nat /\ Len(table) \in Nat
      OBVIOUS
    <3>2. sel + 1 \in 1 .. Len(table)
      BY <2>1, <3>1
    <3>3. QED
      BY <3>2, ElementOfSeq
  <2>2. del' \in Apps \cup {Home}
    BY <1>2, <2>1 DEF KeyUninstall
  <2>3. UNCHANGED <<sel, chosen, listed, header, table>>
    BY <1>2 DEF KeyUninstall
  <2>4. QED
    BY <2>2, <2>3
<1>3. CASE KeySuspend
  <2>1. table' \in Seq(Apps) /\ UNCHANGED <<sel, chosen, listed, header, del>>
    BY <1>3, Rescan DEF KeySuspend
  <2>2. QED
    BY <2>1
<1>4. CASE KeyIgnored \/ KeyEditor \/ KeyMove \/ KeyOpenEditor \/ KeyArrow \/ KeyBack \/ KeyExit
  BY <1>4 DEF KeyIgnored, KeyEditor, KeyMove, KeyOpenEditor, KeyArrow, KeyBack, KeyExit
<1>5. CASE Key \/ OpenTake \/ OpenEnter \/ Resume \/ Finished \/ ConfExpired \/ IdleExit
  BY <1>5 DEF Key, OpenTake, OpenEnter, Resume, Finished, ConfExpired, IdleExit, Home
<1>6. CASE Uninstalled
  <2>1. table' \in Seq(Apps) /\ listed' \in Nat \ {0} /\ UNCHANGED <<sel, chosen, header, del>>
    BY <1>6, Rescan DEF Uninstalled
  <2>2. QED
    BY <2>1
<1>7. CASE Wipe
  <2>1. header' \in SUBSET Apps /\ table' = Scan(header') /\ del' = Home
          /\ UNCHANGED <<sel, chosen, listed>>
    BY <1>7 DEF Wipe
  <2>2. QED
    BY <2>1, Rescan
<1>8. ASSUME NEW a \in Apps, Launch(a) \/ Accept(a)  PROVE TableOK'
  <2>1. table' \in {table, Scan(header)} /\ UNCHANGED <<sel, chosen, listed, header, del>>
    BY <1>8 DEF Launch, Accept
  <2>2. QED
    BY <2>1, Rescan
<1>9. CASE Installed
  <2>1. header' \in SUBSET Apps /\ table' = Scan(header') /\ UNCHANGED <<sel, chosen, listed, del>>
    BY <1>9 DEF Installed, NamesOK
  <2>2. QED
    BY <2>1, Rescan
<1>10. CASE Reinit \/ UserLeaves
  BY <1>10 DEF Reinit, UserLeaves
<1>11. CASE FrameMenu \/ FrameApp \/ Draw \/ Close
  BY <1>11 DEF FrameMenu, FrameApp, Draw, Close
<1>12. CASE Tick
  BY <1>12 DEF Tick, TickNothing, TickOpen, TickScreen, TickLeave, TickResume, TickHome, TickLaunch
<1>13. CASE UNCHANGED vars
  BY <1>13 DEF vars
<1>14. QED
  BY <1>1, <1>2, <1>3, <1>4, <1>5, <1>6, <1>7, <1>8, <1>9, <1>10, <1>11, <1>12, <1>13
     DEF Next, KeyAct, Core1

\* A sequence without its last.
LEMMA FrontIs ==
  ASSUME NEW S, NEW s \in Seq(S), Len(s) >= 1
  PROVE  Front(s) \in Seq(S) /\ Len(Front(s)) = Len(s) - 1
<1>1. Len(s) \in Nat /\ \A i \in 1 .. Len(s) - 1 : s[i] \in S
  OBVIOUS
<1>2. PICK m \in Nat : m = Len(s)
  BY <1>1
<1>3. m >= 1 /\ m - 1 \in Int
  BY <1>2
<1>4. SubSeq(s, 1, m - 1) \in Seq(S) /\ Len(SubSeq(s, 1, m - 1)) = m - 1
  BY <1>1, <1>2, <1>3, SubSeqProperties
<1>5. QED
  BY <1>2, <1>4 DEF Front

\* The focus on the top of a stack is moved without more or less of the rest.
LEMMA Clamped ==
  ASSUME NEW s \in Seq(Nat), Len(s) >= 1, NEW n \in Nat
  PROVE  ClampLast(s, n) \in Seq(Nat) /\ Len(ClampLast(s, n)) = Len(s)
<1>1. Len(s) \in Nat /\ Front(s) \in Seq(Nat) /\ Len(Front(s)) = Len(s) - 1
  BY FrontIs
<1>2. Last(s) \in Nat
  BY DEF Last
<1>3. Clamp(Last(s), n) \in Nat
  BY <1>2 DEF Clamp
<1> QED
  BY <1>1, <1>3, AppendProperties DEF ClampLast

\* The rows of any page of the tree are so many.
LEMMA RowsLen ==
  ASSUME NamesOK, TableOK, NEW p \in Seq(Nodes)
  PROVE  Len(Rows(Node(p))) \in Nat
  BY NodeIs, RowsAre

\* A page down, where the stack has room.
LEMMA PushTyped ==
  ASSUME StackOK, NEW n \in Nodes, Push(n)  PROVE StackOK'
<1>1. Len(path) \in Nat /\ PathMax \in Nat
  BY PathAssumption DEF StackOK
<1>2. CASE Len(path) >= PathMax
  BY <1>2 DEF Push, StackOK
<1>3. CASE ~(Len(path) >= PathMax)
  <2>1. path' = Append(path, n) /\ at' = Append(at, 0)
    BY <1>3 DEF Push
  <2>2. path' \in Seq(Nodes) /\ Len(path') = Len(path) + 1
          /\ at' \in Seq(Nat) /\ Len(at') = Len(at) + 1
    BY <2>1, AppendProperties DEF StackOK
  <2>3. QED
    BY <1>1, <1>3, <2>2 DEF StackOK
<1>4. QED
  BY <1>2, <1>3

\* A page up, to a row that is still there.
LEMMA PopTyped ==
  ASSUME NamesOK, TableOK, StackOK, Pop  PROVE StackOK'
<1>1. CASE path = <<>>
  BY <1>1 DEF Pop, StackOK
<1>2. CASE path # <<>>
  <2>1. path' = Front(path) /\ at' = ClampLast(Front(at), Len(Rows(Node(Front(path)))))
    BY <1>2 DEF Pop
  <2>2. Len(path) \in Nat /\ Len(path) >= 1 /\ PathMax \in Nat
    BY <1>2, PathAssumption, EmptySeq DEF StackOK
  <2>3. Front(path) \in Seq(Nodes) /\ Len(Front(path)) = Len(path) - 1
    BY <2>2, FrontIs DEF StackOK
  <2>4. Front(at) \in Seq(Nat) /\ Len(Front(at)) = Len(path)
    BY AtIs
  <2>5. at' \in Seq(Nat) /\ Len(at') = Len(path)
    BY <2>1, <2>2, <2>3, <2>4, RowsLen, Clamped
  <2>6. QED
    BY <2>1, <2>2, <2>3, <2>5 DEF StackOK
<1>3. QED
  BY <1>1, <1>2

\* Back to INSTALLED, or to the root where no page of the path is it.
LEMMA BackTyped ==
  ASSUME NamesOK, TableOK, StackOK, Uninstalled  PROVE StackOK'
<1> DEFINE pages == {i \in 1..Len(path) : path[i] = "INSTALLED"}
           n == Max({0} \cup pages)
           rows == IF n = 0 THEN Len(Rows("ROOT")) ELSE Max({1, Len(Scan(header))})
<1>1. Len(path) \in Nat /\ Len(at) = Len(path) + 1 /\ path \in Seq(Nodes) /\ at \in Seq(Nat)
        /\ Len(path) <= PathMax /\ PathMax \in Nat
  BY PathAssumption DEF StackOK
<1>2. n \in 0 .. Len(path)
  <2>1. {0} \cup pages \in SUBSET (0 .. Len(path)) /\ {0} \cup pages # {}
    BY <1>1
  <2> HIDE DEF pages
  <2>2. QED
    BY <1>1, <2>1, Greatest
<1>3. rows \in Nat
  <2> HIDE DEF n
  <2>1. header \in SUBSET Apps
    BY DEF TableOK
  <2>2. QED
    BY <2>1, Rescan, RowsAre
<1>4. path' = SubSeq(path, 1, n) /\ at' = ClampLast(SubSeq(at, 1, n + 1), rows)
  BY DEF Uninstalled
<1> HIDE DEF n, rows
<1>5. path' \in Seq(Nodes) /\ Len(path') = n
  <2>1. \A i \in 1 .. n : path[i] \in Nodes
    BY <1>1, <1>2
  <2>2. QED
    BY <1>1, <1>2, <1>4, <2>1, SubSeqProperties
<1>6. SubSeq(at, 1, n + 1) \in Seq(Nat) /\ Len(SubSeq(at, 1, n + 1)) = n + 1
  <2>1. \A i \in 1 .. n + 1 : at[i] \in Nat
    BY <1>1, <1>2
  <2>2. QED
    BY <1>1, <1>2, <2>1, SubSeqProperties
<1>7. at' \in Seq(Nat) /\ Len(at') = n + 1
  <2>1. n + 1 >= 1
    BY <1>1, <1>2
  <2>2. QED
    BY <1>3, <1>4, <1>6, <2>1, Clamped
<1>8. QED
  BY <1>1, <1>2, <1>5, <1>7 DEF StackOK

\* Every page keeps its focus and the path its bound.
LEMMA StackStep == ASSUME NamesOK, TableOK, StackOK, [Next]_vars PROVE StackOK'
<1> USE DEF elsewhere, view, core0
<1>1. CASE KeyMove
  <2>1. path' = path /\ \E f \in Nat : at' = Append(Front(at), f)
    <3> DEFINE n == Len(Rows(Node(path)))
    <3>1. n \in Nat /\ Focus \in Nat
      BY RowsLen, AtIs DEF StackOK
    <3>2. PICK f \in {IF Focus = 0 THEN n - 1 ELSE Focus - 1,
                      IF Focus + 1 >= n THEN 0 ELSE Focus + 1} :
            at' = Append(Front(at), Clamp(f, n)) /\ n > 0 /\ path' = path
      BY <1>1 DEF KeyMove
    <3> HIDE DEF n
    <3>3. f \in Nat
      BY <3>1, <3>2
    <3>4. Clamp(f, n) \in Nat
      BY <3>1, <3>3 DEF Clamp
    <3>5. QED
      BY <3>2, <3>4
  <2>2. QED
    BY <2>1, AtIs DEF StackOK
<1>2. CASE KeyOpen
  <2>1. Push(Row) /\ Row \in Nodes
    BY <1>2 DEF KeyOpen
  <2>2. QED
    BY <2>1, PushTyped
<1>3. CASE KeyBack \/ (KeyUninstall /\ Pop) \/ (ConfExpired /\ Pop)
  <2>1. Pop
    BY <1>3 DEF KeyBack
  <2>2. QED
    BY <2>1, PopTyped
<1>4. CASE Uninstalled
  BY <1>4, BackTyped
<1>5. CASE OpenEnter
  <2>1. path' = <<>> /\ at' = <<0>>
    BY <1>5 DEF OpenEnter
  <2>2. QED
    BY <2>1, PathAssumption, EmptySeq DEF StackOK
<1>6. CASE UNCHANGED <<path, at>>
  BY <1>6 DEF StackOK
<1>7. QED
  <2>1. KeyIgnored \/ KeyEditor \/ KeyExit \/ KeyOpenEditor \/ KeySuspend \/ KeyArrow
          => UNCHANGED <<path, at>>
    BY DEF KeyIgnored, KeyEditor, KeyExit, KeyOpenEditor, KeySuspend, KeyArrow
  <2>2. KeyUninstall \/ ConfExpired => Pop \/ UNCHANGED <<path, at>>
    BY DEF KeyUninstall, ConfExpired
  <2>3. Key \/ OpenTake \/ Resume \/ Finished \/ IdleExit \/ Wipe => UNCHANGED <<path, at>>
    BY DEF Key, OpenTake, Resume, Finished, IdleExit, Wipe
  <2>4. \A a \in Apps : Launch(a) \/ Accept(a) => UNCHANGED <<path, at>>
    BY DEF Launch, Accept
  <2>5. Installed \/ Reinit \/ UserLeaves => UNCHANGED <<path, at>>
    BY DEF Installed, Reinit, UserLeaves
  <2>6. Core1 => UNCHANGED <<path, at>>
    BY DEF Core1, FrameMenu, FrameApp, Draw, Close, Tick, TickNothing, TickOpen, TickScreen,
           TickLeave, TickResume, TickHome, TickLaunch
  <2>7. UNCHANGED vars => UNCHANGED <<path, at>>
    BY DEF vars
  <2>8. QED
    BY <1>1, <1>2, <1>3, <1>4, <1>5, <1>6, <2>1, <2>2, <2>3, <2>4, <2>5, <2>6, <2>7
       DEF Next, KeyAct

\* The type invariant, piece by piece, is inductive as it stands.
Shape == FlagsOK /\ WordsOK /\ NamesOK /\ TableOK /\ StackOK

\* It holds at power-on ...
LEMMA ShapeStarts == Init => Shape
<1>1. Init => FlagsOK /\ WordsOK
  BY DEF Init, FlagsOK, WordsOK
<1>2. Init => NamesOK
  BY DEF Init, NamesOK
<1>3. Init => TableOK
  <2> SUFFICES ASSUME Init PROVE TableOK
    OBVIOUS
  <2>1. header \in SUBSET Apps /\ table = Scan(header) /\ listed = Max({1, Len(table)})
          /\ sel = 0 /\ chosen = Home /\ del = Home
    BY DEF Init
  <2>2. QED
    BY <2>1, Rescan DEF TableOK
<1>4. Init => StackOK
  BY PathAssumption, EmptySeq DEF Init, StackOK
<1>5. QED
  BY <1>1, <1>2, <1>3, <1>4 DEF Shape

\* ... and every step keeps it.
LEMMA ShapeStep == ASSUME Shape, [Next]_vars PROVE Shape'
  BY FlagsStep, WordsStep, NamesStep, TableStep, StackStep DEF Shape

\* Every variable of the menu, of app.c and of the tables keeps its type: the path its bound,
\* and every page on it its saved focus.
THEOREM Typed == Spec => []TypeOK
<1>1. Shape => TypeOK
  <2>1. TableOK => Range(table) \subseteq Apps
    BY DEF TableOK, Range
  <2>2. QED
    BY <2>1 DEF Shape, TypeOK, FlagsOK, WordsOK, NamesOK, TableOK, StackOK
<1>2. QED
  BY <1>1, ShapeStarts, ShapeStep, PTL DEF Spec

-------------------------------------------------------------------------------
\* On a path an app's own pages come last: its page, then DETAILS or UNINSTALL.
Pages(p) ==
  \A k \in 1 .. Len(p) :
    /\ p[k] = "ITEM" => \/ k = Len(p)
                        \/ k = Len(p) - 1 /\ p[Len(p)] \in {"INFO", "DELETE"}
    /\ p[k] \in {"INFO", "DELETE"} => k > 1 /\ p[k - 1] = "ITEM"

\* The page on the screen.
Here == Node(path)

\* A path cut to the page above, or to INSTALLED or the root, is still such a path.
LEMMA CutPages ==
  ASSUME NEW p \in Seq(Nodes), Pages(p), NEW n \in 0 .. Len(p),
         n = Len(p) - 1 \/ (n > 0 => p[n] = "INSTALLED")
  PROVE  /\ Pages(SubSeq(p, 1, n))
         /\ Node(SubSeq(p, 1, n)) \in Own =>
              n = Len(p) - 1 /\ Node(SubSeq(p, 1, n)) = "ITEM" /\ Node(p) \in {"INFO", "DELETE"}
<1> DEFINE q == SubSeq(p, 1, n)
<1>1. Len(p) \in Nat /\ n \in Nat /\ n <= Len(p)
  OBVIOUS
<1>2. q \in Seq(Nodes) /\ Len(q) = n /\ \A i \in 1 .. n : q[i] = p[i]
  <2>1. \A i \in 1 .. n : p[i] \in Nodes
    BY <1>1
  <2>2. QED
    BY <1>1, <2>1, SubSeqProperties
<1> HIDE DEF q
<1>3. Pages(q)
  <2> SUFFICES ASSUME NEW k \in 1 .. n
               PROVE  /\ q[k] = "ITEM" => \/ k = n
                                          \/ k = n - 1 /\ q[n] \in {"INFO", "DELETE"}
                      /\ q[k] \in {"INFO", "DELETE"} => k > 1 /\ q[k - 1] = "ITEM"
    BY <1>2 DEF Pages
  <2>1. k \in 1 .. Len(p) /\ q[k] = p[k] /\ q[n] = p[n]
    BY <1>1, <1>2
  <2>2. ASSUME q[k] = "ITEM"  PROVE k = n
    <3>1. k = Len(p) \/ (k = Len(p) - 1 /\ p[Len(p)] \in {"INFO", "DELETE"})
      BY <2>1, <2>2 DEF Pages
    <3>2. n > 0 /\ k <= n
      BY <1>1
    <3>3. CASE n = Len(p) - 1
      BY <1>1, <3>1, <3>2, <3>3
    <3>4. CASE p[n] = "INSTALLED"
      BY <1>1, <3>1, <3>2, <3>4
    <3>5. QED
      BY <3>2, <3>3, <3>4
  <2>3. ASSUME q[k] \in {"INFO", "DELETE"}  PROVE k > 1 /\ q[k - 1] = "ITEM"
    <3>1. k > 1 /\ p[k - 1] = "ITEM"
      BY <2>1, <2>3 DEF Pages
    <3>2. k - 1 \in 1 .. n
      BY <1>1, <3>1
    <3>3. QED
      BY <1>2, <3>1, <3>2
  <2>4. QED
    BY <2>2, <2>3
<1>4. ASSUME Node(q) \in Own
      PROVE  n = Len(p) - 1 /\ Node(q) = "ITEM" /\ Node(p) \in {"INFO", "DELETE"}
  <2>1. q # <<>> /\ n > 0 /\ Node(q) = p[n]
    <3>1. q # <<>>
      BY <1>4 DEF Node, Own
    <3>2. n > 0
      BY <1>1, <1>2, <3>1, EmptySeq
    <3>3. Node(q) = q[n]
      BY <1>2, <3>1 DEF Node, Last
    <3>4. QED
      BY <1>1, <1>2, <3>1, <3>2, <3>3
  <2>2. n = Len(p) - 1
    BY <1>4, <2>1 DEF Own
  <2>3. n \in 1 .. Len(p) /\ Len(p) \in 1 .. Len(p)
    BY <1>1, <2>1, <2>2
  <2>4. p[n] \notin {"INFO", "DELETE"}
    <3>1. SUFFICES ASSUME p[n] \in {"INFO", "DELETE"}  PROVE FALSE
      OBVIOUS
    <3>2. n > 1 /\ p[n - 1] = "ITEM"
      BY <2>3, <3>1 DEF Pages
    <3>3. n - 1 \in 1 .. Len(p)
      BY <1>1, <3>2
    <3>4. n - 1 = Len(p) \/ n - 1 = Len(p) - 1
      BY <3>2, <3>3 DEF Pages
    <3>5. QED
      BY <1>1, <2>2, <3>4
  <2>5. p[n] = "ITEM"
    BY <1>4, <2>1, <2>4 DEF Own
  <2>6. p[Len(p)] \in {"INFO", "DELETE"}
    BY <1>1, <2>2, <2>3, <2>5 DEF Pages
  <2>7. p # <<>> /\ Node(p) = p[Len(p)]
    <3>1. p # <<>>
      BY <1>1, <2>3, EmptySeq
    <3>2. QED
      BY <3>1 DEF Node, Last
  <2>8. QED
    BY <2>1, <2>2, <2>5, <2>6, <2>7
<1>5. QED
  BY <1>3, <1>4 DEF q

\* The rows that lead to an app's own pages.
LEMMA RowOwn ==
  ASSUME NamesOK, TableOK, StackOK, HasRow
  PROVE  /\ Row \in Own => Here \in {"INSTALLED", "ITEM"}
         /\ Here = "ITEM" => Row \in {"INFO", "DELETE"}
         /\ Here = "INSTALLED" => Row \in {"ITEM", "VALUE"}
         /\ Here \notin {"INFO", "DELETE"}
<1>1. path \in Seq(Nodes) /\ Here \in Nodes \cup {"ROOT"}
  BY NodeIs DEF StackOK, Here
<1>2. Len(Rows(Here)) \in Nat /\ Focus \in Nat
  BY <1>1, RowsAre, AtIs
<1>3. Focus + 1 \in 1 .. Len(Rows(Here)) /\ Row = Rows(Here)[Focus + 1]
  BY <1>2 DEF HasRow, Row, Here
<1>4. CASE Here = "INSTALLED"
  <2>1. Row \in {"ITEM", "VALUE"}
    BY <1>1, <1>3, <1>4, RowsAre
  <2>2. QED
    BY <1>4, <2>1
<1>5. CASE Here = "ITEM"
  <2>1. Rows(Here) = <<"INFO", "DELETE">>
    BY <1>1, <1>5, RowsAre
  <2>2. Focus + 1 \in 1 .. 2
    BY <1>3, <2>1
  <2>3. Row \in {"INFO", "DELETE"}
    BY <1>2, <1>3, <2>1, <2>2
  <2>4. QED
    BY <1>5, <2>3
<1>6. CASE Here \notin {"INSTALLED", "ITEM"}
  <2>1. Row \notin Own
    BY <1>1, <1>3, <1>6, RowsAre
  <2>2. Here \notin {"INFO", "DELETE"}
    <3>1. SUFFICES ASSUME Here \in {"INFO", "DELETE"}  PROVE FALSE
      OBVIOUS
    <3>2. Rows(Here) = <<>>
      BY <1>1, <3>1, RowsAre
    <3>3. QED
      BY <1>2, <1>3, <3>2
  <2>3. QED
    BY <1>6, <2>1, <2>2
<1>7. QED
  BY <1>4, <1>5, <1>6

\* A page opened below another.
LEMMA PushPages ==
  ASSUME NamesOK, TableOK, StackOK, Pages(path), HasRow, Row \in Nodes,
         path' = Append(path, Row)
  PROVE  Pages(path)' /\ Here' = Row
<1> DEFINE n == Len(path)
<1>1. n \in Nat /\ path \in Seq(Nodes)
  BY DEF StackOK
<1>2. Len(path') = n + 1 /\ path'[n + 1] = Row /\ \A i \in 1 .. n : path'[i] = path[i]
  BY <1>1, AppendProperties
<1>3. Here' = Row
  <2>1. path' # <<>>
    BY <1>1, <1>2, EmptySeq
  <2>2. QED
    BY <1>2, <2>1 DEF Here, Node, Last
<1>4. n > 0 => Here = path[n]
  <2>1. n > 0 => path # <<>>
    BY <1>1, EmptySeq
  <2>2. QED
    BY <2>1 DEF Here, Node, Last
<1>5. n = 0 => Here = "ROOT"
  BY <1>1, EmptySeq DEF Here, Node
<1> HIDE DEF n
<1>6. ASSUME NEW k \in 1 .. n + 1
      PROVE  /\ path'[k] = "ITEM" => \/ k = n + 1
                                     \/ k = n /\ path'[n + 1] \in {"INFO", "DELETE"}
             /\ path'[k] \in {"INFO", "DELETE"} => k > 1 /\ path'[k - 1] = "ITEM"
  <2>1. CASE k = n + 1
    <3>1. path'[k] \in {"INFO", "DELETE"} => Here = "ITEM" /\ n > 0
      <4>1. Row \in {"INFO", "DELETE"} => Here = "ITEM"
        BY RowOwn DEF Own
      <4>2. QED
        BY <1>1, <1>2, <1>5, <2>1, <4>1
    <3>2. path'[k] \in {"INFO", "DELETE"} => k - 1 = n /\ n \in 1 .. n
      BY <1>1, <2>1, <3>1
    <3>3. QED
      BY <1>1, <1>2, <1>4, <2>1, <3>1, <3>2
  <2>2. CASE k \in 1 .. n
    <3>1. path'[k] = path[k] /\ k \in 1 .. Len(path)
      BY <1>2, <2>2 DEF n
    <3>2. ASSUME path[k] = "ITEM"  PROVE k = n /\ path'[n + 1] \in {"INFO", "DELETE"}
      <4>1. Here \notin {"INFO", "DELETE"}
        BY RowOwn
      <4>2. k = n
        BY <1>1, <1>4, <2>2, <3>1, <3>2, <4>1 DEF Pages, n
      <4>3. Here = "ITEM"
        BY <1>1, <1>4, <2>2, <3>2, <4>2
      <4>4. QED
        BY <1>2, <4>2, <4>3, RowOwn
    <3>3. ASSUME path[k] \in {"INFO", "DELETE"}  PROVE k > 1 /\ path'[k - 1] = "ITEM"
      <4>1. k > 1 /\ path[k - 1] = "ITEM"
        BY <3>1, <3>3 DEF Pages
      <4>2. k - 1 \in 1 .. n
        BY <1>1, <2>2, <4>1
      <4>3. QED
        BY <1>2, <4>1, <4>2
    <3>4. QED
      BY <3>1, <3>2, <3>3
  <2>3. k = n + 1 \/ k \in 1 .. n
    BY <1>1
  <2>4. QED
    BY <2>1, <2>2, <2>3
<1>7. n + 1 - 1 = n
  BY <1>1
<1>8. QED
  BY <1>2, <1>3, <1>6, <1>7 DEF Pages

\* A page up: from DETAILS or UNINSTALL to the page of the app, or to none of its own.
LEMMA PopPages ==
  ASSUME StackOK, Pages(path), Pop
  PROVE  Pages(path)' /\ (Here' \in Own => Here' = "ITEM" /\ Here \in {"INFO", "DELETE"})
<1>1. CASE path = <<>>
  <2>1. path' = path /\ Here' = Here /\ Here = "ROOT"
    BY <1>1 DEF Pop, Here, Node
  <2>2. QED
    BY <2>1 DEF Own
<1>2. CASE path # <<>>
  <2>1. path' = SubSeq(path, 1, Len(path) - 1) /\ path \in Seq(Nodes)
    BY <1>2 DEF Pop, Front, StackOK
  <2>2. PICK m \in Nat : m = Len(path)
    BY <2>1
  <2>3. m - 1 \in 0 .. Len(path) /\ m - 1 = Len(path) - 1
    BY <1>2, <2>1, <2>2, EmptySeq
  <2>4. path' = SubSeq(path, 1, m - 1)
    BY <2>1, <2>2
  <2>5. /\ Pages(SubSeq(path, 1, m - 1))
        /\ Node(SubSeq(path, 1, m - 1)) \in Own =>
              /\ Node(SubSeq(path, 1, m - 1)) = "ITEM"
              /\ Node(path) \in {"INFO", "DELETE"}
    BY <2>1, <2>3, CutPages
  <2>6. /\ Pages(path')
        /\ Node(path') \in Own => Node(path') = "ITEM" /\ Node(path) \in {"INFO", "DELETE"}
    BY <2>4, <2>5
  <2>7. QED
    BY <2>6 DEF Here
<1>3. QED
  BY <1>1, <1>2

\* Back to INSTALLED, where the pages of the app are left.
LEMMA BackPages ==
  ASSUME StackOK, Pages(path), Uninstalled
  PROVE  Pages(path)' /\ Here' \notin Own
<1> DEFINE pages == {i \in 1..Len(path) : path[i] = "INSTALLED"}
           n == Max({0} \cup pages)
<1>1. Len(path) \in Nat /\ path \in Seq(Nodes)
  BY DEF StackOK
<1>2. n \in {0} \cup pages /\ {0} \cup pages \in SUBSET (0 .. Len(path))
  <2>1. {0} \cup pages \in SUBSET (0 .. Len(path)) /\ {0} \cup pages # {}
    BY <1>1
  <2> HIDE DEF pages
  <2>2. QED
    BY <1>1, <2>1, Greatest
<1>3. n \in 0 .. Len(path) /\ (n > 0 => path[n] = "INSTALLED")
  <2> HIDE DEF n
  <2>1. QED
    BY <1>1, <1>2
<1>4. path' = SubSeq(path, 1, n)
  BY DEF Uninstalled
<1> HIDE DEF n
<1>5. Pages(path')
  BY <1>1, <1>3, <1>4, CutPages
<1>6. Node(path') \notin Own
  <2>1. Len(path') = n /\ path' \in Seq(Nodes) /\ \A i \in 1 .. n : path'[i] = path[i]
    <3>1. \A i \in 1 .. n : path[i] \in Nodes
      BY <1>1, <1>3
    <3>2. QED
      BY <1>1, <1>3, <1>4, <3>1, SubSeqProperties
  <2>2. CASE n = 0
    BY <2>1, <2>2, EmptySeq DEF Node, Own
  <2>3. CASE n > 0
    <3>1. path' # <<>>
      BY <2>1, <2>3, EmptySeq
    <3>2. Node(path') = path'[n]
      BY <2>1, <3>1 DEF Node, Last
    <3>3. path'[n] = "INSTALLED"
      BY <1>1, <1>3, <2>1, <2>3
    <3>4. QED
      BY <3>2, <3>3 DEF Own
  <2>4. QED
    BY <1>1, <1>3, <2>2, <2>3
<1>7. QED
  BY <1>5, <1>6 DEF Here

\* What a step makes of the page on the screen.
Stays == path' = path /\ Here' = Here
Up == Here' \in Own => Here' = "ITEM" /\ Here \in {"INFO", "DELETE"}

\* Only these actions change the page, and so.
LEMMA Moves ==
  ASSUME NamesOK, TableOK, StackOK, Pages(path), [Next]_vars
  PROVE  /\ Pages(path)'
         /\ \/ Stays
            \/ (OpenEnter \/ Uninstalled) /\ Here' \notin Own
            \/ KeyOpen /\ Here' = Row
            \/ (KeyBack \/ KeyUninstall \/ ConfExpired) /\ Up
<1> USE DEF elsewhere, view, core0
<1>1. CASE KeyOpen
  <2>1. Push(Row) /\ Row \in Nodes /\ HasRow
    BY <1>1 DEF KeyOpen
  <2>2. path' = path \/ path' = Append(path, Row)
    BY <2>1 DEF Push
  <2>3. CASE path' = path
    BY <2>3 DEF Stays, Here
  <2>4. CASE path' = Append(path, Row)
    BY <1>1, <2>1, <2>4, PushPages
  <2>5. QED
    BY <2>2, <2>3, <2>4
<1>2. CASE (KeyBack \/ KeyUninstall \/ ConfExpired) /\ Pop
  BY <1>2, PopPages DEF Up
<1>3. CASE Uninstalled
  BY <1>3, BackPages
<1>4. CASE OpenEnter
  <2>1. path' = <<>>
    BY <1>4 DEF OpenEnter
  <2>2. Pages(path') /\ Node(path') \notin Own
    BY <2>1, EmptySeq DEF Pages, Node, Own
  <2>3. QED
    BY <1>4, <2>2 DEF Here
<1>5. CASE UNCHANGED path
  BY <1>5 DEF Stays, Here
<1>6. QED
  <2>1. KeyIgnored \/ KeyEditor \/ KeyExit \/ KeyOpenEditor \/ KeySuspend \/ KeyArrow \/ KeyMove
          => UNCHANGED path
    BY DEF KeyIgnored, KeyEditor, KeyExit, KeyOpenEditor, KeySuspend, KeyArrow, KeyMove
  <2>2. KeyUninstall \/ ConfExpired => Pop \/ UNCHANGED path
    BY DEF KeyUninstall, ConfExpired
  <2>3. Key \/ OpenTake \/ Resume \/ Finished \/ IdleExit \/ Wipe => UNCHANGED path
    BY DEF Key, OpenTake, Resume, Finished, IdleExit, Wipe
  <2>4. \A a \in Apps : Launch(a) \/ Accept(a) => UNCHANGED path
    BY DEF Launch, Accept
  <2>5. Installed \/ Reinit \/ UserLeaves => UNCHANGED path
    BY DEF Installed, Reinit, UserLeaves
  <2>6. Core1 => UNCHANGED path
    BY DEF Core1, FrameMenu, FrameApp, Draw, Close, Tick, TickNothing, TickOpen, TickScreen,
           TickLeave, TickResume, TickHome, TickLaunch
  <2>7. UNCHANGED vars => UNCHANGED path
    BY DEF vars
  <2>8. KeyBack => Pop
    BY DEF KeyBack
  <2>9. QED
    BY <1>1, <1>2, <1>3, <1>4, <1>5, <2>1, <2>2, <2>3, <2>4, <2>5, <2>6, <2>7, <2>8
       DEF Next, KeyAct

\* A menu told to be open is on the screen, not about to be ended, and not suspended; an
\* uninstall is waited for on its page; no menu is suspended on the pages of an app; and a
\* key is looked at when no wipe is due.
HoldInv ==
  /\ life = "open" => shown = "open" /\ pc1 # "close" /\ ~susp
  /\ waiting => Here = "DELETE"
  /\ ~late /\ susp => Here \notin Own
  /\ pc0 = "key" => del = Home \/ base = del

\* On the pages of an app the index stands for the app it was chosen as, and the only
\* app that may still be to wipe is the one in front, which is left first.
SelInv ==
  ~late /\ ~moved /\ life = "open" /\ Here \in Own /\ ~waiting =>
    /\ sel < Len(table) /\ table[sel + 1] = chosen
    /\ del = Home \/ base = del

\* Each part of it for a reason of its own, given where the steps go.
LEMMA HoldStep ==
  ASSUME MenuInv, NamesOK, TableOK, StackOK, Pages(path), HoldInv, [Next]_vars
  PROVE  HoldInv'
<1>1. AskedInv /\ FrameInv
  BY DEF MenuInv
<1>2. life' = "open" => shown' = "open" /\ pc1' # "close" /\ ~susp'
  <2> USE <1>1 DEF HoldInv, AskedInv, Asked, FrameInv, Keyed, Shows, Publish, VisualExit, MenuExit,
        ExitIfActive, elsewhere, view, core0, Ticked
  <2>1. CASE KeyAct
    BY <2>1 DEF KeyAct, KeyIgnored, KeyEditor, KeyBack, KeyExit, KeyMove, KeyOpenEditor, KeyOpen,
                KeySuspend, KeyArrow, KeyUninstall
  <2>2. CASE Key \/ OpenTake \/ OpenEnter \/ Resume \/ Finished \/ IdleExit
    BY <2>2 DEF Key, OpenTake, OpenEnter, Resume, Finished, IdleExit
  <2>3. CASE Uninstalled \/ ConfExpired \/ Wipe \/ Installed \/ Reinit \/ UserLeaves
    BY <2>3 DEF Uninstalled, ConfExpired, Wipe, Installed, Reinit, UserLeaves
  <2>4. ASSUME NEW a \in Apps, Launch(a) \/ Accept(a)
        PROVE  life' = "open" => shown' = "open" /\ pc1' # "close" /\ ~susp'
    BY <2>4 DEF Launch, Accept
  <2>5. CASE Core1
    BY <2>5 DEF Core1, FrameMenu, FrameApp, Draw, Close, Tick, TickNothing, TickOpen, TickScreen,
                TickLeave, TickResume, TickHome, TickLaunch
  <2>6. CASE UNCHANGED vars
    BY <2>6 DEF vars
  <2>7. QED
    BY <2>1, <2>2, <2>3, <2>4, <2>5, <2>6 DEF Next
<1>3. waiting' => Here' = "DELETE"
  <2>1. CASE KeyOpen
    <3>1. waiting' => waiting /\ Here \notin {"INFO", "DELETE"}
      BY <2>1, RowOwn DEF KeyOpen, Push, OnPage, Here
    <3>2. QED
      BY <3>1 DEF HoldInv
  <2>2. CASE KeyBack
    <3>1. waiting' = waiting /\ ~(Here = "DELETE" /\ waiting)
      BY <2>2 DEF KeyBack, Here
    <3>2. QED
      BY <3>1 DEF HoldInv
  <2>3. CASE ConfExpired
    BY <2>3 DEF ConfExpired
  <2>4. CASE KeyUninstall
    <3>1. ~waiting /\ Here = "DELETE" /\ (waiting' => waiting' = waiting \/ UNCHANGED <<path, at>>)
      BY <2>4 DEF KeyUninstall, MenuExit, Here
    <3>2. UNCHANGED <<path, at>> => Here' = Here
      BY DEF Here
    <3>3. QED
      BY <3>1, <3>2
  <2>5. CASE OpenEnter \/ Uninstalled
    BY <2>5 DEF OpenEnter, Uninstalled
  <2>6. CASE Stays /\ ~KeyOpen /\ ~KeyBack /\ ~ConfExpired /\ ~KeyUninstall
    <3>1. waiting' => waiting
      <4> USE DEF Keyed, VisualExit, MenuExit, ExitIfActive, elsewhere, view, remove, core0
      <4>1. CASE KeyAct
        BY <2>6, <4>1 DEF KeyAct, KeyIgnored, KeyEditor, KeyExit, KeyMove, KeyOpenEditor,
                          KeySuspend, KeyArrow
      <4>2. CASE Key \/ OpenTake \/ OpenEnter \/ Resume \/ Finished \/ IdleExit
        BY <4>2 DEF Key, OpenTake, OpenEnter, Resume, Finished, IdleExit
      <4>3. CASE Uninstalled \/ Wipe \/ Installed \/ Reinit \/ UserLeaves
        BY <4>3 DEF Uninstalled, Wipe, Installed, Reinit, UserLeaves
      <4>4. ASSUME NEW a \in Apps, Launch(a) \/ Accept(a)  PROVE waiting' => waiting
        BY <4>4 DEF Launch, Accept
      <4>5. CASE Core1
        BY <4>5 DEF Core1, FrameMenu, FrameApp, Draw, Close, Tick, TickNothing, TickOpen,
                    TickScreen, TickLeave, TickResume, TickHome, TickLaunch
      <4>6. CASE UNCHANGED vars
        BY <4>6 DEF vars
      <4>7. QED
        BY <2>6, <4>1, <4>2, <4>3, <4>4, <4>5, <4>6 DEF Next
    <3>2. QED
      BY <2>6, <3>1 DEF HoldInv, Stays
  <2>7. QED
    BY <2>1, <2>2, <2>3, <2>4, <2>5, <2>6, Moves
<1>4. ~late' /\ susp' => Here' \notin Own
  <2>1. CASE KeySuspend
    <3>1. HasRow /\ Row = "SUSPEND" /\ path' = path
      BY <2>1 DEF KeySuspend
    <3>2. Here \notin Own
      BY <3>1, RowOwn DEF Own
    <3>3. QED
      BY <3>1, <3>2 DEF Here
  <2>2. CASE KeyOpen
    <3>1. susp' = susp /\ (~late' => life = "open")
      BY <2>2 DEF KeyOpen, Keyed
    <3>2. QED
      BY <3>1 DEF HoldInv
  <2>3. CASE ~KeySuspend /\ ~KeyOpen
    <3>1. ~late' /\ susp' => (~late /\ susp) \/ OpenEnter
      <4> USE DEF Keyed, VisualExit, MenuExit, ExitIfActive, elsewhere, view, core0
      <4>1. CASE KeyAct
        BY <2>3, <4>1 DEF KeyAct, KeyIgnored, KeyEditor, KeyBack, KeyExit, KeyMove, KeyOpenEditor,
                          KeyArrow, KeyUninstall
      <4>2. CASE Key \/ OpenTake \/ Resume \/ Finished \/ IdleExit \/ Uninstalled
        BY <4>2 DEF Key, OpenTake, Resume, Finished, IdleExit, Uninstalled
      <4>3. CASE ConfExpired \/ Wipe \/ Installed \/ Reinit \/ UserLeaves
        BY <4>3 DEF ConfExpired, Wipe, Installed, Reinit, UserLeaves
      <4>4. ASSUME NEW a \in Apps, Launch(a) \/ Accept(a)  PROVE ~late' /\ susp' => ~late /\ susp
        BY <4>4 DEF Launch, Accept
      <4>5. CASE Core1
        BY <4>5 DEF Core1, FrameMenu, FrameApp, Draw, Close, Tick, TickNothing, TickOpen,
                    TickScreen, TickLeave, TickResume, TickHome, TickLaunch
      <4>6. CASE UNCHANGED vars
        BY <4>6 DEF vars
      <4>7. QED
        BY <2>3, <4>1, <4>2, <4>3, <4>4, <4>5, <4>6 DEF Next
    <3>2. Here' \in Own => Here \in Own
      BY <2>3, Moves DEF Up, Stays, Own
    <3>3. OpenEnter => ~susp'
      BY DEF OpenEnter
    <3>4. QED
      BY <3>1, <3>2, <3>3 DEF HoldInv
  <2>4. QED
    BY <2>1, <2>2, <2>3
<1>5. pc0' = "key" => del' = Home \/ base' = del'
  <2> USE <1>1 DEF HoldInv, FrameInv, Keyed, elsewhere, view, core0, flash, launch, Ticked
  <2>1. CASE KeyAct
    BY <2>1 DEF KeyAct, KeyIgnored, KeyEditor, KeyBack, KeyExit, KeyMove, KeyOpenEditor, KeyOpen,
                KeySuspend, KeyArrow, KeyUninstall
  <2>2. CASE Key
    BY <2>2 DEF Key, WipeDue
  <2>3. CASE OpenTake \/ OpenEnter \/ Resume \/ Finished \/ IdleExit \/ Uninstalled
    BY <2>3 DEF OpenTake, OpenEnter, Resume, Finished, IdleExit, Uninstalled
  <2>4. CASE ConfExpired \/ Wipe \/ Installed \/ Reinit \/ UserLeaves
    BY <2>4 DEF ConfExpired, Wipe, Installed, Reinit, UserLeaves
  <2>5. ASSUME NEW a \in Apps, Launch(a) \/ Accept(a)
        PROVE  pc0' = "key" => del' = Home \/ base' = del'
    BY <2>5 DEF Launch, Accept
  <2>6. CASE Core1
    BY <2>6 DEF Core1, FrameMenu, FrameApp, Draw, Close, Tick, TickNothing, TickOpen, TickScreen,
                TickLeave, TickResume, TickHome, TickLaunch
  <2>7. CASE UNCHANGED vars
    BY <2>7 DEF vars
  <2>8. QED
    BY <2>1, <2>2, <2>3, <2>4, <2>5, <2>6, <2>7 DEF Next
<1>6. QED
  BY <1>2, <1>3, <1>4, <1>5 DEF HoldInv

\* Nothing that SelInv is about is touched.
Kept == UNCHANGED <<sel, chosen, moved, table, del, base>>

\* A key that opens a row chooses; on the pages of an app nothing that counts is changed,
\* and what might change it closes the menu or needs the launcher.
LEMMA SelStep ==
  ASSUME MenuInv, NamesOK, TableOK, StackOK, Pages(path), HoldInv, SelInv, [Next]_vars
  PROVE  SelInv'
<1>1. AskedInv /\ FrameInv /\ TreeInv
  BY DEF MenuInv
<1>2. CASE KeyAct
  <2>1. ~late' => ~late /\ life = "open" /\ pc0 = "key"
    BY <1>2 DEF KeyAct, KeyIgnored, KeyEditor, KeyBack, KeyExit, KeyMove, KeyOpenEditor, KeyOpen,
                KeySuspend, KeyArrow, KeyUninstall, Keyed
  <2>2. CASE KeyIgnored \/ KeyEditor \/ KeyMove \/ KeyOpenEditor \/ KeyArrow
    <3>1. Kept /\ waiting' = waiting /\ path' = path
      BY <2>2 DEF KeyIgnored, KeyEditor, KeyMove, KeyOpenEditor, KeyArrow, elsewhere, view, remove,
                  launch, Kept
    <3>2. QED
      BY <2>1, <3>1 DEF SelInv, Kept, Here
  <2>3. CASE KeyBack
    <3>1. Kept /\ waiting' = waiting
      BY <2>3 DEF KeyBack, elsewhere, launch, Kept
    <3>2. Here' \in Own => Here \in Own
      BY <2>3, PopPages DEF KeyBack, Own
    <3>3. QED
      BY <2>1, <3>1, <3>2 DEF SelInv, Kept
  <2>4. CASE KeyExit \/ KeySuspend
    BY <2>4 DEF KeyExit, KeySuspend, MenuExit, VisualExit, Publish, SelInv
  <2>5. CASE KeyOpen
    <3>1. HasRow /\ Row \in Nodes /\ del' = del /\ base' = base
      BY <2>5 DEF KeyOpen, launch
    <3>2. ~late' => del = Home \/ base = del
      BY <2>1 DEF HoldInv
    <3>3. CASE Here = "INSTALLED"
      <4>1. Focus + 1 \in 1 .. Len(table) /\ Row = "ITEM"
        BY <3>1, <3>3, RowOpens DEF Here
      <4>2. sel' = Focus /\ chosen' = table[Focus + 1] /\ table' = table
        BY <2>5, <3>3, <4>1 DEF KeyOpen, Here
      <4>3. Focus \in Nat /\ Len(table) \in Nat
        BY AtIs DEF TableOK
      <4>4. sel' < Len(table') /\ table'[sel' + 1] = chosen'
        BY <4>1, <4>2, <4>3
      <4>5. QED
        BY <3>1, <3>2, <4>4 DEF SelInv
    <3>4. CASE Here # "INSTALLED"
      <4>1. Here' \in Own => Here = "ITEM" \/ Stays
        BY <2>5, <3>1, <3>4, RowOwn, Moves
           DEF Stays, Own, KeyOpen, KeyBack, KeyUninstall, ConfExpired, OpenEnter, Uninstalled,
               Up, Keyed
      <4>2. Row # "INSTALLED" => table' = table
        BY <2>5 DEF KeyOpen
      <4>3. Here \in Own => Row # "INSTALLED"
        BY <3>1, RowOwn DEF Own
      <4>4. sel' = sel /\ chosen' = chosen /\ moved' = moved
        BY <2>5, <3>4 DEF KeyOpen, Here
      <4>5. Here \in Own => ~waiting
        BY <3>1, RowOwn DEF HoldInv
      <4>6. QED
        BY <2>1, <3>1, <4>1, <4>2, <4>3, <4>4, <4>5 DEF SelInv, Stays, Own
    <3>5. QED
      BY <3>3, <3>4
  <2>6. CASE KeyUninstall
    <3>1. Here = "DELETE" /\ ~waiting /\ sel' = sel /\ chosen' = chosen /\ moved' = moved
            /\ table' = table /\ base' = base
      BY <2>6 DEF KeyUninstall, Here
    <3>2. CASE sel < Len(table) /\ del = Home
      BY <2>6, <3>2 DEF KeyUninstall, MenuExit, VisualExit, Publish, SelInv
    <3>3. CASE ~(sel < Len(table) /\ del = Home)
      <4>1. del' = del
        BY <2>6, <3>3 DEF KeyUninstall
      <4>2. QED
        BY <2>1, <3>1, <4>1 DEF SelInv, Own
    <3>4. QED
      BY <3>2, <3>3
  <2>7. QED
    BY <1>2, <2>2, <2>3, <2>4, <2>5, <2>6 DEF KeyAct
<1>3. CASE Key \/ OpenTake \/ Finished \/ IdleExit
  <2>1. Kept /\ path' = path /\ late' = late
    BY <1>3 DEF Key, OpenTake, Finished, IdleExit, elsewhere, view, remove, flash, launch, Kept
  <2>2. life' = "open" => life = "open" /\ waiting' = waiting
    BY <1>3 DEF Key, OpenTake, Finished, IdleExit, view, remove, MenuExit, VisualExit, Publish
  <2>3. QED
    BY <2>1, <2>2 DEF SelInv, Kept, Here
<1>4. CASE OpenEnter \/ Uninstalled
  <2>1. Here' \notin Own
    BY <1>4, BackPages DEF OpenEnter, Here, Node, Own
  <2>2. QED
    BY <2>1 DEF SelInv
<1>5. CASE Resume
  <2>1. ~late' => ~late /\ susp /\ path' = path
    BY <1>1, <1>5 DEF Resume, AskedInv
  <2>2. QED
    BY <2>1 DEF HoldInv, SelInv, Here
<1>6. CASE ConfExpired
  <2>1. Kept /\ waiting' = waiting /\ late' = late /\ life' = life
    BY <1>6 DEF ConfExpired, flash, launch, Kept, Shows
  <2>2. Here' \in Own => Here \in Own
    BY <1>6 DEF ConfExpired, Here, Own
  <2>3. QED
    BY <2>1, <2>2 DEF SelInv, Kept
<1>7. CASE Wipe
  <2>1. UNCHANGED <<sel, chosen, moved, waiting, late, life, path>>
          /\ del # Home /\ (cur = Home \/ base # del)
    BY <1>7 DEF Wipe, remove, view, WipeDue
  <2>2. ~late /\ life = "open" => cur # Home
    BY <1>1 DEF HoldInv, TreeInv
  <2>3. QED
    BY <2>1, <2>2 DEF SelInv, Here
<1>8. ASSUME NEW a \in Apps, Launch(a) \/ Accept(a)  PROVE SelInv'
  <2>1. life' # "open"
    BY <1>8 DEF Launch, Accept, ExitIfActive, MenuExit, VisualExit, Publish, HoldInv
  <2>2. QED
    BY <2>1 DEF SelInv
<1>9. CASE Installed
  <2>1. life' = life /\ moved' = (moved \/ life = "open")
    BY <1>9 DEF Installed, view
  <2>2. ~moved' => life' # "open"
    BY <2>1, Zenon
  <2>3. QED
    BY <2>2 DEF SelInv
<1>10. CASE Core1 \/ Reinit \/ UserLeaves
  <2>1. UNCHANGED <<sel, chosen, moved, table, del, waiting, late, life, path>>
    BY <1>10 DEF Reinit, UserLeaves, Core1, FrameMenu, FrameApp, Draw, Close, Tick, TickNothing,
         TickOpen, TickScreen, TickLeave, TickResume, TickHome, TickLaunch, core0, view, remove,
         flash
  <2>2. life = "open" => base' = base
    BY <1>1, <1>10 DEF Reinit, UserLeaves, Core1, FrameMenu, FrameApp, Draw, Close, Tick,
         TickNothing, TickOpen, TickScreen, TickLeave, TickResume, TickHome, TickLaunch, launch,
         Ticked, FrameInv, HoldInv
  <2>3. QED
    BY <2>1, <2>2 DEF SelInv, Here
<1>11. CASE UNCHANGED vars
  BY <1>11 DEF vars, SelInv, Here, view, remove, flash, launch
<1>12. QED
  BY <1>2, <1>3, <1>4, <1>5, <1>6, <1>7, <1>8, <1>9, <1>10, <1>11 DEF Next

\* All of it, which is inductive.
ChoiceInv == Shape /\ MenuInv /\ Pages(path) /\ HoldInv /\ SelInv

\* What an uninstall wipes is the app whose row the user opened, although the row is kept
\* as an index into a table that other parts of the firmware rebuild (menu.c, menu_model.c).
THEOREM WipesTheChosen == Spec => ChosenIsWiped
<1>1. Init => ChoiceInv
  <2>1. Init => MenuInv
    BY MenuStarts
  <2>2. Init => Shape
    BY ShapeStarts
  <2>3. Init => Pages(path) /\ HoldInv /\ SelInv
    BY EmptySeq DEF Init, Pages, HoldInv, SelInv, Here, Node, Own
  <2>4. QED
    BY <2>1, <2>2, <2>3 DEF ChoiceInv
<1>2. ChoiceInv /\ [Next]_vars => ChoiceInv'
  <2> SUFFICES ASSUME ChoiceInv, [Next]_vars PROVE ChoiceInv'
    OBVIOUS
  <2>1. Shape' /\ MenuInv'
    BY ShapeStep, MenuStep DEF ChoiceInv
  <2>2. Pages(path)' /\ HoldInv' /\ SelInv'
    BY Moves, HoldStep, SelStep DEF ChoiceInv, Shape
  <2>3. QED
    BY <2>1, <2>2 DEF ChoiceInv
<1>3. ChoiceInv /\ [Next]_vars => [~late' /\ ~moved' /\ del' # del /\ del' # Home => del' = chosen]_vars
  <2>1. SUFFICES ASSUME ChoiceInv, Next, ~late', ~moved', del' # del, del' # Home  PROVE del' = chosen
    OBVIOUS
  <2>2. CASE KeyUninstall
    <3>1. ~late /\ ~moved /\ life = "open"
      BY <2>1, <2>2 DEF KeyUninstall, Keyed
    <3>2. Here = "DELETE" /\ ~waiting /\ del' = table[sel + 1]
      BY <2>1, <2>2 DEF KeyUninstall, Here
    <3>3. QED
      BY <3>1, <3>2, <2>1 DEF ChoiceInv, SelInv, Own
  <2>3. CASE Wipe
    BY <2>1, <2>3 DEF Wipe
  <2>4. KeyUninstall \/ Wipe
    <3> USE DEF elsewhere, view, flash, core0, remove
    <3>1. KeyAct => KeyUninstall \/ del' = del
      BY DEF KeyAct, KeyIgnored, KeyEditor, KeyBack, KeyExit, KeyMove, KeyOpenEditor, KeyOpen,
             KeySuspend, KeyArrow
    <3>2. Key \/ OpenTake \/ OpenEnter \/ Resume \/ Finished \/ IdleExit \/ Uninstalled
          \/ ConfExpired => del' = del
      BY DEF Key, OpenTake, OpenEnter, Resume, Finished, IdleExit, Uninstalled, ConfExpired
    <3>3. Installed \/ Reinit \/ UserLeaves => del' = del
      BY DEF Installed, Reinit, UserLeaves
    <3>4. \A a \in Apps : Launch(a) \/ Accept(a) => del' = del
      BY DEF Launch, Accept
    <3>5. Core1 => del' = del
      BY DEF Core1, FrameMenu, FrameApp, Draw, Close, Tick, TickNothing, TickOpen, TickScreen,
             TickLeave, TickResume, TickHome, TickLaunch
    <3>6. QED
      BY <2>1, <3>1, <3>2, <3>3, <3>4, <3>5 DEF Next
  <2>5. QED
    BY <2>2, <2>3, <2>4
<1>4. QED
  BY <1>1, <1>2, <1>3, PTL DEF Spec, ChosenIsWiped
===============================================================================
