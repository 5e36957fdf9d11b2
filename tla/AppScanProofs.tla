----------------------------- MODULE AppScanProofs -----------------------------
(***************************************************************************)
(* Proofs about AppScan, for any number of slots and any counts the        *)
(* headers give.  However the two cores' scans interleave, no index leaves *)
(* the table; a LAUNCH by name, with core 1 not at the table, starts the   *)
(* app of that name; and where no scan ran beside another the table lists  *)
(* the apps in flash, STORAGE shows what they take, and the launcher keeps *)
(* its focus on its app.                                                   *)
(***************************************************************************)
EXTENDS AppScan, WellFoundedInduction, TLAPS

\* A set of slots or of entries has a first one, which a search finds.
LEMMA Least ==
  ASSUME NEW S \in SUBSET Nat, S # {}
  PROVE  LET m == CHOOSE x \in S : \A y \in S : x <= y
         IN  m \in S /\ \A y \in S : m <= y
<1> DEFINE Below == {p \in Nat \X Nat : p[1] < p[2]}
<1>1. IsWellFoundedOn(Below, Nat)
  BY NatLessThanWellFounded DEF OpToRel
<1>2. PICK m \in S : \A t \in S : ~(<<t, m>> \in Below)
  <2> HIDE DEF Below
  <2> QED
    BY <1>1, WFMin
<1>3. \A t \in S : m <= t
  <2> SUFFICES ASSUME NEW t \in S PROVE m <= t
    OBVIOUS
  <2>1. t \in Nat /\ m \in Nat
    OBVIOUS
  <2>2. ~(t < m)
    BY <1>2, <2>1
  <2> QED
    BY <2>1, <2>2
<1>4. \E x \in S : \A y \in S : x <= y
  BY <1>3
<1> QED
  BY <1>4

\* Filling an entry changes that entry alone.
LEMMA Filled ==
  ASSUME entry \in [Slots -> Entries], header \in [Slots -> Headers \cup {Blank}],
         NEW c \in Cores, NEW a \in Slots, NEW s \in Slots, a = idx[c], s = pos[c],
         Name(c) \/ Base(c)
  PROVE  /\ entry' \in [Slots -> Entries]
         /\ \A b \in Slots : b # a => entry'[b] = entry[b]
         /\ Name(c) => entry'[a].name = s /\ entry'[a].base = entry[a].base
         /\ Base(c) => entry'[a].name = entry[a].name /\ entry'[a].base = s
<1> DEFINE e == entry[a]
<1>1. e \in Entries /\ e.name \in Slots \cup {None} /\ e.base \in Slots \cup {None}
        /\ e.span \in Counts \cup {0}
  BY DEF Entries
<1>2. CASE Name(c)
  <2>1. entry' = [entry EXCEPT ![a] = [e EXCEPT !.name = s]]
    BY <1>2 DEF Name
  <2>2. [e EXCEPT !.name = s] \in Entries
    BY <1>1 DEF Entries
  <2>3. QED
    BY <1>2, <2>1, <2>2, <1>1 DEF Entries, Base, Name
<1>3. CASE Base(c)
  <2>1. header[s].count \in Counts \cup {0}
    BY DEF Headers, Blank
  <2>2. entry' = [entry EXCEPT ![a] = [e EXCEPT !.base = s, !.span = header[s].count]]
    BY <1>3 DEF Base
  <2>3. QED
    BY <1>1, <1>3, <2>1, <2>2 DEF Entries, Name, Base
<1>4. QED
  BY <1>2, <1>3

\* TypeOK in two parts, for the provers, with what makes it inductive: while a core
\* fills an entry, it knows the entry and the slot; an upload has its slot.
Flags ==
  /\ again \in BOOLEAN /\ held \in BOOLEAN /\ erasing \in BOOLEAN /\ mixed \in BOOLEAN
  /\ dirty \in BOOLEAN /\ disturbed \in BOOLEAN /\ wrong \in BOOLEAN

Filling(c) == scan[c] \in {"store", "name", "base"}

Tables ==
  /\ header \in [Slots -> Headers \cup {Blank}]
  /\ count \in 0..N /\ entry \in [Slots -> Entries]
  /\ scan \in [Cores -> {"no", "load", "store", "name", "base"}]
  /\ pos \in [Cores -> 1 .. N + 1] /\ idx \in [Cores -> 0..N]
  /\ \A c \in Cores : Filling(c) => idx[c] \in Slots /\ pos[c] \in Slots

Places ==
  /\ del \in Slots \cup {None} /\ target \in Slots \cup {None} /\ asked \in Slots \cup {None}
  /\ want \in Slots \cup {None} /\ front \in Slots \cup {None} /\ focus \in Slots \cup {None}
  /\ upload \in {"no", "yes", "done"} /\ (upload = "yes" => target \in Slots)
  /\ at0 \in {"idle", "list", "listing", "launch"}
  /\ at1 \in {"frame", "enter", "rescan", "tick", "input"} /\ n \in 0..N /\ sel \in 0..N

\* A scan that begins leaves the table empty, and everything in its range.
LEMMA BeginTables == ASSUME Tables, NEW c \in Cores, Begin(c) PROVE Tables'
  BY SlotsAssumption DEF Tables, Filling, Begin

\* The table's bounds hold through every step of either core's scan.
LEMMA ScanTables == ASSUME Tables, NEW c \in Cores, Scan(c) PROVE Tables'
<1> USE SlotsAssumption DEF Tables, Filling, besides, table, flash
<1>1. CASE Load(c)
  <2> DEFINE next == {s \in Installed : s >= pos[c]}
             m == CHOOSE s \in next : \A t \in next : s <= t
  <2>1. CASE next = {} \/ count >= N
    BY <1>1, <2>1 DEF Load
  <2>2. CASE ~(next = {} \/ count >= N)
    <3>1. next \in SUBSET Nat /\ next \subseteq Slots
      BY DEF Installed, Slots
    <3>2. m \in Slots
      <4> HIDE DEF next
      <4> QED
        BY <2>2, <3>1, Least
    <3>3. count + 1 \in Slots /\ Slots \subseteq 1 .. N + 1
      BY <2>2 DEF Slots
    <3>4. /\ scan' = [scan EXCEPT ![c] = "store"] /\ pos' = [pos EXCEPT ![c] = m]
          /\ idx' = [idx EXCEPT ![c] = count + 1] /\ UNCHANGED <<header, count, entry>>
      BY <1>1, <2>2 DEF Load
    <3>5. m \in 1 .. N + 1 /\ count + 1 \in 0..N
      BY <3>2, <3>3 DEF Slots
    <3>6. QED
      <4> HIDE DEF m
      <4> QED
        BY <3>2, <3>3, <3>4, <3>5
  <2>3. QED
    BY <2>1, <2>2
<1>2. CASE Store(c)
  BY <1>2 DEF Store, Slots
<1>3. CASE Name(c) \/ Base(c)
  <2>1. idx[c] \in Slots /\ pos[c] \in Slots
    BY <1>3 DEF Name, Base
  <2>2. entry' \in [Slots -> Entries]
    BY <1>3, <2>1, Filled
  <2>3. CASE Name(c)
    BY <2>1, <2>2, <2>3 DEF Name
  <2>4. CASE Base(c)
    <3>1. pos[c] + 1 \in 1 .. N + 1
      BY <2>1 DEF Slots
    <3>2. QED
      BY <2>1, <2>2, <2>4, <3>1 DEF Base
  <2>5. QED
    BY <1>3, <2>3, <2>4
<1>4. QED
  BY <1>1, <1>2, <1>3 DEF Scan

\* So do they through every other step.
LEMMA TablesStep == ASSUME Tables, Places, [Next]_vars PROVE Tables'
<1> USE SlotsAssumption DEF table, flash, scans, history
<1>1. ASSUME NEW c \in Cores, Scan(c)  PROVE Tables'
  BY <1>1, ScanTables
<1>2. CASE List \/ \E s \in Slots : LaunchScan(s)
  BY <1>2, BeginTables DEF List, LaunchScan, Cores
<1>3. CASE Enter \/ Reclaimed
  <2>1. Begin(1) \/ UNCHANGED <<flash, table, scans>>
    BY <1>3 DEF Enter, Reclaimed
  <2>2. QED
    BY <2>1, BeginTables DEF Cores, Tables, Filling
<1>4. CASE Wipe
  BY <1>4 DEF Wipe, Tables, Filling
<1>5. ASSUME NEW s \in Slots, NEW c \in Counts, UploadStart(s, c)  PROVE Tables'
  <2>1. [count |-> c, is |-> "bad"] \in Headers
    BY DEF Headers
  <2>2. QED
    BY <1>5, <2>1 DEF UploadStart, Tables, Filling
<1>6. CASE UploadEnd
  <2>1. header' \in [Slots -> Headers \cup {Blank}]
    <3>1. CASE header[target] = Blank
      BY <1>6, <3>1 DEF UploadEnd, Tables
    <3>2. CASE header[target] # Blank
      <4>1. header[target] \in Headers /\ target \in Slots
        BY <1>6, <3>2 DEF UploadEnd, Tables, Places
      <4>2. [header[target] EXCEPT !.is = "good"] \in Headers
        BY <4>1 DEF Headers
      <4>3. header' = [header EXCEPT ![target] = [header[target] EXCEPT !.is = "good"]]
        BY <1>6, <3>2 DEF UploadEnd
      <4>4. QED
        BY <4>1, <4>2, <4>3 DEF Tables
    <3>3. QED
      BY <3>1, <3>2
  <2>2. QED
    BY <1>6, <2>1 DEF UploadEnd, Tables, Filling
<1>7. CASE \/ ListEnd \/ UploadGone \/ LaunchFound \/ Menu \/ MenuScan \/ Uninstall
           \/ \E s \in Slots : Launch(s) \/ Reclaim(s)
  BY <1>7 DEF ListEnd, UploadGone, LaunchFound, Menu, MenuScan, Uninstall, Launch, Reclaim,
     Tables, Filling
<1>8. CASE Entered \/ Tick \/ Arrow \/ EnterKey \/ Draw \/ Home \/ Rescanned
  BY <1>8 DEF Entered, Tick, Arrow, EnterKey, Draw, Home, Rescanned, Tables, Filling
<1>9. CASE UNCHANGED vars
  BY <1>9 DEF vars, Tables, Filling
<1>10. QED
  BY <1>1, <1>2, <1>3, <1>4, <1>5, <1>6, <1>7, <1>8, <1>9 DEF Next

\* The other variables stay in their ranges as well ...
LEMMA PlacesStep == ASSUME Tables, Places, [Next]_vars PROVE Places'
<1> USE SlotsAssumption DEF Places, session, request, launcher, besides, None
<1>1. ASSUME NEW c \in Cores, Scan(c)  PROVE Places'
  BY <1>1 DEF Scan, Load, Store, Name, Base
<1>2. ASSUME NEW a \in 1..count
      PROVE  a \in Slots /\ entry[a].base \in Slots \cup {None}
  BY DEF Tables, Entries, Slots
<1>3. ASSUME NEW s, Found(s) # {}, Start(s)  PROVE want' \in Slots \cup {None}
  <2> DEFINE a == CHOOSE b \in Found(s) : \A d \in Found(s) : b <= d
  <2>1. a \in Found(s)
    <3>1. Found(s) \in SUBSET Nat
      BY DEF Found, Tables
    <3>2. QED
      BY <1>3, <3>1, Least
  <2>2. a \in 1..count
    BY <2>1 DEF Found
  <2>3. want' = entry[a].base
    BY <1>3 DEF Start
  <2>4. QED
    BY <2>2, <2>3, <1>2
<1>4. CASE Wipe \/ List \/ ListEnd \/ Menu \/ MenuScan \/ Home \/ Tick \/ Rescanned
  BY <1>4 DEF Wipe, List, ListEnd, Menu, MenuScan, Home, Tick, Rescanned, Tables
<1>5. CASE Enter \/ Reclaimed
  BY <1>5 DEF Enter, Reclaimed
<1>6. CASE UploadEnd \/ UploadGone \/ \E s \in Slots, c \in Counts : UploadStart(s, c)
  BY <1>6 DEF UploadEnd, UploadGone, UploadStart
<1>7. ASSUME NEW s \in Slots, Launch(s)  PROVE Places'
  BY <1>3, <1>7 DEF Launch
<1>8. CASE LaunchFound
  <2>1. CASE Found(asked) # {}
    BY <1>3, <1>8, <2>1 DEF LaunchFound
  <2>2. CASE Found(asked) = {}
    BY <1>8, <2>2 DEF LaunchFound
  <2>3. QED
    BY <2>1, <2>2
<1>9. CASE \E s \in Slots : LaunchScan(s) \/ Reclaim(s)
  BY <1>9 DEF LaunchScan, Reclaim
<1>10. CASE Uninstall
  BY <1>2, <1>10 DEF Uninstall
<1>11. CASE Entered
  <2> DEFINE there == {a \in 1..count : entry[a].base = focus}
             a == CHOOSE x \in there : \A y \in there : x <= y
  <2>1. CASE focus # None /\ there # {}
    <3>1. a \in 1..N
      <4>1. a \in there
        <5>1. there \in SUBSET Nat
          BY DEF Tables
        <5>2. QED
          <6> HIDE DEF there
          <6> QED
            BY <2>1, <5>1, Least
      <4>2. QED
        BY <4>1 DEF Tables
    <3>2. sel' = a - 1 /\ UNCHANGED focus
      BY <1>11, <2>1 DEF Entered
    <3>3. QED
      BY <1>11, <3>1, <3>2 DEF Entered
  <2>2. CASE ~(focus # None /\ there # {})
    BY <1>11, <2>2 DEF Entered
  <2>3. QED
    BY <2>1, <2>2
<1>12. CASE Arrow
  BY <1>12 DEF Arrow
<1>13. CASE EnterKey
  BY <1>2, <1>13 DEF EnterKey, Listed
<1>14. CASE Draw
  BY <1>2, <1>14 DEF Draw, Listed
<1>15. CASE UNCHANGED vars
  BY <1>15 DEF vars
<1>16. QED
  BY <1>1, <1>4, <1>5, <1>6, <1>7, <1>8, <1>9, <1>10, <1>11, <1>12, <1>13, <1>14, <1>15
     DEF Next

\* ... and the flags are flags.
LEMMA FlagsStep == ASSUME Flags, [Next]_vars PROVE Flags'
<1> USE DEF Flags, history, scans, flash, session, request, besides
<1>1. ASSUME NEW c \in Cores, Scan(c)  PROVE Flags'
  BY <1>1, Zenon DEF Scan, Load, Store, Name, Base
<1>2. ASSUME NEW c \in Cores, Begin(c)
      PROVE  mixed' \in BOOLEAN /\ dirty' \in BOOLEAN /\ disturbed' \in BOOLEAN
  BY <1>2, Zenon DEF Begin
<1>3. ASSUME NEW s, Start(s)
      PROVE  again' \in BOOLEAN /\ held' \in BOOLEAN /\ wrong' \in BOOLEAN
  BY <1>3, Zenon DEF Start
<1>4. CASE List \/ \E s \in Slots : LaunchScan(s)
  BY <1>2, <1>4, Zenon DEF List, LaunchScan, Cores
<1>5. CASE Enter \/ Reclaimed
  BY <1>2, <1>5, Zenon DEF Enter, Reclaimed, Cores
<1>6. CASE LaunchFound \/ \E s \in Slots : Launch(s)
  BY <1>3, <1>6, Zenon DEF LaunchFound, Launch
<1>7. CASE Wipe \/ UploadEnd \/ UploadGone \/ \E s \in Slots, c \in Counts : UploadStart(s, c)
  <2>1. ASSUME NEW s, NEW c, UploadStart(s, c)  PROVE Flags'
    BY <2>1, Zenon DEF UploadStart
  <2>2. CASE Wipe \/ UploadEnd
    BY <2>2, Zenon DEF Wipe, UploadEnd
  <2>3. CASE UploadGone
    BY <2>3, Zenon DEF UploadGone
  <2>4. QED
    BY <1>7, <2>1, <2>2, <2>3
<1>8. CASE ListEnd \/ MenuScan \/ Uninstall \/ (\E s \in Slots : Reclaim(s)) \/ Home
  BY <1>8, Zenon DEF ListEnd, MenuScan, Uninstall, Reclaim, Home
<1>9. CASE Entered \/ Tick \/ Arrow \/ EnterKey \/ Draw \/ Rescanned
  BY <1>9, Zenon DEF Entered, Tick, Arrow, EnterKey, Draw, Rescanned
<1>10. CASE Menu
  BY <1>10 DEF Menu
<1>11. CASE UNCHANGED vars
  BY <1>11 DEF vars
<1>12. QED
  BY <1>1, <1>4, <1>5, <1>6, <1>7, <1>8, <1>9, <1>10, <1>11 DEF Next

\* All of it holds at the start.
LEMMA AtStart == Init => Tables /\ Places /\ Flags
<1> SUFFICES ASSUME Init PROVE Tables /\ Places /\ Flags
  OBVIOUS
<1> USE SlotsAssumption DEF Init, Slots
<1>1. [name |-> None, base |-> None, span |-> 0] \in Entries
  BY DEF Entries
<1>2. Tables
  BY <1>1 DEF Tables, Filling
<1>3. Places
  BY DEF Places
<1>4. Flags
  BY DEF Flags
<1>5. QED
  BY <1>2, <1>3, <1>4

\* No index leaves the table, for any number of slots, though either core may scan
\* while the other does (app_scan.c has no lock): every store goes to an entry the
\* core has checked against the bound, and every count it stores is such an index.
THEOREM TypeCorrect == Spec => []TypeOK
<1>1. Tables /\ Places /\ Flags => TypeOK
  BY DEF Tables, Places, Flags, TypeOK
<1>2. QED
  BY <1>1, AtStart, TablesStep, PlacesStep, FlagsStep, PTL DEF Spec

(***************************************************************************)
(* A LAUNCH by name.                                                       *)
(***************************************************************************)

\* A scan is only ever begun by a core that is not scanning.
Turns ==
  /\ at0 \in {"idle", "list"} => scan[0] = "no"
  /\ at1 \in {"frame", "tick", "input"} => scan[1] = "no"

\* Unless it runs beside another, a scan leaves no entry with one app's name and
\* another's slot behind: only the last one, while it is being filled.
Entire ==
  ~mixed =>
    /\ \E c \in Cores : scan[c] = "no"
    /\ \A a \in 1..count :
         \/ entry[a].name = entry[a].base
         \/ \E c \in Cores : scan[c] \in {"name", "base"} /\ idx[c] = a
    /\ \A c \in Cores : /\ scan[c] = "store" => idx[c] = count + 1
                        /\ scan[c] = "base" => entry[idx[c]].name = pos[c]

NamedInv == Turns /\ Entire /\ LaunchesNamed

\* A scan that begins has no entry to leave torn.
LEMMA BeginEntire ==
  ASSUME Tables, NEW c \in Cores, scan[c] = "no", Begin(c)
  PROVE  Entire'
<1>1. CASE scan[1 - c] = "no"
  BY <1>1 DEF Begin, Entire, Cores, Tables
<1>2. CASE scan[1 - c] # "no"
  BY <1>2 DEF Begin, Entire
<1>3. QED
  BY <1>1, <1>2

\* The steps of a scan keep every entry but the one in hand whole.
LEMMA ScanEntire ==
  ASSUME Tables, Entire, NEW c \in Cores, Scan(c)
  PROVE  Entire'
<1> SUFFICES ASSUME ~mixed PROVE Entire'
  BY DEF Entire, Scan, Load, Store, Name, Base, besides, history
<1> USE SlotsAssumption DEF besides, history, table, flash, Tables
<1>1. \A d \in Cores : d # c => scan[d] = "no"
  <2>1. scan[c] # "no"
    BY DEF Scan, Load, Store, Name, Base
  <2>2. QED
    BY <2>1 DEF Entire, Cores
<1>2. CASE Load(c)
  BY <1>1, <1>2 DEF Load, Entire
<1>3. CASE Store(c)
  <2>1. idx[c] = count + 1
    BY <1>3 DEF Store, Entire
  <2>2. \A a \in 1..count' : a \in 1..count \/ a = idx[c]
    BY <1>3, <2>1 DEF Store
  <2>3. QED
    BY <1>1, <1>3, <2>2 DEF Store, Entire
<1>4. CASE Name(c) \/ Base(c)
  <2>1. idx[c] \in Slots /\ pos[c] \in Slots
    BY <1>4 DEF Name, Base, Filling
  <2>2. \A b \in Slots : b # idx[c] => entry'[b] = entry[b]
    BY <1>4, <2>1, Filled
  <2>3. Name(c) => entry'[idx[c]].name = pos[c]
    BY <2>1, Filled
  <2>4. Base(c) => entry'[idx[c]].name = entry[idx[c]].name /\ entry'[idx[c]].base = pos[c]
    BY <2>1, Filled
  <2>5. CASE Name(c)
    BY <1>1, <2>1, <2>2, <2>3, <2>5 DEF Name, Entire, Slots
  <2>6. CASE Base(c)
    <3>1. /\ count' = count /\ scan' = [scan EXCEPT ![c] = "load"]
          /\ \A d \in Cores : d # c => idx'[d] = idx[d] /\ pos'[d] = pos[d]
      BY <2>6 DEF Base
    <3>2. ASSUME NEW a \in 1..count  PROVE entry'[a].name = entry'[a].base
      <4>1. CASE a = idx[c]
        BY <2>4, <2>6, <4>1 DEF Base, Entire
      <4>2. CASE a # idx[c]
        BY <1>1, <2>2, <4>2 DEF Entire, Slots
      <4>3. QED
        BY <4>1, <4>2
    <3>3. QED
      BY <1>1, <3>1, <3>2 DEF Entire, Cores
  <2>7. QED
    BY <1>4, <2>5, <2>6
<1>5. QED
  BY <1>2, <1>3, <1>4 DEF Scan

\* Every other step leaves the table alone, and takes a turn or none.
LEMMA NamedStep == ASSUME Tables, NamedInv, [Next]_vars PROVE NamedInv'
<1> USE DEF NamedInv, history, scans, table, flash, Cores
<1>1. ASSUME NEW c \in Cores, Scan(c)  PROVE NamedInv'
  <2>1. Entire'
    BY <1>1, ScanEntire
  <2>2. Turns' /\ LaunchesNamed'
    BY <1>1 DEF Scan, Load, Store, Name, Base, Turns, LaunchesNamed, besides, Tables
  <2>3. QED
    BY <2>1, <2>2
<1>2. ASSUME UNCHANGED <<count, entry, scan, pos, idx, mixed>>  PROVE Entire'
  BY <1>2 DEF Entire
<1>3. CASE List \/ \E s \in Slots : LaunchScan(s)
  <2>1. Begin(0) /\ scan[0] = "no"
    BY <1>3 DEF List, LaunchScan, Turns
  <2>2. Entire'
    BY <2>1, BeginEntire
  <2>3. QED
    BY <1>3, <2>1, <2>2 DEF List, LaunchScan, Begin, Turns, LaunchesNamed, Tables
<1>4. CASE Enter \/ Reclaimed
  <2>1. scan[1] = "no"
    BY <1>4 DEF Enter, Reclaimed, Runs, Turns
  <2>2. CASE Begin(1)
    <3>1. Entire'
      BY <2>1, <2>2, BeginEntire
    <3>2. QED
      BY <1>4, <2>2, <3>1 DEF Enter, Reclaimed, Begin, Turns, LaunchesNamed, Tables
  <2>3. CASE UNCHANGED <<flash, table, scans, at1>>
    BY <1>2, <1>4, <2>3 DEF Enter, Reclaimed, Turns, LaunchesNamed
  <2>4. QED
    BY <1>4, <2>2, <2>3 DEF Enter, Reclaimed
<1>5. ASSUME NEW s, Found(s) # {}, scan[0] = "no", Start(s)  PROVE ~wrong'
  <2> DEFINE a == CHOOSE b \in Found(s) : \A d \in Found(s) : b <= d
  <2>1. a \in Found(s)
    <3>1. Found(s) \in SUBSET Nat
      BY SlotsAssumption DEF Found, Tables
    <3>2. QED
      BY <1>5, <3>1, Least
  <2>2. a \in 1..count /\ entry[a].name = s
    BY <2>1 DEF Found
  <2>3. wrong' = (wrong \/ (entry[a].base # s /\ ~mixed /\ scan[1] = "no"))
    BY <1>5, Zenon DEF Start
  <2>4. entry[a].base = s \/ mixed \/ scan[1] # "no"
    BY <1>5, <2>2 DEF Entire
  <2>5. QED
    BY <2>3, <2>4 DEF LaunchesNamed
<1>6. CASE LaunchFound \/ \E s \in Slots : Launch(s)
  <2>1. scan[0] = "no"
    BY <1>6 DEF LaunchFound, Launch, Turns
  <2>2. ~wrong'
    BY <1>5, <1>6, <2>1 DEF LaunchFound, Launch, LaunchesNamed
  <2>3. QED
    BY <1>2, <1>6, <2>1, <2>2 DEF LaunchFound, Launch, Turns, LaunchesNamed
<1>7. CASE \/ Wipe \/ ListEnd \/ UploadEnd \/ UploadGone
           \/ \E s \in Slots, c \in Counts : UploadStart(s, c)
  BY <1>2, <1>7 DEF Wipe, ListEnd, UploadEnd, UploadGone, UploadStart, Turns, LaunchesNamed
<1>8. CASE Menu \/ MenuScan \/ Uninstall \/ Home \/ \E s \in Slots : Reclaim(s)
  BY <1>2, <1>8 DEF Menu, MenuScan, Uninstall, Home, Reclaim, Turns, LaunchesNamed
<1>9. CASE Entered \/ Tick \/ Arrow \/ EnterKey \/ Draw \/ Rescanned
  BY <1>2, <1>9 DEF Entered, Tick, Arrow, EnterKey, Draw, Rescanned, Runs, Turns, LaunchesNamed
<1>10. CASE UNCHANGED vars
  BY <1>2, <1>10 DEF vars, Turns, LaunchesNamed
<1>11. QED
  BY <1>1, <1>3, <1>4, <1>6, <1>7, <1>8, <1>9, <1>10 DEF Next

\* A LAUNCH by name starts the app of that name (app_scan_find, app_cmd.c), for any
\* number of slots, unless core 1 was at the table when it looked or the last two scans
\* overlapped.
THEOREM StartsWhatIsNamed == Spec => []LaunchesNamed
<1>1. Init => NamedInv
  BY SlotsAssumption DEF Init, NamedInv, Turns, Entire, LaunchesNamed, Cores
<1>2. NamedInv => LaunchesNamed
  BY DEF NamedInv
<1>3. QED
  BY <1>1, <1>2, AtStart, TablesStep, PlacesStep, NamedStep, PTL DEF Spec

(***************************************************************************)
(* The table, the slots' states and the launcher's focus.                  *)
(***************************************************************************)

\* What a step does to the table: it is part of a scan, or begins one on a core that
\* is not scanning, or changes the flash, or does nothing to either.
Beside == <<table, scan, pos, idx, mixed>>

LEMMA TableSteps ==
  ASSUME Turns, [Next]_vars
  PROVE  \/ \E c \in Cores : Scan(c) \/ (Begin(c) /\ scan[c] = "no")
         \/ dirty' = TRUE /\ UNCHANGED Beside
         \/ UNCHANGED <<flash, Beside>>
<1> USE DEF Beside, flash, table, scans, history, Cores
<1>1. CASE List \/ \E s \in Slots : LaunchScan(s)
  BY <1>1 DEF List, LaunchScan, Turns
<1>2. CASE Enter \/ Reclaimed
  BY <1>2 DEF Enter, Reclaimed, Runs, Turns
<1>3. CASE Wipe \/ UploadEnd \/ \E s \in Slots, c \in Counts : UploadStart(s, c)
  BY <1>3 DEF Wipe, UploadEnd, UploadStart
<1>4. CASE ListEnd \/ LaunchFound \/ UploadGone \/ \E s \in Slots : Launch(s) \/ Reclaim(s)
  BY <1>4 DEF ListEnd, LaunchFound, UploadGone, Launch, Reclaim
<1>5. CASE Menu \/ MenuScan \/ Uninstall \/ Home \/ Rescanned
  BY <1>5 DEF Menu, MenuScan, Uninstall, Home, Rescanned
<1>6. CASE Entered \/ Tick \/ Arrow \/ EnterKey \/ Draw
  BY <1>6 DEF Entered, Tick, Arrow, EnterKey, Draw
<1>7. CASE UNCHANGED vars
  BY <1>7 DEF vars
<1>8. QED
  BY <1>1, <1>2, <1>3, <1>4, <1>5, <1>6, <1>7 DEF Next

\* How many entries a scan has finished: the last one counted may be in hand.
Done(c) == IF scan[c] \in {"name", "base"} THEN count - 1 ELSE count

\* A scan has listed the apps below its slot, and has an entry left for each slot
\* from there on; the entry in hand is for an app.
Halfway(c) ==
  /\ Lists(Done(c), pos[c]) /\ Done(c) < pos[c]
  /\ scan[c] \in {"name", "base"} => idx[c] = count
  /\ scan[c] # "load" => pos[c] \in Installed

\* Unless the flash changes under it or it runs beside another.  Each scan begins at
\* the first slot.
ScanInv ==
  /\ \A c \in Cores : scan[c] = "no" => pos[c] = 1
  /\ ~dirty /\ ~mixed =>
       /\ Quiet => Right
       /\ \A c \in Cores : scan[c] # "no" => Halfway(c)

\* A scan that begins has listed nothing, below the first slot.
LEMMA BeginRight ==
  ASSUME Tables, ScanInv, NEW c \in Cores, scan[c] = "no", Begin(c)
  PROVE  ScanInv'
<1>1. scan' = [scan EXCEPT ![c] = "load"] /\ count' = 0 /\ pos' = pos
  BY DEF Begin
<1>2. \A d \in Cores : scan'[d] = "no" => pos'[d] = 1
  BY <1>1 DEF Tables, ScanInv
<1>3. ASSUME ~mixed'
      PROVE  ~Quiet' /\ \A d \in Cores : scan'[d] # "no" => Halfway(d)'
  <2>a. scan[1 - c] = "no"
    BY <1>3 DEF Begin
  <2>1. scan'[c] = "load" /\ pos'[c] = 1 /\ \A d \in Cores : d # c => scan'[d] = "no"
    BY <1>1, <2>a DEF Tables, ScanInv, Cores
  <2>2. Halfway(c)'
    BY <1>1, <2>1, SlotsAssumption DEF Halfway, Done, Lists, Installed, Slots
  <2>3. QED
    BY <2>1, <2>2 DEF Quiet
<1>4. QED
  BY <1>2, <1>3 DEF ScanInv

\* The search for the next app finds it.
LEMMA NextApp ==
  ASSUME NEW p \in Nat, {s \in Installed : s >= p} # {}
  PROVE  LET next == {s \in Installed : s >= p}
             m    == CHOOSE s \in next : \A t \in next : s <= t
         IN  /\ m \in Installed /\ m >= p /\ m \in Slots
             /\ \A s \in Installed : s >= p => m <= s
<1> DEFINE next == {s \in Installed : s >= p}
           m    == CHOOSE s \in next : \A t \in next : s <= t
<1>1. Installed \subseteq Slots
  BY DEF Installed
<1>2. next \in SUBSET Nat /\ next # {}
  BY SlotsAssumption DEF Installed, Slots
<1>3. m \in next /\ \A t \in next : m <= t
  <2> HIDE DEF next
  <2> QED
    BY <1>2, Least
<1> HIDE DEF m
<1>4. /\ m \in Installed /\ m >= p /\ m \in Slots
      /\ \A s \in Installed : s >= p => m <= s
  BY <1>1, <1>3
<1> QED
  BY <1>4 DEF m

\* Each step of a scan brings it one entry, or one slot, further.
LEMMA ScanRight ==
  ASSUME Tables, Entire, ScanInv, NEW c \in Cores, Scan(c), ~dirty, ~mixed
  PROVE  ScanInv'
<1> USE SlotsAssumption DEF besides, history, table, flash
<1>1. \A d \in Cores : d # c => scan[d] = "no" /\ scan'[d] = "no"
  <2>1. scan[c] # "no" /\ \A d \in Cores : d # c => scan'[d] = scan[d]
    BY DEF Scan, Load, Store, Name, Base, Tables
  <2>2. QED
    BY <2>1 DEF Entire, Cores
<1>2. Halfway(c) /\ Installed' = Installed /\ UNCHANGED header
  BY DEF ScanInv, Scan, Load, Store, Name, Base, Installed, Valid
<1>3. \A d \in Cores : d # c => pos[d] = 1 /\ pos'[d] = 1
  BY <1>1 DEF ScanInv, Scan, Load, Store, Name, Base, Tables
<1>4. CASE Load(c)
  <2> DEFINE next == {s \in Installed : s >= pos[c]}
             m == CHOOSE s \in next : \A t \in next : s <= t
  <2>1. Lists(count, pos[c]) /\ count < pos[c] /\ UNCHANGED <<count, entry>>
    BY <1>2, <1>4 DEF Halfway, Done, Load
  <2>2. Installed \subseteq Slots /\ pos[c] \in 1 .. N + 1 /\ count \in 0 .. N
    BY DEF Installed, Tables
  <2>3. CASE next = {} \/ count >= N
    <3>1. \A s \in Installed : s < pos[c]
      BY <2>1, <2>2, <2>3 DEF Slots
    <3>2. Right'
      <4> HIDE DEF m, next
      <4>1. \A s \in Installed : s < N + 1
        BY <2>2 DEF Slots
      <4>2. Lists(count, N + 1)
        BY <2>1, <3>1, <4>1 DEF Lists
      <4>3. Lists(count, N + 1)'
        BY <1>2, <2>1, <4>2 DEF Lists
      <4>4. QED
        BY <4>3 DEF Right
    <3>3. scan'[c] = "no" /\ pos'[c] = 1
      BY <1>4, <2>3 DEF Load, Tables
    <3>4. QED
      BY <1>1, <1>3, <3>2, <3>3 DEF ScanInv
  <2>4. CASE ~(next = {} \/ count >= N)
    <3>1. pos[c] \in Nat /\ next # {}
      BY <2>2, <2>4
    <3>2. scan'[c] = "store" /\ pos'[c] = m
      BY <1>4, <2>4 DEF Load, Tables
    <3>3. /\ m \in Installed /\ m >= pos[c] /\ m \in Slots
          /\ \A s \in Installed : s >= pos[c] => m <= s
      BY <3>1, NextApp
    <3> HIDE DEF m, next
    <3>4. \A s \in Installed : s < m => s < pos[c]
      BY <2>2, <3>3 DEF Slots
    <3>5. Halfway(c)'
      <4>1. Done(c)' = count
        BY <2>1, <3>2 DEF Done
      <4>2. \A a \in 1..count : /\ entry[a].base \in Installed /\ entry[a].base < m
                                /\ entry[a].name = entry[a].base
                                /\ entry[a].span = header[entry[a].base].count
        <5>1. \A s \in Slots : s < pos[c] => s < m
          BY <2>2, <3>3 DEF Slots
        <5>2. QED
          BY <2>1, <2>2, <5>1 DEF Lists
      <4>3. Lists(Done(c), pos[c])'
        BY <1>2, <2>1, <3>2, <3>4, <4>1, <4>2 DEF Lists
      <4>4. count < m
        BY <2>1, <2>2, <3>3 DEF Slots
      <4>5. QED
        BY <1>2, <3>2, <3>3, <4>1, <4>3, <4>4 DEF Halfway
    <3>6. QED
      BY <1>1, <1>3, <3>2, <3>5 DEF ScanInv, Quiet
  <2>5. QED
    BY <2>3, <2>4
<1>5. CASE Store(c)
  <2>1. /\ Lists(count, pos[c]) /\ count < pos[c] /\ pos[c] \in Installed
        /\ idx[c] = count + 1
    BY <1>2, <1>5 DEF Halfway, Done, Store, Entire
  <2>2. /\ count' = count + 1 /\ scan'[c] = "name" /\ UNCHANGED <<pos, idx, entry>>
        /\ count \in Nat
    BY <1>5, <2>1 DEF Store, Tables
  <2>3. Done(c)' = count
    BY <2>2 DEF Done
  <2>4. Halfway(c)'
    BY <1>2, <2>1, <2>2, <2>3 DEF Halfway, Lists
  <2>5. QED
    BY <1>1, <1>3, <2>2, <2>4 DEF ScanInv, Quiet
<1>6. CASE Name(c) \/ Base(c)
  <2>1. /\ Lists(count - 1, pos[c]) /\ count - 1 < pos[c] /\ pos[c] \in Installed
        /\ idx[c] = count /\ count' = count
    BY <1>2, <1>6 DEF Halfway, Done, Name, Base
  <2>2. count \in Slots /\ pos[c] \in Slots
    BY <1>6, <2>1 DEF Name, Base, Tables, Filling
  <2>3. \A b \in 1 .. count - 1 : entry'[b] = entry[b]
    BY <1>6, <2>1, <2>2, Filled DEF Tables, Slots
  <2>4. CASE Name(c)
    <3>1. scan'[c] = "base" /\ UNCHANGED <<pos, idx>>
      BY <2>4 DEF Name, Tables
    <3>2. Done(c)' = count - 1
      BY <2>1, <3>1 DEF Done
    <3>3. Lists(Done(c), pos[c])'
      BY <1>2, <2>1, <2>3, <3>1, <3>2 DEF Lists
    <3>4. Halfway(c)'
      BY <1>2, <2>1, <3>1, <3>2, <3>3 DEF Halfway
    <3>5. QED
      BY <1>1, <1>3, <3>1, <3>4 DEF ScanInv, Quiet
  <2>5. CASE Base(c)
    <3>1. scan'[c] = "load" /\ pos'[c] = pos[c] + 1
      BY <2>5 DEF Base, Tables
    <3>2. /\ entry'[count].base = pos[c] /\ entry'[count].name = pos[c]
          /\ entry'[count].span = header[pos[c]].count
      BY <2>1, <2>2, <2>5, Filled DEF Base, Entire, Tables
    <3>3. Done(c)' = count
      BY <2>1, <3>1 DEF Done
    <3>4. Lists(Done(c), pos[c])'
      <4>1. \A a \in 1..count : a \in 1 .. count - 1 \/ a = count
        BY <2>2 DEF Slots
      <4>2. Installed \subseteq Slots
        BY DEF Installed
      <4>3. \A a \in 1 .. count - 1 : /\ entry'[a].base \in Installed /\ entry'[a].base < pos[c]
                                      /\ entry'[a].name = entry'[a].base
                                      /\ entry'[a].span = header[entry'[a].base].count
        BY <2>1, <2>3 DEF Lists
      <4>4. \A a, b \in 1 .. count - 1 : a < b => entry'[a].base < entry'[b].base
        BY <2>1, <2>3 DEF Lists
      <4>5. ASSUME NEW s \in Installed, s < pos[c] + 1
            PROVE  \E a \in 1..count : entry'[a].base = s
        <5>1. CASE s = pos[c]
          BY <2>2, <3>2, <5>1 DEF Slots
        <5>2. CASE s < pos[c]
          BY <2>1, <2>2, <2>3, <5>2 DEF Lists, Slots
        <5>3. QED
          BY <2>2, <4>2, <4>5, <5>1, <5>2 DEF Slots
      <4>6. \A a \in 1..count : /\ entry'[a].base \in Installed /\ entry'[a].base < pos[c] + 1
                                /\ entry'[a].name = entry'[a].base
                                /\ entry'[a].span = header[entry'[a].base].count
        <5>1. pos[c] < pos[c] + 1 /\ \A s \in Slots : s < pos[c] => s < pos[c] + 1
          BY <2>2 DEF Slots
        <5>2. QED
          BY <2>1, <3>2, <4>1, <4>2, <4>3, <5>1
      <4>7. \A a, b \in 1..count : a < b => entry'[a].base < entry'[b].base
        BY <2>2, <3>2, <4>1, <4>3, <4>4 DEF Slots
      <4>8. QED
        BY <1>2, <2>1, <3>1, <3>3, <4>5, <4>6, <4>7 DEF Lists
    <3>5. Halfway(c)'
      BY <2>1, <2>2, <3>1, <3>3, <3>4 DEF Halfway, Slots
    <3>6. QED
      BY <1>1, <1>3, <3>1, <3>5 DEF ScanInv, Quiet
  <2>6. QED
    BY <1>6, <2>4, <2>5
<1>7. QED
  BY <1>4, <1>5, <1>6 DEF Scan

\* So the table is right through every step.
LEMMA RightStep == ASSUME Tables, NamedInv, ScanInv, [Next]_vars PROVE ScanInv'
<1>1. ASSUME NEW c \in Cores, Scan(c)  PROVE ScanInv'
  <2>1. CASE ~dirty /\ ~mixed
    BY <1>1, <2>1, ScanRight DEF NamedInv
  <2>2. CASE dirty \/ mixed
    <3>1. UNCHANGED <<dirty, mixed>>
      BY <1>1 DEF Scan, Load, Store, Name, Base, besides, history, flash
    <3>2. \A d \in Cores : scan'[d] = "no" => pos'[d] = 1
      BY <1>1 DEF Scan, Load, Store, Name, Base, Tables, ScanInv
    <3>3. QED
      BY <2>2, <3>1, <3>2 DEF ScanInv
  <2>3. QED
    BY <2>1, <2>2
<1>2. ASSUME NEW c \in Cores, Begin(c), scan[c] = "no"  PROVE ScanInv'
  BY <1>2, BeginRight
<1>3. CASE dirty' = TRUE /\ UNCHANGED Beside
  BY <1>3 DEF Beside, ScanInv
<1>4. CASE UNCHANGED <<flash, Beside>>
  BY <1>4 DEF Beside, flash, table, ScanInv, Quiet, Right, Halfway, Done, Lists, Installed, Valid
<1>5. QED
  BY <1>1, <1>2, <1>3, <1>4, TableSteps DEF NamedInv

\* Between scans the table lists the apps that were in flash at the last one, each
\* once and in slot order, for any number of slots, if no scan ran beside another.
THEOREM ListsWhatIsThere == Spec => []TableRight
<1>1. Init => NamedInv
  BY SlotsAssumption DEF Init, NamedInv, Turns, Entire, LaunchesNamed, Cores
<1>2. Init => ScanInv
  BY DEF Init, ScanInv, Cores
<1>3. ScanInv => TableRight
  BY DEF ScanInv, TableRight
<1>4. QED
  BY <1>1, <1>2, <1>3, AtStart, TablesStep, PlacesStep, NamedStep, RightStep, PTL DEF Spec

\* Spans never overlap, and an upload has written a header with a count, if it has not
\* been wiped since.
SpansInv == Disjoint(header) /\ (target # None => header[target].is # "old")

\* An app's span is the slots its header counts; a header that says the same about its
\* length has the same span.
LEMMA SpanOfApp ==
  ASSUME Tables, NEW s \in Installed
  PROVE  /\ s \in Slots /\ header[s].count \in Nat \ {0} /\ s + header[s].count - 1 <= N
         /\ Span(header, s) = s .. s + header[s].count - 1
<1>1. s \in Slots /\ header[s].is = "good" /\ header[s].count # 0
      /\ s + header[s].count - 1 <= N
  BY DEF Installed, Valid
<1>2. header[s] \in Headers /\ header[s] # Blank
  BY <1>1 DEF Tables, Blank
<1>3. header[s].count \in Nat
  BY <1>2, SlotsAssumption DEF Headers
<1>4. ~(header[s].count > N - (s - 1))
  BY <1>1, <1>3, SlotsAssumption DEF Slots
<1>5. QED
  BY <1>1, <1>2, <1>3, <1>4 DEF Span

\* Headers are written where no app is, or over the header of an app of that length.
LEMMA SpansStep == ASSUME Tables, Places, SpansInv, [Next]_vars PROVE SpansInv'
<1> USE SlotsAssumption DEF flash, scans, session, besides, history, SpansInv
<1>1. ASSUME UNCHANGED <<header, target>>  PROVE SpansInv'
  BY <1>1 DEF Disjoint, Span
<1>2. CASE Wipe
  <2>1. del \in Slots /\ header' = [header EXCEPT ![del] = Blank] /\ UNCHANGED target
    BY <1>2 DEF Wipe, Places
  <2>2. \A s \in Slots : Span(header', s) \subseteq Span(header, s)
    BY <2>1 DEF Tables, Span
  <2>3. Disjoint(header')
    BY <2>2 DEF Disjoint
  <2>4. target' # None => header'[target'].is # "old"
    BY <2>1 DEF Tables, Places, Blank
  <2>5. QED
    BY <2>3, <2>4, Zenon
<1>3. ASSUME NEW s \in Slots, NEW c \in Counts, UploadStart(s, c)  PROVE SpansInv'
  <2> DEFINE h == [count |-> c, is |-> "bad"]
  <2>1. /\ header' = [header EXCEPT ![s] = h] /\ target' = s
        /\ c \in Nat \ {0} /\ s + c - 1 <= N /\ h # Blank
    BY <1>3 DEF UploadStart, Blank
  <2>2. Span(header', s) = s .. s + c - 1
    <3>1. ~(c > N - (s - 1))
      BY <2>1 DEF Slots
    <3>2. header'[s] = h
      BY <2>1 DEF Tables
    <3>3. QED
      BY <2>1, <3>1, <3>2 DEF Span
  <2>3. \A t \in Slots : t # s => Span(header', t) = Span(header, t)
    BY <2>1 DEF Tables, Span
  <2>4. \A t \in Slots : t # s => (s .. s + c - 1) \cap Span(header, t) = {}
    <3>1. CASE (s .. s + c - 1) \cap Occupancy = {}
      BY <3>1 DEF Occupancy
    <3>2. CASE header[s] # Blank /\ header[s].is # "old" /\ header[s].count = c
      <4>1. ~(c > N - (s - 1))
        BY <2>1 DEF Slots
      <4>2. Span(header, s) = s .. s + c - 1
        BY <2>1, <3>2, <4>1 DEF Span
      <4>3. QED
        BY <4>2 DEF Disjoint
    <3>3. QED
      BY <1>3, <3>1, <3>2 DEF UploadStart
  <2>5. Disjoint(header')
    <3> SUFFICES ASSUME NEW t \in Slots, NEW u \in Slots, t # u
                 PROVE  Span(header', t) \cap Span(header', u) = {}
      BY DEF Disjoint
    <3>1. CASE t = s
      BY <2>2, <2>3, <2>4, <3>1
    <3>2. CASE u = s
      BY <2>2, <2>3, <2>4, <3>2
    <3>3. CASE t # s /\ u # s
      BY <2>3, <3>3 DEF Disjoint
    <3>4. QED
      BY <3>1, <3>2, <3>3
  <2>6. header'[target'].is = "bad"
    BY <2>1 DEF Tables
  <2>7. QED
    BY <2>5, <2>6
<1>4. CASE UploadEnd
  <2>1. target \in Slots /\ target' = None
    BY <1>4 DEF UploadEnd, Places
  <2>2. CASE header[target] = Blank
    <3>1. UNCHANGED header
      BY <1>4, <2>2 DEF UploadEnd
    <3>2. QED
      BY <2>1, <3>1 DEF Disjoint, Span
  <2>3. CASE header[target] # Blank
    <3>1. header[target] \in Headers /\ header[target].is # "old"
      BY <2>1, <2>3 DEF Tables, None, Slots
    <3>2. header' = [header EXCEPT ![target] = [header[target] EXCEPT !.is = "good"]]
      BY <1>4, <2>3 DEF UploadEnd
    <3>3. /\ header'[target].count = header[target].count /\ header'[target].is = "good"
          /\ header'[target] # Blank
      BY <2>1, <3>1, <3>2 DEF Tables, Headers, Blank
    <3>4. Span(header', target) = Span(header, target)
      BY <2>3, <3>1, <3>3 DEF Span
    <3>5. \A t \in Slots : t # target => Span(header', t) = Span(header, t)
      BY <2>1, <3>2 DEF Tables, Span
    <3>6. QED
      BY <2>1, <3>4, <3>5 DEF Disjoint
  <2>4. QED
    BY <2>2, <2>3
<1>5. CASE UploadGone
  BY <1>5 DEF UploadGone, Disjoint, Span
<1>6. ASSUME NEW c \in Cores, Scan(c)  PROVE SpansInv'
  BY <1>1, <1>6 DEF Scan, Load, Store, Name, Base
<1>7. CASE List \/ Enter \/ Reclaimed \/ \E s \in Slots : LaunchScan(s)
  BY <1>1, <1>7 DEF List, Enter, Reclaimed, LaunchScan, Begin
<1>8. CASE ListEnd \/ LaunchFound \/ \E s \in Slots : Launch(s) \/ Reclaim(s)
  BY <1>1, <1>8 DEF ListEnd, LaunchFound, Launch, Reclaim
<1>9. CASE Menu \/ MenuScan \/ Uninstall \/ Home \/ Rescanned
  BY <1>1, <1>9 DEF Menu, MenuScan, Uninstall, Home, Rescanned
<1>10. CASE Entered \/ Tick \/ Arrow \/ EnterKey \/ Draw
  BY <1>1, <1>10 DEF Entered, Tick, Arrow, EnterKey, Draw
<1>11. CASE UNCHANGED vars
  BY <1>1, <1>11 DEF vars
<1>12. QED
  BY <1>2, <1>3, <1>4, <1>5, <1>6, <1>7, <1>8, <1>9, <1>10, <1>11 DEF Next

\* A table that is right makes the slots' states right: its entries are the apps, and
\* no app's first slot is in another's span.
LEMMA StatesOfRight ==
  ASSUME Tables, SpansInv, Right, NEW s \in Slots
  PROVE  /\ State(s) = "OK" <=> s \in Installed
         /\ State(s) = "OK_EXT" <=> \E t \in Installed : t < s /\ s < t + header[t].count
<1> USE SlotsAssumption
<1>1. Installed \subseteq Slots /\ Slots \subseteq Nat
  BY DEF Installed, Slots
<1>2. \A a \in 1..count : /\ entry[a].base \in Installed
                          /\ entry[a].span = header[entry[a].base].count
  BY DEF Right, Lists
<1>3. \A t \in Installed : \E a \in 1..count : entry[a].base = t
  <2>1. \A t \in Installed : t < N + 1
    BY <1>1 DEF Slots
  <2>2. QED
    BY <2>1 DEF Right, Lists
<1>4. (\E a \in 1..count : entry[a].base = s) <=> s \in Installed
  BY <1>2, <1>3
<1>5. (\E a \in 1..count : s \in SpanOf(a))
         <=> \E t \in Installed : t <= s /\ s < t + header[t].count
  BY <1>2, <1>3 DEF SpanOf
<1>6. ASSUME NEW t \in Installed, t <= s, s < t + header[t].count
      PROVE  s \in Occupancy /\ (s \in Installed => s = t)
  <2>1. t \in Slots /\ header[t].count \in Nat /\ Span(header, t) = t .. t + header[t].count - 1
    BY SpanOfApp
  <2>2. s \in Span(header, t)
    BY <1>1, <1>6, <2>1
  <2>3. ASSUME s \in Installed, s # t PROVE FALSE
    <3>1. /\ header[s].count \in Nat \ {0}
          /\ Span(header, s) = s .. s + header[s].count - 1
      BY <2>3, SpanOfApp
    <3>2. s \in Span(header, s)
      BY <1>1, <3>1
    <3>3. QED
      BY <2>1, <2>2, <2>3, <3>2 DEF SpansInv, Disjoint
  <2>4. QED
    BY <2>1, <2>2, <2>3 DEF Occupancy
<1>7. s \in Installed => s <= s /\ s < s + header[s].count
  BY <1>1, SpanOfApp
<1>8. s \in Installed => s \in Occupancy
  BY <1>6, <1>7
<1>9. State(s) = "OK" <=> s \in Installed
  BY <1>4, <1>8 DEF State
<1>10. State(s) = "OK_EXT"
         <=> /\ s \in Occupancy /\ s \notin Installed
             /\ \E t \in Installed : t <= s /\ s < t + header[t].count
  BY <1>4, <1>5 DEF State
<1>11. QED
  <2>1. ASSUME NEW t \in Installed, t < s, s < t + header[t].count
        PROVE  State(s) = "OK_EXT"
    BY <1>1, <1>6, <1>10, <2>1
  <2>2. ASSUME State(s) = "OK_EXT"
        PROVE  \E t \in Installed : t < s /\ s < t + header[t].count
    <3>1. PICK t \in Installed : t <= s /\ s < t + header[t].count
      BY <1>10, <2>2
    <3>2. t # s
      BY <1>10, <2>2
    <3>3. t < s
      <4>1. t \in Nat /\ s \in Nat
        BY <1>1
      <4>2. QED
        BY <3>1, <3>2, <4>1
    <3>4. QED
      BY <3>1, <3>3
  <2>3. QED
    BY <1>9, <2>1, <2>2

\* What STORAGE shows of the slots is true, for any number of slots, if no scan ran
\* beside another: the first slot of an app, the rest of one, and neither of them one
\* that may be taken or wiped.
THEOREM ShowsWhatIsThere == Spec => []StatesRight
<1>1. Init => NamedInv /\ SpansInv
  BY SlotsAssumption
     DEF Init, NamedInv, Turns, Entire, LaunchesNamed, Cores, SpansInv
<1>2. Tables /\ SpansInv /\ TableRight => StatesRight
  BY StatesOfRight DEF TableRight, StatesRight
<1>3. QED
  BY <1>1, <1>2, AtStart, TablesStep, PlacesStep, NamedStep, SpansStep, ListsWhatIsThere, PTL
     DEF Spec

\* What the selection of a launcher that nobody disturbed is of.
OnFocus == focus # None => sel + 1 \in 1..count /\ entry[sel + 1].base = focus

\* The launcher has been entered, and is on screen.
Settled == at1 \in {"tick", "input"} \/ (at1 = "frame" /\ front = None /\ ~again)

\* While the launcher is entered the flash is as its scan found it; an app that waits
\* for a wipe is in front; core 0's scans are noticed.
FocusInv ==
  /\ at1 = "enter" => ~dirty
  /\ at1 = "rescan" \/ erasing => front # None
  /\ scan[0] # "no" => disturbed
  /\ ~disturbed /\ Settled => OnFocus
  /\ ~disturbed /\ at1 = "input" => n = count

\* Where the launcher's focus is, if it is anywhere: entered or drawn, it is on the
\* entry it shows.
LEMMA EnteredOnFocus == ASSUME Tables, Entered PROVE OnFocus'
<1> DEFINE there == {a \in 1..count : entry[a].base = focus}
           m     == CHOOSE a \in there : \A b \in there : a <= b
<1>1. CASE focus # None /\ there # {}
  <2>1. sel' = m - 1 /\ UNCHANGED <<focus, count, entry>>
    BY <1>1 DEF Entered, table
  <2>2. m \in there
    <3>1. there \in SUBSET Nat
      BY DEF Tables
    <3>2. QED
      <4> HIDE DEF there
      <4> QED
        BY <1>1, <3>1, Least
  <2> HIDE DEF m
  <2>3. m \in 1..count /\ entry[m].base = focus /\ count \in Nat
    BY <2>2, SlotsAssumption DEF Tables
  <2>4. sel' + 1 = m
    BY <2>1, <2>3
  <2>5. QED
    BY <2>1, <2>3, <2>4 DEF OnFocus
<1>2. CASE ~(focus # None /\ there # {})
  BY <1>2 DEF Entered, OnFocus
<1>3. QED
  BY <1>1, <1>2

LEMMA DrawOnFocus == ASSUME Draw PROVE OnFocus'
<1>1. UNCHANGED <<count, entry>>
  BY DEF Draw, table
<1>2. QED
  BY <1>1 DEF Draw, OnFocus, Listed

\* A launcher nobody disturbs keeps its selection on its focus.
LEMMA FocusStep ==
  ASSUME Tables, Places, Flags, Turns, FocusInv, [Next]_vars
  PROVE  FocusInv'
<1> USE DEF Flags, FocusInv, flash, scans, history, table, session, request, launcher, besides
<1>1. Flags'
  BY FlagsStep
<1>2. CASE Scan(0)
  <2>1. disturbed' /\ UNCHANGED <<at1, dirty, erasing, front, disturbed>>
    BY <1>2, Zenon DEF Scan, Load, Store, Name, Base
  <2>2. QED
    BY <2>1, Zenon
<1>3. CASE Scan(1)
  <2>1. /\ UNCHANGED <<at1, dirty, erasing, front, disturbed>>
        /\ scan'[0] = scan[0] /\ scan[1] # "no"
    BY <1>3 DEF Scan, Load, Store, Name, Base, Tables, Cores
  <2>2. at1 \notin {"frame", "tick", "input"}
    BY <2>1 DEF Turns
  <2>3. QED
    BY <2>1, <2>2 DEF Settled
<1>4. CASE List \/ \E s \in Slots : LaunchScan(s)
  <2>1. disturbed' /\ ~dirty' /\ UNCHANGED <<at1, erasing, front>>
    BY <1>4, Zenon DEF List, LaunchScan, Begin
  <2>2. QED
    BY <2>1, Zenon
<1>5. CASE Enter
  <2>1. CASE want = None
    BY <1>5, <2>1 DEF Enter, Begin, Settled, Tables, Cores
  <2>2. CASE want # None
    BY <1>5, <2>2 DEF Enter, Settled, Runs
  <2>3. QED
    BY <2>1, <2>2
<1>6. CASE Reclaimed
  BY <1>6 DEF Reclaimed, Begin, Settled, Tables, Cores
<1>7. CASE Entered
  <2>1. at1' = "tick" /\ UNCHANGED <<dirty, erasing, front, scan, disturbed>>
    BY <1>7 DEF Entered
  <2>2. QED
    BY <1>7, <2>1, EnteredOnFocus
<1>8. CASE Draw
  <2>1. at1' = "frame" /\ UNCHANGED <<dirty, erasing, front, scan>>
        /\ disturbed' = (scan[0] # "no")
    BY <1>8 DEF Draw
  <2>2. QED
    BY <1>8, <2>1, DrawOnFocus
<1>9. CASE Tick
  BY <1>9 DEF Tick, Settled, OnFocus, Runs
<1>10. CASE Arrow \/ EnterKey
  BY <1>10 DEF Arrow, EnterKey
<1>11. CASE Rescanned
  BY <1>11 DEF Rescanned, Settled
<1>12. CASE Wipe \/ UploadEnd \/ \E s \in Slots, c \in Counts : UploadStart(s, c)
  BY <1>12 DEF Wipe, UploadEnd, UploadStart, Settled, OnFocus
<1>13. CASE UploadGone \/ LaunchFound \/ \E s \in Slots : Launch(s)
  BY <1>13 DEF UploadGone, LaunchFound, Launch, Start, Settled, OnFocus
<1>14. CASE ListEnd \/ Menu \/ MenuScan \/ Uninstall \/ Home
  BY <1>14 DEF ListEnd, Menu, MenuScan, Uninstall, Home, Settled, OnFocus
<1>15. ASSUME NEW s \in Slots, Reclaim(s)  PROVE FocusInv'
  <2>1. front # None
    BY <1>15 DEF Reclaim, Installed, Slots, None
  <2>2. QED
    BY <1>15, <2>1 DEF Reclaim, Settled, OnFocus
<1>16. CASE UNCHANGED vars
  BY <1>16 DEF vars, Settled, OnFocus
<1>17. QED
  BY <1>2, <1>3, <1>4, <1>5, <1>6, <1>7, <1>8, <1>9, <1>10, <1>11, <1>12, <1>13, <1>14,
     <1>15, <1>16 DEF Next, Cores

\* The focus leaves an app that is installed only if the user or core 0 was at it.
LEMMA FocusMoves ==
  ASSUME Tables, Places, Flags, Turns, ScanInv, FocusInv, [Next]_vars,
         focus \in Installed, focus' # focus
  PROVE  disturbed \/ disturbed' \/ mixed
<1> SUFFICES ASSUME ~disturbed, ~disturbed', ~mixed PROVE FALSE
  OBVIOUS
<1>1. Entered \/ Draw
  BY Zenon DEF Next, Scan, Load, Store, Name, Base, besides, Wipe, List, ListEnd, UploadEnd,
     UploadGone, LaunchFound, Launch, LaunchScan, Reclaim, UploadStart, Menu, MenuScan,
     Uninstall, Enter, Tick, Arrow, EnterKey, Home, Reclaimed, Rescanned, launcher, vars
<1>2. focus \in Slots /\ focus # None
  BY DEF Installed, Slots, None
<1>3. CASE Entered
  <2>1. at1 = "enter" /\ scan[1] = "no"
    BY <1>3 DEF Entered
  <2>2. scan[0] = "no" /\ ~dirty
    BY <2>1 DEF FocusInv
  <2>3. Right
    BY <2>1, <2>2 DEF ScanInv, Quiet, Cores
  <2>4. \E a \in 1..count : entry[a].base = focus
    <3>1. focus < N + 1
      BY <1>2, SlotsAssumption DEF Slots
    <3>2. QED
      BY <2>3, <3>1 DEF Right, Lists
  <2>5. UNCHANGED focus
    BY <1>2, <1>3, <2>4 DEF Entered
  <2>6. QED
    BY <2>5
<1>4. CASE Draw
  <2>1. at1 = "input"
    BY <1>4 DEF Draw
  <2>2. OnFocus /\ n = count
    BY <2>1 DEF FocusInv, Settled
  <2>3. sel + 1 \in 1..count /\ entry[sel + 1].base = focus /\ n > 0 /\ ~(sel >= n)
    BY <1>2, <2>2 DEF OnFocus, Tables, Places
  <2>4. sel' = sel
    BY <1>4, <2>3 DEF Draw
  <2>5. focus' = entry[sel + 1].base
    BY <1>4, <2>3, <2>4 DEF Draw, Listed
  <2>6. QED
    BY <2>3, <2>5
<1>5. QED
  BY <1>1, <1>3, <1>4

\* The launcher's focus stays on its app while that is installed, for any number of
\* slots, whatever comes, goes or runs meanwhile, unless the user moves it or core 0
\* scans under the launcher.
THEOREM FocusStays == Spec => FocusKept
<1>1. Init => NamedInv /\ ScanInv /\ FocusInv
  BY SlotsAssumption
     DEF Init, NamedInv, Turns, Entire, LaunchesNamed, Cores, ScanInv, FocusInv, Settled
<1>2. NamedInv => Turns
  BY DEF NamedInv
<1>3. Tables /\ Places /\ Flags /\ Turns /\ ScanInv /\ FocusInv /\ [Next]_vars
        => [(focus \in Installed /\ focus' # focus)
             => (disturbed \/ disturbed' \/ mixed)]_vars
  BY FocusMoves
<1>4. QED
  BY <1>1, <1>2, <1>3, AtStart, TablesStep, PlacesStep, FlagsStep, NamedStep, RightStep,
     FocusStep, PTL DEF Spec, FocusKept
===============================================================================
