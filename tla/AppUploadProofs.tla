----------------------------- MODULE AppUploadProofs -----------------------------
(***************************************************************************)
(* Proofs about AppUpload, for any apps and any number of slots, with one  *)
(* host_tool at a time, from any flash in which no two apps claim the same *)
(* slot: it stays so, an upload never writes outside the slots it was      *)
(* given, nothing its host sends is refused, and what ends with DONE is    *)
(* in the flash, page by page.                                             *)
(***************************************************************************)
EXTENDS AppUpload, WellFoundedInduction, SequenceTheorems, TLAPS

\* A set of slots has a first one, which a search finds.
LEMMA Least ==
  ASSUME NEW S \in SUBSET Nat, S # {}
  PROVE  LET m == CHOOSE x \in S : \A y \in S : x <= y
         IN  m \in S /\ \A y \in S : m <= y
<1> DEFINE Below == {p \in Nat \X Nat : p[1] < p[2]}
<1>1. IsWellFoundedOn(Below, Nat)
  BY NatLessThanWellFounded DEF OpToRel
<1>2. PICK m \in S : \A t \in S : ~(<<t, m>> \in Below)
  <2> HIDE DEF Below
  <2> QED
    BY <1>1, WFMin
<1>3. \A t \in S : m <= t
  <2> SUFFICES ASSUME NEW t \in S PROVE m <= t
    OBVIOUS
  <2>1. t \in Nat /\ m \in Nat
    OBVIOUS
  <2>2. ~(t < m)
    BY <1>2, <2>1
  <2> QED
    BY <2>1, <2>2
<1>4. \E x \in S : \A y \in S : x <= y
  BY <1>3
<1> QED
  BY <1>4

\* The slots a header in slot i with count n claims.
SpanAt(i, n) == i .. i + (IF n = 0 \/ n > NSlots - i THEN 1 ELSE n) - 1

\* Slots are slots' length apart, inside the flash, and found again by their address.
LEMMA Bases ==
  ASSUME NEW i \in SlotIds
  PROVE  /\ Base(i) \in Flash /\ Base(i) \in Nat /\ Base(i) # 0 /\ SlotOf(Base(i)) = i
         /\ \A k \in SlotIds : Base(k) = Base(i) => k = i
  BY NSlotsAssumption DEF SlotIds, Base, Flash, SlotOf, AreaBegin, AreaEnd, BootBegin, SlotPages

\* What a slot's header says depends on the slot's first page alone.
LEMMA SamePage ==
  ASSUME NEW i \in SlotIds, flash'[Base(i)] = flash[Base(i)]
  PROVE  /\ HasHeader(i)' <=> HasHeader(i)
         /\ HeaderOf(i)' = HeaderOf(i) /\ Span(i)' = Span(i)
  BY Zenon DEF HasHeader, HeaderOf, Span

\* A span begins with its own slot.
LEMMA SpanOwn ==
  ASSUME NEW i \in SlotIds, HasHeader(i)
  PROVE  i \in Span(i) /\ Span(i) = SpanAt(i, HeaderOf(i).count) /\ HeaderOf(i).count \in Nat
<1>1. HeaderOf(i).count \in Nat
  BY AppsAssumption DEF HasHeader, HeaderOf
<1>2. QED
  BY <1>1, NSlotsAssumption DEF Span, SpanAt, SlotIds

\* What a job was promised when slot i became its own: room for the app's slots, where
\* no other header claims one, and its own header, if there is one, claims just these.
Reserved(j, i) ==
  LET n == Apps[j.app].count IN
  /\ ~j.codeOnly => i + n <= NSlots
  /\ \A k \in SlotIds : HasHeader(k) =>
       IF k = i THEN HeaderOf(k).count = n ELSE Span(k) \cap SpanAt(i, n) = {}

\* The session is the one job j asked for.
Granted(j) ==
  IF j.kind = "boot"
  THEN /\ target = "BOOT" /\ slot = BootBegin
       /\ total = j.total /\ total # 0 /\ total <= AreaBegin - BootBegin
  ELSE /\ target = "SLOT" /\ code = Apps[j.app].code /\ SizesOk(Apps[j.app])
       /\ data = IF j.codeOnly THEN 0 ELSE Apps[j.app].data
       /\ \E i \in SlotIds : slot = Base(i) /\ Reserved(j, i)

HostStates == [phase : {"idle", "polling", "working", "abort", "verify"},
               job : Jobs \cup {NoJob}, base : Nat, step : Nat]

\* While a host is at work, the session is its own.
HostInv ==
  /\ hosts \in [Hosts -> HostStates]
  /\ \A h \in Hosts : hosts[h].phase # "idle" =>
       /\ hosts[h].job \in Jobs /\ slot = hosts[h].base /\ Granted(hosts[h].job)
       /\ hosts[h].step >= 1

\* The members of a job for an app.
LEMMA AppJob ==
  ASSUME NEW j \in Jobs, j.kind = "app"
  PROVE  /\ j.app \in DOMAIN Apps /\ j.codeOnly \in BOOLEAN
         /\ j.slot # AutoSlot => \E i \in SlotIds : j.slot = Base(i)
<1>1. j \in [kind : {"app"}, app : DOMAIN Apps, slot : {AutoSlot} \cup {Base(i) : i \in SlotIds},
             codeOnly : BOOLEAN]
  BY DEF Jobs
<1>2. j.app \in DOMAIN Apps /\ j.codeOnly \in BOOLEAN
        /\ j.slot \in {AutoSlot} \cup {Base(i) : i \in SlotIds}
  BY <1>1
<1>3. QED
  BY <1>2

\* app_upload_request never grants a slot another app claims.
LEMMA Placing ==
  ASSUME SpansDisjoint, NEW j \in Jobs, j.kind = "app", Placement(j) # 0
  PROVE  \E i \in SlotIds : Placement(j) = Base(i) /\ Reserved(j, i)
<1> DEFINE a == Apps[j.app]
           here == (j.slot - AreaBegin) \div SlotPages
<1>0. /\ SizesOk(a)
      /\ j.codeOnly => j.slot # AutoSlot /\ Updates(here, a) /\ Placement(j) = j.slot
      /\ ~j.codeOnly /\ j.slot = AutoSlot => Placement(j) = FirstFree(a.count)
      /\ ~j.codeOnly /\ j.slot # AutoSlot => RunFree(here, a.count) /\ Placement(j) = j.slot
  <2> DEFINE plain == IF j.slot = AutoSlot THEN FirstFree(a.count)
                      ELSE IF RunFree(here, a.count) THEN j.slot ELSE 0
             update == IF j.slot # AutoSlot /\ Updates(here, a) THEN j.slot ELSE 0
  <2>1. Placement(j) = IF ~SizesOk(a) THEN 0 ELSE IF j.codeOnly THEN update ELSE plain
    BY Zenon DEF Placement
  <2>2. SizesOk(a)
    <3> HIDE DEF plain, update
    <3> QED
      BY <2>1
  <2>3. j.codeOnly => Placement(j) = update
    <3> HIDE DEF plain, update
    <3> QED
      BY <2>1, <2>2
  <2>4. ~j.codeOnly => Placement(j) = plain
    <3> HIDE DEF plain, update
    <3> QED
      BY <2>1, <2>2
  <2>5. QED
    BY <2>2, <2>3, <2>4
<1>1. SizesOk(a) /\ a.count \in Nat
  BY <1>0, AppJob, AppsAssumption
<1>2. ASSUME NEW i \in SlotIds, RunFree(i, a.count)  PROVE Reserved(j, i)
  <2>1. i + a.count <= NSlots /\ SpanAt(i, a.count) = i .. i + a.count - 1
    BY <1>1, <1>2, NSlotsAssumption DEF RunFree, SpanAt, SlotIds
  <2>2. ASSUME NEW k \in SlotIds, HasHeader(k)
        PROVE  Span(k) \cap SpanAt(i, a.count) = {} /\ i \in SpanAt(i, a.count) /\ k \in Span(k)
    <3>1. Span(k) \subseteq Used
      BY <2>2 DEF Used
    <3>2. QED
      BY <1>1, <1>2, <2>1, <2>2, <3>1, SpanOwn DEF RunFree, SlotIds
  <2>3. QED
    BY <2>1, <2>2 DEF Reserved
<1>3. CASE j.codeOnly
  <2>1. PICK i \in SlotIds : j.slot = Base(i)
    BY <1>0, <1>3, AppJob
  <2>2. here = i
    BY <2>1, Bases DEF SlotOf
  <2>3. Placement(j) = Base(i) /\ HasHeader(i) /\ HeaderOf(i).count = a.count
    BY <1>0, <1>3, <2>1, <2>2 DEF Updates
  <2>4. Span(i) = SpanAt(i, a.count)
    BY <2>3, SpanOwn
  <2>5. Reserved(j, i)
    BY <1>3, <2>3, <2>4 DEF Reserved, SpansDisjoint
  <2>6. QED
    BY <2>3, <2>5
<1>4. CASE ~j.codeOnly /\ j.slot = AutoSlot
  <2> DEFINE free == {i \in SlotIds : RunFree(i, a.count)}
             i == CHOOSE x \in free : \A y \in free : x <= y
  <2>1. free # {} /\ Placement(j) = Base(i)
    BY <1>0, <1>4 DEF FirstFree
  <2>2. free \in SUBSET Nat
    BY NSlotsAssumption DEF SlotIds
  <2>3. i \in free
    <3> HIDE DEF free
    <3> QED
      BY <2>1, <2>2, Least
  <2>4. QED
    BY <1>2, <2>1, <2>3
<1>5. CASE ~j.codeOnly /\ j.slot # AutoSlot
  <2>1. PICK i \in SlotIds : j.slot = Base(i)
    BY <1>5, AppJob
  <2>2. here = i
    BY <2>1, Bases DEF SlotOf
  <2>3. Placement(j) = Base(i) /\ RunFree(i, a.count)
    BY <1>0, <1>5, <2>1, <2>2
  <2>4. QED
    BY <1>2, <2>3
<1>6. QED
  BY <1>3, <1>4, <1>5

\* A step that adds no header takes no slot away from a job, and makes no two apps
\* claim one.
Fewer == \A k \in SlotIds : HasHeader(k)' => flash'[Base(k)] = flash[Base(k)]

\* So the slots stay apart, and what a job was promised stays promised.
LEMMA FewerKeeps ==
  ASSUME Fewer
  PROVE  /\ SpansDisjoint => SpansDisjoint'
         /\ \A j \in Jobs, i \in SlotIds : Reserved(j, i) => Reserved(j, i)'
<1>1. ASSUME NEW k \in SlotIds, HasHeader(k)'
      PROVE  HasHeader(k) /\ HeaderOf(k)' = HeaderOf(k) /\ Span(k)' = Span(k)
  BY <1>1, SamePage DEF Fewer
<1>2. SpansDisjoint => SpansDisjoint'
  BY <1>1 DEF SpansDisjoint
<1>3. ASSUME NEW j \in Jobs, NEW i \in SlotIds, Reserved(j, i)  PROVE Reserved(j, i)'
  BY <1>1, <1>3 DEF Reserved, SpanAt
<1>4. QED
  BY <1>2, <1>3

UploadInv == HostInv /\ SpansDisjoint

\* Nor does it disturb a host that goes on, or rests.
LEMMA Kept ==
  ASSUME UploadInv, Fewer, UNCHANGED <<target, slot, code, data, total>>,
         hosts' \in [Hosts -> HostStates],
         \A h \in Hosts : hosts'[h].phase # "idle" =>
           /\ hosts[h].phase # "idle" /\ hosts'[h].job = hosts[h].job
           /\ hosts'[h].base = hosts[h].base /\ hosts'[h].step >= hosts[h].step
  PROVE  UploadInv'
<1>1. SpansDisjoint'
  BY FewerKeeps DEF UploadInv
<1>2. ASSUME NEW j \in Jobs, Granted(j)  PROVE Granted(j)'
  <2>1. CASE j.kind = "boot"
    BY <1>2, <2>1 DEF Granted
  <2>2. CASE j.kind # "boot"
    <3>1. PICK i \in SlotIds : slot = Base(i) /\ Reserved(j, i)
      BY <1>2, <2>2 DEF Granted
    <3>2. slot' = Base(i) /\ Reserved(j, i)'
      BY <3>1, FewerKeeps
    <3>3. QED
      BY <1>2, <2>2, <3>2 DEF Granted
  <2>3. QED
    BY <2>1, <2>2
<1>3. HostInv'
  BY <1>2 DEF UploadInv, HostInv, HostStates
<1>4. QED
  BY <1>1, <1>3 DEF UploadInv

\* The one header a host's operation may add is its own app's, in its own slot.
LEMMA OpHeader ==
  ASSUME UploadInv, NEW h \in Hosts, HostOp(h), NEW k \in SlotIds, HasHeader(k)',
         flash'[Base(k)] # flash[Base(k)]
  PROVE  /\ hosts[h].job.kind # "boot" /\ slot = Base(k)
         /\ flash'[Base(k)] = <<hosts[h].job.app, 0>>
<1> DEFINE o == NextOp(h)
           p == Base(k)
<1>1. flash'[p] \in {Blank, Program(flash[p], Content(h, p))}
  <2>1. p \in Flash
    BY Bases
  <2>2. flash' # flash
    OBVIOUS
  <2>3. flash' = [q \in Flash |->
          IF q \notin o.addr .. o.addr + (IF o.op = "erase" THEN SectorPages ELSE 1) - 1
          THEN flash[q]
          ELSE IF o.op = "erase" THEN Blank ELSE Program(flash[q], Content(h, q))]
    BY <2>2, Zenon DEF HostOp
  <2>4. QED
    BY <2>1, <2>3
<1>2. flash'[p][1] \in DOMAIN Apps /\ flash'[p][2] = 0
  BY Zenon DEF HasHeader
<1>3. flash'[p] = Content(h, p)
  BY <1>1, <1>2, AppsAssumption DEF Program, Blank, Garbage
<1>4. hosts[h].job.kind # "boot"
  BY <1>2, <1>3, AppsAssumption DEF Content, Splash
<1>5. Content(h, p) = <<hosts[h].job.app, p - hosts[h].base>>
  BY <1>4 DEF Content
<1>6. p - hosts[h].base = 0
  BY <1>2, <1>3, <1>5
<1>7. hosts[h].phase # "idle" /\ hosts[h].base \in Nat
  BY DEF HostOp, UploadInv, HostInv, HostStates
<1>8. slot = p
  BY <1>6, <1>7, Bases DEF UploadInv, HostInv
<1>9. QED
  BY <1>3, <1>4, <1>5, <1>6, <1>8

\* The members of a host's record, once its step or its phase has changed.
LEMMA HostMoves ==
  ASSUME HostInv, NEW h \in Hosts, NEW ph \in {"idle", "polling", "working", "abort", "verify"}
  PROVE  /\ [hosts EXCEPT ![h].phase = ph] \in [Hosts -> HostStates]
         /\ [hosts EXCEPT ![h].step = @ + 1] \in [Hosts -> HostStates]
         /\ [hosts EXCEPT ![h] = Resting] \in [Hosts -> HostStates]
  BY DEF HostInv, HostStates, Resting

\* An operation keeps the slots apart, and the session its host's.
LEMMA OpStep ==
  ASSUME UploadInv, NEW h \in Hosts, Hosts = {h}, HostOp(h)
  PROVE  UploadInv'
<1>0. PICK j \in Jobs : j = hosts[h].job
  BY DEF HostOp, UploadInv, HostInv
<1>1. /\ slot = hosts[h].base /\ Granted(j) /\ hosts[h].step >= 1
      /\ hosts \in [Hosts -> HostStates] /\ UNCHANGED <<target, slot, code, data, total>>
  BY <1>0 DEF HostOp, UploadInv, HostInv
<1>2. /\ hosts' \in [Hosts -> HostStates]
      /\ hosts'[h].job = j /\ hosts'[h].base = hosts[h].base
      /\ hosts'[h].step >= hosts[h].step /\ hosts'[h].step >= 1
  <2>1. hosts' \in {[hosts EXCEPT ![h].step = @ + 1], [hosts EXCEPT ![h].phase = "abort"]}
    BY DEF HostOp, Phase
  <2>2. HostInv
    BY DEF UploadInv
  <2>3. hosts' \in [Hosts -> HostStates]
    BY <2>1, <2>2, HostMoves
  <2>4. hosts[h].step \in Nat
    BY <1>1 DEF HostStates
  <2>5. CASE hosts' = [hosts EXCEPT ![h].step = @ + 1]
    BY <1>0, <1>1, <2>3, <2>4, <2>5 DEF HostStates
  <2>6. CASE hosts' = [hosts EXCEPT ![h].phase = "abort"]
    BY <1>0, <1>1, <2>3, <2>4, <2>6 DEF HostStates
  <2>7. QED
    BY <2>1, <2>5, <2>6
<1>3. CASE Fewer
  BY <1>0, <1>1, <1>2, <1>3, Kept DEF HostOp
<1>4. CASE ~Fewer
  <2>1. PICK i \in SlotIds : HasHeader(i)' /\ flash'[Base(i)] # flash[Base(i)]
    BY <1>4 DEF Fewer
  <2>2. j.kind # "boot" /\ slot = Base(i) /\ flash'[Base(i)] = <<j.app, 0>>
    BY <1>0, <2>1, OpHeader
  <2>3. Reserved(j, i)
    BY <1>1, <2>2, Bases DEF Granted
  <2>4. \A k \in SlotIds : HasHeader(k)' /\ k # i =>
          HasHeader(k) /\ HeaderOf(k)' = HeaderOf(k) /\ Span(k)' = Span(k)
    BY <2>2, OpHeader, SamePage, Bases
  <2>5. HeaderOf(i)' = Apps[j.app] /\ Span(i)' = SpanAt(i, Apps[j.app].count)
    BY <2>2 DEF HeaderOf, Span, SpanAt
  <2>6. Reserved(j, i)'
    BY <2>3, <2>4, <2>5 DEF Reserved, SpanAt
  <2>7. SpansDisjoint'
    <3>1. \A k \in SlotIds : HasHeader(k)' /\ k # i => Span(k)' \cap Span(i)' = {}
      BY <2>3, <2>4, <2>5 DEF Reserved
    <3>2. \A k, l \in SlotIds : HasHeader(k)' /\ HasHeader(l)' /\ k # i /\ l # i /\ k # l
                               => Span(k)' \cap Span(l)' = {}
      BY <2>4 DEF UploadInv, SpansDisjoint
    <3>3. QED
      BY <3>1, <3>2 DEF SpansDisjoint
  <2>8. Granted(j)'
    <3>1. target' = "SLOT" /\ slot' = Base(i) /\ SizesOk(Apps[j.app])
            /\ code' = Apps[j.app].code /\ data' = IF j.codeOnly THEN 0 ELSE Apps[j.app].data
      BY <1>1, <2>2 DEF Granted
    <3>2. QED
      BY <2>2, <2>6, <3>1 DEF Granted
  <2>9. QED
    BY <1>1, <1>2, <2>7, <2>8 DEF UploadInv, HostInv
<1>5. QED
  BY <1>3, <1>4

\* A request grants what was free.
LEMMA BeginStep ==
  ASSUME UploadInv, NEW h \in Hosts, Hosts = {h}, NEW j \in Jobs, HostBegin(h, j)
  PROVE  UploadInv'
<1>1. UNCHANGED flash /\ hosts[h].phase = "idle" /\ hosts \in [Hosts -> HostStates]
  BY DEF HostBegin, UploadInv, HostInv
<1>2. SpansDisjoint' /\ \A i \in SlotIds : Reserved(j, i) => Reserved(j, i)'
  BY <1>1, FewerKeeps DEF Fewer, UploadInv
<1>3. CASE slot' = 0
  BY <1>1, <1>2, <1>3 DEF HostBegin, UploadInv, HostInv
<1>4. CASE slot' # 0
  <2>1. slot' \in Nat /\ Granted(j)'
    <3>1. CASE j.kind = "app"
      <4>1. Placement(j) # 0
        BY <1>4, <3>1 DEF HostBegin, Request
      <4>2. PICK i \in SlotIds : Placement(j) = Base(i) /\ Reserved(j, i)
        BY <3>1, <4>1, Placing DEF UploadInv
      <4>3. /\ target' = "SLOT" /\ slot' = Base(i) /\ code' = Apps[j.app].code
            /\ data' = IF j.codeOnly THEN 0 ELSE Apps[j.app].data
        BY <3>1, <4>1, <4>2 DEF HostBegin, Request, Open
      <4>4. SizesOk(Apps[j.app])
        BY <4>1 DEF Placement
      <4>5. QED
        BY <1>2, <3>1, <4>2, <4>3, <4>4, Bases DEF Granted
    <3>2. CASE j.kind # "app"
      <4>1. j.kind = "boot"
        BY <3>2 DEF Jobs
      <4>2. /\ slot' = BootBegin /\ target' = "BOOT" /\ total' = j.total
            /\ j.total # 0 /\ total' = j.total /\ j.total <= AreaBegin - BootBegin
        <5>1. j.total \in Nat
          BY <4>1, SplashesAssumption DEF Jobs
        <5>2. QED
          BY <1>4, <3>2, <5>1 DEF HostBegin, RequestBoot, Open, AreaBegin, BootBegin, SlotPages
      <4>3. QED
        BY <4>1, <4>2 DEF Granted, BootBegin, SlotPages
    <3>3. QED
      BY <3>1, <3>2
  <2>2. hosts' = [hosts EXCEPT ![h] = [phase |-> "polling", job |-> j, base |-> slot', step |-> 1]]
    BY <1>4 DEF HostBegin
  <2>3. [phase |-> "polling", job |-> j, base |-> slot', step |-> 1] \in HostStates
    BY <2>1 DEF HostStates
  <2>4. QED
    BY <1>1, <1>2, <2>1, <2>2, <2>3 DEF UploadInv, HostInv
<1>5. QED
  BY <1>3, <1>4

\* Every other step of a host goes on with its session, or drops it.
LEMMA HostStep ==
  ASSUME UploadInv, NEW h \in Hosts, Hosts = {h}, Host(h)
  PROVE  UploadInv'
<1>1. CASE HostOp(h) \/ \E j \in Jobs : HostBegin(h, j)
  BY <1>1, OpStep, BeginStep
<1>2. CASE HostPoll(h) \/ HostGiveUp(h) \/ HostAbort(h) \/ HostEnd(h) \/ HostExit(h)
  <2>1. PICK ph \in {"working", "abort", "verify"} :
          hosts' \in {[hosts EXCEPT ![h].phase = ph], [hosts EXCEPT ![h] = Resting]}
    BY <1>2 DEF HostPoll, HostGiveUp, HostAbort, HostEnd, HostExit, Phase
  <2>2. hosts' \in [Hosts -> HostStates] /\ hosts \in [Hosts -> HostStates]
          /\ hosts[h].phase # "idle"
    BY <1>2, <2>1, HostMoves DEF UploadInv, HostInv, HostPoll, HostGiveUp, HostAbort, HostEnd,
       HostExit
  <2>3. \A g \in Hosts : hosts'[g].phase # "idle" =>
          /\ hosts[g].phase # "idle" /\ hosts'[g].job = hosts[g].job
          /\ hosts'[g].base = hosts[g].base /\ hosts'[g].step >= hosts[g].step
    BY <2>1, <2>2 DEF HostStates, Resting
  <2>4. Fewer /\ UNCHANGED <<target, slot, code, data, total>>
    BY <1>2 DEF HostPoll, HostGiveUp, HostAbort, HostEnd, HostExit, Finish, session, Fewer
  <2>5. QED
    BY <2>2, <2>3, <2>4, Kept
<1>3. QED
  BY <1>1, <1>2 DEF Host

\* The keyboard's side: a header only ever goes away, and a reboot ends every host.
LEMMA KeyboardStep ==
  ASSUME UploadInv,
         \/ Dialog \/ Promote \/ Linger \/ LingerTest \/ LingerStore \/ Reboot
         \/ \E i \in SlotIds : Uninstall(i)
         \/ UNCHANGED vars
  PROVE  UploadInv'
<1>1. CASE Dialog \/ Promote \/ Linger \/ LingerTest \/ LingerStore \/ UNCHANGED vars
  <2>1. UNCHANGED <<target, slot, code, data, total, flash, hosts>>
    BY <1>1 DEF Dialog, Install, Cancel, FlashPrompt, FlashCancel, Promote, Linger, LingerTest,
       LingerStore, session, vars
  <2>2. QED
    BY <2>1, Kept DEF Fewer, UploadInv, HostInv, HostStates
<1>2. ASSUME NEW i \in SlotIds, Uninstall(i)  PROVE UploadInv'
  <2>1. UNCHANGED <<target, slot, code, data, total, hosts>>
    BY <1>2 DEF Uninstall, session
  <2>2. ASSUME NEW k \in SlotIds  PROVE flash'[Base(k)] \in {flash[Base(k)], Blank}
    BY <1>2, Bases DEF Uninstall
  <2>3. ASSUME NEW k \in SlotIds, HasHeader(k)'  PROVE flash'[Base(k)] # Blank
    BY <2>3, AppsAssumption DEF HasHeader, Blank
  <2>4. Fewer
    BY <2>2, <2>3 DEF Fewer
  <2>5. QED
    BY <2>1, <2>4, Kept DEF UploadInv, HostInv, HostStates
<1>3. CASE Reboot
  <2>1. hosts' = [h \in Hosts |-> Resting] /\ Resting \in HostStates /\ UNCHANGED flash
    BY <1>3 DEF Reboot, Resting, HostStates
  <2>2. SpansDisjoint'
    BY <2>1, FewerKeeps DEF Fewer, UploadInv
  <2>3. QED
    BY <2>1, <2>2 DEF UploadInv, HostInv, Resting
<1>4. QED
  BY <1>1, <1>2, <1>3

\* The invariant, from any flash whose apps are apart.
LEMMA Uploads ==
  ASSUME NEW h, Hosts = {h}
  PROVE  /\ Init /\ SpansDisjoint => UploadInv
         /\ UploadInv /\ [Next]_vars => UploadInv'
<1>1. Init /\ SpansDisjoint => UploadInv
  BY DEF Init, UploadInv, HostInv, Resting, HostStates
<1>2. UploadInv /\ [Next]_vars => UploadInv'
  BY HostStep, KeyboardStep DEF Next
<1>3. QED
  BY <1>1, <1>2

\* The pages a session's windows open: those of the code and the icon, and the data's.
LEMMA Window ==
  ASSUME NEW i \in SlotIds, slot = Base(i), code \in Nat, code <= CodeMax, data \in Nat,
         NEW addr \in Int, NEW grain \in {1, 2}, InUploadRegion(addr, grain, grain),
         NEW p \in addr .. addr + grain - 1
  PROVE  \/ p \in slot .. slot + SaveOffset - 1
         \/ data > 0 /\ p \in slot + SlotPages .. slot + SlotPages * ExpectedSlots(data) - 1
<1> USE NSlotsAssumption DEF SlotIds, Base, AreaBegin, BootBegin, SlotPages, CodeMax, IconOffset,
      SaveOffset, InUploadRegion, InRegion, RoundUp, Down, ExpectedSlots
<1>1. CASE grain = 1
  BY <1>1
<1>2. CASE grain = 2
  BY <1>2
<1>3. QED
  BY <1>1, <1>2

\* They lie in the slots the app was given, and leave its save sector out.
LEMMA WindowSlots ==
  ASSUME NEW i \in SlotIds, NEW n \in Nat, NEW d \in Nat, NEW p \in Int,
         \/ p \in Base(i) .. Base(i) + SaveOffset - 1
         \/ d > 0 /\ n = ExpectedSlots(d) /\ i + n <= NSlots
            /\ p \in Base(i) + SlotPages .. Base(i) + SlotPages * n - 1
  PROVE  /\ SlotOf(p) \in SpanAt(i, n) /\ p >= AreaBegin
         /\ ~(p \in Base(i) + SaveOffset .. Base(i) + SlotPages - 1)
  BY NSlotsAssumption DEF SlotIds, SlotOf, SpanAt, Base, AreaBegin, BootBegin, SlotPages,
     SaveOffset, ExpectedSlots, RoundUp

Grain(o) == IF o.op = "erase" THEN SectorPages ELSE 1
Ops == [op : {"erase", "write"}, addr : Int]

\* The operations the session allows.
Allowed == {o \in Ops : SessionAllows(o.addr, Grain(o), Grain(o))}

\* Operations at every address of a run are a sequence of them.
LEMMA EraseSeq ==
  ASSUME NEW S, NEW lo \in Int, NEW hi \in Int,
         \A addr \in Int : addr >= lo /\ addr + SectorPages <= hi /\ (addr - lo) % SectorPages = 0
                             => [op |-> "erase", addr |-> addr] \in S
  PROVE  Erases(lo, hi) \in Seq(S)
<1> DEFINE n == (hi - lo) \div SectorPages
<1>1. n \in Int
  BY DEF SectorPages
<1>2. Erases(lo, hi) = [k \in 1 .. n |-> [op |-> "erase", addr |-> lo + (k - 1) * SectorPages]]
  BY <1>1 DEF Erases, Addrs
<1>3. ASSUME NEW k \in 1 .. n
      PROVE  [op |-> "erase", addr |-> lo + (k - 1) * SectorPages] \in S
  <2>1. PICK addr \in Int : addr = lo + (k - 1) * SectorPages
    BY <1>1 DEF SectorPages
  <2>2. addr >= lo /\ addr + SectorPages <= hi /\ (addr - lo) % SectorPages = 0
    BY <1>1, <2>1 DEF SectorPages
  <2>3. [op |-> "erase", addr |-> addr] \in S
    BY <2>2
  <2>4. QED
    BY <2>1, <2>3
<1>4. CASE n < 0
  <2>1. 1 .. n = 1 .. 0
    BY <1>1, <1>4
  <2>2. Erases(lo, hi) \in [1 .. 0 -> S]
    <3> HIDE DEF n
    <3> QED
      BY <1>2, <2>1
  <2>3. QED
    BY <2>2
<1>5. CASE n \in Nat
  <2>1. Erases(lo, hi) \in [1 .. n -> S]
    <3> HIDE DEF n
    <3> QED
      BY <1>2, <1>3
  <2> HIDE DEF n
  <2>2. QED
    BY <1>5, <2>1
<1> HIDE DEF n
<1>6. QED
  BY <1>1, <1>4, <1>5

\* So are writes.
LEMMA WriteSeq ==
  ASSUME NEW S, NEW lo \in Int, NEW len \in Nat,
         \A addr \in lo .. lo + len - 1 : [op |-> "write", addr |-> addr] \in S
  PROVE  Writes(lo, len) \in Seq(S)
<1>1. ASSUME NEW k \in 1 .. len  PROVE [op |-> "write", addr |-> lo + k - 1] \in S
  <2>1. PICK addr \in lo .. lo + len - 1 : addr = lo + k - 1
    OBVIOUS
  <2>2. [op |-> "write", addr |-> addr] \in S
    OBVIOUS
  <2>3. QED
    BY <2>1, <2>2
<1>2. QED
  BY <1>1 DEF Writes

\* What the windows of an app's session open.
LEMMA Opens ==
  ASSUME target = "SLOT", NEW i \in SlotIds, slot = Base(i),
         code \in Nat, code <= CodeMax, data \in Nat,
         data > 0 => i + ExpectedSlots(data) <= NSlots,
         NEW addr \in Int, NEW grain \in {1, 2},
         \/ addr >= slot /\ addr + grain <= RoundUp(slot + code, grain)
         \/ addr = slot + (IF grain = 1 THEN IconOffset ELSE IconOffset - 1)
         \/ data > 0 /\ addr >= slot + SlotPages
            /\ addr + grain <= RoundUp(slot + SlotPages + data, grain)
  PROVE  SessionAllows(addr, grain, grain)
<1> USE NSlotsAssumption DEF SlotIds, Base, AreaBegin, AreaEnd, BootBegin, SlotPages, CodeMax,
      IconOffset, SessionAllows, InArea, InUploadRegion, InRegion, RoundUp, Down, ExpectedSlots
<1>1. CASE grain = 1
  BY <1>1
<1>2. CASE grain = 2
  BY <1>2
<1>3. QED
  BY <1>1, <1>2

\* The icon's sector, unless the code's erases, up to end, have reached it.
IconErase(end) ==
  IF slot + IconOffset - 1 < end THEN <<>>
  ELSE Erases(slot + IconOffset - 1, slot + IconOffset - 1 + SectorPages)

\* The parts of the plan for an app, and what is known of their ends.
LEMMA Parts ==
  ASSUME NEW j \in Jobs, Granted(j), j.kind # "boot"
  PROVE  /\ target = "SLOT" /\ slot \in Nat /\ slot % 2 = 0
         /\ code \in Nat /\ 0 < code /\ code <= CodeMax /\ data \in Nat
         /\ \E i \in SlotIds : slot = Base(i) /\ (data > 0 => i + ExpectedSlots(data) <= NSlots)
         /\ Plan(j, slot) = Erases(slot, RoundUp(slot + code, 2))
                            \o IconErase(RoundUp(slot + code, 2))
                            \o Erases(slot + SlotPages, RoundUp(slot + SlotPages + data, 2))
                            \o Writes(slot, code) \o Writes(slot + IconOffset, 1)
                            \o Writes(slot + SlotPages, data)
<1> DEFINE a == Apps[j.app]
           end == EraseEnd(slot + a.code)
           icon == Down(slot + IconOffset, SectorPages)
           d == IF j.codeOnly THEN 0 ELSE a.data
           iconErase == IF icon < end THEN <<>> ELSE Erases(icon, icon + SectorPages)
<1>1. j.kind = "app"
  BY DEF Jobs
<1>2. {a.code, a.data, a.count} \subseteq Nat /\ d \in Nat /\ j.codeOnly \in BOOLEAN
  BY <1>1, AppJob, AppsAssumption
<1>3. PICK i \in SlotIds : slot = Base(i) /\ Reserved(j, i)
  BY DEF Granted
<1>4. /\ target = "SLOT" /\ code = a.code /\ code \in Nat /\ 0 < code /\ code <= CodeMax
      /\ data = d
      /\ data > 0 => i + ExpectedSlots(data) <= NSlots
  BY <1>2, <1>3 DEF Granted, Reserved, SizesOk
<1>5. slot \in Nat /\ slot % 2 = 0
  BY <1>3, NSlotsAssumption DEF SlotIds, Base, AreaBegin, BootBegin, SlotPages
<1>6. Plan(j, slot) = Erases(slot, end) \o iconErase
                      \o Erases(slot + SlotPages, EraseEnd(slot + SlotPages + d))
                      \o Writes(slot, a.code) \o Writes(slot + IconOffset, 1)
                      \o Writes(slot + SlotPages, d)
  BY Zenon DEF Plan
<1> HIDE DEF a, d
<1>7. /\ end = RoundUp(slot + code, 2) /\ icon = slot + IconOffset - 1
      /\ EraseEnd(slot + SlotPages + d) = RoundUp(slot + SlotPages + data, 2)
  <2>1. EraseEnd(slot + a.code) = RoundUp(slot + code, 2)
        /\ EraseEnd(slot + SlotPages + d) = RoundUp(slot + SlotPages + data, 2)
    BY <1>4, Zenon DEF EraseEnd, SectorPages
  <2>2. Down(slot + IconOffset, 2) = slot + IconOffset - 1
    BY <1>5 DEF Down, IconOffset
  <2>3. QED
    BY <2>1, <2>2 DEF SectorPages
<1>8. iconErase = IconErase(RoundUp(slot + code, 2))
  BY <1>7, Zenon DEF IconErase
<1> HIDE DEF end, icon, iconErase
<1>9. Plan(j, slot) = Erases(slot, RoundUp(slot + code, 2))
                      \o IconErase(RoundUp(slot + code, 2))
                      \o Erases(slot + SlotPages, RoundUp(slot + SlotPages + data, 2))
                      \o Writes(slot, code) \o Writes(slot + IconOffset, 1)
                      \o Writes(slot + SlotPages, data)
  BY <1>4, <1>6, <1>7, <1>8, Zenon
<1>10. \E k \in SlotIds : slot = Base(k) /\ (data > 0 => k + ExpectedSlots(data) <= NSlots)
  BY <1>3, <1>4
<1>11. data \in Nat
  BY <1>2, <1>4
<1>12. QED
  BY <1>4, <1>5, <1>9, <1>10, <1>11, Zenon

\* Every operation of a host's plan is allowed by the session it was granted.
LEMMA PlanSeq ==
  ASSUME NEW j \in Jobs, Granted(j)
  PROVE  Plan(j, slot) \in Seq(Allowed)
<1>1. CASE j.kind = "boot"
  <2>1. /\ j.total \in Nat /\ target = "BOOT" /\ slot = BootBegin /\ slot \in Int
        /\ total = j.total /\ total <= AreaBegin - BootBegin
    <3>1. j.total \in Nat
      BY <1>1, SplashesAssumption DEF Jobs
    <3>2. /\ target = "BOOT" /\ slot = BootBegin /\ total = j.total
          /\ total <= AreaBegin - BootBegin
      BY <1>1 DEF Granted
    <3>3. QED
      BY <3>1, <3>2 DEF BootBegin, SlotPages
  <2>2. EraseEnd(slot + j.total) \in Int
    BY <2>1 DEF EraseEnd, RoundUp, SectorPages
  <2>3. ASSUME NEW addr \in Int, addr >= slot, addr + SectorPages <= EraseEnd(slot + j.total)
        PROVE  [op |-> "erase", addr |-> addr] \in Allowed
    <3>1. SessionAllows(addr, SectorPages, SectorPages)
      BY <2>1, <2>3 DEF SessionAllows, InBootUpload, EraseEnd, RoundUp, SectorPages, AreaBegin,
         BootBegin, SlotPages
    <3>2. QED
      BY <3>1 DEF Allowed, Ops, Grain
  <2>4. ASSUME NEW addr \in slot .. slot + j.total - 1
        PROVE  [op |-> "write", addr |-> addr] \in Allowed
    <3>1. addr \in Int /\ SessionAllows(addr, 1, 1)
      BY <2>1 DEF SessionAllows, InBootUpload, RoundUp, AreaBegin, BootBegin, SlotPages
    <3>2. QED
      BY <3>1 DEF Allowed, Ops, Grain
  <2>5. Erases(slot, EraseEnd(slot + j.total)) \in Seq(Allowed)
    BY <2>1, <2>2, <2>3, EraseSeq
  <2>6. Writes(slot, j.total) \in Seq(Allowed)
    BY <2>1, <2>4, WriteSeq
  <2>7. Plan(j, slot) = Erases(slot, EraseEnd(slot + j.total)) \o Writes(slot, j.total)
    BY <1>1, Zenon DEF Plan
  <2>8. QED
    BY <2>5, <2>6, <2>7
<1>2. CASE j.kind # "boot"
  <2> DEFINE end == RoundUp(slot + code, 2)
             dend == RoundUp(slot + SlotPages + data, 2)
             icon == slot + IconOffset - 1
  <2>1. PICK i \in SlotIds : slot = Base(i) /\ (data > 0 => i + ExpectedSlots(data) <= NSlots)
    BY <1>2, Parts
  <2>2. /\ target = "SLOT" /\ slot \in Int /\ slot % 2 = 0
        /\ code \in Nat /\ code <= CodeMax /\ data \in Nat
        /\ Plan(j, slot) = Erases(slot, end) \o IconErase(end) \o Erases(slot + SlotPages, dend)
                           \o Writes(slot, code) \o Writes(slot + IconOffset, 1)
                           \o Writes(slot + SlotPages, data)
    BY <1>2, Parts
  <2>3. /\ end \in Int /\ dend \in Int /\ icon \in Int /\ icon + SectorPages \in Int
        /\ slot + SlotPages \in Int /\ slot + IconOffset \in Int
    BY <2>2 DEF RoundUp, SectorPages, SlotPages, IconOffset
  <2>4. ASSUME NEW addr \in Int,
               \/ addr >= slot /\ addr + 2 <= end
               \/ addr = icon
               \/ data > 0 /\ addr >= slot + SlotPages /\ addr + 2 <= dend
        PROVE  [op |-> "erase", addr |-> addr] \in Allowed
    <3>1. IconOffset - 1 = (IF 2 = 1 THEN IconOffset ELSE IconOffset - 1)
      BY DEF IconOffset
    <3>2. SessionAllows(addr, SectorPages, SectorPages)
      BY <2>1, <2>2, <2>4, <3>1, Opens DEF SectorPages, IconOffset
    <3>3. QED
      BY <3>2 DEF Allowed, Ops, Grain
  <2>5. ASSUME NEW addr \in Int,
               \/ addr >= slot /\ addr + 1 <= slot + code
               \/ addr = slot + IconOffset
               \/ data > 0 /\ addr >= slot + SlotPages /\ addr + 1 <= slot + SlotPages + data
        PROVE  [op |-> "write", addr |-> addr] \in Allowed
    <3>1. /\ RoundUp(slot + code, 1) = slot + code
          /\ RoundUp(slot + SlotPages + data, 1) = slot + SlotPages + data
          /\ IconOffset = (IF 1 = 1 THEN IconOffset ELSE IconOffset - 1)
      BY <2>2 DEF RoundUp, SlotPages
    <3>2. SessionAllows(addr, 1, 1)
      BY <2>1, <2>2, <2>5, <3>1, Opens
    <3>3. QED
      BY <3>2 DEF Allowed, Ops, Grain
  <2>6. ~(data > 0) => dend < slot + SlotPages + 2
    BY <2>2 DEF RoundUp, SlotPages
  <2> HIDE DEF end, dend
  <2>7. Erases(slot, end) \in Seq(Allowed)
    BY <2>2, <2>3, <2>4, EraseSeq DEF SectorPages
  <2>8. IconErase(end) \in Seq(Allowed)
    <3>1. Erases(icon, icon + SectorPages) \in Seq(Allowed)
      <4>1. ASSUME NEW addr \in Int, addr >= icon, addr + SectorPages <= icon + SectorPages
            PROVE  [op |-> "erase", addr |-> addr] \in Allowed
        BY <2>3, <2>4, <4>1 DEF SectorPages
      <4> HIDE DEF icon
      <4>2. QED
        BY <2>3, <4>1, EraseSeq
    <3>2. QED
      BY <3>1 DEF IconErase
  <2>9. Erases(slot + SlotPages, dend) \in Seq(Allowed)
    <3>1. ASSUME NEW addr \in Int, addr >= slot + SlotPages, addr + SectorPages <= dend
          PROVE  [op |-> "erase", addr |-> addr] \in Allowed
      BY <2>2, <2>3, <2>4, <2>6, <3>1 DEF SectorPages
    <3>2. QED
      BY <2>3, <3>1, EraseSeq
  <2>10. /\ Writes(slot, code) \in Seq(Allowed) /\ Writes(slot + IconOffset, 1) \in Seq(Allowed)
         /\ Writes(slot + SlotPages, data) \in Seq(Allowed)
    <3>1. ASSUME NEW addr \in slot .. slot + code - 1
          PROVE  [op |-> "write", addr |-> addr] \in Allowed
      BY <2>2, <2>5
    <3>2. ASSUME NEW addr \in slot + IconOffset .. slot + IconOffset + 1 - 1
          PROVE  [op |-> "write", addr |-> addr] \in Allowed
      BY <2>3, <2>5
    <3>3. ASSUME NEW addr \in slot + SlotPages .. slot + SlotPages + data - 1
          PROVE  [op |-> "write", addr |-> addr] \in Allowed
      BY <2>2, <2>3, <2>5
    <3>4. Writes(slot, code) \in Seq(Allowed)
      BY <2>2, <3>1, WriteSeq
    <3>5. Writes(slot + IconOffset, 1) \in Seq(Allowed)
      BY <2>3, <3>2, WriteSeq
    <3>6. Writes(slot + SlotPages, data) \in Seq(Allowed)
      BY <2>2, <2>3, <3>3, WriteSeq
    <3>7. QED
      BY <3>4, <3>5, <3>6
  <2>11. QED
    BY <2>2, <2>7, <2>8, <2>9, <2>10
<1>3. QED
  BY <1>1, <1>2

\* What a host is about to do is allowed.
LEMMA Planned ==
  ASSUME UploadInv, NEW h \in Hosts, hosts[h].phase # "idle", hosts[h].step <= Len(PlanOf(h))
  PROVE  NextOp(h) \in Allowed
<1>1. /\ hosts[h].job \in Jobs /\ hosts[h].base = slot /\ Granted(hosts[h].job)
      /\ hosts[h].step \in Nat /\ hosts[h].step >= 1
  BY DEF UploadInv, HostInv, HostStates
<1>2. PlanOf(h) \in Seq(Allowed)
  BY <1>1, PlanSeq DEF PlanOf
<1>3. QED
  BY <1>1, <1>2 DEF NextOp

\* The one step that changes the flash under an active session is an operation the
\* session allows.
LEMMA Programs ==
  ASSUME UploadInv, NEW h, Hosts = {h}, [Next]_vars, state' = "ACTIVE",
         NEW p \in Flash, flash'[p] # flash[p]
  PROVE  /\ hosts[h].phase # "idle"
         /\ \E addr \in Int, grain \in {1, 2} :
              SessionAllows(addr, grain, grain) /\ p \in addr .. addr + grain - 1
<1>1. HostOp(h)
  <2>1. CASE \E i \in SlotIds : Uninstall(i)
    BY <2>1 DEF Uninstall, session
  <2>2. CASE \E j \in Jobs : HostBegin(h, j)
    BY <2>2 DEF HostBegin
  <2>3. CASE ~(\E i \in SlotIds : Uninstall(i)) /\ ~(\E j \in Jobs : HostBegin(h, j))
    BY <2>3 DEF Next, Host, HostPoll, HostGiveUp, HostAbort, HostEnd, HostExit, Dialog,
       Install, Cancel, FlashPrompt, FlashCancel, Promote, Linger, LingerTest, LingerStore,
       Reboot, vars
  <2>4. QED
    BY <2>1, <2>2, <2>3
<1>2. PICK o, grain : /\ o = NextOp(h) /\ grain = (IF o.op = "erase" THEN SectorPages ELSE 1)
  OBVIOUS
<1>3. /\ hosts[h].phase = "working" /\ hosts[h].step <= Len(PlanOf(h))
      /\ SessionAllows(o.addr, grain, grain) /\ p \in o.addr .. o.addr + grain - 1
  BY <1>1, <1>2 DEF HostOp
<1>4. o \in Ops
  BY <1>2, <1>3, Planned DEF Allowed
<1>5. QED
  BY <1>2, <1>3, <1>4 DEF Ops, SectorPages

\* A page the session allows is in the boot region, or in the app's own slots.
LEMMA Inside ==
  ASSUME UploadInv, NEW h \in Hosts, hosts[h].phase # "idle",
         NEW addr \in Int, NEW grain \in {1, 2}, SessionAllows(addr, grain, grain),
         NEW p \in addr .. addr + grain - 1
  PROVE  IF target = "BOOT" THEN p < AreaBegin
         ELSE /\ p >= AreaBegin
              /\ ~(p \in slot + SaveOffset .. slot + SlotPages - 1)
              /\ \A i \in SlotIds : (HasHeader(i) /\ Base(i) # slot) => SlotOf(p) \notin Span(i)
<1>1. PICK j \in Jobs : Granted(j)
  BY DEF UploadInv, HostInv
<1>2. CASE j.kind = "boot"
  <2>1. target = "BOOT" /\ total \in Nat /\ InBootUpload(addr, grain, grain)
    BY <1>1, <1>2, SplashesAssumption DEF Granted, SessionAllows, Jobs
  <2>2. RoundUp(BootBegin + total, grain) \in Int
    BY <2>1 DEF RoundUp, BootBegin, SlotPages
  <2>3. p < AreaBegin
    BY <2>1, <2>2 DEF InBootUpload, AreaBegin, BootBegin, SlotPages
  <2>4. QED
    BY <2>1, <2>3
<1>3. CASE j.kind # "boot"
  <2> DEFINE a == Apps[j.app]
  <2>1. j.kind = "app"
    BY <1>3 DEF Jobs
  <2>2. {a.code, a.data, a.count} \subseteq Nat /\ j.codeOnly \in BOOLEAN
    BY <2>1, AppJob, AppsAssumption
  <2>3. PICK i \in SlotIds : slot = Base(i) /\ Reserved(j, i)
    BY <1>1, <1>3 DEF Granted
  <2>4. /\ target = "SLOT" /\ code = a.code /\ SizesOk(a)
        /\ data = IF j.codeOnly THEN 0 ELSE a.data
    BY <1>1, <1>3 DEF Granted
  <2>5. /\ code \in Nat /\ code <= CodeMax /\ data \in Nat
        /\ data > 0 => ~j.codeOnly /\ a.count = ExpectedSlots(data)
    BY <2>2, <2>4 DEF SizesOk
  <2>6. InUploadRegion(addr, grain, grain)
    BY <2>4 DEF SessionAllows
  <2>7. \/ p \in slot .. slot + SaveOffset - 1
        \/ data > 0 /\ p \in slot + SlotPages .. slot + SlotPages * ExpectedSlots(data) - 1
    BY <2>3, <2>5, <2>6, Window
  <2>8. /\ data > 0 => i + a.count <= NSlots
        /\ \A k \in SlotIds : HasHeader(k) /\ k # i => Span(k) \cap SpanAt(i, a.count) = {}
    BY <2>3, <2>5 DEF Reserved
  <2>9. /\ SlotOf(p) \in SpanAt(i, a.count) /\ p >= AreaBegin
        /\ ~(p \in slot + SaveOffset .. slot + SlotPages - 1)
    BY <2>2, <2>3, <2>5, <2>7, <2>8, WindowSlots
  <2>10. QED
    BY <2>3, <2>4, <2>8, <2>9
<1>4. QED
  BY <1>2, <1>3

\* No two apps ever come to claim the same slot (occupied_map, run_free and
\* app_upload_request), for any apps and any number of slots, whatever is asked for,
\* accepted, cut short or uninstalled, with one host_tool at a time.
THEOREM KeptApart ==
  ASSUME NEW h, Hosts = {h}
  PROVE  SpansDisjoint /\ Spec => []SpansDisjoint
<1>1. UploadInv => SpansDisjoint
  BY DEF UploadInv
<1>2. QED
  BY <1>1, Uploads, PTL DEF Spec

\* The host's plan and the firmware's window agree for every size: in an accepted
\* session nothing app_cmds.c sends is refused by session_allows, with one host_tool at
\* a time.
THEOREM NothingRefused ==
  ASSUME NEW h, Hosts = {h}
  PROVE  SpansDisjoint /\ Spec => []PlanAllowed
<1>1. UploadInv => PlanAllowed
  BY Planned, Zenon DEF PlanAllowed, Allowed, Grain
<1>2. QED
  BY <1>1, Uploads, PTL DEF Spec

\* An upload stays in the run of slots its session was given (session_allows with the
\* placement that preceded it): for any apps, images and sizes and any number of slots,
\* it never changes a page of another app or its own save sector, and a boot animation
\* never reaches the slots, with one host_tool at a time.
THEOREM WritesConfined ==
  ASSUME NEW h, Hosts = {h}
  PROVE  SpansDisjoint /\ Spec => ConfinedWrites
<1>1. UploadInv /\ [Next]_vars => [Confined]_vars
  BY Programs, Inside DEF Confined
<1>2. QED
  BY <1>1, Uploads, PTL DEF Spec, ConfinedWrites

(***************************************************************************)
(* The shape of a host's plan: it erases first, and then writes each page once,*)
(* in a sector it has erased.                                              *)
(***************************************************************************)

EraseOps == [op : {"erase"}, addr : Int]
WriteOps == [op : {"write"}, addr : Int]

\* The members of an operation.
LEMMA OpFields ==
  /\ \A o \in EraseOps : o.op = "erase" /\ o.addr \in Int
  /\ \A o \in WriteOps : o.op = "write" /\ o.addr \in Int
  /\ \A addr \in Int : /\ [op |-> "erase", addr |-> addr] \in EraseOps
                       /\ [op |-> "write", addr |-> addr] \in WriteOps
  BY DEF EraseOps, WriteOps

\* A sequence of erases reaches page p.
Covers(E, p) == \E e \in DOMAIN E : p \in E[e].addr .. E[e].addr + SectorPages - 1

\* Writes of pages from lo up to hi, each of a page after the one before.
Rising(W, lo, hi) ==
  /\ W \in Seq(WriteOps)
  /\ \A k \in DOMAIN W : W[k].addr >= lo /\ W[k].addr < hi
  /\ \A k, l \in DOMAIN W : k < l => W[k].addr < W[l].addr

\* A plan erases first, and writes each page once, after erasing the sector it is in.
Shaped(P) ==
  /\ P \in Seq(Ops) /\ P # <<>>
  /\ \A k, l \in DOMAIN P : k < l /\ P[k].op = "write" =>
       P[l].op = "write" /\ P[l].addr # P[k].addr
  /\ \A l \in DOMAIN P : P[l].op = "write" =>
       \E e \in 1 .. l - 1 : /\ P[e].op = "erase"
                             /\ P[l].addr \in P[e].addr .. P[e].addr + SectorPages - 1

\* The erases of a run of whole sectors reach all of its pages.
LEMMA EraseCovers ==
  ASSUME NEW lo \in Int, NEW hi \in Int, (hi - lo) % 2 = 0, NEW p \in lo .. hi - 1
  PROVE  Covers(Erases(lo, hi), p)
<1> DEFINE n == (hi - lo) \div 2
           k == (p - lo) \div 2 + 1
<1>1. Erases(lo, hi) = [e \in 1 .. n |-> [op |-> "erase", addr |-> lo + (e - 1) * 2]]
  BY DEF Erases, Addrs, SectorPages
<1>2. k \in 1 .. n /\ p \in lo + (k - 1) * 2 .. lo + (k - 1) * 2 + 2 - 1
  OBVIOUS
<1> HIDE DEF n, k
<1>3. Erases(lo, hi)[k].addr = lo + (k - 1) * 2 /\ k \in DOMAIN Erases(lo, hi)
  BY <1>1, <1>2
<1>4. QED
  BY <1>2, <1>3 DEF Covers, SectorPages

\* A run of erases is a sequence of them.
LEMMA EraseRun ==
  ASSUME NEW lo \in Int, NEW hi \in Int
  PROVE  Erases(lo, hi) \in Seq(EraseOps)
  BY OpFields, EraseSeq

\* What either of two sequences of erases reaches, one after the other reaches.
LEMMA CoverJoin ==
  ASSUME NEW E \in Seq(EraseOps), NEW F \in Seq(EraseOps), NEW p,
         Covers(E, p) \/ Covers(F, p)
  PROVE  E \o F \in Seq(EraseOps) /\ Covers(E \o F, p)
<1>1. /\ E \o F \in Seq(EraseOps) /\ Len(E \o F) = Len(E) + Len(F)
      /\ \A e \in 1 .. Len(E) + Len(F) :
           (E \o F)[e] = IF e <= Len(E) THEN E[e] ELSE F[e - Len(E)]
  BY ConcatProperties
<1>2. CASE Covers(E, p)
  <2>1. PICK e \in 1 .. Len(E) : p \in E[e].addr .. E[e].addr + SectorPages - 1
    BY <1>2 DEF Covers
  <2>2. e \in DOMAIN (E \o F) /\ (E \o F)[e] = E[e]
    BY <1>1, <2>1
  <2>3. QED
    BY <1>1, <2>1, <2>2 DEF Covers
<1>3. CASE Covers(F, p)
  <2>1. PICK f \in 1 .. Len(F) : p \in F[f].addr .. F[f].addr + SectorPages - 1
    BY <1>3 DEF Covers
  <2>2. PICK e \in 1 .. Len(E) + Len(F) : e = Len(E) + f
    BY <2>1
  <2>3. e \in DOMAIN (E \o F) /\ (E \o F)[e] = F[f]
    BY <1>1, <2>1, <2>2
  <2>4. QED
    BY <1>1, <2>1, <2>3 DEF Covers
<1>4. QED
  BY <1>2, <1>3

\* Where a run of writes goes.
LEMMA RisingAt ==
  ASSUME NEW W, NEW lo \in Int, NEW hi \in Int, Rising(W, lo, hi), NEW k \in DOMAIN W
  PROVE  W[k].addr \in lo .. hi - 1
<1>1. W[k] \in WriteOps
  BY DEF Rising
<1>2. W[k].addr \in Int
  BY <1>1, OpFields
<1>3. QED
  BY <1>2 DEF Rising

\* The writes of a run of pages rise.
LEMMA WriteRun ==
  ASSUME NEW lo \in Int, NEW len \in Nat
  PROVE  Rising(Writes(lo, len), lo, lo + len)
<1>1. Writes(lo, len) = [k \in 1 .. len |-> [op |-> "write", addr |-> lo + k - 1]]
  BY DEF Writes
<1>2. Writes(lo, len) \in Seq(WriteOps)
  <2>1. \A addr \in lo .. lo + len - 1 : [op |-> "write", addr |-> addr] \in WriteOps
    BY DEF WriteOps
  <2>2. QED
    BY <2>1, WriteSeq
<1>3. \A k \in 1 .. len : Writes(lo, len)[k].addr = lo + k - 1
  BY <1>1
<1>4. DOMAIN Writes(lo, len) = 1 .. len
  BY <1>1
<1>5. QED
  BY <1>2, <1>3, <1>4 DEF Rising

\* Writes further up go on rising.
LEMMA RisingJoin ==
  ASSUME NEW V, NEW W, NEW lo \in Int, NEW mid \in Int, NEW next \in Int, NEW hi \in Int,
         Rising(V, lo, mid), Rising(W, next, hi), mid <= next, lo <= next, mid <= hi
  PROVE  Rising(V \o W, lo, hi)
<1>1. /\ V \in Seq(WriteOps) /\ W \in Seq(WriteOps)
      /\ V \o W \in Seq(WriteOps) /\ Len(V \o W) = Len(V) + Len(W)
      /\ \A k \in 1 .. Len(V) + Len(W) :
           (V \o W)[k] = IF k <= Len(V) THEN V[k] ELSE W[k - Len(V)]
  BY ConcatProperties DEF Rising
<1>2. \A k \in 1 .. Len(V) : V[k].addr \in Int /\ V[k].addr >= lo /\ V[k].addr < mid
  BY <1>1, OpFields DEF Rising
<1>3. \A k \in 1 .. Len(W) : W[k].addr \in Int /\ W[k].addr >= next /\ W[k].addr < hi
  BY <1>1, OpFields DEF Rising
<1>4. ASSUME NEW k \in 1 .. Len(V) + Len(W)
      PROVE  /\ (V \o W)[k].addr >= lo /\ (V \o W)[k].addr < hi
             /\ \A l \in 1 .. Len(V) + Len(W) : k < l => (V \o W)[k].addr < (V \o W)[l].addr
  <2>1. Len(V) \in Nat /\ Len(W) \in Nat
    BY <1>1
  <2>2. CASE k <= Len(V)
    <3>1. (V \o W)[k] = V[k]
      BY <1>1, <2>2
    <3>2. ASSUME NEW l \in 1 .. Len(V) + Len(W), k < l  PROVE V[k].addr < (V \o W)[l].addr
      <4>1. CASE l <= Len(V)
        BY <1>1, <2>1, <2>2, <3>2, <4>1 DEF Rising
      <4>2. CASE ~(l <= Len(V))
        <5>1. (V \o W)[l] = W[l - Len(V)] /\ l - Len(V) \in 1 .. Len(W)
          BY <1>1, <2>1, <4>2
        <5>2. QED
          BY <1>2, <1>3, <2>1, <2>2, <5>1
      <4>3. QED
        BY <4>1, <4>2
    <3>3. QED
      BY <1>2, <2>1, <2>2, <3>1, <3>2
  <2>3. CASE ~(k <= Len(V))
    <3>1. (V \o W)[k] = W[k - Len(V)] /\ k - Len(V) \in 1 .. Len(W)
      BY <1>1, <2>1, <2>3
    <3>2. ASSUME NEW l \in 1 .. Len(V) + Len(W), k < l
          PROVE  W[k - Len(V)].addr < (V \o W)[l].addr
      <4>1. (V \o W)[l] = W[l - Len(V)] /\ l - Len(V) \in 1 .. Len(W)
              /\ k - Len(V) < l - Len(V)
        BY <1>1, <2>1, <2>3, <3>2
      <4>2. QED
        BY <1>1, <3>1, <4>1 DEF Rising
    <3>3. QED
      BY <1>3, <3>1, <3>2
  <2>4. QED
    BY <2>2, <2>3
<1>5. QED
  BY <1>1, <1>4 DEF Rising

\* Erases E reach every page that W writes.
Reached(W, E) == \A k \in DOMAIN W : Covers(E, W[k].addr)

\* What is reached in both parts is reached in the whole.
LEMMA ReachedJoin ==
  ASSUME NEW V \in Seq(WriteOps), NEW W \in Seq(WriteOps), NEW E, Reached(V, E), Reached(W, E)
  PROVE  Reached(V \o W, E)
<1>1. /\ V \o W \in Seq(WriteOps) /\ Len(V \o W) = Len(V) + Len(W)
      /\ \A k \in 1 .. Len(V) + Len(W) :
           (V \o W)[k] = IF k <= Len(V) THEN V[k] ELSE W[k - Len(V)]
  BY ConcatProperties
<1>2. ASSUME NEW k \in 1 .. Len(V) + Len(W)  PROVE Covers(E, (V \o W)[k].addr)
  <2>1. CASE k <= Len(V)
    BY <1>1, <2>1 DEF Reached
  <2>2. CASE ~(k <= Len(V))
    <3>1. k - Len(V) \in DOMAIN W
      BY <2>2
    <3>2. QED
      BY <1>1, <2>2, <3>1 DEF Reached
  <2>3. QED
    BY <2>1, <2>2
<1>3. QED
  BY <1>1, <1>2 DEF Reached

\* Erases, and then writes of pages they reach, make a plan.
LEMMA ShapedJoin ==
  ASSUME NEW E \in Seq(EraseOps), NEW W, NEW lo, NEW hi, Rising(W, lo, hi),
         Reached(W, E), E # <<>> \/ W # <<>>
  PROVE  Shaped(E \o W)
<1> DEFINE P == E \o W
<1>1. E \in Seq(Ops) /\ W \in Seq(Ops) /\ W \in Seq(WriteOps)
  <2>1. EraseOps \subseteq Ops /\ WriteOps \subseteq Ops
    BY DEF EraseOps, WriteOps, Ops
  <2>2. W \in Seq(WriteOps)
    BY DEF Rising
  <2>3. QED
    BY <2>1, <2>2
<1>2. /\ P \in Seq(Ops) /\ Len(P) = Len(E) + Len(W) /\ Len(E) \in Nat /\ Len(W) \in Nat
      /\ \A k \in 1 .. Len(E) + Len(W) : P[k] = IF k <= Len(E) THEN E[k] ELSE W[k - Len(E)]
  BY <1>1, ConcatProperties
<1>3. P # <<>>
  BY <1>1, ConcatEqualIffEmpty
<1> HIDE DEF P
<1>4. ASSUME NEW k \in 1 .. Len(E)  PROVE P[k] = E[k] /\ P[k].op = "erase"
  BY <1>2, OpFields
<1>5. ASSUME NEW k \in 1 .. Len(P), ~(k <= Len(E))
      PROVE  k - Len(E) \in 1 .. Len(W) /\ P[k] = W[k - Len(E)] /\ P[k].op = "write"
  <2>1. k - Len(E) \in 1 .. Len(W) /\ P[k] = W[k - Len(E)]
    BY <1>2, <1>5
  <2>2. QED
    BY <1>1, <2>1, OpFields
<1>6. ASSUME NEW k \in DOMAIN P, NEW l \in DOMAIN P, k < l, P[k].op = "write"
      PROVE  P[l].op = "write" /\ P[l].addr # P[k].addr
  <2>1. k \in 1 .. Len(P) /\ l \in 1 .. Len(P) /\ ~(k <= Len(E)) /\ ~(l <= Len(E))
    BY <1>2, <1>4, <1>6
  <2>2. /\ k - Len(E) \in DOMAIN W /\ l - Len(E) \in DOMAIN W /\ k - Len(E) < l - Len(E)
        /\ P[k] = W[k - Len(E)] /\ P[l] = W[l - Len(E)] /\ P[l].op = "write"
    BY <1>1, <1>2, <1>5, <1>6, <2>1
  <2>3. W[k - Len(E)].addr < W[l - Len(E)].addr
    BY <2>2 DEF Rising
  <2>4. W[k - Len(E)].addr \in Int /\ W[l - Len(E)].addr \in Int
    BY <1>1, <2>2, OpFields
  <2>5. QED
    BY <2>2, <2>3, <2>4
<1>7. ASSUME NEW l \in DOMAIN P, P[l].op = "write"
      PROVE  \E e \in 1 .. l - 1 : /\ P[e].op = "erase"
                                   /\ P[l].addr \in P[e].addr .. P[e].addr + SectorPages - 1
  <2>1. l \in 1 .. Len(P) /\ ~(l <= Len(E))
    BY <1>2, <1>4, <1>7
  <2>2. l - Len(E) \in DOMAIN W /\ P[l] = W[l - Len(E)]
    BY <1>1, <1>5, <2>1
  <2>3. PICK e \in DOMAIN E : P[l].addr \in E[e].addr .. E[e].addr + SectorPages - 1
    BY <2>2 DEF Covers, Reached
  <2>4. e \in 1 .. Len(E) /\ e \in 1 .. l - 1
    BY <1>2, <2>1, <2>3
  <2>5. QED
    BY <1>4, <2>3, <2>4
<1>8. QED
  BY <1>2, <1>3, <1>6, <1>7 DEF Shaped, P

\* The plan of any job a session was granted erases what it writes, and nothing after.
LEMMA PlanShape ==
  ASSUME NEW j \in Jobs, Granted(j)
  PROVE  Shaped(Plan(j, slot))
<1>1. CASE j.kind = "boot"
  <2>1. /\ j.total \in Nat /\ j.total # 0 /\ slot \in Int /\ slot % 2 = 0
    <3>1. j.total \in Nat
      BY <1>1, SplashesAssumption DEF Jobs
    <3>2. slot = BootBegin /\ j.total # 0
      BY <1>1 DEF Granted
    <3>3. QED
      BY <3>1, <3>2 DEF BootBegin, SlotPages
  <2> DEFINE end == EraseEnd(slot + j.total)
  <2>2. end \in Int /\ (end - slot) % 2 = 0 /\ slot + j.total <= end
    BY <2>1 DEF EraseEnd, RoundUp, SectorPages
  <2> HIDE DEF end
  <2>3. Rising(Writes(slot, j.total), slot, slot + j.total)
    BY <2>1, WriteRun
  <2>4. Erases(slot, end) \in Seq(EraseOps)
    BY <2>1, <2>2, EraseRun
  <2>5. ASSUME NEW k \in DOMAIN Writes(slot, j.total)
        PROVE  Covers(Erases(slot, end), Writes(slot, j.total)[k].addr)
    <3>1. Writes(slot, j.total)[k].addr \in slot .. slot + j.total - 1
      BY <2>1, <2>3, RisingAt
    <3>2. PICK p \in slot .. end - 1 : p = Writes(slot, j.total)[k].addr
      BY <2>1, <2>2, <3>1
    <3>3. QED
      BY <2>1, <2>2, <3>2, EraseCovers
  <2>6. Writes(slot, j.total) # <<>>
    BY <2>1 DEF Writes
  <2>7. Shaped(Erases(slot, end) \o Writes(slot, j.total))
    BY <2>3, <2>4, <2>5, <2>6, ShapedJoin DEF Reached
  <2>8. Plan(j, slot) = Erases(slot, end) \o Writes(slot, j.total)
    BY <1>1, Zenon DEF Plan, end
  <2>9. QED
    BY <2>7, <2>8
<1>2. CASE j.kind # "boot"
  <2> DEFINE end == RoundUp(slot + code, 2)
             dend == RoundUp(slot + SlotPages + data, 2)
             icon == slot + IconOffset - 1
             E1 == Erases(slot, end)
             E2 == IconErase(end)
             E3 == Erases(slot + SlotPages, dend)
             W1 == Writes(slot, code)
             W2 == Writes(slot + IconOffset, 1)
             W3 == Writes(slot + SlotPages, data)
             E  == (E1 \o E2) \o E3
             W  == (W1 \o W2) \o W3
  <2>1. /\ slot \in Int /\ slot % 2 = 0
        /\ code \in Nat /\ 0 < code /\ code <= CodeMax /\ data \in Nat
    BY <1>2, Parts
  <2>2. Plan(j, slot) = (((((E1 \o E2) \o E3) \o W1) \o W2) \o W3)
    BY <1>2, Parts
  <2>3. /\ end \in Int /\ (end - slot) % 2 = 0 /\ slot + code <= end
        /\ dend \in Int /\ (dend - (slot + SlotPages)) % 2 = 0
        /\ slot + SlotPages + data <= dend
        /\ icon \in Int /\ (icon + SectorPages - icon) % 2 = 0 /\ icon % 2 = 0
        /\ slot + SlotPages \in Int /\ slot + IconOffset \in Int /\ icon + SectorPages \in Int
    BY <2>1 DEF RoundUp, SectorPages, SlotPages, IconOffset
  <2>4. icon < end => slot + IconOffset < end
    BY <2>1, <2>3 DEF IconOffset
  <2> HIDE DEF end, dend
  <2>5. E1 \in Seq(EraseOps) /\ E3 \in Seq(EraseOps) /\ E2 \in Seq(EraseOps)
    <3>1. Erases(icon, icon + SectorPages) \in Seq(EraseOps)
      BY <2>3, EraseRun
    <3>2. IconErase(end) \in Seq(EraseOps)
      BY <3>1 DEF IconErase
    <3>3. QED
      BY <2>1, <2>3, <3>2, EraseRun
  <2>6. /\ Rising(W1, slot, slot + code)
        /\ Rising(W2, slot + IconOffset, slot + IconOffset + 1)
        /\ Rising(W3, slot + SlotPages, slot + SlotPages + data)
    BY <2>1, <2>3, WriteRun
  <2>7. \A p \in slot .. end - 1 : Covers(E1, p)
    BY <2>1, <2>3, EraseCovers
  <2>8. \A p \in slot + SlotPages .. dend - 1 : Covers(E3, p)
    BY <2>3, EraseCovers
  <2>9. Covers(E1, slot + IconOffset) \/ Covers(E2, slot + IconOffset)
    <3>1. CASE icon < end
      <4>1. slot + IconOffset \in slot .. end - 1
        BY <2>1, <2>3, <2>4, <3>1 DEF IconOffset
      <4>2. QED
        BY <2>7, <4>1
    <3>2. CASE ~(icon < end)
      <4>1. E2 = Erases(icon, icon + SectorPages)
        BY <3>2 DEF IconErase
      <4>2. slot + IconOffset \in icon .. icon + SectorPages - 1
        BY <2>1 DEF IconOffset, SectorPages
      <4> HIDE DEF icon, E1, E2
      <4>3. icon \in Int /\ icon + 2 \in Int /\ (icon + 2 - icon) % 2 = 0
        BY <2>3 DEF SectorPages
      <4>4. Covers(Erases(icon, icon + 2), slot + IconOffset)
        BY <4>2, <4>3, EraseCovers DEF SectorPages
      <4>5. QED
        BY <4>1, <4>4 DEF SectorPages
    <3>3. QED
      BY <3>1, <3>2
  <2> HIDE DEF E1, E2, E3, W1, W2, W3, icon
  <2>10. /\ E1 \o E2 \in Seq(EraseOps) /\ E \in Seq(EraseOps)
         /\ \A p : Covers(E1, p) \/ Covers(E2, p) \/ Covers(E3, p) => Covers(E, p)
    <3>1. E1 \o E2 \in Seq(EraseOps) /\ E \in Seq(EraseOps)
      BY <2>5, ConcatProperties
    <3>2. ASSUME NEW p, Covers(E1, p) \/ Covers(E2, p)  PROVE Covers(E1 \o E2, p)
      BY <2>5, <3>2, CoverJoin
    <3>3. ASSUME NEW p, Covers(E1 \o E2, p) \/ Covers(E3, p)  PROVE Covers(E, p)
      BY <2>5, <3>1, <3>3, CoverJoin
    <3>4. QED
      BY <3>1, <3>2, <3>3
  <2>11. Rising(W1 \o W2, slot, slot + IconOffset + 1)
    BY <2>1, <2>3, <2>6, RisingJoin DEF CodeMax, IconOffset
  <2>12. Rising(W, slot, slot + SlotPages + data)
    BY <2>1, <2>3, <2>11, <2>6, RisingJoin DEF SlotPages, IconOffset
  <2>13. Reached(W, E)
    <3>1. ASSUME NEW k \in DOMAIN W1  PROVE Covers(E, W1[k].addr)
      <4>1. W1[k].addr \in slot .. slot + code - 1
        BY <2>1, <2>6, RisingAt
      <4>2. W1[k].addr \in slot .. end - 1
        BY <2>1, <2>3, <4>1
      <4>3. QED
        BY <2>7, <2>10, <4>2
    <3>2. ASSUME NEW k \in DOMAIN W2  PROVE Covers(E, W2[k].addr)
      <4>1. W2[k].addr \in slot + IconOffset .. slot + IconOffset + 1 - 1
        BY <2>3, <2>6, RisingAt
      <4>2. W2[k].addr = slot + IconOffset
        BY <2>3, <4>1
      <4>3. QED
        BY <2>9, <2>10, <4>2
    <3>3. ASSUME NEW k \in DOMAIN W3  PROVE Covers(E, W3[k].addr)
      <4>1. W3[k].addr \in slot + SlotPages .. slot + SlotPages + data - 1
        BY <2>1, <2>3, <2>6, RisingAt
      <4>2. W3[k].addr \in slot + SlotPages .. dend - 1
        BY <2>1, <2>3, <4>1
      <4>3. QED
        BY <2>8, <2>10, <4>2
    <3>4. /\ W1 \in Seq(WriteOps) /\ W2 \in Seq(WriteOps) /\ W3 \in Seq(WriteOps)
          /\ W1 \o W2 \in Seq(WriteOps)
      BY <2>6, <2>11 DEF Rising
    <3> HIDE DEF E
    <3>5. Reached(W1, E) /\ Reached(W2, E) /\ Reached(W3, E)
      BY <3>1, <3>2, <3>3 DEF Reached
    <3>6. Reached(W1 \o W2, E)
      BY <3>4, <3>5, ReachedJoin
    <3>7. QED
      BY <3>4, <3>5, <3>6, ReachedJoin
  <2>14. W # <<>>
    <3>1. W1 # <<>>
      BY <2>1 DEF Writes, W1
    <3>2. /\ W1 \in Seq(WriteOps) /\ W2 \in Seq(WriteOps) /\ W3 \in Seq(WriteOps)
          /\ W1 \o W2 \in Seq(WriteOps)
      BY <2>6, <2>11 DEF Rising
    <3>3. W1 \o W2 # <<>>
      BY <3>1, <3>2, ConcatEqualIffEmpty
    <3>4. QED
      BY <3>2, <3>3, ConcatEqualIffEmpty
  <2>15. Shaped(E \o W)
    BY <2>10, <2>12, <2>13, <2>14, ShapedJoin
  <2>16. Plan(j, slot) = E \o W
    <3>1. /\ E \in Seq(Ops) /\ W1 \in Seq(Ops) /\ W2 \in Seq(Ops) /\ W3 \in Seq(Ops)
      <4>1. EraseOps \subseteq Ops /\ WriteOps \subseteq Ops
        BY DEF EraseOps, WriteOps, Ops
      <4>2. QED
        BY <2>6, <2>10, <4>1 DEF Rising
    <3> HIDE DEF E
    <3>2. (E \o W1) \o W2 = E \o (W1 \o W2) /\ W1 \o W2 \in Seq(Ops)
      BY <3>1, ConcatAssociative, ConcatProperties
    <3>3. (E \o (W1 \o W2)) \o W3 = E \o W
      BY <3>1, <3>2, ConcatAssociative
    <3>4. QED
      BY <2>2, <3>2, <3>3 DEF E
  <2>17. QED
    BY <2>15, <2>16
<1>3. QED
  BY <1>1, <1>2

(***************************************************************************)
(* What a host has done of its plan, and that DONE shows all of it.        *)
(***************************************************************************)

\* One of a plan's first s - 1 operations erased the sector of page p.
Covered(P, s, p) ==
  \E e \in 1 .. s - 1 : P[e].op = "erase" /\ p \in P[e].addr .. P[e].addr + SectorPages - 1

\* What page p holds of a job's package placed at b.
Sent(j, b, p) == <<IF j.kind = "boot" THEN Splash ELSE j.app, p - b>>

\* What the first s - 1 operations of plan P leave in flash f: the pages they wrote, and
\* blank ones for those yet to be written in the sectors they erased.
Written(f, P, s, j, b) ==
  \A k \in DOMAIN P : P[k].op = "write" =>
    /\ k < s => f[P[k].addr] = Sent(j, b, P[k].addr)
    /\ (k >= s /\ Covered(P, s, P[k].addr)) => f[P[k].addr] = Blank

Ready(h) == Written(flash, PlanOf(h), hosts[h].step, hosts[h].job, hosts[h].base)

\* How far a host has come, and what keeps the others' hands off what it wrote: from its
\* first operation to the end of the banner the session is active or done, no dialog can
\* end it, and nothing is uninstalled.
Busy(h) ==
  /\ hosts[h].phase = "polling" =>
       hosts[h].step = 1 /\ (dlg = "upload" => state \in {"PENDING", "IDLE"})
  /\ hosts[h].phase \in {"working", "verify"} => dlg # "upload"
  /\ hosts[h].phase = "working" =>
       /\ state # "DONE" /\ Ready(h)
       /\ hosts[h].step > 1 => state = "ACTIVE" /\ linger = "idle"
  /\ hosts[h].phase = "verify" =>
       hosts[h].step > Len(PlanOf(h)) /\ (state = "DONE" => Ready(h))

DoneInv == UploadInv /\ \A h \in Hosts : Busy(h)

\* A host that has done nothing has no page to answer for.
LEMMA NothingWritten ==
  ASSUME NEW f, NEW P \in Seq(Ops), NEW j, NEW b
  PROVE  Written(f, P, 1, j, b)
<1>1. \A p : ~Covered(P, 1, p)
  BY DEF Covered
<1>2. QED
  BY <1>1 DEF Written

\* The next operation of a plan keeps what the ones before it did.
LEMMA WrittenOn ==
  ASSUME NEW P, Shaped(P), NEW s \in 1 .. Len(P), NEW f, NEW g, NEW j, NEW b,
         Written(f, P, s, j, b),
         \A k \in DOMAIN P : P[k].op = "write" => P[k].addr \in Flash,
         g = [p \in Flash |->
                IF p \notin P[s].addr .. P[s].addr + Grain(P[s]) - 1 THEN f[p]
                ELSE IF P[s].op = "erase" THEN Blank ELSE Program(f[p], Sent(j, b, p))]
  PROVE  Written(g, P, s + 1, j, b)
<1>1. P \in Seq(Ops) /\ \A k \in DOMAIN P : P[k].op \in {"erase", "write"} /\ P[k].addr \in Int
  <2>1. \A o \in Ops : o.op \in {"erase", "write"} /\ o.addr \in Int
    BY DEF Ops
  <2>2. QED
    BY <2>1 DEF Shaped
<1> SUFFICES ASSUME NEW k \in DOMAIN P, P[k].op = "write"
             PROVE  /\ k < s + 1 => g[P[k].addr] = Sent(j, b, P[k].addr)
                    /\ (k >= s + 1 /\ Covered(P, s + 1, P[k].addr)) => g[P[k].addr] = Blank
  BY DEF Written
<1> DEFINE p == P[k].addr
           o == P[s]
<1>2. /\ p \in Flash /\ p \in Int /\ k \in Nat /\ s \in Nat /\ s \in DOMAIN P
      /\ o.addr \in Int /\ o.op \in {"erase", "write"}
  BY <1>1
<1>3. g[p] = IF p \notin o.addr .. o.addr + Grain(o) - 1 THEN f[p]
             ELSE IF o.op = "erase" THEN Blank ELSE Program(f[p], Sent(j, b, p))
  BY <1>2
<1>4. /\ k < s => f[p] = Sent(j, b, p)
      /\ (k >= s /\ Covered(P, s, p)) => f[p] = Blank
  BY DEF Written
<1>5. CASE o.op = "erase"
  <2>1. ~(k < s) /\ k # s
    BY <1>2, <1>5 DEF Shaped
  <2>2. Covered(P, s + 1, p) => Covered(P, s, p) \/ p \in o.addr .. o.addr + Grain(o) - 1
    BY <1>2, <1>5 DEF Covered, Grain
  <2> HIDE DEF p, o
  <2>3. QED
    BY <1>2, <1>3, <1>4, <1>5, <2>1, <2>2 DEF p
<1>6. CASE o.op = "write"
  <2>1. k # s => p # o.addr
    BY <1>2, <1>6 DEF Shaped
  <2>2. k = s => Covered(P, s, p) /\ p = o.addr
    BY <1>2, <1>6 DEF Covered, Shaped
  <2>3. Covered(P, s + 1, p) => Covered(P, s, p)
    BY <1>2, <1>6 DEF Covered
  <2>4. p \in o.addr .. o.addr + Grain(o) - 1 <=> p = o.addr
    BY <1>2, <1>6 DEF Grain
  <2> HIDE DEF p, o
  <2>5. CASE k = s
    <3>1. g[p] = Sent(j, b, p)
      BY <1>3, <1>2, <1>4, <1>6, <2>2, <2>4, <2>5 DEF Program
    <3>2. QED
      BY <1>2, <2>5, <3>1 DEF p
  <2>6. CASE k # s
    <3>1. g[p] = f[p]
      BY <1>3, <2>1, <2>4, <2>6
    <3>2. QED
      BY <1>2, <1>4, <2>3, <2>6, <3>1 DEF p
  <2>7. QED
    BY <2>5, <2>6
<1>7. QED
  BY <1>2, <1>5, <1>6

\* The pages a granted plan writes are flash.
LEMMA InFlash ==
  ASSUME NEW j \in Jobs, Granted(j), NEW k \in DOMAIN Plan(j, slot), Plan(j, slot)[k].op = "write"
  PROVE  Plan(j, slot)[k].addr \in Flash
<1>1. Plan(j, slot)[k] \in Allowed
  BY PlanSeq
<1>2. PICK addr \in Int : addr = Plan(j, slot)[k].addr /\ SessionAllows(addr, 1, 1)
  BY <1>1 DEF Allowed, Ops, Grain
<1>3. CASE target = "BOOT"
  <2>2. addr >= BootBegin /\ addr + 1 <= AreaBegin
    <3>1. j.kind = "boot" /\ total \in Nat /\ total <= AreaBegin - BootBegin
      BY <1>3, SplashesAssumption DEF Granted, Jobs
    <3>2. QED
      BY <1>2, <1>3, <3>1 DEF SessionAllows, InBootUpload, RoundUp, BootBegin, AreaBegin, SlotPages
  <2>3. QED
    BY <1>2, <2>2, NSlotsAssumption DEF Flash, BootBegin, AreaBegin, AreaEnd, SlotPages
<1>4. CASE target # "BOOT"
  BY <1>2, <1>4, NSlotsAssumption DEF SessionAllows, InArea, Flash, BootBegin, AreaBegin, AreaEnd,
     SlotPages
<1>5. QED
  BY <1>2, <1>3, <1>4

\* What is known of a host's plan while it is at work.
LEMMA OwnPlan ==
  ASSUME UploadInv, NEW h \in Hosts, hosts[h].phase # "idle"
  PROVE  /\ Shaped(PlanOf(h)) /\ PlanOf(h) \in Seq(Ops)
         /\ Len(PlanOf(h)) \in Nat /\ Len(PlanOf(h)) >= 1
         /\ hosts[h].step \in Nat /\ hosts[h].step >= 1
         /\ \A k \in DOMAIN PlanOf(h) : PlanOf(h)[k].op = "write" => PlanOf(h)[k].addr \in Flash
<1>1. /\ hosts[h].job \in Jobs /\ hosts[h].base = slot /\ Granted(hosts[h].job)
      /\ hosts[h].step \in Nat /\ hosts[h].step >= 1
  BY DEF UploadInv, HostInv, HostStates
<1>2. PICK P : P = PlanOf(h)
  OBVIOUS
<1>3. P = Plan(hosts[h].job, slot)
  BY <1>1, <1>2 DEF PlanOf
<1>4. Shaped(P) /\ \A k \in DOMAIN P : P[k].op = "write" => P[k].addr \in Flash
  BY <1>1, <1>3, PlanShape, InFlash
<1>5. P \in Seq(Ops) /\ Len(P) \in Nat /\ Len(P) >= 1
  BY <1>4, EmptySeq, LenProperties DEF Shaped
<1>6. QED
  BY <1>1, <1>2, <1>4, <1>5

\* An operation goes on with the plan, or is refused and ends the host's work.
LEMMA BusyOp ==
  ASSUME UploadInv, NEW h \in Hosts, Busy(h), HostOp(h)
  PROVE  Busy(h)'
<1> DEFINE o == NextOp(h)
           s == hosts[h].step
           P == PlanOf(h)
<1>1. /\ hosts[h].phase = "working" /\ s <= Len(P) /\ hosts \in [Hosts -> HostStates]
      /\ dlg # "upload" /\ Ready(h) /\ UNCHANGED <<dlg, linger>>
  BY DEF HostOp, Busy, UploadInv, HostInv
<1>2. CASE hosts' = [hosts EXCEPT ![h].phase = "abort"]
  <2>1. hosts'[h].phase = "abort"
    BY <1>1, <1>2
  <2>2. QED
    BY <2>1 DEF Busy
<1>3. CASE /\ linger = "idle" /\ state' = "ACTIVE"
           /\ flash' = [p \in Flash |->
                IF p \notin o.addr .. o.addr + Grain(o) - 1 THEN flash[p]
                ELSE IF o.op = "erase" THEN Blank ELSE Program(flash[p], Content(h, p))]
           /\ hosts' = [hosts EXCEPT ![h].step = @ + 1]
  <2>1. /\ hosts'[h].phase = "working" /\ hosts'[h].step = s + 1
        /\ hosts'[h].job = hosts[h].job /\ hosts'[h].base = hosts[h].base
    BY <1>1, <1>3 DEF HostStates
  <2>2. /\ Shaped(P) /\ s \in 1 .. Len(P)
        /\ \A k \in DOMAIN P : P[k].op = "write" => P[k].addr \in Flash
    BY <1>1, OwnPlan
  <2>3. \A p : Content(h, p) = Sent(hosts[h].job, hosts[h].base, p)
    BY DEF Content, Sent
  <2>4. flash' = [p \in Flash |->
           IF p \notin P[s].addr .. P[s].addr + Grain(P[s]) - 1 THEN flash[p]
           ELSE IF P[s].op = "erase" THEN Blank
           ELSE Program(flash[p], Sent(hosts[h].job, hosts[h].base, p))]
    BY <1>3, <2>3, Zenon DEF NextOp
  <2>5. Written(flash, P, s, hosts[h].job, hosts[h].base)
    BY <1>1, Zenon DEF Ready
  <2>6. Written(flash', P, s + 1, hosts[h].job, hosts[h].base)
    BY <2>2, <2>4, <2>5, WrittenOn
  <2>7. PlanOf(h)' = P
    BY <2>1, Zenon DEF PlanOf
  <2>8. Ready(h)'
    BY <2>1, <2>6, <2>7, Zenon DEF Ready
  <2>9. QED
    BY <1>1, <1>3, <2>1, <2>8 DEF Busy
<1>4. QED
  <2>1. \/ hosts' = [hosts EXCEPT ![h].phase = "abort"]
        \/ /\ linger = "idle" /\ state' = "ACTIVE"
           /\ flash' = [p \in Flash |->
                IF p \notin o.addr .. o.addr + Grain(o) - 1 THEN flash[p]
                ELSE IF o.op = "erase" THEN Blank ELSE Program(flash[p], Content(h, p))]
           /\ hosts' = [hosts EXCEPT ![h].step = @ + 1]
    BY Zenon DEF HostOp, Phase, Grain
  <2>2. QED
    BY <1>2, <1>3, <2>1

\* A host that rests, or gives up, has nothing to answer for.
LEMMA Idle ==
  ASSUME NEW h \in Hosts, hosts'[h].phase \in {"idle", "abort"}
  PROVE  Busy(h)'
  BY DEF Busy

\* Its other steps: asked again for the answer, or ended, it has what it had.
LEMMA BusyHost ==
  ASSUME UploadInv, NEW h \in Hosts, Busy(h), Host(h)
  PROVE  Busy(h)'
<1>0. hosts \in [Hosts -> HostStates]
  BY DEF UploadInv, HostInv
<1>1. CASE HostOp(h)
  BY <1>1, BusyOp
<1>2. ASSUME NEW j \in Jobs, HostBegin(h, j)  PROVE Busy(h)'
  <2>1. CASE slot' = 0
    <3>1. hosts' = hosts /\ hosts[h].phase = "idle"
      BY <1>2, <2>1 DEF HostBegin
    <3>2. QED
      BY <3>1, Idle
  <2>2. CASE slot' # 0
    <3>1. hosts' = [hosts EXCEPT ![h] = [phase |-> "polling", job |-> j, base |-> slot',
                                         step |-> 1]]
      BY <1>2, <2>2 DEF HostBegin
    <3>2. hosts'[h].phase = "polling" /\ hosts'[h].step = 1
      BY <1>0, <3>1
    <3>3. state' = "PENDING"
      BY <1>2, <2>2 DEF HostBegin, Request, RequestBoot, Open
    <3>4. QED
      BY <3>2, <3>3 DEF Busy
  <2>3. QED
    BY <2>1, <2>2
<1>3. CASE HostPoll(h)
  <2>1. CASE hosts' = [hosts EXCEPT ![h] = Resting]
    BY <1>0, <2>1, Idle DEF Resting
  <2>2. CASE state \in {"AUTH", "ACTIVE"} /\ hosts' = [hosts EXCEPT ![h].phase = "working"]
    <3>1. /\ hosts[h].phase = "polling" /\ hosts'[h].phase = "working"
          /\ hosts'[h].step = hosts[h].step
      BY <1>0, <1>3, <2>2 DEF HostPoll, HostStates
    <3>2. hosts[h].step = 1 /\ dlg # "upload" /\ dlg' = dlg /\ state' = state
      BY <1>3, <2>2, <3>1 DEF Busy, HostPoll, session
    <3>3. PlanOf(h)' \in Seq(Ops)
      <4>1. hosts'[h].job = hosts[h].job /\ hosts'[h].base = hosts[h].base
        BY <1>0, <2>2 DEF HostStates
      <4>2. PlanOf(h)' = PlanOf(h)
        BY <4>1, Zenon DEF PlanOf
      <4>3. QED
        BY <3>1, <4>2, OwnPlan
    <3>4. Ready(h)'
      BY <3>1, <3>2, <3>3, NothingWritten DEF Ready
    <3>5. QED
      BY <2>2, <3>1, <3>2, <3>4 DEF Busy
  <2>3. QED
    BY <1>3, <2>1, <2>2 DEF HostPoll, Phase
<1>4. CASE HostGiveUp(h) \/ HostAbort(h) \/ HostExit(h)
  <2>1. hosts' \in {[hosts EXCEPT ![h].phase = "abort"], [hosts EXCEPT ![h] = Resting]}
    BY <1>4 DEF HostGiveUp, HostAbort, HostExit, Phase
  <2>2. hosts'[h].phase \in {"idle", "abort"}
    BY <1>0, <2>1 DEF HostStates, Resting
  <2>3. QED
    BY <2>2, Idle
<1>5. CASE HostEnd(h)
  <2>1. /\ hosts[h].phase = "working" /\ hosts' = [hosts EXCEPT ![h].phase = "verify"]
        /\ hosts[h].step > Len(PlanOf(h)) /\ UNCHANGED <<dlg, flash>>
    BY <1>5 DEF HostEnd, Phase
  <2>2. /\ hosts'[h].phase = "verify" /\ hosts'[h].step = hosts[h].step
        /\ hosts'[h].job = hosts[h].job /\ hosts'[h].base = hosts[h].base
    BY <1>0, <2>1 DEF HostStates
  <2>3. PlanOf(h)' = PlanOf(h)
    BY <2>2, Zenon DEF PlanOf
  <2>4. Ready(h)'
    BY <2>1, <2>2, <2>3 DEF Busy, Ready
  <2>5. QED
    BY <2>1, <2>2, <2>3, <2>4 DEF Busy
<1>6. QED
  BY <1>1, <1>2, <1>3, <1>4, <1>5 DEF Host

\* The keyboard cannot end a session at work, nor wipe a page of it.
LEMMA BusyKeyboard ==
  ASSUME UploadInv, NEW h \in Hosts, Busy(h),
         \/ Dialog \/ Promote \/ Linger \/ LingerTest \/ LingerStore \/ Reboot
         \/ \E i \in SlotIds : Uninstall(i)
         \/ UNCHANGED vars
  PROVE  Busy(h)'
<1>0. CASE Reboot
  BY <1>0, Idle DEF Reboot, Resting
<1>1. CASE ~Reboot
  <2>1. hosts' = hosts
    BY <1>1 DEF Dialog, Install, Cancel, FlashPrompt, FlashCancel, Promote, Linger, LingerTest,
       LingerStore, Uninstall, vars
  <2>2. PlanOf(h)' = PlanOf(h)
    BY <2>1, Zenon DEF PlanOf
  <2>3. flash' = flash => (Ready(h)' <=> Ready(h))
    BY <2>1, <2>2, Zenon DEF Ready
  <2>4. CASE Dialog \/ Promote \/ Linger \/ LingerTest \/ LingerStore \/ UNCHANGED vars
    <3>1. flash' = flash
      BY <2>4 DEF Dialog, Install, Cancel, FlashPrompt, FlashCancel, Promote, Linger, LingerTest,
         LingerStore, vars
    <3>2. Ready(h)' <=> Ready(h)
      BY <2>3, <3>1
    <3>3. CASE Dialog
      BY <2>1, <2>2, <3>2, <3>3 DEF Dialog, Install, Cancel, FlashPrompt, FlashCancel, Busy, session
    <3>4. CASE Promote
      BY <2>1, <2>2, <3>2, <3>4 DEF Promote, Busy
    <3>5. CASE Linger \/ LingerTest \/ LingerStore
      BY <2>1, <2>2, <3>2, <3>5 DEF Linger, LingerTest, LingerStore, Busy, session
    <3>6. CASE UNCHANGED vars
      BY <2>1, <2>2, <3>2, <3>6 DEF Busy, vars, session
    <3>7. QED
      BY <2>4, <3>3, <3>4, <3>5, <3>6
  <2>5. ASSUME NEW i \in SlotIds, Uninstall(i)  PROVE Busy(h)'
    <3>1. state' = state /\ dlg' = dlg /\ linger' = linger /\ state \notin {"ACTIVE", "DONE"}
      BY <2>5 DEF Uninstall, session
    <3>2. hosts[h].phase = "working" => Ready(h)'
      <4> SUFFICES ASSUME hosts[h].phase = "working"  PROVE Ready(h)'
        OBVIOUS
      <4>1. hosts[h].step = 1 /\ PlanOf(h) \in Seq(Ops)
        BY <3>1, OwnPlan DEF Busy
      <4>2. QED
        BY <2>1, <2>2, <4>1, NothingWritten DEF Ready
    <3>3. QED
      BY <2>1, <2>2, <3>1, <3>2 DEF Busy
  <2>6. QED
    BY <1>1, <2>4, <2>5
<1>2. QED
  BY <1>0, <1>1

\* app_upload.h:28, "finished; slot holds the app": while a session shows DONE, every
\* page its host wrote is in the flash, intact.
THEOREM DoneIsThere ==
  ASSUME NEW h, Hosts = {h}
  PROVE  SpansDisjoint /\ Spec => []DoneHoldsApp
<1>1. Init /\ SpansDisjoint => DoneInv
  <2>1. Init => Busy(h)
    BY DEF Init, Busy, Resting
  <2>2. QED
    BY <2>1, Uploads DEF DoneInv
<1>2. DoneInv /\ [Next]_vars => DoneInv'
  BY Uploads, BusyHost, BusyKeyboard DEF DoneInv, Next
<1>3. DoneInv => DoneHoldsApp
  <2> SUFFICES ASSUME DoneInv, hosts[h].phase = "verify", state = "DONE",
                      NEW k \in DOMAIN PlanOf(h), PlanOf(h)[k].op = "write"
               PROVE  flash[PlanOf(h)[k].addr] = Content(h, PlanOf(h)[k].addr)
    BY DEF DoneHoldsApp
  <2>1. Ready(h) /\ hosts[h].step > Len(PlanOf(h))
    BY DEF DoneInv, Busy
  <2>2. k < hosts[h].step
    BY <2>1, OwnPlan DEF DoneInv
  <2>3. QED
    BY <2>1, <2>2 DEF Ready, Written, Content, Sent
<1>4. QED
  BY <1>1, <1>2, <1>3, PTL DEF Spec

(***************************************************************************)
(* Types.                                                                  *)
(***************************************************************************)

Contents == {Blank, Garbage} \cup ((DOMAIN Apps \cup {Splash}) \X Nat)

\* The slots in use are slots.
LEMMA UsedSlots == Used \subseteq SlotIds
<1> SUFFICES ASSUME NEW i \in SlotIds, HasHeader(i)  PROVE Span(i) \subseteq SlotIds
  BY DEF Used
<1>1. Span(i) = SpanAt(i, HeaderOf(i).count) /\ HeaderOf(i).count \in Nat
  BY SpanOwn
<1> QED
  BY <1>1, NSlotsAssumption DEF SpanAt, SlotIds

\* The flash starts with pages of the installed packages.
LEMMA InitTyped == Init => TypeOK
<1> SUFFICES ASSUME Init  PROVE TypeOK
  OBVIOUS
<1>1. ASSUME NEW p \in Flash  PROVE flash[p] \in Contents
  <2>1. PICK s \in Installed : flash = Holding(s)
    BY DEF Init
  <2>2. s \subseteq (DOMAIN Apps) \X SlotIds
    BY InstalledAssumption
  <2> DEFINE here(x) == LET k == p - Base(x[2]) IN
                        k \in (0 .. Apps[x[1]].code - 1) \cup {IconOffset}
                              \cup (SlotPages .. SlotPages + Apps[x[1]].data - 1)
             x == CHOOSE y \in s : here(y)
  <2>3. flash[p] = IF \E y \in s : here(y) THEN <<x[1], p - Base(x[2])>> ELSE Blank
    BY <2>1, Zenon DEF Holding
  <2>4. CASE \E y \in s : here(y)
    <3>1. x \in s /\ here(x)
      BY <2>4, Zenon
    <3> HIDE DEF x
    <3>2. x[1] \in DOMAIN Apps /\ x[2] \in SlotIds
      BY <2>2, <3>1
    <3>3. Apps[x[1]].code \in Nat /\ Apps[x[1]].data \in Nat
      BY <3>2, AppsAssumption
    <3>4. p - Base(x[2]) \in Nat
      BY <3>1, <3>3 DEF IconOffset, SlotPages
    <3>5. QED
      BY <2>3, <2>4, <3>2, <3>4 DEF Contents
  <2>5. CASE ~(\E y \in s : here(y))
    BY <2>3, <2>5 DEF Contents
  <2>6. QED
    BY <2>4, <2>5
<1>2. /\ state = "IDLE" /\ target = "SLOT" /\ slot = 0 /\ code = 0 /\ data = 0 /\ total = 0
      /\ dlg = "none" /\ linger = "idle" /\ hosts = [h \in Hosts |-> Resting] /\ begins = 0
      /\ owned = Used
  BY DEF Init
<1>3. QED
  BY <1>1, <1>2, UsedSlots, MaxBeginsAssumption DEF TypeOK, Contents, Resting

\* A page a write of the plan may reach lies behind the package's first.
LEMMA Behind ==
  ASSUME NEW j \in Jobs, Granted(j), NEW addr \in Int, SessionAllows(addr, 1, 1)
  PROVE  addr - slot \in Nat
<1>1. CASE j.kind = "boot"
  BY <1>1 DEF Granted, SessionAllows, InBootUpload, BootBegin, SlotPages
<1>2. CASE j.kind # "boot"
  <2>1. target = "SLOT" /\ slot \in Nat
    BY <1>2, Parts
  <2>2. Down(slot, 1) = slot /\ Down(slot + IconOffset, 1) = slot + IconOffset
          /\ Down(slot + SlotPages, 1) = slot + SlotPages
    BY <2>1 DEF Down, IconOffset, SlotPages
  <2>3. addr >= slot
    BY <2>1, <2>2 DEF SessionAllows, InUploadRegion, InRegion, IconOffset, SlotPages
  <2>4. QED
    BY <2>1, <2>3
<1>3. QED
  BY <1>1, <1>2

HostTyped(h) ==
  /\ hosts[h].phase \in {"idle", "polling", "working", "abort", "verify"}
  /\ hosts[h].phase # "idle" => hosts[h].job \in Jobs
  /\ hosts[h].base \in {0} \cup Flash /\ hosts[h].step \in Nat

\* What an operation writes is a page of a package.
LEMMA OpTyped ==
  ASSUME UploadInv, TypeOK, NEW h \in Hosts, Hosts = {h}, HostOp(h)
  PROVE  TypeOK'
<1> DEFINE o == NextOp(h)
<1>1. /\ hosts[h].phase = "working" /\ hosts[h].step <= Len(PlanOf(h))
      /\ hosts[h].job \in Jobs /\ hosts[h].base = slot /\ Granted(hosts[h].job)
      /\ UNCHANGED <<target, slot, code, data, total, dlg, linger, begins>>
      /\ hosts \in [Hosts -> HostStates]
  BY DEF HostOp, UploadInv, HostInv
<1>2. HostTyped(h)'
  <2>1. hosts' \in {[hosts EXCEPT ![h].step = @ + 1], [hosts EXCEPT ![h].phase = "abort"]}
    BY DEF HostOp, Phase
  <2>2. HostTyped(h) /\ hosts[h].step \in Nat
    BY DEF TypeOK, HostTyped
  <2>3. CASE hosts' = [hosts EXCEPT ![h].step = @ + 1]
    BY <1>1, <2>2, <2>3 DEF HostTyped, HostStates
  <2>4. CASE hosts' = [hosts EXCEPT ![h].phase = "abort"]
    BY <1>1, <2>2, <2>4 DEF HostTyped, HostStates
  <2>5. QED
    BY <2>1, <2>3, <2>4
<1>3. ASSUME NEW p \in Flash  PROVE flash'[p] \in Contents
  <2>1. CASE flash' = flash
    BY <2>1 DEF TypeOK, Contents
  <2>2. CASE flash' # flash
    <3>1. /\ SessionAllows(o.addr, Grain(o), Grain(o))
          /\ flash' = [q \in Flash |->
               IF q \notin o.addr .. o.addr + Grain(o) - 1 THEN flash[q]
               ELSE IF o.op = "erase" THEN Blank ELSE Program(flash[q], Content(h, q))]
      BY <2>2, Zenon DEF HostOp, Grain
    <3>2. o \in Ops
      BY <1>1, Planned DEF Allowed
    <3>3. flash'[p] = IF p \notin o.addr .. o.addr + Grain(o) - 1 THEN flash[p]
                      ELSE IF o.op = "erase" THEN Blank ELSE Program(flash[p], Content(h, p))
      BY <3>1
    <3>4. CASE p \notin o.addr .. o.addr + Grain(o) - 1 \/ o.op = "erase"
      BY <3>3, <3>4 DEF TypeOK, Contents
    <3>5. CASE p \in o.addr .. o.addr + Grain(o) - 1 /\ o.op # "erase"
      <4>1. o.addr \in Int /\ p = o.addr /\ SessionAllows(p, 1, 1)
        BY <3>1, <3>2, <3>5 DEF Ops, Grain
      <4>2. p - hosts[h].base \in Nat
        BY <1>1, <4>1, Behind
      <4>3. hosts[h].job.kind # "boot" => hosts[h].job.app \in DOMAIN Apps
        BY <1>1, AppJob DEF Jobs
      <4>4. Content(h, p) \in Contents
        BY <4>2, <4>3 DEF Content, Contents
      <4>5. QED
        BY <3>3, <3>5, <4>4 DEF Program, Contents
    <3>6. QED
      BY <3>4, <3>5
  <2>3. QED
    BY <2>1, <2>2
<1>4. owned' \subseteq SlotIds
  <2>1. owned' \in {owned, owned \cup Used'}
    BY DEF HostOp
  <2>2. (Used \subseteq SlotIds)'
    BY UsedSlots, PTL
  <2>3. QED
    BY <2>1, <2>2 DEF TypeOK, SlotIds
<1>5. state' \in InFlight \cup {"IDLE", "DENIED", "DONE"}
  BY DEF HostOp, TypeOK, InFlight, Overlay
<1>6. QED
  BY <1>1, <1>2, <1>3, <1>4, <1>5 DEF TypeOK, Contents, HostTyped

\* A request opens a session at a page an upload may start at.
LEMMA BeginTyped ==
  ASSUME UploadInv, TypeOK, NEW h \in Hosts, Hosts = {h}, NEW j \in Jobs, HostBegin(h, j)
  PROVE  TypeOK'
<1>1. /\ hosts \in [Hosts -> HostStates] /\ begins < MaxBegins /\ begins' = begins + 1
      /\ UNCHANGED <<linger, flash, owned>>
  BY DEF HostBegin, UploadInv, HostInv
<1>2. /\ state' \in {"DENIED", "PENDING"} /\ dlg' \in {"none", "upload", "flash"}
      /\ target' \in {"SLOT", "BOOT"} /\ slot' \in {0} \cup Flash
      /\ code' \in Nat /\ data' \in Nat /\ total' \in Nat
  <2>1. CASE j.kind = "app"
    <3>1. Request(j)
      BY <2>1 DEF HostBegin
    <3>2. CASE Placement(j) = 0
      BY <3>1, <3>2 DEF Request, TypeOK
    <3>3. CASE Placement(j) # 0
      <4> DEFINE a == Apps[j.app]
                 d == IF j.codeOnly THEN 0 ELSE a.data
      <4>1. Placement(j) \in Flash
        BY <2>1, <3>3, Placing, Bases DEF UploadInv
      <4>2. a.code \in Nat /\ d \in Nat
        BY <2>1, AppJob, AppsAssumption
      <4>3. /\ state' = "PENDING" /\ dlg' = "upload" /\ target' = "SLOT"
            /\ slot' = Placement(j) /\ code' = a.code /\ data' = d /\ total' = a.code + 1 + d
        BY <3>1, <3>3 DEF Request, Open
      <4>4. QED
        BY <4>1, <4>2, <4>3
    <3>4. QED
      BY <3>2, <3>3
  <2>2. CASE j.kind # "app"
    <3>1. j.total \in Nat /\ RequestBoot(j)
      BY <2>2, SplashesAssumption DEF Jobs, HostBegin
    <3>2. BootBegin \in Flash
      BY NSlotsAssumption DEF Flash, BootBegin, AreaEnd, AreaBegin, SlotPages
    <3>3. QED
      BY <3>1, <3>2 DEF RequestBoot, Open, TypeOK
  <2>3. QED
    BY <2>1, <2>2
<1>3. HostTyped(h)'
  <2>1. HostTyped(h)
    BY DEF TypeOK, HostTyped
  <2>2. CASE slot' = 0
    BY <2>1, <2>2 DEF HostBegin, HostTyped
  <2>3. CASE slot' # 0
    <3>1. hosts' = [hosts EXCEPT ![h] = [phase |-> "polling", job |-> j, base |-> slot',
                                         step |-> 1]]
      BY <2>3 DEF HostBegin
    <3>2. hosts'[h] = [phase |-> "polling", job |-> j, base |-> slot', step |-> 1]
      BY <1>1, <3>1
    <3>3. QED
      BY <1>2, <3>2 DEF HostTyped
  <2>4. QED
    BY <2>2, <2>3
<1>4. QED
  <2>1. begins' \in 0 .. MaxBegins
    BY <1>1, MaxBeginsAssumption DEF TypeOK
  <2>2. /\ UNCHANGED <<linger, flash, owned>> /\ state' \in InFlight \cup {"IDLE", "DENIED", "DONE"}
    BY <1>1, <1>2 DEF InFlight
  <2>3. QED
    BY <1>2, <1>3, <2>1, <2>2 DEF TypeOK, HostTyped

\* Types are kept, with one host_tool at a time.
LEMMA TypeStep ==
  ASSUME UploadInv, TypeOK, NEW h, Hosts = {h}, [Next]_vars
  PROVE  TypeOK'
<1>0. hosts \in [Hosts -> HostStates] /\ HostTyped(h)
  BY DEF UploadInv, HostInv, TypeOK, HostTyped
<1>1. CASE HostOp(h) \/ \E j \in Jobs : HostBegin(h, j)
  BY <1>1, OpTyped, BeginTyped
<1>2. CASE HostPoll(h) \/ HostGiveUp(h) \/ HostAbort(h) \/ HostEnd(h) \/ HostExit(h)
  <2>1. PICK ph \in {"working", "abort", "verify"} :
          hosts' \in {[hosts EXCEPT ![h].phase = ph], [hosts EXCEPT ![h] = Resting]}
    BY <1>2 DEF HostPoll, HostGiveUp, HostAbort, HostEnd, HostExit, Phase
  <2>2. hosts[h].phase # "idle"
    BY <1>2 DEF HostPoll, HostGiveUp, HostAbort, HostEnd, HostExit
  <2>3. HostTyped(h)'
    <3>1. CASE hosts' = [hosts EXCEPT ![h].phase = ph]
      BY <1>0, <2>2, <3>1 DEF HostTyped, HostStates
    <3>2. CASE hosts' = [hosts EXCEPT ![h] = Resting]
      BY <1>0, <3>2 DEF HostTyped, Resting
    <3>3. QED
      BY <2>1, <3>1, <3>2
  <2>4. /\ UNCHANGED <<target, slot, code, data, total, dlg, linger, flash, begins, owned>>
        /\ state' \in {state, "IDLE", "DONE"}
    BY <1>2 DEF HostPoll, HostGiveUp, HostAbort, HostEnd, HostExit, Finish, session
  <2>5. QED
    BY <2>3, <2>4 DEF TypeOK, HostTyped
<1>3. CASE Dialog \/ Promote \/ Linger \/ LingerTest \/ LingerStore \/ UNCHANGED vars
  <2>1. /\ UNCHANGED <<target, slot, code, data, total, flash, hosts, begins, owned>>
        /\ state' \in {state, "IDLE", "EXITING", "AUTH"} /\ dlg' \in {dlg, "none", "flash"}
        /\ linger' \in {"idle", "store", linger}
    BY <1>3 DEF Dialog, Install, Cancel, FlashPrompt, FlashCancel, Promote, Linger, LingerTest,
       LingerStore, session, vars
  <2>2. QED
    BY <2>1 DEF TypeOK, InFlight, Overlay
<1>4. ASSUME NEW i \in SlotIds, Uninstall(i)  PROVE TypeOK'
  <2>1. /\ UNCHANGED <<state, target, slot, code, data, total, dlg, linger, hosts, begins>>
        /\ owned' \subseteq owned
    BY <1>4 DEF Uninstall, session
  <2>2. \A p \in Flash : flash'[p] \in {Blank, flash[p]}
    BY <1>4 DEF Uninstall
  <2>3. QED
    BY <2>1, <2>2 DEF TypeOK
<1>5. CASE Reboot
  BY <1>5 DEF Reboot, TypeOK, Resting
<1>6. QED
  BY <1>1, <1>2, <1>3, <1>4, <1>5 DEF Next, Host

\* The session's variables, the flash and the hosts keep their types.
THEOREM Typed ==
  ASSUME NEW h, Hosts = {h}
  PROVE  SpansDisjoint /\ Spec => []TypeOK
<1>1. Init /\ SpansDisjoint => UploadInv /\ TypeOK
  BY Uploads, InitTyped
<1>2. UploadInv /\ TypeOK /\ [Next]_vars => UploadInv' /\ TypeOK'
  BY Uploads, TypeStep
<1>3. QED
  BY <1>1, <1>2, PTL DEF Spec
===============================================================================
