---------------------------- MODULE AppInputProofs ----------------------------
(***************************************************************************)
(* Proofs about AppInput, for a ring of any size: its typing, its          *)
(* protocol, and that it implements the FIFO of InputQueue.                *)
(***************************************************************************)
EXTENDS AppInput, SequenceTheorems, TLAPS

USE SizeAssumption, IdleAssumption, MaxEventsAssumption, RequestsAssumption

\* The masked increment of app_input_push and app_input_poll wraps at the end.
LEMMA SuccWraps ==
  ASSUME NEW i \in Index
  PROVE  /\ Succ(i) \in Index
         /\ Succ(i) = IF i = Size - 1 THEN 0 ELSE i + 1
BY DEF Index, Succ

\* Every variable keeps its type: in particular both ring indices stay inside
\* the array inq[] however pushes, flushes and polls interleave.
LEMMA TypeStep == TypeOK /\ [Next]_vars => TypeOK'
<1> SUFFICES ASSUME TypeOK, [Next]_vars
             PROVE  TypeOK'
  OBVIOUS
<1> USE DEF TypeOK, Modes, NoReq, Flushing0, Polling1, ring, core0, core1, hist
<1>1. ASSUME NEW e \in Edges, PushBegin(e) PROVE TypeOK'
  BY <1>1 DEF PushBegin, Full, Index
<1>2. CASE PushKc
  BY <1>2 DEF PushKc
<1>3. CASE PushPressed
  BY <1>3 DEF PushPressed
<1>4. CASE PushPublish
  BY <1>4, SuccWraps DEF PushPublish
<1>5. ASSUME NEW m \in Modes, SwitchMode(m) PROVE TypeOK'
  BY <1>5 DEF SwitchMode, SetMode
<1>6. CASE NoteActivity
  BY <1>6 DEF NoteActivity
<1>7. CASE ReleaseAll
  BY <1>7 DEF ReleaseAll
<1>8. CASE FlushTail
  BY <1>8 DEF FlushTail, Index
<1>9. CASE FlushHead
  BY <1>9 DEF FlushHead, Index
<1>10. CASE ServiceRead
  BY <1>10 DEF ServiceRead
<1>11. CASE ServiceClear
  BY <1>11 DEF ServiceClear
<1>12. CASE ServiceApply
  BY <1>12 DEF ServiceApply, SetMode
<1>13. CASE ServiceIdle
  BY <1>13 DEF ServiceIdle, SetMode
<1>14. CASE PollTail
  BY <1>14 DEF PollTail
<1>15. CASE PollHead
  BY <1>15 DEF PollHead
<1>16. CASE PollKc
  BY <1>16 DEF PollKc
<1>17. CASE PollPressed
  BY <1>17 DEF PollPressed
<1>18. CASE PollAdvance
  BY <1>18, SuccWraps DEF PollAdvance
<1>19. ASSUME NEW m \in Requests, RequestMode(m) PROVE TypeOK'
  BY <1>19 DEF RequestMode
<1>20. CASE Tick
  BY <1>20 DEF Tick
<1>21. CASE UNCHANGED vars
  BY <1>21 DEF vars
<1>22. QED
  BY <1>1, <1>2, <1>3, <1>4, <1>5, <1>6, <1>7, <1>8, <1>9, <1>10, <1>11, <1>12,
     <1>13, <1>14, <1>15, <1>16, <1>17, <1>18, <1>19, <1>20, <1>21
     DEF Next, Push, Flush, Service, Poll, PollRest

\* Typing holds in every reachable state, for a ring of any size.
THEOREM TypeCorrect == Spec => []TypeOK
<1>1. Init => TypeOK
  <2>1. Init => /\ mode \in Modes /\ req \in Modes \cup {NoReq} /\ idle \in 0 .. IdleLimit
                /\ kcs \in [Index -> Nat] /\ downs \in [Index -> Nat]
                /\ head \in Index /\ tail \in Index /\ h \in Index /\ t \in Index
    BY DEF Init, Modes, NoReq, Index
  <2>2. Init => raced \in BOOLEAN
    BY Zenon DEF Init
  <2>3. QED
    BY <2>1, <2>2 DEF Init, TypeOK, Modes, NoReq, Flushing0, Polling1
<1>2. QED
  BY <1>1, TypeStep, PTL DEF Spec


\* Advancing an index moves it one place away from the consumer; advancing the
\* consumer brings every other index one place nearer.
LEMMA AheadOfSucc ==
  ASSUME tail \in Index, NEW i \in Index, Ahead(i) < Size - 1
  PROVE  Ahead(Succ(i)) = Ahead(i) + 1
BY SuccWraps DEF Index, Ahead

\* Two indices equally far ahead of the consumer are the same one.
LEMMA AheadDistinct ==
  ASSUME tail \in Index, NEW i \in Index, NEW j \in Index, Ahead(i) = Ahead(j)
  PROVE  i = j
BY DEF Index, Ahead

\* The ring protocol: every step keeps the entries between the indices equal to
\* the events not yet gone, unless a flush overlaps a poll.
LEMMA RingStep == TypeOK /\ RingInv /\ [Next]_vars => RingInv'
<1> SUFFICES ASSUME TypeOK, RingInv, [Next]_vars, ~raced'
             PROVE  RingInv'
  BY DEF RingInv
<1>a. TypeOK'
  BY TypeStep
<1>b. ~raced
  BY DEF Next, Push, Flush, Service, Poll, PollRest, PushBegin, Full, PushKc, PushPressed, PushPublish,
     SwitchMode, NoteActivity, ReleaseAll, FlushTail, FlushHead, ServiceRead,
     ServiceClear, ServiceApply, ServiceIdle, PollTail, PollHead, PollKc,
     PollPressed, PollAdvance, RequestMode, Tick, vars, hist
<1>c. head \in Index /\ tail \in Index /\ h \in Index /\ t \in Index
  BY DEF TypeOK
<1> USE DEF RingInv, RingHolds, PushInv, PollInv, ring, core0, core1, hist
<1>1. ASSUME NEW e \in Edges, PushBegin(e) PROVE RingInv'
  <2>1. Succ(head) # tail => Ahead(head) < Size - 1
    BY <1>c, SuccWraps DEF Index, Ahead
  <2>2. QED
    BY <1>1, <1>b, <2>1 DEF PushBegin, Full, Ahead
<1>2. CASE PushKc
  BY <1>2, <1>b, <1>c DEF PushKc, Ahead, TypeOK
<1>3. CASE PushPressed
  BY <1>3, <1>b, <1>c DEF PushPressed, Ahead, TypeOK
<1>4. CASE PushPublish
  <2>1. h = head /\ Ahead(head) < Size - 1 /\ kcs[h] = pub + 1 /\ downs[h] = pub + 1
    BY <1>4, <1>b DEF PushPublish
  <2>2. Ahead(Succ(head)) = Ahead(head) + 1 /\ Succ(head) \in Index
    BY <2>1, <1>c, AheadOfSucc, SuccWraps
  <2>3. gone + Ahead(head) = pub
    BY <1>4, <1>b DEF PushPublish
  <2>4. Ahead(head)' = Ahead(head) + 1
    BY <1>4, <2>1, <2>2 DEF PushPublish, Ahead
  <2>5. ASSUME NEW i \in Index, Ahead(i) < Ahead(head) + 1
        PROVE  kcs[i] = gone + Ahead(i) + 1 /\ downs[i] = gone + Ahead(i) + 1
    <3>1. CASE Ahead(i) = Ahead(head)
      BY <3>1, <1>c, <2>1, <2>3, AheadDistinct
    <3>2. CASE Ahead(i) < Ahead(head)
      BY <3>2, <1>4, <1>b DEF PushPublish
    <3>3. QED
      BY <3>1, <3>2, <2>5, <1>c DEF Index, Ahead
  <2>6. RingHolds'
    <3>1. gone' + Ahead(head)' = pub'
      <4>1. gone' = gone /\ pub' = pub + 1
        BY <1>4 DEF PushPublish
      <4>2. gone \in Nat /\ Ahead(head) \in Nat
        BY <1>c DEF TypeOK, Index, Ahead
      <4>3. QED
        BY <4>1, <4>2, <2>3, <2>4
    <3>2. \A i \in Index : Ahead(i)' = Ahead(i)
      BY <1>4 DEF PushPublish, Ahead
    <3>3. UNCHANGED <<kcs, downs, gone>>
      BY <1>4 DEF PushPublish
    <3>4. QED
      BY <3>1, <3>2, <3>3, <2>4, <2>5
  <2>7. PollInv'
    BY <1>4, <1>b, <1>c, <2>1, <2>2, <2>3, <2>4 DEF PushPublish, Polling1, TypeOK, Index, Ahead
  <2>8. QED
    BY <1>4, <2>6, <2>7 DEF PushPublish
<1>5. ASSUME NEW m \in Modes, SwitchMode(m) PROVE RingInv'
  BY <1>5, <1>b DEF SwitchMode, SetMode, Ahead
<1>6. CASE NoteActivity
  BY <1>6, <1>b DEF NoteActivity, Ahead
<1>7. CASE ReleaseAll
  BY <1>7, <1>b DEF ReleaseAll, Ahead
<1>8. CASE FlushTail
  BY <1>8, <1>b DEF FlushTail, Ahead, TypeOK, Polling1
<1>9. CASE FlushHead
  BY <1>9, <1>b, <1>c DEF FlushHead, Ahead, Index, TypeOK
<1>10. CASE ServiceRead
  BY <1>10, <1>b DEF ServiceRead, Ahead
<1>11. CASE ServiceClear
  BY <1>11, <1>b DEF ServiceClear, Ahead
<1>12. CASE ServiceApply
  BY <1>12, <1>b DEF ServiceApply, SetMode, Ahead
<1>13. CASE ServiceIdle
  BY <1>13, <1>b DEF ServiceIdle, SetMode, Ahead
<1>14. CASE PollTail
  BY <1>14, <1>b DEF PollTail, Ahead
<1>15. CASE PollHead
  BY <1>15, <1>b DEF PollHead, Ahead
<1>16. CASE PollKc
  BY <1>16, <1>b, <1>c DEF PollKc, Ahead, TypeOK, Index
<1>17. CASE PollPressed
  BY <1>17, <1>b, <1>c DEF PollPressed, Ahead, TypeOK, Index
<1>18. CASE PollAdvance
  <2>1. t = tail /\ t # head /\ pc0 # "flush_head"
    BY <1>18, <1>b DEF PollAdvance
  <2>2. \A i \in Index : i # tail => Ahead(i)' = Ahead(i) - 1
    BY <1>18, <2>1, <1>c, SuccWraps DEF PollAdvance, Ahead, Index
  <2>3. \A i \in Index : i = tail => Ahead(i)' = Size - 1
    BY <1>18, <2>1, <1>c, SuccWraps DEF PollAdvance, Ahead, Index
  <2>4. Ahead(head)' = Ahead(head) - 1 /\ Ahead(head)' < Size - 1
    BY <1>18, <2>1, <2>2, <1>c DEF PollAdvance, Ahead, Index
  <2>5. gone' = gone + 1 /\ UNCHANGED <<kcs, downs, pub, pc0, h, head>>
    BY <1>18, <1>b DEF PollAdvance
  <2>6. gone \in Nat /\ pub \in Nat
    BY DEF TypeOK
  <2>7. RingHolds'
    <3>1. RingHolds /\ Ahead(head) \in Nat
      BY <2>1, <1>b, <1>c DEF Ahead, Index
    <3>2. gone' + Ahead(head)' = pub'
      BY <2>4, <2>5, <2>6, <3>1
    <3>3. ASSUME NEW i \in Index, Ahead(i)' < Ahead(head)'
          PROVE  kcs[i] = gone' + Ahead(i)' + 1 /\ downs[i] = gone' + Ahead(i)' + 1
      <4>1. Ahead(i)' = Ahead(i) - 1 /\ Ahead(i) \in Nat
        BY <2>2, <2>3, <2>4, <3>3, <1>c DEF Ahead, Index
      <4>2. QED
        BY <4>1, <2>4, <2>5, <2>6, <3>1, <3>3
    <3>4. QED
      BY <3>2, <3>3, <2>5
  <2>8. PushInv'
    BY <2>1, <2>4, <2>5, <2>6, <1>b
  <2>9. PollInv'
    BY <1>18 DEF PollAdvance
  <2>10. QED
    BY <2>1, <2>5, <2>7, <2>8, <2>9
<1>19. ASSUME NEW m \in Requests, RequestMode(m) PROVE RingInv'
  BY <1>19, <1>b DEF RequestMode, Ahead
<1>20. CASE Tick
  BY <1>20, <1>b DEF Tick, Ahead
<1>21. CASE UNCHANGED vars
  BY <1>21, <1>b DEF vars, Ahead
<1>22. QED
  BY <1>1, <1>2, <1>3, <1>4, <1>5, <1>6, <1>7, <1>8, <1>9, <1>10, <1>11, <1>12,
     <1>13, <1>14, <1>15, <1>16, <1>17, <1>18, <1>19, <1>20, <1>21
     DEF Next, Push, Flush, Service, Poll, PollRest

\* The ring protocol of app_input_push and app_input_poll holds throughout, for a
\* ring of any size, until a flush overlaps a poll.
THEOREM RingCorrect == Spec => []RingInv
<1>1. Init => RingInv
  BY DEF Init, RingInv, RingHolds, PushInv, PollInv, Ahead, Index
<1>2. QED
  BY <1>1, RingStep, TypeCorrect, PTL DEF Spec

\* Whatever core 1 is about to consume is the oldest event not yet taken or
\* flushed, whole, for a ring of any size, unless a flush overlapped a poll.
THEOREM OldestFirst == Spec => []PollsOldest
<1>1. RingInv => PollsOldest
  BY DEF RingInv, PollInv, PollsOldest
<1>2. QED
  BY <1>1, RingCorrect, PTL

\* The events from g + 1 to g + n, in order, as a queue: appending the next one,
\* taking the oldest, and being empty or full are what one expects.
Run(g, n) == [k \in 1 .. n |-> g + k]

LEMMA RunLen ==
  ASSUME NEW g \in Nat, NEW n \in Nat
  PROVE  Run(g, n) \in Seq(Nat) /\ Len(Run(g, n)) = n
BY DEF Run

LEMMA RunAppend ==
  ASSUME NEW g \in Nat, NEW n \in Nat
  PROVE  Append(Run(g, n), g + n + 1) = Run(g, n + 1)
BY DEF Run

LEMMA RunTake ==
  ASSUME NEW g \in Nat, NEW n \in Nat, n > 0
  PROVE  /\ Run(g, n) # <<>>
         /\ Head(Run(g, n)) = g + 1
         /\ Tail(Run(g, n)) = Run(g + 1, n - 1)
<1>1. Run(g, n) \in Seq(Nat) /\ Len(Run(g, n)) = n
  BY RunLen
<1>2. Run(g, n)[1] = g + 1 /\ Run(g, n) # <<>>
  BY <1>1 DEF Run
<1>3. /\ Tail(Run(g, n)) \in Seq(Nat) /\ Len(Tail(Run(g, n))) = n - 1
      /\ \A k \in 1 .. n - 1 : Tail(Run(g, n))[k] = Run(g, n)[k + 1]
  BY <1>1, <1>2, HeadTailProperties
<1>4. \A k \in 1 .. n - 1 : Run(g, n)[k + 1] = Run(g + 1, n - 1)[k]
  BY DEF Run
<1>5. Run(g + 1, n - 1) \in Seq(Nat) /\ Len(Run(g + 1, n - 1)) = n - 1
  <2>1. g + 1 \in Nat /\ n - 1 \in Nat
    OBVIOUS
  <2>2. QED
    BY <2>1, RunLen
<1>6. Tail(Run(g, n)) = Run(g + 1, n - 1)
  BY <1>3, <1>4, <1>5, SeqEqual
<1>7. QED
  BY <1>1, <1>2, <1>6

LEMMA RunEmpty ==
  ASSUME NEW g \in Nat
  PROVE  Run(g, 0) = <<>>
BY DEF Run

\* While no flush has overlapped a poll, the events waiting are the ones from
\* gone to pub, and the ring never holds more than its capacity.
LEMMA WaitingIs ==
  TypeOK /\ RingInv /\ ~raced =>
    pub - gone \in 0 .. Size - 1 /\ Waiting = Run(gone, pub - gone)
<1> SUFFICES ASSUME TypeOK, RingInv, ~raced
             PROVE  pub - gone \in 0 .. Size - 1 /\ Waiting = Run(gone, pub - gone)
  OBVIOUS
<1>1. head \in Index /\ tail \in Index /\ gone \in Nat /\ pub \in Nat
  BY DEF TypeOK
<1>2. CASE pc0 = "flush_head"
  BY <1>1, <1>2 DEF RingInv, Waiting, Run
<1>3. CASE pc0 # "flush_head"
  <2>1. gone + Ahead(head) = pub
    BY <1>3 DEF RingInv, RingHolds
  <2>2. Ahead(head) \in 0 .. Size - 1
    BY <1>1 DEF Ahead, Index
  <2>3. QED
    BY <1>1, <2>1, <2>2 DEF Waiting, Run
<1>4. QED
  BY <1>2, <1>3

\* Every step of the ring is a step of the FIFO or changes nothing it shows: a
\* publish is an accept, a full test a refusal, the end of a poll a take, the
\* first store of a flush a flush, and a flush that overlaps a poll breaks it.
LEMMA FifoStep ==
  TypeOK /\ RingInv /\ TypeOK' /\ RingInv' /\ [Next]_vars => [Bridge!Next]_(Bridge!vars)
<1> SUFFICES ASSUME TypeOK, RingInv, TypeOK', RingInv', [Next]_vars
             PROVE  Bridge!Next \/ UNCHANGED Bridge!vars
  OBVIOUS
<1>a. gone \in Nat /\ pub \in Nat /\ raced \in BOOLEAN /\ raced' \in BOOLEAN
  BY Zenon DEF TypeOK
<1>b. ASSUME UNCHANGED <<pub, gone, taken, pushRes, raced>>
      PROVE  UNCHANGED Bridge!vars
  BY <1>b DEF Bridge!vars, Waiting
<1>c. ASSUME ~raced PROVE pub - gone \in 0 .. Size - 1 /\ Waiting = Run(gone, pub - gone)
  BY <1>c, WaitingIs
<1>d. ASSUME ~raced'
      PROVE  pub' - gone' \in 0 .. Size - 1 /\ Waiting' = Run(gone', pub' - gone')
  <2>1. (TypeOK /\ RingInv /\ ~raced =>
           pub - gone \in 0 .. Size - 1 /\ Waiting = Run(gone, pub - gone))'
    BY WaitingIs, PTL
  <2>2. QED
    BY <1>d, <2>1
<1>e. CASE raced /\ raced'
  BY <1>e, Zenon DEF Bridge!Next
<1>f. CASE ~raced /\ raced'
  BY <1>f, Zenon DEF Bridge!Next, Bridge!Break
<1>g. raced => raced'
  BY Zenon DEF Next, Push, Flush, Service, Poll, PollRest, PushBegin, PushKc, PushPressed, PushPublish,
     SwitchMode, NoteActivity, ReleaseAll, FlushTail, FlushHead, ServiceRead,
     ServiceClear, ServiceApply, ServiceIdle, PollTail, PollHead, PollKc,
     PollPressed, PollAdvance, RequestMode, Tick, vars, hist
<1>h. CASE ~raced /\ ~raced'
  <2> USE <1>h
  <2>1. ASSUME NEW e \in Edges, PushBegin(e) PROVE Bridge!Next \/ UNCHANGED Bridge!vars
    <3>1. CASE Full(head)
      <4>1. pub - gone = Size - 1
        <5>1. head \in Index /\ tail \in Index
          BY DEF TypeOK
        <5>2. Ahead(head) = Size - 1
          BY <3>1, <5>1, SuccWraps DEF Full, Ahead, Index
        <5>3. gone + Ahead(head) = pub
          BY <2>1 DEF PushBegin, RingInv, RingHolds
        <5>4. QED
          BY <1>a, <5>2, <5>3
      <4>2. Len(Waiting) = Size - 1
        BY <1>a, <1>c, <4>1, RunLen
      <4>3. pushRes' = "full" /\ UNCHANGED <<pub, gone, taken, raced>>
        BY <2>1, <3>1 DEF PushBegin
      <4>4. UNCHANGED Waiting
        BY <4>3 DEF Waiting
      <4>5. QED
        BY <4>2, <4>3, <4>4 DEF Bridge!Next, Bridge!Reject
    <3>2. CASE ~Full(head)
      BY <3>2, <2>1, <1>b DEF PushBegin
    <3>3. QED
      BY <3>1, <3>2
  <2>4. CASE PushPublish
    <3>1. pub' = pub + 1 /\ pushRes' = "ok" /\ UNCHANGED <<gone, taken, raced>>
      BY <2>4 DEF PushPublish
    <3>2. pub' - gone' \in 0 .. Size - 1 /\ pub - gone \in 0 .. Size - 1
      BY <1>c, <1>d
    <3>3. Len(Waiting) < Size - 1
      BY <1>a, <1>c, <3>1, <3>2, RunLen
    <3>4. Waiting' = Append(Waiting, pub')
      <4> DEFINE n == pub - gone
      <4>1. n \in Nat /\ gone + n + 1 = pub' /\ pub' - gone' = n + 1
        BY <1>a, <3>1, <3>2
      <4>2. Waiting = Run(gone, n) /\ Waiting' = Run(gone, n + 1)
        BY <1>c, <1>d, <3>1, <4>1
      <4> HIDE DEF n
      <4>3. QED
        BY <1>a, <4>1, <4>2, RunAppend
    <3>5. QED
      BY <3>1, <3>3, <3>4 DEF Bridge!Next, Bridge!Accept
  <2>8. CASE FlushTail
    <3>1. gone' = pub' /\ UNCHANGED <<pub, taken, pushRes>>
      BY <2>8 DEF FlushTail
    <3>a. UNCHANGED raced
      BY <1>a, Zenon
    <3>2. pub' - gone' = 0 /\ gone' \in Nat
      BY <1>a, <3>1
    <3>3. Waiting' = <<>>
      BY <1>d, <3>2, RunEmpty
    <3>4. QED
      BY <3>1, <3>a, <3>3 DEF Bridge!Next, Bridge!Flush
  <2>18. CASE PollAdvance
    <3>1. /\ gone' = gone + 1 /\ taken' = gone + 1
          /\ UNCHANGED <<pub, pushRes, raced>>
      BY <2>18 DEF PollAdvance, RingInv, PollInv
    <3>2. pub' - gone' \in 0 .. Size - 1
      BY <1>d
    <3> DEFINE n == pub - gone
    <3>3. n \in Nat /\ n > 0 /\ pub' - gone' = n - 1
      BY <1>a, <3>1, <3>2
    <3>4. Waiting = Run(gone, n) /\ Waiting' = Run(gone + 1, n - 1)
      BY <1>c, <1>d, <3>1, <3>3
    <3> HIDE DEF n
    <3>5. Waiting # <<>> /\ taken' = Head(Waiting) /\ Waiting' = Tail(Waiting)
      BY <1>a, <3>1, <3>3, <3>4, RunTake
    <3>6. QED
      BY <3>1, <3>5 DEF Bridge!Next, Bridge!Take
  <2>20. UNCHANGED raced
    BY <1>a, Zenon
  <2>21. CASE UNCHANGED <<pub, gone, taken, pushRes>>
    BY <2>20, <2>21, <1>b
  <2>22. QED
    BY <2>1, <2>4, <2>8, <2>18, <2>21
    DEF Next, Push, Flush, Service, Poll, PollRest, PushKc, PushPressed,
     SwitchMode, NoteActivity, ReleaseAll, FlushHead, ServiceRead,
     ServiceClear, ServiceApply, ServiceIdle, PollTail, PollHead, PollKc,
     PollPressed, RequestMode, Tick, vars, hist
<1>i. QED
  BY <1>a, <1>e, <1>f, <1>g, <1>h

\* The bridge implements the bounded FIFO of InputQueue, for a ring of any size:
\* its initial states map to the FIFO's, and every step to a step or a stutter.
THEOREM ImplementsFifo == Spec => IsFifo
<1>1. Init => Bridge!Init
  <2>1. Init => Waiting = <<>>
    BY RunEmpty DEF Init, Waiting, Run
  <2>2. QED
    BY <2>1 DEF Init, Bridge!Init
<1>2. QED
  BY <1>1, FifoStep, TypeCorrect, RingCorrect, PTL DEF Spec, IsFifo, Bridge!Spec
===============================================================================
