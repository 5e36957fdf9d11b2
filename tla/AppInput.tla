------------------------------- MODULE AppInput -------------------------------
(***************************************************************************)
(* firmware/app_input.c: the OS input mode and the lock-free ring that     *)
(* carries key events from core 0 (QMK, producer) to core 1 (apps,         *)
(* consumer).  Every access to a shared variable is a step of its own, so  *)
(* the two cores interleave as they do on the RP2040.                      *)
(*                                                                         *)
(* An event is its number, counted by "pub"; the ring's entry has the two  *)
(* fields the code writes and reads separately, so a torn entry shows up   *)
(* as two different numbers.                                               *)
(***************************************************************************)
EXTENDS Naturals

CONSTANTS Size,         \* APP_IN_QSZ
          IdleLimit,    \* APP_OS_IDLE_MS, in ticks
          MaxEvents,    \* bound on accepted events
          Requests      \* modes the apps ask for (the launcher: KEYBOARD only)

ASSUME SizeAssumption == Size \in Nat /\ Size > 1
ASSUME IdleAssumption == IdleLimit \in Nat \ {0}
ASSUME MaxEventsAssumption == MaxEvents \in Nat

Modes == {"KEYBOARD", "OS"}
ASSUME RequestsAssumption == Requests \subseteq Modes

Edges == {"press", "release"}
NoReq == "NONE"                       \* s_req = 0xFF
Index == 0 .. Size - 1

VARIABLES
  mode,      \* s_mode
  req,       \* s_req
  idle,      \* ticks since s_last_activity, saturating at IdleLimit
  kcs,       \* inq[].kc
  downs,     \* inq[].pressed
  head,      \* inq_head, producer index
  tail,      \* inq_tail, consumer index
  pc0,       \* what core 0 is doing in this file
  h,         \* core 0: the index app_input_push read
  r,         \* core 0: the request app_input_service read
  ret,       \* core 0: where app_input_set_mode returns to
  pc1,       \* what core 1 is doing in this file
  t,         \* core 1: the index app_input_poll read
  outKc,     \* core 1: out->keycode
  outDown,   \* core 1: out->pressed
  \* history
  pub,       \* events accepted so far; also the number of the last one
  gone,      \* events taken or flushed so far
  floor,     \* "gone" when the poll in progress began
  taken,     \* the event the last completed poll returned
  pushRes,   \* result of the last push
  raced      \* a flush has overlapped a poll

ring  == <<kcs, downs, head, tail>>
core0 == <<pc0, h, r, ret>>
core1 == <<pc1, t, outKc, outDown>>
hist  == <<pub, gone, floor, taken, pushRes, raced>>
vars  == <<mode, req, idle, ring, core0, core1, hist>>

Flushing0 == {"flush_tail", "flush_head"}
Polling1  == {"poll_head", "poll_kc", "poll_pressed", "poll_advance"}

Succ(i) == (i + 1) % Size

Init ==
  /\ mode = "KEYBOARD" /\ req = NoReq /\ idle = 0
  /\ kcs = [i \in Index |-> 0] /\ downs = [i \in Index |-> 0]
  /\ head = 0 /\ tail = 0
  /\ pc0 = "idle" /\ h = 0 /\ r = NoReq /\ ret = "idle"
  /\ pc1 = "idle" /\ t = 0 /\ outKc = 0 /\ outDown = 0
  /\ pub = 0 /\ gone = 0 /\ floor = 0 /\ taken = 0 /\ pushRes = "ok"
  /\ raced = FALSE

(***************************************************************************)
(* Core 0.                                                                 *)
(***************************************************************************)

\* As a bug would have it: a full ring is not noticed.
FullUnnoticed(i) == FALSE

\* As a bug would have it: the ring is full one entry early.
FullEarly(i) == Succ(Succ(i)) = tail

\* One entry stays empty to tell a full ring from an empty one.
Full(i) == Succ(i) = tail

\* A key event in OS mode: process_record_user pushes it.  A press counts as
\* activity.  The full test reads the consumer's index once.
PushBegin(edge) ==
  /\ pc0 = "idle" /\ mode = "OS" /\ pub < MaxEvents
  /\ idle' = IF edge = "press" THEN 0 ELSE idle
  /\ h' = head
  /\ IF Full(head)
       THEN pc0' = "idle" /\ pushRes' = "full"
       ELSE pc0' = "push_kc" /\ UNCHANGED pushRes
  /\ UNCHANGED <<mode, req, ring, r, ret, core1, pub, gone, floor, taken, raced>>

PushKc ==
  /\ pc0 = "push_kc"
  /\ kcs' = [kcs EXCEPT ![h] = pub + 1]
  /\ pc0' = "push_pressed"
  /\ UNCHANGED <<mode, req, idle, downs, head, tail, h, r, ret, core1, hist>>

PushPressed ==
  /\ pc0 = "push_pressed"
  /\ downs' = [downs EXCEPT ![h] = pub + 1]
  /\ pc0' = "push_publish"
  /\ UNCHANGED <<mode, req, idle, kcs, head, tail, h, r, ret, core1, hist>>

\* As a bug would have it: the index published is the one it started from.
PushPublishNothing ==
  /\ pc0 = "push_publish"
  /\ head' = h
  /\ pub' = pub + 1 /\ pushRes' = "ok"
  /\ pc0' = "idle"
  /\ UNCHANGED <<mode, req, idle, kcs, downs, tail, h, r, ret, core1, gone, floor, taken, raced>>

PushPublish ==
  /\ pc0 = "push_publish"
  /\ head' = Succ(h)
  /\ pub' = pub + 1 /\ pushRes' = "ok"
  /\ pc0' = "idle"
  /\ UNCHANGED <<mode, req, idle, kcs, downs, tail, h, r, ret, core1, gone, floor, taken, raced>>

\* A press consumed by a menu or a dialog counts as activity too.
NoteActivity ==
  /\ pc0 = "idle" /\ mode = "OS"
  /\ idle' = 0
  /\ UNCHANGED <<mode, req, ring, core0, core1, hist>>

\* app_input_set_mode(m), returning to program point back: entering OS restarts
\* the idle timer, and a real change goes on to flush the ring.
SetMode(m, back) ==
  /\ idle' = IF m = "OS" THEN 0 ELSE idle
  /\ mode' = m
  /\ ret' = back
  /\ pc0' = IF m = mode THEN back ELSE "flush_tail"

\* The gif key, or a host MODE command.
SwitchMode(m) ==
  /\ pc0 = "idle"
  /\ SetMode(m, "idle")
  /\ UNCHANGED <<req, ring, h, r, core1, hist>>

\* app_input_release_all: dialogs, uploads and snapshots flush the ring.
ReleaseAll ==
  /\ pc0 = "idle"
  /\ pc0' = "flush_tail" /\ ret' = "idle"
  /\ UNCHANGED <<mode, req, idle, ring, h, r, core1, hist>>

\* inq_reset is two stores, the consumer's index first.
FlushTail ==
  /\ pc0 = "flush_tail"
  /\ tail' = 0
  /\ pc0' = "flush_head"
  /\ gone' = pub
  /\ raced' = (raced \/ pc1 \in Polling1)
  /\ UNCHANGED <<mode, req, idle, kcs, downs, head, h, r, ret, core1, pub, floor, taken, pushRes>>

FlushHead ==
  /\ pc0 = "flush_head"
  /\ head' = 0
  /\ pc0' = ret
  /\ UNCHANGED <<mode, req, idle, kcs, downs, tail, h, r, ret, core1, hist>>

\* As a bug would have it: "no request" is not told from a request.
ServiceReadAlways ==
  /\ pc0 = "idle"
  /\ r' = req
  /\ pc0' = "svc_clear"
  /\ UNCHANGED <<mode, req, idle, ring, h, ret, core1, hist>>

\* As a bug would have it: without a request the service returns at once.
ServiceReadReturns ==
  /\ pc0 = "idle"
  /\ r' = req
  /\ pc0' = IF req = NoReq THEN "idle" ELSE "svc_clear"
  /\ UNCHANGED <<mode, req, idle, ring, h, ret, core1, hist>>

\* app_input_service: read the request, clear it, apply it, test for idleness.
ServiceRead ==
  /\ pc0 = "idle"
  /\ r' = req
  /\ pc0' = IF req = NoReq THEN "svc_idle" ELSE "svc_clear"
  /\ UNCHANGED <<mode, req, idle, ring, h, ret, core1, hist>>

ServiceClear ==
  /\ pc0 = "svc_clear"
  /\ req' = NoReq
  /\ pc0' = "svc_apply"
  /\ UNCHANGED <<mode, idle, ring, h, r, ret, core1, hist>>

ServiceApply ==
  /\ pc0 = "svc_apply"
  /\ SetMode(r, "svc_idle")
  /\ UNCHANGED <<req, ring, h, r, core1, hist>>

ServiceIdle ==
  /\ pc0 = "svc_idle"
  /\ IF mode = "OS" /\ idle >= IdleLimit
       THEN SetMode("KEYBOARD", "idle")
       ELSE pc0' = "idle" /\ UNCHANGED <<mode, idle, ret>>
  /\ UNCHANGED <<req, ring, h, r, core1, hist>>

(***************************************************************************)
(* Core 1.                                                                 *)
(***************************************************************************)

PollTail ==
  /\ pc1 = "idle"
  /\ t' = tail
  /\ pc1' = "poll_head"
  /\ floor' = IF pc0 = "flush_head" THEN 0 ELSE gone
  /\ UNCHANGED <<mode, req, idle, ring, core0, outKc, outDown, pub, gone, taken, pushRes, raced>>

PollHead ==
  /\ pc1 = "poll_head"
  /\ pc1' = IF t = head THEN "idle" ELSE "poll_kc"
  /\ raced' = (raced \/ (t # head /\ pc0 = "flush_head"))
  /\ UNCHANGED <<mode, req, idle, ring, core0, t, outKc, outDown, pub, gone, floor, taken, pushRes>>

PollKc ==
  /\ pc1 = "poll_kc"
  /\ outKc' = kcs[t]
  /\ pc1' = "poll_pressed"
  /\ UNCHANGED <<mode, req, idle, ring, core0, t, outDown, hist>>

\* As a bug would have it: the flag is read from the entry after.
PollPressedNext ==
  /\ pc1 = "poll_pressed"
  /\ outDown' = downs[Succ(t)]
  /\ pc1' = "poll_advance"
  /\ UNCHANGED <<mode, req, idle, ring, core0, t, outKc, hist>>

PollPressed ==
  /\ pc1 = "poll_pressed"
  /\ outDown' = downs[t]
  /\ pc1' = "poll_advance"
  /\ UNCHANGED <<mode, req, idle, ring, core0, t, outKc, hist>>

PollAdvance ==
  /\ pc1 = "poll_advance"
  /\ tail' = Succ(t)
  /\ pc1' = "idle"
  /\ gone' = IF raced THEN gone ELSE gone + 1
  /\ taken' = outKc
  /\ UNCHANGED <<mode, req, idle, kcs, downs, head, core0, t, outKc, outDown, pub, floor, pushRes, raced>>

\* app_input_request_mode, from an app.
RequestMode(m) ==
  /\ pc1 = "idle"
  /\ req' = m
  /\ UNCHANGED <<mode, idle, ring, core0, core1, hist>>

\* Milliseconds pass.
Tick ==
  /\ idle < IdleLimit
  /\ idle' = idle + 1
  /\ UNCHANGED <<mode, req, ring, core0, core1, hist>>

Push    == (\E edge \in Edges : PushBegin(edge)) \/ PushKc \/ PushPressed \/ PushPublish
Flush   == FlushTail \/ FlushHead
Service == ServiceRead \/ ServiceClear \/ ServiceApply \/ ServiceIdle
PollRest == PollHead \/ PollKc \/ PollPressed \/ PollAdvance
Poll    == PollTail \/ PollRest

Next == \/ Push
        \/ \E m \in Modes : SwitchMode(m)
        \/ NoteActivity \/ ReleaseAll
        \/ Flush
        \/ Service
        \/ Poll
        \/ \E m \in Requests : RequestMode(m)
        \/ Tick

Spec == Init /\ [][Next]_vars

\* A poll that was begun is finished, but no app is bound to begin one.  Core 0 goes
\* through its main loop, so housekeeping comes round however many keys are handled in
\* between.
Fairness == /\ WF_vars(PollRest)
            /\ WF_vars(PushKc \/ PushPressed \/ PushPublish \/ Flush)
            /\ WF_vars(ServiceClear \/ ServiceApply \/ ServiceIdle)
            /\ SF_vars(ServiceRead)
            /\ WF_vars(Tick)

FairSpec == Spec /\ Fairness
-------------------------------------------------------------------------------
\* The type invariant; above all, both ring indices stay inside inq[].
TypeOK ==
  /\ mode \in Modes /\ req \in Modes \cup {NoReq} /\ idle \in 0 .. IdleLimit
  /\ kcs \in [Index -> Nat] /\ downs \in [Index -> Nat]
  /\ head \in Index /\ tail \in Index
  /\ pc0 \in {"idle", "push_kc", "push_pressed", "push_publish", "svc_clear",
              "svc_apply", "svc_idle"} \cup Flushing0
  /\ pc0 \in {"svc_clear", "svc_apply"} => r # NoReq
  /\ h \in Index /\ r \in Modes \cup {NoReq} /\ ret \in {"idle", "svc_idle"}
  /\ pc1 \in {"idle"} \cup Polling1
  /\ t \in Index /\ outKc \in Nat /\ outDown \in Nat
  /\ pub \in Nat /\ gone \in Nat /\ floor \in Nat /\ taken \in Nat
  /\ pushRes \in {"ok", "full"} /\ raced \in BOOLEAN

\* The event core 1 is about to consume is the oldest one accepted and not yet
\* taken or flushed, whole, unless a flush overlapped a poll: no loss, repeat,
\* reordering or torn entry (the ring protocol of app_input_push and _poll).
PollsOldest ==
  (pc1 = "poll_advance" /\ ~raced) => outKc = gone + 1 /\ outDown = gone + 1

\* How far index i is ahead of the consumer, going round the ring.
Ahead(i) == IF i >= tail THEN i - tail ELSE i - tail + Size

\* The inductive invariant behind PollsOldest, while no flush has overlapped a
\* poll: the entries from tail to head are the events not yet gone, in order
\* (RingHolds), and each core's local index agrees with the shared one.
RingHolds ==
  /\ gone + Ahead(head) = pub
  /\ \A i \in Index : Ahead(i) < Ahead(head) =>
       kcs[i] = gone + Ahead(i) + 1 /\ downs[i] = gone + Ahead(i) + 1

PushInv ==
  pc0 \in {"push_kc", "push_pressed", "push_publish"} =>
    /\ h = head /\ Ahead(head) < Size - 1
    /\ pc0 # "push_kc" => kcs[h] = pub + 1
    /\ pc0 = "push_publish" => downs[h] = pub + 1

PollInv ==
  /\ pc1 # "idle" => t = tail
  /\ pc1 \in {"poll_kc", "poll_pressed", "poll_advance"} =>
       /\ pc0 # "flush_head" /\ t # head
       /\ pc1 # "poll_kc" => outKc = gone + 1
       /\ pc1 = "poll_advance" => outDown = gone + 1

\* The whole of it; a flush on core 0 has reset the tail before the head.
RingInv ==
  ~raced => /\ IF pc0 = "flush_head" THEN tail = 0 /\ gone = pub ELSE RingHolds
            /\ PushInv
            /\ PollInv

\* The bridge is a bounded FIFO of Size - 1 events: a push fails only when the
\* queue is full, a poll returns the oldest, a flush empties it.
Waiting == IF raced THEN <<>> ELSE [k \in 1 .. pub - gone |-> gone + k]
Bridge == INSTANCE InputQueue WITH
            Capacity <- Size - 1, q <- Waiting, accepted <- pub, intact <- ~raced
IsFifo == Bridge!Spec

\* app_input.h:23-24 and app_input.c:43: a flush leaves no stale event behind, so
\* a poll that begins after it returns only events accepted after it.
NoStaleEvent == pc1 = "poll_advance" => outKc > floor

\* No accepted event stays in the ring for ever, as long as the app in front polls now
\* and then, or else the keyboard is left alone, so that the idle timeout flushes it
\* (an app need not poll, and a user who goes on typing keeps the timeout away).
Polls == []<>(pc1 = "poll_head")
LeftAlone == <>[](idle # 0)
AcceptedIsTaken ==
  Polls \/ LeftAlone =>
    \A n \in 1 .. MaxEvents : (pub >= n /\ gone < n) ~> (gone >= n \/ raced)

\* A forgotten OS session ends: OS mode lasts only with activity again and again.
IdleEndsOs == <>[](mode = "OS") => []<>(idle = 0)
===============================================================================
