----------------------------- MODULE Heartbeat -----------------------------
(***************************************************************************)
(* One connection task of src/rust/p06-speed-daemon/src/lib.rs seen from   *)
(* its heartbeat: the struct Heartbeat (734-777) and the select! loops of  *)
(* handle_client, handle_camera and handle_dispatcher, whose read arm and  *)
(* heartbeat arm compete.                                                  *)
(*                                                                         *)
(* The read arm completes when the tag byte (read_u8) arrives; the payload *)
(* is then read inside the arm, so the loop does not poll the heartbeat    *)
(* arm until the payload is complete.  The two reads are separate steps    *)
(* here.                                                                   *)
(*                                                                         *)
(* Widths: an interval is a u32, kept as <<hi, lo>> with 16-bit halves,   *)
(* since TLC's integers are 32-bit signed.  A period in milliseconds is    *)
(* <<hi, lo>> meaning hi * 2^16 + lo.                                      *)
(***************************************************************************)
EXTENDS Integers

CONSTANTS
  Intervals,       \* WantHeartbeat intervals clients may send, as <<hi, lo>>
  OverflowPanics,  \* TRUE for a build with overflow checks (debug profile)
  NoPeriod         \* model value: Heartbeat::period is None

ASSUME OverflowPanics \in BOOLEAN

Half == 65536

VARIABLES
  role,       \* "unidentified", "camera", "dispatcher" or "closed"
  reading,    \* "tag" (in select!) or the tag whose payload is being read
  period,     \* Heartbeat::period in ms, or NoPeriod
  due,        \* the Interval's next deadline has passed, its tick is ready
  accepted,   \* history: WantHeartbeat messages whose period was set
  requested   \* history: the interval of the last one

vars == <<role, reading, period, due, accepted, requested>>

Open == {"unidentified", "camera", "dispatcher"}
Tags == {"WantHeartbeat", "IAmCamera", "IAmDispatcher", "Plate", "Other"}

(* Mutant of Mul100Wide: the interval taken as milliseconds. *)
Mul1Wide(i) == i


(* u64::from(i) * 100: no overflow, the high part may exceed 16 bits. *)
Mul100Wide(i) ==
  <<i[1] * 100 + (i[2] * 100) \div Half, (i[2] * 100) % Half>>

(* i * 100 in u32 (line 637): overflows when the high part does not fit.  *)
Overflows(i) == Mul100Wide(i)[1] >= Half
Mul100Wrapping(i) == <<Mul100Wide(i)[1] % Half, Mul100Wide(i)[2]>>

(* Heartbeat::is_setted: a period, zero or not, has been set. *)
IsSetted == period # NoPeriod

(* Heartbeat::is_valid: set_period made an Interval, i.e. the period is    *)
(* not zero.                                                               *)
IsValid == period \notin {NoPeriod, <<0, 0>>}

(* Heartbeat::set_period: a zero period disables the Interval; otherwise   *)
(* interval_at(now + period, period) restarts it, nothing is due yet.      *)
SetPeriod(ms) ==
  /\ period' = ms
  /\ due' = FALSE

-----------------------------------------------------------------------------
Init ==
  /\ role = "unidentified"
  /\ reading = "tag"
  /\ period = NoPeriod
  /\ due = FALSE
  /\ accepted = 0
  /\ requested = <<0, 0>>

(* Mutant of MatchTag: the `if !heartbeat.is_setted()` match guard       *)
(* dropped, so every WantHeartbeat is read and taken.                       *)
MatchTagAnyWant(k, arms) ==
  /\ reading = "tag"
  /\ IF k \in arms \/ k = "WantHeartbeat"
     THEN /\ reading' = k
          /\ UNCHANGED role
     ELSE /\ role' = "closed"
          /\ UNCHANGED reading
  /\ UNCHANGED <<period, due, accepted, requested>>

(* The read arm wins the select!: read_u8 returns tag k.  The match      *)
(* starts the payload read of a tag the loop has an arm for (WantHeartbeat *)
(* only while no period is set); any other tag is an invalid message and  *)
(* ends the task.                                                          *)
MatchTag(k, arms) ==
  /\ reading = "tag"
  /\ IF k \in arms \/ (k = "WantHeartbeat" /\ ~IsSetted)
     THEN /\ reading' = k
          /\ UNCHANGED role
     ELSE /\ role' = "closed"
          /\ UNCHANGED reading
  /\ UNCHANGED <<period, due, accepted, requested>>

ReadTagClient(k) == role = "unidentified" /\ MatchTag(k, {"IAmCamera", "IAmDispatcher"})
ReadTagCamera(k) == role = "camera" /\ MatchTag(k, {"Plate"})
ReadTagDispatcher(k) == role = "dispatcher" /\ MatchTag(k, {})

(* A WantHeartbeat payload arrives and set_period is called. *)
TakeInterval(ms, i) ==
  /\ reading' = "tag"
  /\ SetPeriod(ms)
  /\ accepted' = accepted + 1
  /\ requested' = i
  /\ UNCHANGED role

(* handle_client: i * 100 as u32, which panics (the task dies, no Error   *)
(* is written) in a build with overflow checks and wraps in one without.  *)
WantHeartbeatClient(i) ==
  /\ role = "unidentified"
  /\ reading = "WantHeartbeat"
  /\ \/ /\ Overflows(i) /\ OverflowPanics
        /\ role' = "closed"
        /\ UNCHANGED <<reading, period, due, accepted, requested>>
     \/ /\ ~(Overflows(i) /\ OverflowPanics)
        /\ TakeInterval(Mul100Wrapping(i), i)

(* handle_camera and handle_dispatcher: u64::from(i) * 100. *)
WantHeartbeatCamera(i) ==
  /\ role = "camera" /\ reading = "WantHeartbeat"
  /\ TakeInterval(Mul100Wide(i), i)

WantHeartbeatDispatcher(i) ==
  /\ role = "dispatcher" /\ reading = "WantHeartbeat"
  /\ TakeInterval(Mul100Wide(i), i)

(* Mutant of IAmCameraPayload: handle_camera starts a fresh Heartbeat. *)
IAmCameraPayloadFreshHeartbeat ==
  /\ role = "unidentified" /\ reading = "IAmCamera"
  /\ reading' = "tag"
  /\ role' \in {"camera", "closed"}
  /\ period' = NoPeriod
  /\ UNCHANGED <<due, accepted, requested>>

(* IAmCamera's payload: handle_camera gets the same Heartbeat, or is       *)
(* refused by the camera registry (limit conflict, module SpeedDaemon).   *)
IAmCameraPayload ==
  /\ role = "unidentified" /\ reading = "IAmCamera"
  /\ reading' = "tag"
  /\ role' \in {"camera", "closed"}
  /\ UNCHANGED <<period, due, accepted, requested>>

(* IAmDispatcher's payload: handle_dispatcher gets the same Heartbeat. *)
IAmDispatcherPayload ==
  /\ role = "unidentified" /\ reading = "IAmDispatcher"
  /\ reading' = "tag"
  /\ role' = "dispatcher"
  /\ UNCHANGED <<period, due, accepted, requested>>

(* A Plate's payload: forwarded to the actor, the loop goes on. *)
PlatePayload ==
  /\ role = "camera" /\ reading = "Plate"
  /\ reading' = "tag"
  /\ UNCHANGED <<role, period, due, accepted, requested>>

(* The Interval's deadline passes (tokio timer). *)
Expire ==
  /\ role \in Open
  /\ IsValid
  /\ ~due
  /\ due' = TRUE
  /\ UNCHANGED <<role, reading, period, accepted, requested>>

(* The heartbeat arm, `if heartbeat.is_valid()`, wins the select! and      *)
(* writes a Heartbeat; only while the loop is back in select!.             *)
HeartbeatArm ==
  /\ reading = "tag"
  /\ IsValid
  /\ due
  /\ due' = FALSE
  /\ UNCHANGED <<role, reading, period, accepted, requested>>

TickClient == role = "unidentified" /\ HeartbeatArm
TickCamera == role = "camera" /\ HeartbeatArm
TickDispatcher == role = "dispatcher" /\ HeartbeatArm

Tick == TickClient \/ TickCamera \/ TickDispatcher

(* EOF, a read or write error: the task ends. *)
Disconnect ==
  /\ role \in Open
  /\ role' = "closed"
  /\ UNCHANGED <<reading, period, due, accepted, requested>>

Next ==
  \/ \E k \in Tags : ReadTagClient(k) \/ ReadTagCamera(k) \/ ReadTagDispatcher(k)
  \/ \E i \in Intervals :
       WantHeartbeatClient(i) \/ WantHeartbeatCamera(i) \/ WantHeartbeatDispatcher(i)
  \/ IAmCameraPayload
  \/ IAmDispatcherPayload
  \/ PlatePayload
  \/ Expire
  \/ Tick
  \/ Disconnect

(* The runtime polls a ready select! arm; the client may stall at will.    *)
Spec == Init /\ [][Next]_vars /\ WF_vars(Tick) /\ WF_vars(Expire)

-----------------------------------------------------------------------------
TypeOK ==
  /\ role \in Open \cup {"closed"}
  /\ reading \in {"tag"} \cup Tags
  /\ period = NoPeriod \/ (period \in Nat \X (0..Half - 1))
  /\ due \in BOOLEAN
  /\ accepted \in 0..2
  /\ requested \in Intervals \cup {<<0, 0>>}

(* Section 4.2: the server sends a Heartbeat every interval * 100 ms; the  *)
(* period the task has set is the one the last accepted WantHeartbeat      *)
(* asked for, in whichever role it came.                                   *)
(* Checked against the product itself: hi * 2^16 + lo = 100 * interval,   *)
(* rearranged so that no intermediate leaves TLC's integers.              *)
PeriodAsRequested ==
  accepted > 0 =>
    /\ period # NoPeriod
    /\ period[1] >= 100 * requested[1]
    /\ (period[1] - 100 * requested[1]) * Half + period[2] = 100 * requested[2]

(* Section 4.2: WantHeartbeat may arrive at most once per connection, also *)
(* when the first came before IAmCamera or IAmDispatcher.                  *)
OneWantHeartbeat == accepted <= 1

(* Section 4.2: a heartbeat that is due is sent, independent of other      *)
(* traffic, while the connection lasts.                                    *)
HeartbeatDueIsSent == (due /\ role \in Open) ~> (~due \/ role = "closed")
=============================================================================
