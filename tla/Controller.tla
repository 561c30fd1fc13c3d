----------------------------- MODULE Controller -----------------------------
(***************************************************************************)
(* The ticketing engine of the speed daemon: controller::Controller and    *)
(* its method signal(plate) -> Vec<Ticket>, called by the central actor of *)
(* src/rust/p06-speed-daemon/src/lib.rs (line 584).  The file              *)
(* controller.rs is not among the sources, so every definition here is     *)
(* modelled from spec.md section 4.3 (Observation Store, Ticketed-Days     *)
(* Set, pair iteration policy, late observations).                         *)
(*                                                                         *)
(* Data: an observation of a plate on a road is the pair <<ts, mile>>.     *)
(* Timestamps and miles are kept as the integers the protocol carries, so  *)
(* the day arithmetic floor(ts / 86400) and the speed rounding are the     *)
(* real ones.                                                              *)
(***************************************************************************)
EXTENDS Integers, Sequences, SequencesExt, FiniteSets

CONSTANTS
  Plates,       \* plate names (model values)
  Roads,        \* road numbers (u16)
  Timestamps,   \* timestamps a camera may report (u32 seconds)
  Miles         \* mile markers a camera may sit at (u16)

VARIABLES
  obs,          \* obs[r][p]: the set of <<ts, mile>> observed of p on road r
  days,         \* days[p]: the ticketed-days set of plate p
  issued        \* history: every ticket signal has returned so far

ctrlVars == <<obs, days, issued>>

DaySeconds == 86400
U16Max == 65535

Day(ts) == ts \div DaySeconds

(* A ticket as the wire message 0x21 carries it. *)
Ticket == [plate: Plates, road: Roads, mile1: Miles, timestamp1: Timestamps,
           mile2: Miles, timestamp2: Timestamps, speed: 0..U16Max]

(* A Plate message as the camera session forwards it (lib.rs 801-807). *)
PlateMsg == [plate: Plates, road: Roads, mile: Miles, limit: 0..U16Max,
             timestamp: Timestamps]

(* The day span of the pair a = <<ts, mile>>, b = <<ts, mile>>, a before b. *)
Span(a, b) == Day(a[1])..Day(b[1])

(* Mutant of Violates: the half mile per hour of tolerance forgotten. *)
ViolatesAtLimit(a, b, limit) ==
  IF a[2] >= b[2] THEN 3600 * (a[2] - b[2]) >= limit * (b[1] - a[1])
                  ELSE 3600 * (b[2] - a[2]) >= limit * (b[1] - a[1])

(* speed_mph >= limit + 0.5, in integers: 2 * 3600 * dx >= (2 * limit + 1) * dt *)
Dist(a, b) == IF a[2] >= b[2] THEN a[2] - b[2] ELSE b[2] - a[2]
Violates(a, b, limit) ==
  2 * 3600 * Dist(a, b) >= (2 * limit + 1) * (b[1] - a[1])

(* Mutant of Speed: no clamp to u16::MAX. *)
SpeedUnclamped(a, b) ==
  LET dx == IF a[2] >= b[2] THEN a[2] - b[2] ELSE b[2] - a[2]
  IN (2 * 360000 * dx + (b[1] - a[1])) \div (2 * (b[1] - a[1]))

(* round(100 * dx * 3600 / dt), half up, clamped to u16::MAX. *)
Speed(a, b) ==
  LET s == (2 * 360000 * Dist(a, b) + (b[1] - a[1])) \div (2 * (b[1] - a[1]))
  IN IF s > U16Max THEN U16Max ELSE s

MkTicket(p, r, a, b) ==
  [plate |-> p, road |-> r, mile1 |-> a[2], timestamp1 |-> a[1],
   mile2 |-> b[2], timestamp2 |-> b[1], speed |-> Speed(a, b)]

(* Step 1: sorted insert; a timestamp already present keeps the first mile. *)
Inserted(S, n) == IF \E o \in S : o[1] = n[1] THEN S ELSE S \cup {n}

(* Mutant of CandidatePairs: only pairs closed by the new observation as  *)
(* the later one, i.e. no retroactive evaluation of late observations.    *)
CandidatePairsNewLast(S, n, limit) ==
  { pr \in (S \X S) : /\ pr[1][1] < pr[2][1]
                      /\ pr[2] = n
                      /\ Violates(pr[1], pr[2], limit) }

(* Step 2: the candidate pairs (a, b), a before b, one of them the new     *)
(* observation n, in the order of the sorted sequence: pairs (j, i) for    *)
(* j < i first, then (i, k) for k > i, i.e. by a's then b's timestamp.     *)
CandidatePairs(S, n, limit) ==
  { pr \in (S \X S) : /\ pr[1][1] < pr[2][1]
                      /\ n \in {pr[1], pr[2]}
                      /\ Violates(pr[1], pr[2], limit) }

PairBefore(x, y) ==
  \/ x[1][1] < y[1][1]
  \/ x[1][1] = y[1][1] /\ x[2][1] < y[2][1]

(* Mutant of EmitStep: only the day of the first observation recorded. *)
EmitStepFirstDayOnly(p, r, acc, pr) ==
    IF Span(pr[1], pr[2]) \cap acc.days # {}
    THEN acc
    ELSE [days    |-> acc.days \cup {Day(pr[1][1])},
          tickets |-> Append(acc.tickets, MkTicket(p, r, pr[1], pr[2]))]

(* Step 3: greedy emission; a pair whose span meets a ticketed day is      *)
(* skipped, otherwise its ticket is emitted and its whole span recorded.   *)
EmitStep(p, r, acc, pr) ==
    IF Span(pr[1], pr[2]) \cap acc.days # {}
    THEN acc
    ELSE [days    |-> acc.days \cup Span(pr[1], pr[2]),
          tickets |-> Append(acc.tickets, MkTicket(p, r, pr[1], pr[2]))]

(* Controller::signal as a value: the new store, the new ticketed days of  *)
(* the plate and the sequence of tickets returned to the actor.            *)
Signal(o, d, m) ==
  LET n     == <<m.timestamp, m.mile>>
      S     == o[m.road][m.plate]
      fresh == ~\E x \in S : x[1] = n[1]
      pairs == IF fresh
               THEN SetToSortSeq(CandidatePairs(S \cup {n}, n, m.limit),
                                 PairBefore)
               ELSE <<>>
      res   == FoldLeft(LAMBDA acc, pr : EmitStep(m.plate, m.road, acc, pr),
                        [days |-> d[m.plate], tickets |-> <<>>], pairs)
  IN [obs     |-> [o EXCEPT ![m.road][m.plate] = Inserted(S, n)],
      days    |-> [d EXCEPT ![m.plate] = res.days],
      tickets |-> res.tickets]

-----------------------------------------------------------------------------
(* The engine on its own: any camera reports any plate at any time.        *)
(* Limits[r] is the limit every camera of road r declares (invariant I1).  *)

CONSTANT Limits

CtrlInit ==
  /\ obs = [r \in Roads |-> [p \in Plates |-> {}]]
  /\ days = [p \in Plates |-> {}]
  /\ issued = {}

Handle(m) ==
  LET res == Signal(obs, days, m)
  IN /\ obs' = res.obs
     /\ days' = res.days
     /\ issued' = issued \cup ToSet(res.tickets)

CtrlNext ==
  \E p \in Plates, r \in Roads, mi \in Miles, t \in Timestamps :
    Handle([plate |-> p, road |-> r, mile |-> mi, limit |-> Limits[r],
            timestamp |-> t])

CtrlSpec == CtrlInit /\ [][CtrlNext]_ctrlVars

-----------------------------------------------------------------------------
CtrlTypeOK ==
  /\ obs \in [Roads -> [Plates -> SUBSET (Timestamps \X Miles)]]
  /\ days \in [Plates -> SUBSET Nat]
  /\ issued \subseteq Ticket

(* Section 8.1 and invariant I2: two different tickets of one plate never  *)
(* share a day, across roads and whatever order the observations came in.  *)
TicketDaysDisjoint ==
  \A t1, t2 \in issued :
    (t1 # t2 /\ t1.plate = t2.plate) =>
      (Day(t1.timestamp1)..Day(t1.timestamp2))
        \cap (Day(t2.timestamp1)..Day(t2.timestamp2)) = {}

(* Retroactive pair evaluation (section 4.3, 9): every pair of stored      *)
(* observations that violates the limit is answered for, by a ticket of    *)
(* the plate on one of the pair's days, however late either observation   *)
(* arrived.                                                                *)
EveryViolationTicketed ==
  \A r \in Roads, p \in Plates :
    \A a, b \in obs[r][p] :
      (a[1] < b[1] /\ Violates(a, b, Limits[r])) =>
        Span(a, b) \cap days[p] # {}

(* Every ticket records the days it spans, and its speed is at least       *)
(* limit + 0.5 mph (section 8.2) computed from two stored observations     *)
(* (section 8.3).                                                          *)
TicketsWellFounded ==
  \A t \in issued :
    /\ t.timestamp1 < t.timestamp2
    /\ <<t.timestamp1, t.mile1>> \in obs[t.road][t.plate]
    /\ <<t.timestamp2, t.mile2>> \in obs[t.road][t.plate]
    /\ t.speed >= 100 * Limits[t.road] + 50
    /\ Day(t.timestamp1)..Day(t.timestamp2) \subseteq days[t.plate]
=============================================================================
