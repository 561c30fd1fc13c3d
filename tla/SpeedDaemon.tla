---------------------------- MODULE SpeedDaemon ----------------------------
(***************************************************************************)
(* The speed daemon server of src/rust/p06-speed-daemon/src/lib.rs:        *)
(*   - one task per TCP connection (handle_client, handle_camera,          *)
(*     handle_dispatcher), each a state machine over its role;             *)
(*   - the camera registry Cameras, a map road -> (limit, count) behind a  *)
(*     mutex, updated by CameraGuard::new and CameraGuard::drop;           *)
(*   - the unbounded channel of ControllerMessage into the central actor   *)
(*     (run), which owns the Controller and the Dispatchers registry with  *)
(*     its pending tickets;                                                *)
(*   - one unbounded ticket channel per dispatcher connection.             *)
(* The ticketing engine is the one of module Controller.                   *)
(*                                                                         *)
(* WantHeartbeat and the heartbeat timer touch nothing but the            *)
(* connection's own Heartbeat and socket; they are modelled in module      *)
(* Heartbeat.  A second WantHeartbeat is one of the role-illegal messages  *)
(* of ConnectionError.                                                     *)
(***************************************************************************)
EXTENDS Controller

CONSTANTS
  Conns,          \* TCP connections the listener accepts (model values)
  CameraIds,      \* IAmCamera payloads clients may send: [road, mile, limit]
  DispatchRoads,  \* IAmDispatcher road sets clients may send
  MaxPlates,      \* bound: Plate messages one camera connection sends
  NoCamera        \* model value: the connection is not a camera

ASSUME MaxPlates \in Nat

VARIABLES
  status,     \* status[c]: "free" (not yet accepted), "unidentified",
              \*   "camera", "dispatcher" or "closed"
  camOf,      \* camOf[c]: the IAmCamera of a camera connection
  roadsOf,    \* roadsOf[c]: the roads of a dispatcher connection
  platesSent, \* platesSent[c]: Plate messages sent so far (bounded)
  chan,       \* chan[c]: tickets in the dispatcher's ticket channel
  ctrlQ,      \* the actor's inbound channel of ControllerMessage
  dlist,      \* Dispatchers::dispatchers, a sequence of [id, roads]
  pending,    \* Dispatchers::pending_tickets
  cameras,    \* the camera registry: road -> [limit, count]
  outcome,    \* "running", or the error run() returned: "send_failed"
              \*   (a drain's send) or "accept_failed" (listener.accept)
  written,    \* history: <<c, t>> for every ticket written to c's socket
  lost,       \* history: tickets dropped with a dispatcher's channel
  limitsSeen  \* history: limitsSeen[r], the limits carried by the Plates
              \*   of road r the actor has handled

connVars == <<status, camOf, roadsOf, platesSent>>
actorVars == <<ctrlQ, dlist, pending, cameras, outcome>>

(* run() has not returned: the server, with every connection task, is up. *)
alive == outcome = "running"
vars == <<connVars, chan, actorVars, written, lost, ctrlVars, limitsSeen>>

Status == {"free", "unidentified", "camera", "dispatcher", "closed"}

(* ControllerMessage (lib.rs 478-486). *)
AddMsg(c, rs) == [kind |-> "AddDispatcher", id |-> c, roads |-> rs]
RemoveMsg(c) == [kind |-> "RemoveDispatcher", id |-> c]
PlateCtl(m) == [kind |-> "Plate", plate |-> m]

-----------------------------------------------------------------------------
(* Mutant of DrainStep: a ticket no dispatcher covers is dropped instead *)
(* of being kept pending.                                                 *)
DrainStepDropUncovered(dl, acc, t) ==
  LET cover == {i \in 1..Len(dl) : t.road \in dl[i].roads}
      d     == dl[Min(cover)].id
  IN CASE acc.failed -> acc
       [] cover = {} -> acc
       [] status[d] = "closed" -> [acc EXCEPT !.failed = TRUE]
       [] OTHER -> [acc EXCEPT !.chan[d] = Append(@, t)]

(* Mutant of DrainStep: a sent ticket is also kept in the pending queue. *)
DrainStepKeepSent(dl, acc, t) ==
  LET cover == {i \in 1..Len(dl) : t.road \in dl[i].roads}
      d     == dl[Min(cover)].id
  IN CASE acc.failed -> acc
       [] cover = {} -> [acc EXCEPT !.keep = Append(@, t)]
       [] status[d] = "closed" -> [acc EXCEPT !.failed = TRUE]
       [] OTHER -> [acc EXCEPT !.chan[d] = Append(@, t), !.keep = Append(@, t)]

(* Mutant of DrainStep: the roads.contains test dropped from find_map. *)
DrainStepAnyDispatcher(dl, acc, t) ==
  LET d == dl[1].id
  IN CASE acc.failed -> acc
       [] dl = <<>> -> [acc EXCEPT !.keep = Append(@, t)]
       [] status[d] = "closed" -> [acc EXCEPT !.failed = TRUE]
       [] OTHER -> [acc EXCEPT !.chan[d] = Append(@, t)]

(* Dispatchers::send_pending_tickets: every pending ticket goes to the     *)
(* first registered dispatcher whose roads contain its road, or stays      *)
(* pending.  A send to a channel whose receiver is gone is an error, and   *)
(* `?` returns it from the loop.                                           *)
DrainStep(dl, acc, t) ==
  LET cover == {i \in 1..Len(dl) : t.road \in dl[i].roads}
      d     == dl[Min(cover)].id
  IN CASE acc.failed -> acc
       [] cover = {} -> [acc EXCEPT !.keep = Append(@, t)]
       [] status[d] = "closed" -> [acc EXCEPT !.failed = TRUE]
       [] OTHER -> [acc EXCEPT !.chan[d] = Append(@, t)]

SendPendingTickets(dl, tickets) ==
  FoldLeft(LAMBDA acc, t : DrainStep(dl, acc, t),
           [chan |-> chan, keep |-> <<>>, failed |-> FALSE], tickets)

(* Apply the outcome of a drain: an error ends run() (lib.rs 576, 586),    *)
(* and with it the server; otherwise the channels and the pending queue    *)
(* are updated.                                                            *)
ApplyDrain(res) ==
  IF res.failed
  THEN /\ outcome' = "send_failed"
       /\ UNCHANGED <<chan, pending>>
  ELSE /\ chan' = res.chan
       /\ pending' = res.keep
       /\ UNCHANGED outcome

(* Mutant of ActorAddDispatcher: the pending queue drained before the    *)
(* new dispatcher is pushed.                                              *)
ActorAddDispatcherDrainFirst ==
  /\ ctrlQ # <<>>
  /\ Head(ctrlQ).kind = "AddDispatcher"
  /\ dlist' = Append(dlist, [id |-> Head(ctrlQ).id, roads |-> Head(ctrlQ).roads])
  /\ ApplyDrain(SendPendingTickets(dlist, pending))
  /\ ctrlQ' = Tail(ctrlQ)
  /\ UNCHANGED <<connVars, cameras, written, lost, ctrlVars, limitsSeen>>

(* Mutant of ActorAddDispatcher: no send_pending_tickets after the push. *)
ActorAddDispatcherNoDrain ==
  /\ ctrlQ # <<>>
  /\ Head(ctrlQ).kind = "AddDispatcher"
  /\ dlist' = Append(dlist, [id |-> Head(ctrlQ).id, roads |-> Head(ctrlQ).roads])
  /\ ctrlQ' = Tail(ctrlQ)
  /\ UNCHANGED <<connVars, chan, pending, outcome, cameras, written, lost,
                 ctrlVars, limitsSeen>>

(* The actor handles AddDispatcher: Dispatchers::add_dispatcher. *)
ActorAddDispatcher ==
  /\ ctrlQ # <<>>
  /\ Head(ctrlQ).kind = "AddDispatcher"
  /\ LET m  == Head(ctrlQ)
         dl == Append(dlist, [id |-> m.id, roads |-> m.roads])
     IN /\ dlist' = dl
        /\ ApplyDrain(SendPendingTickets(dl, pending))
  /\ ctrlQ' = Tail(ctrlQ)
  /\ UNCHANGED <<connVars, cameras, written, lost, ctrlVars, limitsSeen>>

(* The actor handles RemoveDispatcher: Dispatchers::remove_dispatcher. *)
ActorRemoveDispatcher ==
  /\ ctrlQ # <<>>
  /\ Head(ctrlQ).kind = "RemoveDispatcher"
  /\ dlist' = SelectSeq(dlist, LAMBDA e : e.id # Head(ctrlQ).id)
  /\ ctrlQ' = Tail(ctrlQ)
  /\ UNCHANGED <<connVars, chan, pending, cameras, outcome, written, lost,
                 ctrlVars, limitsSeen>>

(* The actor handles Plate: controller.signal, then                        *)
(* Dispatchers::send_tickets appends the tickets and drains.               *)
ActorPlate ==
  /\ ctrlQ # <<>>
  /\ Head(ctrlQ).kind = "Plate"
  /\ LET res == Signal(obs, days, Head(ctrlQ).plate)
     IN /\ obs' = res.obs
        /\ days' = res.days
        /\ issued' = issued \cup ToSet(res.tickets)
        /\ ApplyDrain(SendPendingTickets(dlist, pending \o res.tickets))
        /\ limitsSeen' = [limitsSeen EXCEPT ![Head(ctrlQ).plate.road] = @ \cup
                                              {Head(ctrlQ).plate.limit}]
  /\ ctrlQ' = Tail(ctrlQ)
  /\ UNCHANGED <<connVars, dlist, cameras, written, lost>>

-----------------------------------------------------------------------------
(* Mutant of LimitConflict: the limit comparison dropped. *)
LimitConflictIgnored(cam) == FALSE

(* The camera registry under its mutex.  CameraGuard::new: the entry of    *)
(* the road is created as (limit, 0) if absent; a different limit is a     *)
(* conflict, otherwise the count goes up.                                  *)
LimitConflict(cam) ==
  cam.road \in DOMAIN cameras /\ cameras[cam.road].limit # cam.limit

CameraGuardNew(cam) ==
  LET cnt == IF cam.road \in DOMAIN cameras THEN cameras[cam.road].count ELSE 0
  IN (cam.road :> [limit |-> cam.limit, count |-> cnt + 1]) @@ cameras

(* Mutant of CameraGuardDrop: the entry is kept when the count hits zero. *)
CameraGuardDropKeepEntry(road) == [cameras EXCEPT ![road].count = @ - 1]

(* CameraGuard::drop: the count goes down and the entry goes at zero. *)
CameraGuardDrop(road) ==
  IF cameras[road].count = 1
  THEN [r \in DOMAIN cameras \ {road} |-> cameras[r]]
  ELSE [cameras EXCEPT ![road].count = @ - 1]

(* Mutant of ConnectionError: the dispatcher's guard is leaked, so no     *)
(* RemoveDispatcher is sent.                                              *)
ConnectionErrorNoRemove(c) ==
  /\ status[c] \in {"unidentified", "camera", "dispatcher"}
  /\ status' = [status EXCEPT ![c] = "closed"]
  /\ cameras' = IF status[c] = "camera" THEN CameraGuardDrop(camOf[c].road)
                                        ELSE cameras
  /\ lost' = lost \o chan[c]
  /\ chan' = [chan EXCEPT ![c] = <<>>]
  /\ UNCHANGED <<camOf, roadsOf, platesSent, ctrlQ, dlist, pending, outcome,
                 written, ctrlVars, limitsSeen>>

(* The end of a connection task, on any error (a bad or role-illegal       *)
(* message, a read error, EOF, a failed write): the role handler returns,  *)
(* which drops its guard (a camera's registry entry; a dispatcher's        *)
(* RemoveDispatcher message, then its ticket receiver with whatever it     *)
(* still holds), and handle_client writes the Error message and shuts the  *)
(* socket down.                                                            *)
ConnectionError(c) ==
  /\ status[c] \in {"unidentified", "camera", "dispatcher"}
  /\ status' = [status EXCEPT ![c] = "closed"]
  /\ cameras' = IF status[c] = "camera" THEN CameraGuardDrop(camOf[c].road)
                                        ELSE cameras
  /\ ctrlQ' = IF status[c] = "dispatcher" THEN Append(ctrlQ, RemoveMsg(c))
                                          ELSE ctrlQ
  /\ lost' = lost \o chan[c]
  /\ chan' = [chan EXCEPT ![c] = <<>>]
  /\ UNCHANGED <<camOf, roadsOf, platesSent, dlist, pending, outcome,
                 written, ctrlVars, limitsSeen>>

(* The listener accepts a connection and spawns handle_client. *)
Accept(c) ==
  /\ status[c] = "free"
  /\ status' = [status EXCEPT ![c] = "unidentified"]
  /\ UNCHANGED <<camOf, roadsOf, platesSent, chan, actorVars,
                 written, lost, ctrlVars, limitsSeen>>

(* listener.accept() returns an error for a pending connection (one that *)
(* was reset before it was taken, or no file descriptor is left):         *)
(* `handler?` returns it from run(), and main and the runtime end.        *)
AcceptFails(c) ==
  /\ status[c] = "free"
  /\ status' = [status EXCEPT ![c] = "closed"]
  /\ outcome' = "accept_failed"
  /\ UNCHANGED <<camOf, roadsOf, platesSent, chan, ctrlQ, dlist, pending,
                 cameras, written, lost, ctrlVars, limitsSeen>>

(* IAmCamera from an unidentified connection: handle_camera takes the      *)
(* CameraGuard, or fails with "limit conflict" and the connection ends.    *)
IAmCamera(c, cam) ==
  /\ status[c] = "unidentified"
  /\ IF LimitConflict(cam)
     THEN /\ status' = [status EXCEPT ![c] = "closed"]
          /\ UNCHANGED <<cameras, camOf>>
     ELSE /\ status' = [status EXCEPT ![c] = "camera"]
          /\ camOf' = [camOf EXCEPT ![c] = cam]
          /\ cameras' = CameraGuardNew(cam)
  /\ UNCHANGED <<roadsOf, platesSent, chan, ctrlQ, dlist, pending,
                 outcome, written, lost, ctrlVars, limitsSeen>>

(* IAmDispatcher from an unidentified connection: handle_dispatcher makes  *)
(* its ticket channel and DispatcherGuard::new sends AddDispatcher.        *)
IAmDispatcher(c, rs) ==
  /\ status[c] = "unidentified"
  /\ status' = [status EXCEPT ![c] = "dispatcher"]
  /\ roadsOf' = [roadsOf EXCEPT ![c] = rs]
  /\ ctrlQ' = Append(ctrlQ, AddMsg(c, rs))
  /\ UNCHANGED <<camOf, platesSent, chan, dlist, pending, cameras,
                 outcome, written, lost, ctrlVars, limitsSeen>>

(* Plate from a camera: forwarded to the actor with the camera's road,     *)
(* mile and limit.                                                         *)
CameraPlate(c, p, ts) ==
  /\ status[c] = "camera"
  /\ platesSent[c] < MaxPlates
  /\ platesSent' = [platesSent EXCEPT ![c] = @ + 1]
  /\ ctrlQ' = Append(ctrlQ, PlateCtl([plate |-> p, road |-> camOf[c].road,
                                       limit |-> camOf[c].limit,
                                       mile |-> camOf[c].mile,
                                       timestamp |-> ts]))
  /\ UNCHANGED <<status, camOf, roadsOf, chan, dlist, pending, cameras,
                 outcome, written, lost, ctrlVars, limitsSeen>>

(* A dispatcher task receives a ticket from its channel and writes it. *)
DispatcherWrite(c) ==
  /\ status[c] = "dispatcher"
  /\ chan[c] # <<>>
  /\ written' = Append(written, <<c, Head(chan[c])>>)
  /\ chan' = [chan EXCEPT ![c] = Tail(@)]
  /\ UNCHANGED <<connVars, actorVars, lost, ctrlVars, limitsSeen>>

-----------------------------------------------------------------------------
Init ==
  /\ status = [c \in Conns |-> "free"]
  /\ camOf = [c \in Conns |-> NoCamera]
  /\ roadsOf = [c \in Conns |-> {}]
  /\ platesSent = [c \in Conns |-> 0]
  /\ chan = [c \in Conns |-> <<>>]
  /\ ctrlQ = <<>>
  /\ dlist = <<>>
  /\ pending = <<>>
  /\ cameras = [r \in {} |-> 0]
  /\ outcome = "running"
  /\ written = <<>>
  /\ limitsSeen = [r \in Roads |-> {}]
  /\ lost = <<>>
  /\ CtrlInit

(* The central actor's select branch on its channel. *)
Actor == ActorAddDispatcher \/ ActorRemoveDispatcher \/ ActorPlate

(* Every step needs the server running: once run() has returned its error  *)
(* main returns and the runtime, with every connection task, is gone.      *)
Next ==
  /\ alive
  /\ \/ Actor
     \/ \E c \in Conns :
          \/ Accept(c)
          \/ AcceptFails(c)
          \/ \E cam \in CameraIds : IAmCamera(c, cam)
          \/ \E rs \in DispatchRoads : IAmDispatcher(c, rs)
          \/ \E p \in Plates, ts \in Timestamps : CameraPlate(c, p, ts)
          \/ DispatcherWrite(c)
          \/ ConnectionError(c)

(* Tokio polls every task whose future can make progress: the actor while  *)
(* its channel holds a message, a dispatcher while its channel holds a     *)
(* ticket.  Clients are not obliged to do anything.                        *)
Fairness ==
  /\ WF_vars(alive /\ Actor)
  /\ \A c \in Conns : WF_vars(alive /\ DispatcherWrite(c))

Spec == Init /\ [][Next]_vars /\ Fairness

-----------------------------------------------------------------------------
TypeOK ==
  /\ status \in [Conns -> Status]
  /\ camOf \in [Conns -> CameraIds \cup {NoCamera}]
  /\ roadsOf \in [Conns -> SUBSET Roads]
  /\ platesSent \in [Conns -> 0..MaxPlates]
  /\ chan \in [Conns -> Seq(Ticket)]
  /\ \A i \in 1..Len(dlist) : dlist[i].id \in Conns /\ dlist[i].roads \subseteq Roads
  /\ pending \in Seq(Ticket)
  /\ DOMAIN cameras \subseteq Roads
  /\ \A r \in DOMAIN cameras : cameras[r].count \in 1..Cardinality(Conns)
  /\ outcome \in {"running", "send_failed", "accept_failed"}
  /\ CtrlTypeOK

CountIn(s, t) == Len(SelectSeq(s, LAMBDA x : x = t))

(* How many copies of ticket t the server holds or has handed out: in the  *)
(* pending queue, in dispatcher channels, written to sockets, or dropped   *)
(* with a closed dispatcher's channel.                                     *)
Copies(t) ==
  CountIn(pending, t)
    + MapThenSumSet(LAMBDA c : CountIn(chan[c], t), Conns)
    + Len(SelectSeq(written, LAMBDA w : w[2] = t))
    + CountIn(lost, t)

(* Invariant I4 and more: while the server runs, every ticket signal has   *)
(* returned exists exactly once, in the pending queue, in one channel, on  *)
(* one socket, or lost with its dispatcher; the drain of                   *)
(* send_pending_tickets neither duplicates nor drops one.                  *)
TicketConservation ==
  alive => \A t \in issued : Copies(t) = 1

(* Invariant I3: a ticket in a dispatcher's channel, or written to its     *)
(* socket, is for a road of that dispatcher.                               *)
RoutedToCoveringDispatcher ==
  /\ \A c \in Conns : \A i \in 1..Len(chan[c]) : chan[c][i].road \in roadsOf[c]
  /\ \A i \in 1..Len(written) : written[i][2].road \in roadsOf[written[i][1]]

(* Section 4.4: between two actor steps no pending ticket has a registered *)
(* dispatcher for its road; add_dispatcher drains the queue, and a ticket  *)
(* is only queued when no registered dispatcher covers it.                 *)
NoStrandedPending ==
  alive =>
    \A i \in 1..Len(pending) : \A j \in 1..Len(dlist) :
      pending[i].road \notin dlist[j].roads

(* Invariant I1 with the reference counts of CameraGuard: the registry has *)
(* an entry for exactly the roads with a live camera connection, counting  *)
(* them, and every live camera of a road declared the entry's limit.       *)
CameraRegistryConsistent ==
  \A r \in Roads :
    LET live == {c \in Conns : status[c] = "camera" /\ camOf[c].road = r}
    IN /\ (r \in DOMAIN cameras) <=> (live # {})
       /\ r \in DOMAIN cameras =>
            /\ cameras[r].count = Cardinality(live)
            /\ \A c \in live : camOf[c].limit = cameras[r].limit

(* DispatcherGuard: a dispatcher still in the actor's registry whose       *)
(* connection has ended always has its RemoveDispatcher on the way, so     *)
(* the registry cannot keep it forever.                                    *)
ClosedDispatcherLeaving ==
  \A i \in 1..Len(dlist) :
    status[dlist[i].id] = "closed" =>
      \E j \in 1..Len(ctrlQ) : ctrlQ[j] = RemoveMsg(dlist[i].id)


(* Section 7, for the drains of add_dispatcher and send_tickets: no ticket *)
(* send to a dispatcher that has gone ends run().                          *)
NoDrainSendFails == outcome # "send_failed"

(* A ticket leaves the server once a dispatcher task has written it.      *)
WrittenTickets == {written[i][2] : i \in DOMAIN written}

OneLimitPerRoad ==
  \A r \in Roads : Cardinality(limitsSeen[r]) <= 1

(* An issued ticket is still inside the server, neither written to a      *)
(* socket nor dropped with a channel, while a connected dispatcher covers  *)
(* its road.                                                               *)
Undelivered ==
  {t \in issued \ (WrittenTickets \cup ToSet(lost)) :
     \E c \in Conns : status[c] = "dispatcher" /\ t.road \in roadsOf[c]}

(* Sections 4.4 and 5 (S4): while the server runs, a ticket whose road a   *)
(* connected dispatcher covers does not stay inside it.  It takes the      *)
(* actor's drain in add_dispatcher or send_tickets to move it from the     *)
(* pending queue into a channel, and the dispatcher task's recv arm to     *)
(* write it (or the end of that task to drop it).  Tickets issued before   *)
(* any dispatcher of their road connected are the case to get right.       *)
TicketEventuallyDelivered ==
  (alive /\ Undelivered # {}) ~> (~alive \/ Undelivered = {})
=============================================================================
