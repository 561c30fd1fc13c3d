--------------------------- MODULE MC_SpeedDaemon ---------------------------
(* The server with up to four connections (three in the other runs),     *)
(* each free to become a camera or a dispatcher: two cameras of road 1 one *)
(* mile apart (60 mph), a camera of road 1 declaring 70 mph (a limit       *)
(* conflict), dispatchers of road 1 or 2, one plate seen 45 s apart        *)
(* (80 mph, a ticket).                                                     *)
EXTENDS SpeedDaemon

MCRoads == {1, 2}
MCMiles == {8, 9}
MCTimestamps == {0, 45}
MCLimits == [r \in MCRoads |-> 60]
MCCameraIds == {[road |-> 1, mile |-> 8, limit |-> 60],
                [road |-> 1, mile |-> 9, limit |-> 60],
                [road |-> 1, mile |-> 9, limit |-> 70]}
MCDispatchRoads == {{1}, {2}}

(* For the liveness run: only the two agreeing cameras and road 1. *)
LiveCameraIds == {[road |-> 1, mile |-> 8, limit |-> 60],
                  [road |-> 1, mile |-> 9, limit |-> 60]}
LiveDispatchRoads == {{1}}

(* Connections are interchangeable: nothing in the server depends on which *)
(* socket a client uses (the dispatcher id is only compared for equality). *)
ConnSymmetry == Permutations(Conns)
=============================================================================
