------------------------------ MODULE MCTraffic -----------------------------
(***************************************************************************)
(* Traffic for TLC.  Scenes: locked senders and an exception; publishers   *)
(* and a socket that fails; Confirm next to a publisher; calls with and    *)
(* without noWait and a flow; listeners and both ends of the channel.      *)
(***************************************************************************)
EXTENDS Traffic

MCBodyLen   == [p \in Publishers |-> IF p = "p1" THEN 3 ELSE 0]
MCOperation == [g \in Calls |->
                  CASE g = "confirm" -> "confirmSelect" [] g = "bind" -> "queueBind" [] OTHER -> "queueDeclare"]
MCListeners == [l \in {"fl", "ca", "cl"} |->
                  CASE l = "fl" -> "flow" [] l = "ca" -> "cancel" [] OTHER -> "close"]

Scene(g, e) == [team |-> g, events |-> e]
MCScenes == {Scene({"p1", "p2", "a", "bind"}, {"close"}),
             Scene({"p1", "bind"}, {"close", "eof"}),
             Scene({"p1", "p2", "confirm"}, {"eof"}),
             Scene({"p1", "confirm"}, {"flow"}),
             Scene({"bind", "declare", "confirm"}, {"return", "close"}),
             Scene({"declare"}, {"flow", "cancel", "close", "eof"})}
=============================================================================
