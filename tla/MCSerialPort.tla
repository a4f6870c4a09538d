--------------------------- MODULE MCSerialPort ---------------------------
(***************************************************************************)
(* One card and one pad behind port 1, either of which may be missing, and *)
(* an empty port 2: a card of one frame of two bytes, so that every other  *)
(* frame number lies beyond its end.                                       *)
(***************************************************************************)
EXTENDS SerialPort

MCPorts == {1, 2}
MCCards == [p \in {1, 2} |->
  IF p = 1 THEN {Card([f \in 0..Frames - 1 |-> <<0, 1>>], TRUE)} ELSE {}]
MCCtrl == {{"joyn", "ackIrq"}, {"joyn", "slot2"}, {"force"}}

\* Nothing reads DATA's arrival or STAT's interrupt bit but software.
Unread == <<[sio EXCEPT !.rx = FALSE, !.latched = FALSE], ports, event, hist>>
=============================================================================
