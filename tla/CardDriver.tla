---------------------------- MODULE CardDriver ----------------------------
(***************************************************************************)
(* The memory card driver of the built-in kernel (emulator-core's          *)
(* hle_card.rs) as operators on its kernel variables, one command at a     *)
(* time.  A request only records the command; the VBlank step ends the     *)
(* command still in flight, then starts that of the port whose turn it is. *)
(*                                                                         *)
(* The bytes of a command are SerialPort's and MemoryCard's.  Of the byte  *)
(* sequence this keeps the three moments others can tell apart: the FLAG   *)
(* byte is checked (step "sent" to "checked"), a write is in the card      *)
(* ("stored"), the last answer is in (the command ends).  The frame that   *)
(* interrupts them ends the command in any of the three; a card exchanged  *)
(* under a command leaves it "dead", to be ended so.                       *)
(***************************************************************************)
EXTENDS Naturals

Ports  == 0..1
NoPort == 2

Operations == {"read", "write", "info"}
Outcomes   == {"ok", "timeout", "changed", "error"}

\* A driver d.  from[p] is what the buffer of p's request holds, or Buffer when it is
\* the backup unit's own buffer of the port, whose content is read as it is sent.
Buffer == [kind |-> "buffer"]

DriverType(Sectors, Frames) ==
  [started : BOOLEAN, turn : Ports, newCard : BOOLEAN,
   op : [Ports -> Operations \cup {"none"}], sector : [Ports -> Sectors],
   from : [Ports -> Frames \cup {Buffer}], result : [Ports -> Outcomes \cup {"none"}],
   active : Ports \cup {NoPort}, step : {"sent", "checked", "stored", "dead"}]

Idle(d, p) == d.op[p] = "none"

\* install, then InitCARD2 and StartCARD2: slot 2 has the first turn.
StartedDriver ==
  [started |-> TRUE, turn |-> 1, newCard |-> FALSE,
   op |-> [p \in Ports |-> "none"], sector |-> [p \in Ports |-> 0],
   from |-> [p \in Ports |-> Buffer], result |-> [p \in Ports |-> "none"],
   active |-> NoPort, step |-> "sent"]

\* request: refused (by its callers' guard) while the port has one.
Request(d, p, operation, sector, from) ==
  [d EXCEPT !.op[p] = operation, !.sector[p] = sector, !.from[p] = from]

\* finish, up to telling the backup unit.
Ended(d, outcome) ==
  LET p == d.active IN
  [d EXCEPT !.active = NoPort, !.newCard = FALSE,
            !.op[p] = "none", !.result[p] = outcome]

\* The rest of vblank once nothing is in flight: start_command for the port whose turn
\* it is.
TakeSameTurn(d) ==
  IF Idle(d, d.turn) THEN d ELSE [d EXCEPT !.active = d.turn, !.step = "sent"]
TakeTurn(d) ==
  LET p == d.turn IN
  IF Idle(d, p) THEN [d EXCEPT !.turn = 1 - p]
                ELSE [d EXCEPT !.turn = 1 - p, !.active = p, !.step = "sent"]

\* flag_error: the FLAG byte of a card that is new, and nobody said it may be.  (The
\* emulated card never sets the bit of a failed write.)
FlagError(d, new) == new /\ ~d.newCard

InitCard(d) ==
  [d EXCEPT !.op = [p \in Ports |-> "none"], !.active = NoPort,
            !.step = "sent", !.newCard = FALSE]

StartCard(d) == [d EXCEPT !.turn = 1, !.started = TRUE]
=============================================================================
