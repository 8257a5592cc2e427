----------------------------- MODULE PhotoFeed -----------------------------
(* What a frame may rely on, whoever asks for photos and however often: on   *)
(* one connection no photo is sent again while it is among the last History  *)
(* sent, and a new connection starts from nothing, for a frame that has      *)
(* rebooted holds nothing.                                                   *)
EXTENDS Naturals, Sequences, Functions

CONSTANTS
  Photos,    \* the photos there are
  History    \* SENT_HISTORY: how many sent photos a connection remembers

VARIABLE wire  \* the last History photos sent on the current connection

Init == wire = <<>>

\* The last History elements of a sequence.
Latest(s) == IF Len(s) > History THEN SubSeq(s, Len(s) - History + 1, Len(s)) ELSE s

Send(p) == p \notin Range(wire) /\ wire' = Latest(Append(wire, p))

Reconnect == wire' = <<>>

Next == (\E p \in Photos : Send(p)) \/ Reconnect

Spec == Init /\ [][Next]_wire

\* No photo is among the last History sent twice (control_server.py:53).
NoRepeat == IsInjective(wire)
=============================================================================
