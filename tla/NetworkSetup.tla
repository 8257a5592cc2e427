---------------------------- MODULE NetworkSetup ----------------------------
(* What the owner of a frame may rely on while it looks for a network: it    *)
(* joins none but what it was built with or a phone has asked for since it   *)
(* was switched on; whatever it tries ends with the setup network open       *)
(* again or with the network joined, which it then stays on; or else it has  *)
(* stopped for good, until it is switched off and on.                        *)
CONSTANTS
  Networks,
  Right,     \* those that can be joined with the credentials given
  Baked,     \* the network built into the firmware, if any
  Nowhere    \* no network

VARIABLES
  stage,     \* starting, open (the portal is), joining, joined or dead
  network,   \* the network being joined, or joined
  asked      \* the networks that phones have asked for

vars == <<stage, network, asked>>

Init == stage = "starting" /\ network = Nowhere /\ asked = {}

Ask(n) == asked' = asked \cup {n} /\ UNCHANGED <<stage, network>>

Open ==
  /\ stage \in {"starting", "joining"} /\ stage' = "open" /\ network' = Nowhere
  /\ UNCHANGED asked

Try(n) ==
  /\ \/ stage = "starting" /\ n \in Baked
     \/ stage = "open" /\ n \in asked
  /\ stage' = "joining" /\ network' = n /\ UNCHANGED asked

\* The network built in cannot be joined.
Miss ==
  /\ stage = "joining" /\ network \in Baked
  /\ stage' = "starting" /\ network' = Nowhere /\ UNCHANGED asked

Join ==
  /\ stage = "joining" /\ network \in Right
  /\ stage' = "joined" /\ UNCHANGED <<network, asked>>

Die == stage' = "dead" /\ network' = Nowhere /\ UNCHANGED asked

SwitchOn == stage' = "starting" /\ network' = Nowhere /\ asked' = {}

Next ==
  \/ \E n \in Networks : Ask(n) \/ Try(n)
  \/ Open \/ Miss \/ Join \/ Die \/ SwitchOn

Spec == Init /\ [][Next]_vars

\* The network tried is one that was built in or asked for since the frame was
\* switched on (frame-captive-portal/src/lib.rs:240); the one it is on took the
\* credentials.
JoinsAsAsked ==
  /\ stage \in {"joining", "joined"} => network \in Baked \cup asked
  /\ stage = "joined" => network \in Right
=============================================================================
