------------------------- MODULE ProvisioningProofs -------------------------
(***************************************************************************)
(* Whatever fails, is scanned, asked for or cut off, and in any order: the *)
(* flash and the panel tell the truth, and the frame does to its owner     *)
(* what NetworkSetup says, for any networks and any number of attempts.    *)
(***************************************************************************)
EXTENDS Provisioning, SequenceTheorems, TLAPS

-----------------------------------------------------------------------------
(* The inductive invariant.                                                *)

\* Places before the manager has started, and while a network asked for is tried.
Beginning == {"boot", "splash", "setup", "joinBaked", "startAp", "startPortal", "readBack"}
Attempt   == {"stopAp", "join", "mark", "stopPortal", "restartAp", "reset"}

Finished == manager.state = "Finished"

\* The manager's state is that of the place.
StateAt ==
  /\ at \in Beginning => manager.state = "NotStarted"
  /\ at \in Attempt \cup {"details"} => manager.state = "Started"
  /\ at = "ensure" => ~Finished
  /\ at \in {"publish", "save"} => manager.state # "NotStarted"
  /\ at \in {"leave", "done"} => Finished

\* The radio is what the place needs it to be.
RadioAt ==
  /\ at \in {"startPortal", "readBack"} => ApUp
  /\ at \in {"mark", "stopPortal"} \/ Finished => radio = Station

\* A network is being tried, or joined, exactly in these places.
TryingAt ==
  /\ at # "dead" => (trying # Nowhere <=> at \in Attempt \cup {"joinBaked"} \/ Finished)
  /\ at = "joinBaked" => trying \in Baked

\* The portal is up from its start until the network is joined.
PortalAt ==
  /\ at # "dead" =>
       (portal = "down" <=> \/ at \in Beginning \ {"readBack"} \/ Finished
                            \/ at = "ensure" /\ manager.state = "NotStarted")
  /\ portal = "closing" => at = "dead"

\* The radio is held for a scan only during one.
ScanHas == lock = "scan" => portal \in {"scan", "closing"}

\* What is to be tried has been asked for.
WasAsked == connect.state = "Connecting" => connect.network \in asked

Order == StateAt /\ RadioAt /\ TryingAt /\ PortalAt /\ ScanHas /\ WasAsked

\* No name is shown before the manager has one, and then no other.
NamesKnown == IF manager.state = "NotStarted" THEN {Nowhere} ELSE {Nowhere, manager.ap}
NamesTold ==
  ~Finished => app.ssid \in NamesKnown /\ Named \subseteq NamesKnown

\* The name that the manager has is the one on the air.
NameOnAir == manager.state = "Started" /\ ApUp /\ ~retried => manager.ap = radio.name

Told == NamesTold /\ NameOnAir

\* The phase that is saved is the manager's.
PhaseToSave == at = "save" => app.network = Phase

Kept == ReadsWhatWasSaved /\ FlashNotAhead /\ PhaseToSave

IInv == TypeOK /\ Order /\ Told /\ Kept

-----------------------------------------------------------------------------
(* The flash.                                                              *)

LEMMA SnapshotTyped ==
  ASSUME NEW c \in Checkpoints, NEW a \in AppStates
  PROVE  Snapshot(c, a) \in Snapshots /\ Snapshot(c, a).checkpoint = c
BY DEF Snapshot, Snapshots, AppStates

LEMMA BytesDecode ==
  /\ \A c \in Checkpoints :
       CheckpointByte(c) \in DOMAIN CheckpointOf /\ CheckpointOf[CheckpointByte(c)] = c
  /\ \A p \in Phases : PhaseByte(p) \in DOMAIN PhaseOf /\ PhaseOf[PhaseByte(p)] = p
  /\ \A n \in Networking : NetworkByte(n) \in DOMAIN NetworkOf /\ NetworkOf[NetworkByte(n)] = n
BY DEF Checkpoints, Phases, Networking, CheckpointByte, PhaseByte, NetworkByte,
       CheckpointOf, PhaseOf, NetworkOf

LEMMA BytesAreNumbers ==
  DOMAIN CheckpointOf \subseteq Nat /\ DOMAIN PhaseOf \subseteq Nat /\ DOMAIN NetworkOf \subseteq Nat
BY DEF CheckpointOf, PhaseOf, NetworkOf

\* A snapshot that is encoded is decoded to itself.
LEMMA EncodeDecodes ==
  ASSUME NEW s \in Snapshots
  PROVE  Encode(s) \in Seq(Nat) /\ Decode(Encode(s)) = {s}
<1> DEFINE r == Encode(s)
<1>1. s.checkpoint \in Checkpoints /\ s.phase \in Phases /\ s.network \in Networking /\ s.flags \in 0..3
  BY DEF Snapshots
<1>2. /\ Len(r) = 5 /\ r[1] = Version /\ r[2] = CheckpointByte(s.checkpoint)
      /\ r[3] = PhaseByte(s.phase) /\ r[4] = NetworkByte(s.network) /\ r[5] = s.flags
  BY DEF Encode
<1>3. Encode(s) \in Seq(Nat)
  BY <1>1, BytesDecode, BytesAreNumbers DEF Encode, Version
<1> HIDE DEF r
<1>4. /\ r[2] \in DOMAIN CheckpointOf /\ CheckpointOf[r[2]] = s.checkpoint
      /\ r[3] \in DOMAIN PhaseOf /\ PhaseOf[r[3]] = s.phase
      /\ r[4] \in DOMAIN NetworkOf /\ NetworkOf[r[4]] = s.network
  BY <1>1, <1>2, BytesDecode
<1>5. Decode(r) = {[checkpoint |-> s.checkpoint, phase |-> s.phase,
                    network |-> s.network, flags |-> s.flags]}
  BY <1>2, <1>4 DEF Decode
<1>6. s = [checkpoint |-> s.checkpoint, phase |-> s.phase, network |-> s.network, flags |-> s.flags]
  BY DEF Snapshots
<1>7. QED
  BY <1>3, <1>5, <1>6 DEF r

\* What is on the flash after a checkpoint: that one, or what was there.
LEMMA SaveKeeps ==
  ASSUME TypeOK, ReadsWhatWasSaved, NEW c \in Checkpoints, NEW a \in AppStates, Save(c, a)
  PROVE  /\ flash' \in Seq(Nat) /\ saved' \in {{}} \cup {{s} : s \in Snapshots}
         /\ missed' \in BOOLEAN /\ faults' \in 0..MaxFaults
         /\ ReadsWhatWasSaved'
         /\ ~missed' => \A s \in saved' : s.checkpoint = c
<1>1. Snapshot(c, a) \in Snapshots /\ Snapshot(c, a).checkpoint = c
  BY SnapshotTyped
<1>2. CASE /\ flash' = Encode(Snapshot(c, a)) /\ saved' = {Snapshot(c, a)}
           /\ NoFault /\ UNCHANGED missed
  BY <1>1, <1>2, EncodeDecodes DEF TypeOK, NoFault, ReadsWhatWasSaved
<1>3. CASE Fault /\ missed' = TRUE /\ UNCHANGED <<flash, saved>>
  BY <1>3, RetriesAssumption DEF TypeOK, Fault, ReadsWhatWasSaved
<1>4. QED
  BY <1>2, <1>3 DEF Save

\* Steps that write nothing, and do not put the manager back.
LEMMA QuietKept ==
  ASSUME Kept, UNCHANGED flashVars, at # "boot" \/ at' = "boot",
         manager.state # "NotStarted" => manager'.state # "NotStarted",
         Finished => Finished' /\ radio' = radio,
         at' = "done" => at = "done"
  PROVE  ReadsWhatWasSaved' /\ FlashNotAhead'
BY DEF Kept, flashVars, ReadsWhatWasSaved, FlashNotAhead, Finished

-----------------------------------------------------------------------------
(* The radio.                                                              *)

RadioStates == {Off, Station} \cup [mode : {"ap"}, name : ApNames]

LEMMA RadioModes ==
  /\ Off \in RadioStates /\ Station \in RadioStates
  /\ \A name \in ApNames : Ap(name) \in RadioStates /\ Ap(name).mode = "ap" /\ Ap(name).name = name
  /\ Off.mode = "off" /\ Station.mode = "station"
  /\ \A r \in RadioStates : r.mode = "ap" => r.name \in ApNames
BY DEF RadioStates, Off, Station, Ap, ApNames

\* What an attempt to join comes to: the network, the end of the attempts, or
\* another attempt.
LEMMA JoinComesTo ==
  ASSUME TypeOK, NEW joined, NEW failed, JoinAttempt(joined, failed)
  PROVE  /\ tries' \in 1..Retries /\ lock' \in {"free", "app"} /\ faults' \in 0..MaxFaults
         /\ lock # "scan" /\ radio' \in {Off, Station}
         /\ \/ at' = joined /\ radio' = Station /\ trying \in Reachable
            \/ at' = failed
            \/ at' = at
<1>1. lock # "scan"
  BY DEF JoinAttempt, MayTry
<1>2. /\ \/ at' = joined /\ radio' = Station /\ trying \in Reachable
         \/ at' = failed /\ radio' = Off
         \/ at' = at /\ radio' = Off
  BY DEF JoinAttempt, Again, Over, To
<1>3. lock' \in {"free", "app"} /\ tries' \in 1..Retries
  BY RetriesAssumption DEF JoinAttempt, Again, Over, TypeOK
<1>4. faults' \in 0..MaxFaults
  BY RetriesAssumption DEF JoinAttempt, Fault, NoFault, TypeOK
<1>5. QED
  BY <1>1, <1>2, <1>3, <1>4

\* What an attempt to start the access point comes to.
LEMMA ApComesTo ==
  ASSUME TypeOK, NEW begun, ApAttempt(begun)
  PROVE  /\ tries' \in 1..Retries /\ lock' \in {"free", "app"} /\ faults' \in 0..MaxFaults
         /\ lock # "scan" /\ radio' \in RadioStates /\ ApUp' /\ at' \in {begun, at}
<1>1. lock # "scan"
  BY DEF ApAttempt, MayTry
<1>2. at' \in {begun, at} /\ \E name \in ApNames : radio' = Ap(name)
  BY DEF ApAttempt, Again, Over, To, ApNames
<1>3. lock' \in {"free", "app"} /\ tries' \in 1..Retries
  BY RetriesAssumption DEF ApAttempt, Again, Over, TypeOK
<1>4. faults' \in 0..MaxFaults
  BY RetriesAssumption DEF ApAttempt, Fault, NoFault, TypeOK
<1>5. QED
  BY <1>1, <1>2, <1>3, <1>4, RadioModes DEF ApUp

-----------------------------------------------------------------------------
(* The types.                                                              *)

ManagerStates == [state : {"NotStarted", "Started", "Finished"}, ap : ApNames \cup {Nowhere}]
ConnectStates ==
  [state : {"NotConnected", "Connected"}] \cup [state : {"Connecting"}, network : Networks]
LEMMA PanelTyped ==
  \A a \in AppStates : {a} \in {{}} \cup {{b} : b \in AppStates}
OBVIOUS

LEMMA ManagerTyped ==
  ASSUME NEW s \in {"NotStarted", "Started", "Finished"}, NEW n \in ApNames \cup {Nowhere}
  PROVE  Manager(s, n) \in ManagerStates
BY DEF Manager, ManagerStates

LEMMA AppTyped ==
  ASSUME NEW a \in AppStates
  PROVE  /\ \A p \in Phases : [a EXCEPT !.phase = p] \in AppStates
         /\ \A n \in Networking, s \in ApNames \cup {Nowhere} :
              [a EXCEPT !.network = n, !.ssid = s] \in AppStates
         /\ \A s \in ApNames \cup {Nowhere} : [a EXCEPT !.ssid = s] \in AppStates
         /\ a.ssid \in ApNames \cup {Nowhere} /\ NewApp \in AppStates
BY DEF AppStates, NewApp, Phases, Networking

\* Every step gives each variable a value of its type.
LEMMA TypeStep ==
  ASSUME IInv, [Next]_vars
  PROVE  TypeOK'
<1>1. TypeOK /\ StateAt /\ RadioAt
  BY DEF IInv, Order
<1> USE <1>1, RetriesAssumption, NetworksAssumption
        DEF TypeOK, At, To, SetUpUnchanged, RadioUnchanged, PortalUnchanged, ManagerUnchanged,
            Quiet, flashVars, histories, Places
<1>2. CASE Boot
  BY <1>2, SaveKeeps, SMTT(30) DEF Boot, Checkpoints, IInv, Kept
<1>3. CASE Splash
  <2>1. app \in AppStates /\ panel' \in {{}} \cup {{a} : a \in AppStates}
    BY <1>3, PanelTyped DEF Splash
  <2>2. QED
    BY <1>3, <2>1, SaveKeeps, SMTT(30) DEF Splash, Checkpoints, IInv, Kept
<1>4. CASE SetUp
  <2>1. app' \in AppStates
    BY <1>4, AppTyped DEF SetUp, Phases
  <2>2. panel' \in {{}} \cup {{a} : a \in AppStates}
    BY <1>4, <2>1, PanelTyped DEF SetUp
  <2>3. QED
    BY <1>4, <2>1, <2>2, SaveKeeps, SMTT(30) DEF SetUp, Checkpoints, IInv, Kept
<1>5. CASE EnsureNotStarted
  BY <1>5 DEF EnsureNotStarted
<1>6. CASE JoinBaked
  BY <1>6, JoinComesTo, ManagerTyped DEF JoinBaked, ManagerStates
<1>7. CASE StartAp
  BY <1>7, ApComesTo DEF StartAp, RadioStates
<1>8. CASE StartPortal
  BY <1>8 DEF StartPortal
<1>9. CASE ReadBack
  <2>1. radio.name \in ApNames
    BY <1>9, RadioModes DEF ReadBack, RadioStates, RadioAt, ApUp
  <2>2. QED
    BY <1>9, <2>1, ManagerTyped DEF ReadBack, ManagerStates, Alone
<1>10. CASE EnsureStarted
  BY <1>10 DEF EnsureStarted
<1>11. CASE StopAp
  BY <1>11 DEF StopAp, Alone
<1>12. CASE Join
  BY <1>12, JoinComesTo DEF Join
<1>13. CASE Mark
  BY <1>13 DEF Mark
<1>14. CASE StopPortal
  BY <1>14, ManagerTyped DEF StopPortal, ManagerStates
<1>15. CASE RestartAp
  BY <1>15, ApComesTo DEF RestartAp, RadioStates
<1>16. CASE ResetConnectState
  BY <1>16 DEF ResetConnectState, NotConnected
<1>17. CASE Publish
  <2>1. app' \in AppStates
    BY <1>17, AppTyped DEF Publish, Phase, Networking
  <2>2. panel' \in {{}} \cup {{a} : a \in AppStates}
    BY <1>17, <2>1, PanelTyped DEF Publish
  <2>3. QED
    BY <1>17, <2>1, <2>2 DEF Publish
<1>18. CASE Persist
  BY <1>18, SaveKeeps DEF Persist, Checkpoints, IInv, Kept
<1>19. CASE Leave
  BY <1>19, SaveKeeps DEF Leave, Checkpoints, IInv, Kept
<1>20. CASE Details
  <2>1. app' \in AppStates
    BY <1>20, AppTyped DEF Details
  <2>2. panel' \in {{}} \cup {{a} : a \in AppStates}
    BY <1>20, <2>1, PanelTyped DEF Details
  <2>3. QED
    BY <1>20, <2>1, <2>2 DEF Details
<1>21. CASE Dies
  BY <1>21 DEF Dies, Fault
<1>22. ASSUME NEW n \in Networks, Submit(n) PROVE TypeOK'
  BY <1>22 DEF Submit, Connecting, appVars
<1>23. CASE Scan \/ ScanHolds \/ ScanEnds
  BY <1>23 DEF Scan, ScanHolds, ScanEnds, appVars
<1>24. CASE PowerCycle
  <2>1. app' \in AppStates /\ panel' \in {{}} \cup {{a} : a \in AppStates}
    BY <1>24, AppTyped DEF PowerCycle
  <2>2. manager' \in ManagerStates
    BY <1>24, ManagerTyped DEF PowerCycle
  <2>3. connect' \in ConnectStates
    BY <1>24 DEF PowerCycle, NotConnected, ConnectStates
  <2>4. flash' \in Seq(Nat) /\ saved' \in {{}} \cup {{s} : s \in Snapshots}
    BY <1>24 DEF PowerCycle
  <2>5. tries' \in 1..Retries /\ faults' \in 0..MaxFaults /\ asked' \subseteq Networks
    BY <1>24 DEF PowerCycle
  <2>6. /\ trying' \in Networks \cup {Nowhere}
        /\ radio' \in {Off, Station} \cup [mode : {"ap"}, name : ApNames]
    BY <1>24 DEF PowerCycle
  <2>7. retried' \in BOOLEAN /\ missed' \in BOOLEAN
    BY <1>24 DEF PowerCycle
  <2>8. /\ lock' \in {"free", "app", "scan"} /\ portal' \in {"down", "up", "scan", "closing"}
        /\ at' \in Places
    BY <1>24 DEF PowerCycle
  <2>9. QED
    BY <2>1, <2>2, <2>3, <2>4, <2>5, <2>6, <2>7, <2>8 DEF ManagerStates, ConnectStates
<1>25. CASE UNCHANGED vars
  BY <1>25 DEF vars
<1>26. QED
  BY <1>2, <1>3, <1>4, <1>5, <1>6, <1>7, <1>8, <1>9, <1>10, <1>11, <1>12, <1>13, <1>14,
     <1>15, <1>16, <1>17, <1>18, <1>19, <1>20, <1>21, <1>22, <1>23, <1>24, <1>25
     DEF Next, AppThread, Ensure

-----------------------------------------------------------------------------
(* The order of a setup.                                                   *)

\* Every step leads from a place to one that its state agrees with.
LEMMA OrderStep ==
  ASSUME IInv, [Next]_vars
  PROVE  Order'
<1>1. TypeOK /\ StateAt /\ RadioAt /\ TryingAt /\ PortalAt /\ ScanHas /\ WasAsked
  BY DEF IInv, Order
<1> USE <1>1, NowhereAssumption, NetworksAssumption
        DEF Order, StateAt, RadioAt, TryingAt, PortalAt, ScanHas, WasAsked, Beginning, Attempt, Finished,
            At, To, SetUpUnchanged, RadioUnchanged, PortalUnchanged, ManagerUnchanged,
            Quiet, flashVars, histories, ApUp
<1>2. CASE Boot
  BY <1>2 DEF Boot
<1>3. CASE Splash
  BY <1>3 DEF Splash
<1>4. CASE SetUp
  BY <1>4 DEF SetUp
<1>5. CASE EnsureNotStarted
  BY <1>5 DEF EnsureNotStarted
<1>6. CASE JoinBaked
  BY <1>6, JoinComesTo DEF JoinBaked, Manager
<1>7. CASE StartAp
  BY <1>7, ApComesTo DEF StartAp
<1>8. CASE StartPortal
  BY <1>8 DEF StartPortal
<1>9. CASE ReadBack
  BY <1>9 DEF ReadBack, Manager, Alone
<1>10. CASE EnsureStarted
  BY <1>10 DEF EnsureStarted, TypeOK
<1>11. CASE StopAp
  BY <1>11 DEF StopAp, Alone
<1>12. CASE Join
  BY <1>12, JoinComesTo DEF Join
<1>13. CASE Mark
  BY <1>13 DEF Mark
<1>14. CASE StopPortal
  BY <1>14 DEF StopPortal, Manager
<1>15. CASE RestartAp
  BY <1>15, ApComesTo DEF RestartAp
<1>16. CASE ResetConnectState
  BY <1>16 DEF ResetConnectState, NotConnected
<1>17. CASE Publish
  BY <1>17 DEF Publish
<1>18. CASE Persist
  BY <1>18 DEF Persist, IInv, Kept, PhaseToSave, Phase, TypeOK
<1>19. CASE Leave
  BY <1>19 DEF Leave
<1>20. CASE Details
  BY <1>20 DEF Details
<1>21. CASE Dies
  BY <1>21 DEF Dies
<1>22. ASSUME NEW n \in Networks, Submit(n) PROVE Order'
  BY <1>22 DEF Submit, Connecting, appVars
<1>23. CASE Scan \/ ScanHolds \/ ScanEnds
  <2>1. CASE Scan
    BY <2>1 DEF Scan, Reached, appVars
  <2>2. CASE ScanHolds
    BY <2>2 DEF ScanHolds, appVars
  <2>3. CASE ScanEnds
    BY <2>3 DEF ScanEnds, appVars
  <2>4. QED
    BY <1>23, <2>1, <2>2, <2>3
<1>24. CASE PowerCycle
  BY <1>24 DEF PowerCycle, Manager, NotConnected
<1>25. CASE UNCHANGED vars
  BY <1>25 DEF vars, appVars
<1>26. QED
  BY <1>2, <1>3, <1>4, <1>5, <1>6, <1>7, <1>8, <1>9, <1>10, <1>11, <1>12, <1>13, <1>14,
     <1>15, <1>16, <1>17, <1>18, <1>19, <1>20, <1>21, <1>22, <1>23, <1>24, <1>25
     DEF Next, AppThread, Ensure

-----------------------------------------------------------------------------
(* The names that are shown.                                               *)

LEMMA NamedIs ==
  /\ \A a : panel' = {a} => Named' = {a.ssid}
  /\ panel' = {} => Named' = {}
  /\ UNCHANGED panel => UNCHANGED Named
BY DEF Named

LEMMA SsidIs ==
  ASSUME NEW a \in AppStates
  PROVE  /\ \A p : [a EXCEPT !.phase = p].ssid = a.ssid
         /\ \A n, s : [a EXCEPT !.network = n, !.ssid = s].ssid = s
         /\ \A s : [a EXCEPT !.ssid = s].ssid = s
BY DEF AppStates

\* No step shows a name before the manager has it, or another.
LEMMA NamesStep ==
  ASSUME IInv, [Next]_vars
  PROVE  NamesTold'
<1>1. NamesTold /\ StateAt /\ app \in AppStates
  BY DEF IInv, Order, Told, TypeOK
<1> USE <1>1, NamedIs, SsidIs
        DEF NamesTold, NamesKnown, StateAt, Beginning, Attempt, Finished, At, To, SetUpUnchanged,
            ManagerUnchanged, Quiet
<1>2. CASE Boot
  BY <1>2 DEF Boot
<1>3. CASE Splash
  BY <1>3 DEF Splash
<1>4. CASE SetUp
  <2>1. app'.ssid = app.ssid
    BY <1>4 DEF SetUp
  <2>2. Named' = {app'.ssid}
    BY <1>4 DEF SetUp
  <2>3. QED
    BY <1>4, <2>1, <2>2 DEF SetUp
<1>5. CASE EnsureNotStarted
  BY <1>5 DEF EnsureNotStarted
<1>6. CASE JoinBaked
  BY <1>6 DEF JoinBaked, Manager
<1>7. CASE StartAp
  BY <1>7 DEF StartAp
<1>8. CASE StartPortal
  BY <1>8 DEF StartPortal
<1>9. CASE ReadBack
  BY <1>9 DEF ReadBack, Manager
<1>10. CASE EnsureStarted
  BY <1>10 DEF EnsureStarted
<1>11. CASE StopAp
  BY <1>11 DEF StopAp
<1>12. CASE Join
  BY <1>12 DEF Join
<1>13. CASE Mark
  BY <1>13 DEF Mark
<1>14. CASE StopPortal
  BY <1>14 DEF StopPortal, Manager
<1>15. CASE RestartAp
  BY <1>15 DEF RestartAp
<1>16. CASE ResetConnectState
  BY <1>16 DEF ResetConnectState
<1>17. CASE Publish
  <2>1. app'.ssid \in {app.ssid, Nowhere}
    BY <1>17 DEF Publish
  <2>2. Named' = {app'.ssid}
    BY <1>17 DEF Publish
  <2>3. QED
    BY <1>17, <2>1, <2>2 DEF Publish
<1>18. CASE Persist
  BY <1>18 DEF Persist
<1>19. CASE Leave
  BY <1>19 DEF Leave
<1>20. CASE Details
  <2>1. app'.ssid = manager.ap
    BY <1>20 DEF Details
  <2>2. Named' = {app'.ssid}
    BY <1>20 DEF Details
  <2>3. QED
    BY <1>20, <2>1, <2>2 DEF Details
<1>21. CASE Dies
  BY <1>21 DEF Dies
<1>22. ASSUME NEW n \in Networks, Submit(n) PROVE NamesTold'
  BY <1>22 DEF Submit, appVars
<1>23. CASE Scan \/ ScanHolds \/ ScanEnds
  BY <1>23 DEF Scan, ScanHolds, ScanEnds, appVars
<1>24. CASE PowerCycle
  BY <1>24 DEF PowerCycle, Manager, NewApp
<1>25. CASE UNCHANGED vars
  BY <1>25 DEF vars, appVars
<1>26. QED
  BY <1>2, <1>3, <1>4, <1>5, <1>6, <1>7, <1>8, <1>9, <1>10, <1>11, <1>12, <1>13, <1>14,
     <1>15, <1>16, <1>17, <1>18, <1>19, <1>20, <1>21, <1>22, <1>23, <1>24, <1>25
     DEF Next, AppThread, Ensure

\* The name on the air is read back, and starting it again is remembered.
LEMMA AirStep ==
  ASSUME IInv, [Next]_vars
  PROVE  NameOnAir'
<1>1. NameOnAir /\ StateAt /\ RadioAt /\ TypeOK
  BY DEF IInv, Order, Told
<1> USE <1>1
        DEF NameOnAir, StateAt, RadioAt, Beginning, Attempt, Finished, ApUp, At, To, SetUpUnchanged,
            RadioUnchanged, ManagerUnchanged, Quiet, histories
<1>2. CASE Boot
  BY <1>2 DEF Boot
<1>3. CASE Splash
  BY <1>3 DEF Splash
<1>4. CASE SetUp
  BY <1>4 DEF SetUp
<1>5. CASE EnsureNotStarted
  BY <1>5 DEF EnsureNotStarted
<1>6. CASE JoinBaked
  BY <1>6, JoinComesTo, RadioModes DEF JoinBaked, Manager
<1>7. CASE StartAp
  BY <1>7 DEF StartAp
<1>8. CASE StartPortal
  BY <1>8 DEF StartPortal
<1>9. CASE ReadBack
  BY <1>9 DEF ReadBack, Manager
<1>10. CASE EnsureStarted
  BY <1>10 DEF EnsureStarted
<1>11. CASE StopAp
  BY <1>11, RadioModes DEF StopAp
<1>12. CASE Join
  BY <1>12, JoinComesTo, RadioModes DEF Join
<1>13. CASE Mark
  BY <1>13 DEF Mark
<1>14. CASE StopPortal
  BY <1>14, RadioModes DEF StopPortal, Manager
<1>15. CASE RestartAp
  BY <1>15 DEF RestartAp
<1>16. CASE ResetConnectState
  BY <1>16 DEF ResetConnectState
<1>17. CASE Publish
  BY <1>17 DEF Publish
<1>18. CASE Persist
  BY <1>18 DEF Persist
<1>19. CASE Leave
  BY <1>19 DEF Leave
<1>20. CASE Details
  BY <1>20 DEF Details
<1>21. CASE Dies
  BY <1>21 DEF Dies
<1>22. ASSUME NEW n \in Networks, Submit(n) PROVE NameOnAir'
  BY <1>22 DEF Submit, appVars
<1>23. CASE Scan \/ ScanHolds \/ ScanEnds
  BY <1>23 DEF Scan, ScanHolds, ScanEnds, appVars
<1>24. CASE PowerCycle
  BY <1>24 DEF PowerCycle, Manager
<1>25. CASE UNCHANGED vars
  BY <1>25 DEF vars, appVars
<1>26. QED
  BY <1>2, <1>3, <1>4, <1>5, <1>6, <1>7, <1>8, <1>9, <1>10, <1>11, <1>12, <1>13, <1>14,
     <1>15, <1>16, <1>17, <1>18, <1>19, <1>20, <1>21, <1>22, <1>23, <1>24, <1>25
     DEF Next, AppThread, Ensure

\* What is saved has happened, and what has happened is not undone.
LEMMA SavedStep ==
  ASSUME IInv, [Next]_vars
  PROVE  (ReadsWhatWasSaved /\ FlashNotAhead)'
<1>1. TypeOK /\ StateAt /\ RadioAt /\ Kept /\ app \in AppStates
  BY DEF IInv, Order, TypeOK
<1> USE <1>1 DEF StateAt, Beginning, Attempt, Finished, At, To, SetUpUnchanged, RadioUnchanged,
                 ManagerUnchanged, Quiet, histories
<1>2. CASE Boot
  <2>1. Save("BootStarted", app)
    BY <1>2 DEF Boot
  <2>2. ReadsWhatWasSaved' /\ (~missed' => \A s \in saved' : s.checkpoint = "BootStarted")
    BY <2>1, SaveKeeps DEF Kept, Checkpoints
  <2>3. QED
    BY <1>2, <2>2 DEF Boot, FlashNotAhead
<1>3. CASE Splash
  <2>1. Save("SplashRendered", app)
    BY <1>3 DEF Splash
  <2>2. ReadsWhatWasSaved' /\ (~missed' => \A s \in saved' : s.checkpoint = "SplashRendered")
    BY <2>1, SaveKeeps DEF Kept, Checkpoints
  <2>3. QED
    BY <1>3, <2>2 DEF Splash, FlashNotAhead
<1>4. CASE SetUp
  <2>1. app' \in AppStates /\ Save("SetupRendered", app')
    BY <1>4, AppTyped DEF SetUp, Phases
  <2>2. ReadsWhatWasSaved' /\ (~missed' => \A s \in saved' : s.checkpoint = "SetupRendered")
    BY <2>1, SaveKeeps DEF Kept, Checkpoints
  <2>3. QED
    BY <1>4, <2>2 DEF SetUp, FlashNotAhead
<1>5. CASE EnsureNotStarted
  BY <1>5, QuietKept DEF EnsureNotStarted
<1>6. CASE JoinBaked
  BY <1>6, QuietKept, JoinComesTo DEF JoinBaked, Manager
<1>7. CASE StartAp
  BY <1>7, QuietKept, ApComesTo DEF StartAp
<1>8. CASE StartPortal
  BY <1>8, QuietKept DEF StartPortal
<1>9. CASE ReadBack
  BY <1>9, QuietKept DEF ReadBack, Manager
<1>10. CASE EnsureStarted
  BY <1>10, QuietKept DEF EnsureStarted
<1>11. CASE StopAp
  BY <1>11, QuietKept DEF StopAp
<1>12. CASE Join
  BY <1>12, QuietKept, JoinComesTo DEF Join
<1>13. CASE Mark
  BY <1>13, QuietKept DEF Mark
<1>14. CASE StopPortal
  BY <1>14, QuietKept DEF StopPortal, Manager
<1>15. CASE RestartAp
  BY <1>15, QuietKept, ApComesTo DEF RestartAp
<1>16. CASE ResetConnectState
  BY <1>16, QuietKept DEF ResetConnectState
<1>17. CASE Publish
  BY <1>17, QuietKept DEF Publish
<1>18. CASE Persist
  <2> DEFINE c == IF Finished THEN "NetworkConnected" ELSE "Provisioning"
  <2>1. c \in Checkpoints /\ Save(c, app)
    BY <1>18 DEF Persist, Checkpoints, Kept, PhaseToSave, Phase
  <2>2. ReadsWhatWasSaved' /\ (~missed' => \A s \in saved' : s.checkpoint = c)
    BY <2>1, SaveKeeps DEF Kept
  <2>3. manager.state # "NotStarted" /\ UNCHANGED <<manager, radio>> /\ at' # "done"
    BY <1>18 DEF Persist
  <2>4. QED
    BY <2>2, <2>3 DEF FlashNotAhead, RadioAt
<1>19. CASE Leave
  <2>1. Save("NetworkConnected", app)
    BY <1>19 DEF Leave
  <2>2. ReadsWhatWasSaved' /\ (~missed' => \A s \in saved' : s.checkpoint = "NetworkConnected")
    BY <2>1, SaveKeeps DEF Kept, Checkpoints
  <2>3. QED
    BY <1>19, <2>2 DEF Leave, FlashNotAhead, RadioAt
<1>20. CASE Details
  BY <1>20, QuietKept DEF Details
<1>21. CASE Dies
  <2>1. CASE At("boot")
    BY <1>21, <2>1 DEF Dies, Kept, ReadsWhatWasSaved, FlashNotAhead
  <2>2. CASE ~At("boot")
    BY <1>21, <2>2 DEF Dies, Kept, ReadsWhatWasSaved, FlashNotAhead
  <2>3. QED
    BY <2>1, <2>2
<1>22. ASSUME NEW n \in Networks, Submit(n) PROVE (ReadsWhatWasSaved /\ FlashNotAhead)'
  BY <1>22, QuietKept DEF Submit, appVars
<1>23. CASE Scan \/ ScanHolds \/ ScanEnds
  BY <1>23, QuietKept DEF Scan, ScanHolds, ScanEnds, appVars
<1>24. CASE PowerCycle
  BY <1>24 DEF PowerCycle, Kept, ReadsWhatWasSaved, FlashNotAhead
<1>25. CASE UNCHANGED vars
  BY <1>25, QuietKept DEF vars, flashVars
<1>26. QED
  BY <1>2, <1>3, <1>4, <1>5, <1>6, <1>7, <1>8, <1>9, <1>10, <1>11, <1>12, <1>13, <1>14,
     <1>15, <1>16, <1>17, <1>18, <1>19, <1>20, <1>21, <1>22, <1>23, <1>24, <1>25
     DEF Next, AppThread, Ensure

\* The phase that is saved is set just before.
LEMMA PhaseStep ==
  ASSUME IInv, [Next]_vars
  PROVE  PhaseToSave'
<1>1. TypeOK /\ PhaseToSave
  BY DEF IInv, Kept
<1> USE <1>1 DEF PhaseToSave, At, To, SetUpUnchanged, ManagerUnchanged, Quiet
<1>2. CASE Boot
  BY <1>2 DEF Boot
<1>3. CASE Splash
  BY <1>3 DEF Splash
<1>4. CASE SetUp
  BY <1>4 DEF SetUp
<1>5. CASE EnsureNotStarted
  BY <1>5 DEF EnsureNotStarted
<1>6. CASE JoinBaked
  BY <1>6, JoinComesTo DEF JoinBaked
<1>7. CASE StartAp
  BY <1>7, ApComesTo DEF StartAp
<1>8. CASE StartPortal
  BY <1>8 DEF StartPortal
<1>9. CASE ReadBack
  BY <1>9 DEF ReadBack
<1>10. CASE EnsureStarted
  BY <1>10 DEF EnsureStarted
<1>11. CASE StopAp
  BY <1>11 DEF StopAp
<1>12. CASE Join
  BY <1>12, JoinComesTo DEF Join
<1>13. CASE Mark
  BY <1>13 DEF Mark
<1>14. CASE StopPortal
  BY <1>14 DEF StopPortal
<1>15. CASE RestartAp
  BY <1>15, ApComesTo DEF RestartAp
<1>16. CASE ResetConnectState
  BY <1>16 DEF ResetConnectState
<1>17. CASE Publish
  BY <1>17 DEF Publish, Phase, TypeOK, AppStates
<1>18. CASE Persist
  BY <1>18 DEF Persist
<1>19. CASE Leave
  BY <1>19 DEF Leave
<1>20. CASE Details
  BY <1>20 DEF Details
<1>21. CASE Dies
  BY <1>21 DEF Dies
<1>22. ASSUME NEW n \in Networks, Submit(n) PROVE PhaseToSave'
  BY <1>22 DEF Submit, appVars, Phase
<1>23. CASE Scan \/ ScanHolds \/ ScanEnds
  BY <1>23 DEF Scan, ScanHolds, ScanEnds, appVars, Phase
<1>24. CASE PowerCycle
  BY <1>24 DEF PowerCycle
<1>25. CASE UNCHANGED vars
  BY <1>25 DEF vars, Phase
<1>26. QED
  BY <1>2, <1>3, <1>4, <1>5, <1>6, <1>7, <1>8, <1>9, <1>10, <1>11, <1>12, <1>13, <1>14,
     <1>15, <1>16, <1>17, <1>18, <1>19, <1>20, <1>21, <1>22, <1>23, <1>24, <1>25
     DEF Next, AppThread, Ensure

-----------------------------------------------------------------------------
(* The invariant holds.                                                    *)

LEMMA InitKeeps == Init => IInv
<1> SUFFICES ASSUME Init PROVE IInv
  OBVIOUS
<1> USE RetriesAssumption DEF Init, Fresh, NewApp, Manager, NotConnected, Off
<1>1. flash \in Seq(Nat) /\ ReadsWhatWasSaved
  <2>1. <<>> \in Seq(Nat) /\ Decode(<<>>) = {}
    BY DEF Decode
  <2>2. OldVersion \in Seq(Nat)
    BY DEF OldVersion
  <2>3. OldVersion[1] # Version
    BY DEF OldVersion, Version
  <2>4. Decode(OldVersion) = {}
    BY <2>3 DEF Decode
  <2>5. QED
    BY <2>1, <2>2, <2>4 DEF ReadsWhatWasSaved
<1>2. TypeOK
  <2>1. app \in AppStates /\ panel \in {{}} \cup {{a} : a \in AppStates}
    BY DEF AppStates, Phases, Networking
  <2>2. saved \in {{}} \cup {{s} : s \in Snapshots}
    OBVIOUS
  <2>3. tries \in 1..Retries /\ faults \in 0..MaxFaults /\ asked \subseteq Networks
    OBVIOUS
  <2>4. at \in Places /\ lock = "free" /\ portal = "down" /\ ~retried /\ ~missed
    BY DEF Places
  <2>5. manager \in ManagerStates /\ connect \in ConnectStates
    BY DEF ManagerStates, ConnectStates
  <2>6. trying = Nowhere /\ radio = Off /\ retried \in BOOLEAN /\ missed \in BOOLEAN
    OBVIOUS
  <2>7. QED
    BY <1>1, <2>1, <2>2, <2>3, <2>4, <2>5, <2>6 DEF TypeOK, ManagerStates, ConnectStates
<1>3. Order
  BY DEF Order, StateAt, RadioAt, TryingAt, PortalAt, ScanHas, WasAsked, Beginning, Attempt, Finished
<1>4. Told
  BY DEF Told, NamesTold, NamesKnown, NameOnAir, ApUp, Named
<1>5. Kept
  BY <1>1 DEF Kept, FlashNotAhead, PhaseToSave
<1>6. QED
  BY <1>2, <1>3, <1>4, <1>5 DEF IInv

LEMMA Invariant == Spec => []IInv
<1>1. IInv /\ [Next]_vars => IInv'
  BY TypeStep, OrderStep, NamesStep, AirStep, SavedStep, PhaseStep DEF IInv, Told, Kept
<1>2. QED
  BY InitKeeps, <1>1, PTL DEF Spec

-----------------------------------------------------------------------------
(* The theorems.                                                           *)

\* Every place has in its hands what its step uses: a name on the air to read
\* back, a network to try, an attempt within the number of them.
THEOREM TypeCorrect == Spec => []TypeOK
<1>1. IInv => TypeOK
  BY DEF IInv
<1>2. QED
  BY Invariant, <1>1, PTL

\* Whatever step power is cut at, a boot reads off the flash what was saved
\* there last (setup_state_store.rs:133).
THEOREM FlashIsRead == Spec => []ReadsWhatWasSaved
<1>1. IInv => ReadsWhatWasSaved
  BY DEF IInv, Kept
<1>2. QED
  BY Invariant, <1>1, PTL

\* The checkpoint on the flash is never ahead of the setup (main.rs:168).
THEOREM FlashIsHonest == Spec => []FlashNotAhead
<1>1. IInv => FlashNotAhead
  BY DEF IInv, Kept
<1>2. QED
  BY Invariant, <1>1, PTL

\* The panel names no access point but the one on the air, until it has been
\* started again (provisioning.rs:131).
THEOREM PanelIsHonest == Spec => []PanelNamesAp
<1>1. IInv => PanelNamesAp
  <2> SUFFICES ASSUME IInv, ApUp, ~retried PROVE Named \subseteq {radio.name, Nowhere}
    BY DEF PanelNamesAp
  <2>1. ~Finished
    BY RadioModes DEF IInv, Order, RadioAt, Finished, ApUp
  <2>2. Named \subseteq NamesKnown
    BY <2>1 DEF IInv, Told, NamesTold
  <2>3. CASE manager.state = "NotStarted"
    BY <2>2, <2>3 DEF NamesKnown
  <2>4. CASE manager.state = "Started"
    BY <2>2, <2>4 DEF NamesKnown, IInv, Told, NameOnAir
  <2>5. QED
    BY <2>1, <2>3, <2>4 DEF IInv, TypeOK, Finished
<1>2. QED
  BY Invariant, <1>1, PTL

-----------------------------------------------------------------------------
(* The refinement.                                                         *)

\* The stage is that of the place.
StageIs ==
  /\ Stage = "dead" <=> at = "dead"
  /\ Stage = "joined" <=> at # "dead" /\ (at \in {"mark", "stopPortal"} \/ Finished)
  /\ Stage = "joining" <=> at \in {"joinBaked", "stopAp", "join", "restartAp", "reset"}
  /\ Stage = "starting" <=> \/ at \in Beginning \ {"joinBaked", "readBack"}
                            \/ at = "ensure" /\ manager.state = "NotStarted"
  /\ Stage = "open" <=> \/ at \in {"readBack", "details"}
                        \/ at \in {"ensure", "publish", "save"} /\ manager.state = "Started"
  /\ Stage \in {"dead", "joined", "joining", "starting", "open"}

LEMMA StageOfPlace == IInv => StageIs
<1> SUFFICES ASSUME IInv PROVE StageIs
  OBVIOUS
<1>1. /\ at \in Places /\ manager.state \in {"NotStarted", "Started", "Finished"}
      /\ StateAt /\ TryingAt /\ PortalAt
  BY DEF IInv, TypeOK, Order
<1> USE <1>1 DEF StateAt, TryingAt, PortalAt, Stage, StageIs, Beginning, Attempt, Finished
<1>2. CASE at \in Beginning \cup {"dead"}
  BY <1>2
<1>3. CASE at \in Attempt
  BY <1>3
<1>4. CASE at \in {"ensure", "publish", "save", "leave", "done", "details"}
  BY <1>4
<1>5. QED
  BY <1>2, <1>3, <1>4 DEF Places

\* What NetworkSetup tells of the frame stays as it is.
Aside == UNCHANGED <<Stage, IF at = "dead" THEN Nowhere ELSE trying, asked>>

\* Every step is one of NetworkSetup's, or an aside.
LEMMA SetupStep ==
  ASSUME IInv, IInv', [Next]_vars
  PROVE  [Setup!Next]_(Setup!vars)
<1>1. /\ StageIs /\ StateAt /\ RadioAt /\ TryingAt /\ PortalAt /\ ScanHas /\ WasAsked
      /\ at \in Places /\ trying \in Networks \cup {Nowhere} /\ asked \subseteq Networks
  BY StageOfPlace DEF IInv, Order, TypeOK
<1>2. StageIs'
  BY StageOfPlace, PTL
<1>3. Aside <=> UNCHANGED Setup!vars
  BY DEF Aside, Setup!vars
<1> HIDE DEF Stage
<1> USE <1>1, <1>2, NetworksAssumption, NowhereAssumption
        DEF StageIs, Beginning, Attempt, Finished, Aside, At, To, SetUpUnchanged,
            ManagerUnchanged, Quiet, histories
<1>4. CASE Boot \/ Splash \/ SetUp
  BY <1>3, <1>4, Zenon DEF Boot, Splash, SetUp, StateAt
<1>5. CASE EnsureNotStarted
  <2>1. CASE Baked = {}
    BY <1>3, <1>5, <2>1 DEF EnsureNotStarted, TryingAt
  <2>2. CASE Baked # {}
    <3>1. PICK n \in Baked : trying' = n
      BY <1>5, <2>2 DEF EnsureNotStarted
    <3>2. Setup!Try(n)
      BY <1>5, <2>2, <3>1 DEF EnsureNotStarted, Setup!Try
    <3>3. QED
      BY <3>2 DEF Setup!Next
  <2>3. QED
    BY <2>1, <2>2
<1>6. CASE JoinBaked
  <2>1. CASE at' = "publish"
    <3>1. trying \in Reachable /\ trying' = trying /\ UNCHANGED asked /\ manager'.state = "Finished"
      BY <1>6, <2>1, JoinComesTo DEF JoinBaked, Manager, IInv
    <3>2. Setup!Join
      BY <1>6, <2>1, <3>1 DEF JoinBaked, Setup!Join
    <3>3. QED
      BY <3>2 DEF Setup!Next
  <2>2. CASE at' = "startAp"
    <3>1. Setup!Miss
      BY <1>6, <2>2 DEF JoinBaked, Setup!Miss, TryingAt
    <3>2. QED
      BY <3>1 DEF Setup!Next
  <2>3. CASE at' = at
    BY <1>3, <1>6, <2>3 DEF JoinBaked
  <2>4. QED
    BY <1>6, <2>1, <2>2, <2>3, JoinComesTo DEF JoinBaked, IInv
<1>7. CASE StartAp
  BY <1>3, <1>7, ApComesTo DEF StartAp, IInv, StateAt
<1>8. CASE StartPortal
  <2>1. Setup!Open
    BY <1>8 DEF StartPortal, Setup!Open, TryingAt, StateAt
  <2>2. QED
    BY <2>1 DEF Setup!Next
<1>9. CASE ReadBack
  BY <1>3, <1>9 DEF ReadBack, Manager
<1>10. CASE EnsureStarted
  <2>1. CASE connect.state = "Connecting"
    <3>1. connect.network \in asked /\ trying' = connect.network
      BY <1>10, <2>1 DEF EnsureStarted, WasAsked
    <3>2. Setup!Try(connect.network)
      BY <1>10, <2>1, <3>1 DEF EnsureStarted, Setup!Try
    <3>3. QED
      BY <3>1, <3>2 DEF Setup!Next
  <2>2. CASE connect.state # "Connecting"
    BY <1>3, <1>10, <2>2 DEF EnsureStarted
  <2>3. QED
    BY <2>1, <2>2
<1>11. CASE StopAp
  BY <1>3, <1>11 DEF StopAp, StateAt
<1>12. CASE Join
  <2>1. CASE at' = "mark"
    <3>1. Setup!Join
      BY <1>12, <2>1, JoinComesTo DEF Join, Setup!Join, IInv
    <3>2. QED
      BY <3>1 DEF Setup!Next
  <2>2. CASE at' \in {"restartAp", at}
    BY <1>3, <1>12, <2>2 DEF Join, StateAt
  <2>3. QED
    BY <1>12, <2>1, <2>2, JoinComesTo DEF Join, IInv
<1>13. CASE Mark \/ StopPortal
  BY <1>3, <1>13 DEF Mark, StopPortal, Manager
<1>14. CASE RestartAp
  BY <1>3, <1>14, ApComesTo DEF RestartAp, IInv, StateAt
<1>15. CASE ResetConnectState
  <2>1. manager.state = "Started" /\ UNCHANGED manager
    BY <1>15 DEF ResetConnectState, StateAt
  <2>2. Setup!Open
    BY <1>15, <2>1 DEF ResetConnectState, Setup!Open
  <2>3. QED
    BY <2>2 DEF Setup!Next
<1>16. CASE Publish \/ Persist \/ Leave \/ Details
  <2>1. UNCHANGED <<manager, trying, asked>> /\ at # "dead" /\ at' # "dead"
    BY <1>16 DEF Publish, Persist, Leave, Details
  <2>2. /\ at \in {"publish", "save", "leave", "details"}
        /\ at' \in {"save", "leave", "done", "details", "ensure"}
    BY <1>16 DEF Publish, Persist, Leave, Details
  <2>3. UNCHANGED Stage
    BY <2>1, <2>2 DEF StateAt
  <2>4. QED
    BY <1>3, <2>1, <2>3
<1>17. CASE Dies
  <2>1. Setup!Die
    BY <1>17 DEF Dies, Setup!Die
  <2>2. QED
    BY <2>1 DEF Setup!Next
<1>18. ASSUME NEW n \in Networks, Submit(n) PROVE Setup!Next
  <2>1. UNCHANGED Stage
    BY <1>18 DEF Submit, appVars, Stage
  <2>2. Setup!Ask(n)
    BY <1>18, <2>1 DEF Submit, appVars, Setup!Ask
  <2>3. QED
    BY <2>2 DEF Setup!Next
<1>19. CASE Scan \/ ScanHolds \/ ScanEnds
  <2>1. UNCHANGED <<at, manager, trying, asked>>
    BY <1>19 DEF Scan, ScanHolds, ScanEnds, appVars
  <2>2. QED
    BY <1>3, <2>1
<1>20. CASE PowerCycle
  <2>1. Setup!SwitchOn
    BY <1>20 DEF PowerCycle, Manager, Setup!SwitchOn
  <2>2. QED
    BY <2>1 DEF Setup!Next
<1>21. CASE UNCHANGED vars
  <2>1. UNCHANGED <<at, manager, trying, asked>>
    BY <1>21 DEF vars
  <2>2. QED
    BY <1>3, <2>1
<1>22. QED
  BY <1>4, <1>5, <1>6, <1>7, <1>8, <1>9, <1>10, <1>11, <1>12, <1>13, <1>14, <1>15, <1>16,
     <1>17, <1>18, <1>19, <1>20, <1>21 DEF Next, AppThread, Ensure

\* However the app thread, the server's and the radio are interleaved, and
\* whatever fails, the frame joins nothing that was not built in or asked for,
\* and ends each try on the network, with the portal open, or dead.
THEOREM ImplementsNetworkSetup == Spec => SetupSpec
<1>1. Init => Setup!Init
  BY DEF Init, Fresh, Setup!Init, Stage, Manager
<1>2. IInv /\ IInv' /\ [Next]_vars => [Setup!Next]_(Setup!vars)
  BY SetupStep
<1>3. QED
  BY <1>1, <1>2, Invariant, PTL DEF Spec, SetupSpec, Setup!Spec

\* What that says of the code: from the moment the association is confirmed
\* until the frame dies or its power is cut, the network joined is one that took
\* the credentials, and that was built in or asked for by a phone in this boot
\* (frame-captive-portal/src/lib.rs:240).
THEOREM JoinsWhatWasAsked ==
  Spec => [](at \in {"mark", "stopPortal"} \/ (manager.state = "Finished" /\ at # "dead")
             => trying \in Reachable \cap (Baked \cup asked))
<1> DEFINE Joined == at \in {"mark", "stopPortal"} \/ (manager.state = "Finished" /\ at # "dead")
           Asked == Joined => trying \in Reachable \cap (Baked \cup asked)
<1>1. Setup!Init => Setup!JoinsAsAsked
  BY DEF Setup!Init, Setup!JoinsAsAsked
<1>2. Setup!JoinsAsAsked /\ [Setup!Next]_(Setup!vars) => Setup!JoinsAsAsked'
  <2> HIDE DEF Stage
  <2> QED
    BY DEF Setup!JoinsAsAsked, Setup!Next, Setup!vars, Setup!Ask, Setup!Open, Setup!Try,
           Setup!Miss, Setup!Join, Setup!Die, Setup!SwitchOn
<1>3. Setup!JoinsAsAsked => Asked
  BY DEF Setup!JoinsAsAsked, Stage
<1>4. QED
  BY ImplementsNetworkSetup, <1>1, <1>2, <1>3, PTL DEF SetupSpec, Setup!Spec
=============================================================================
