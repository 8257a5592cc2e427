---------------------------- MODULE Provisioning ----------------------------
(***************************************************************************)
(* How a frame comes to be on a network, from power-on to the point where  *)
(* the control plane starts (frame-firmware main.rs, run): the provisioning *)
(* manager (frame-net provisioning.rs), the radio (frame-net wifi.rs), the *)
(* captive portal and its HTTP server's one thread (frame-captive-portal   *)
(* lib.rs), the state that the panel shows (frame-core state.rs) and the   *)
(* checkpoint kept on the flash (setup_state_store.rs).                    *)
(*                                                                         *)
(* The app thread goes round run()'s loop.  Phones talk to the HTTP server *)
(* at any time, and its scan of the air wants the lock under which the app *)
(* thread works the radio.                                                 *)
(***************************************************************************)
EXTENDS Naturals, Sequences

CONSTANTS
  Networks,
  Reachable,  \* those whose credentials, as a phone gives them, are right
  Baked,      \* configured_station_credentials: one network, or none
  Nowhere,    \* no network, no name
  Retries,    \* STA_CONNECT_RETRIES, and the attempts of start_ap (both 5)
  MaxFaults   \* bound: failures of the radio, the flash and the panel in a boot

ASSUME NetworksAssumption == Reachable \subseteq Networks /\ Baked \subseteq Networks
ASSUME NowhereAssumption == Nowhere \notin Networks
ASSUME RetriesAssumption == Retries \in Nat \ {0} /\ MaxFaults \in Nat

VARIABLES
  at,       \* where the app thread is
  tries,    \* the attempt it is at, of connect or start_ap
  trying,   \* the network it joins, or has joined
  manager,  \* ProvisioningState, with the name of the access point it recorded
  radio,    \* off, station, or an access point and its name
  lock,     \* who works the radio (WIFI_MANAGER)
  portal,   \* the HTTP server: down, up, or held up in a scan
  connect,  \* ConnectState
  app,      \* AppState
  panel,    \* the AppState drawn last
  flash,    \* the setup record on the flash
  saved,    \* history: what was last saved there
  asked,    \* history: the networks phones have asked for in this boot
  retried,  \* history: the access point has been started again in this boot
  missed,   \* history: a checkpoint of this boot has not been saved
  faults

appVars == <<at, tries, trying, manager, app, panel, faults>>
histories == <<asked, retried>>
flashVars == <<flash, saved, missed>>
vars == <<at, tries, trying, manager, radio, lock, portal, connect, app, panel,
          flash, saved, asked, retried, missed, faults>>

\* The name asked for, the one the coprocessor falls back to, and any other.
ApNames == {"requested", "hosted", "foreign"}
Off == [mode |-> "off"]
Station == [mode |-> "station"]
Ap(name) == [mode |-> "ap", name |-> name]
ApUp == radio.mode = "ap"

Manager(state, name) == [state |-> state, ap |-> name]
NotConnected == [state |-> "NotConnected"]
Connecting(n) == [state |-> "Connecting", network |-> n]

Fault == faults < MaxFaults /\ faults' = faults + 1
NoFault == UNCHANGED faults

-----------------------------------------------------------------------------
(* The checkpoint (setup_state_store.rs).                                  *)

Checkpoints == {"BootStarted", "SplashRendered", "SetupRendered", "Provisioning",
                "NetworkConnected", "Ready"}
Phases   == {"Splash", "Setup", "Ready"}
Networking == {"Unprovisioned", "Provisioning", "Connected"}

CheckpointByte(c) ==
  CASE c = "BootStarted" -> 1 [] c = "SplashRendered" -> 2 [] c = "SetupRendered" -> 3
    [] c = "Provisioning" -> 5 [] c = "NetworkConnected" -> 6 [] c = "Ready" -> 14
PhaseByte(p) == CASE p = "Splash" -> 1 [] p = "Setup" -> 2 [] p = "Ready" -> 3

\* Mutant: the bytes of the network phases numbered in a row.
NetworkByteInARow(n) ==
  CASE n = "Unprovisioned" -> 1 [] n = "Provisioning" -> 2 [] n = "Connected" -> 3
NetworkByte(n) ==
  CASE n = "Unprovisioned" -> 1 [] n = "Provisioning" -> 2 [] n = "Connected" -> 4

\* The values decode knows: what it reads 3 as is nobody's network phase.
NetworkOf == [b \in {1, 2, 4} |-> CASE b = 1 -> "Unprovisioned" [] b = 2 -> "Provisioning"
                                    [] b = 4 -> "Connected"]
PhaseOf == [b \in {1, 2, 3} |-> CASE b = 1 -> "Splash" [] b = 2 -> "Setup" [] b = 3 -> "Ready"]
CheckpointOf ==
  [b \in {1, 2, 3, 5, 6, 14} |->
     CASE b = 1 -> "BootStarted" [] b = 2 -> "SplashRendered" [] b = 3 -> "SetupRendered"
       [] b = 5 -> "Provisioning" [] b = 6 -> "NetworkConnected" [] b = 14 -> "Ready"]

Version == 2
OldVersion == <<1, 6, 2, 4, 0>>

\* from_app_state: the flags are the identity's, which there always is, and one
\* for a network credential, read off the name of the frame's own access point.
Snapshot(c, state) ==
  [checkpoint |-> c, phase |-> state.phase, network |-> state.network,
   flags |-> (IF state.ssid # Nowhere THEN 1 ELSE 0) + 2]

Encode(s) ==
  <<Version, CheckpointByte(s.checkpoint), PhaseByte(s.phase), NetworkByte(s.network), s.flags>>

\* decode: the snapshot, or nothing for a record it does not know.
Decode(r) ==
  IF /\ Len(r) = 5 /\ r[1] = Version
     /\ r[2] \in DOMAIN CheckpointOf /\ r[3] \in DOMAIN PhaseOf /\ r[4] \in DOMAIN NetworkOf
  THEN {[checkpoint |-> CheckpointOf[r[2]], phase |-> PhaseOf[r[3]],
         network |-> NetworkOf[r[4]], flags |-> r[5]]}
  ELSE {}

\* persist_setup_checkpoint: a failure is only logged.
Save(c, state) ==
  \/ /\ flash' = Encode(Snapshot(c, state)) /\ saved' = {Snapshot(c, state)}
     /\ NoFault /\ UNCHANGED missed
  \/ Fault /\ missed' = TRUE /\ UNCHANGED <<flash, saved>>

-----------------------------------------------------------------------------
(* The start.                                                              *)

NewApp == [phase |-> "Splash", network |-> "Unprovisioned", ssid |-> Nowhere]

\* Power comes on.
Fresh ==
  /\ at = "boot" /\ tries = 1 /\ trying = Nowhere
  /\ manager = Manager("NotStarted", Nowhere)
  /\ radio = Off /\ lock = "free" /\ portal = "down" /\ connect = NotConnected
  /\ app = NewApp /\ panel = {} /\ asked = {} /\ retried = FALSE /\ missed = FALSE
  /\ faults = 0

\* The flash is empty, or an older firmware's.
Init == Fresh /\ flash \in {<<>>, OldVersion} /\ saved = {}

At(place) == at = place
To(place) == at' = place
RadioUnchanged == UNCHANGED <<radio, lock>>
PortalUnchanged == UNCHANGED <<portal, connect>>
ManagerUnchanged == UNCHANGED <<tries, trying, manager>>
SetUpUnchanged == RadioUnchanged /\ PortalUnchanged /\ ManagerUnchanged

\* What was saved before is read and logged; the boot's own checkpoint follows.
Boot ==
  /\ At("boot") /\ To("splash") /\ Save("BootStarted", app)
  /\ SetUpUnchanged /\ UNCHANGED <<app, panel, histories>>

Splash ==
  /\ At("splash") /\ To("setup") /\ panel' = {app} /\ Save("SplashRendered", app)
  /\ SetUpUnchanged /\ UNCHANGED <<app, histories>>

\* begin_setup
SetUp ==
  /\ At("setup") /\ To("ensure")
  /\ app' = [app EXCEPT !.phase = "Setup"] /\ panel' = {app'} /\ Save("SetupRendered", app')
  /\ SetUpUnchanged /\ UNCHANGED histories

-----------------------------------------------------------------------------
(* The radio, under its lock.                                              *)

\* An attempt: the first takes the lock, the last lets go of it.
MayTry == lock = (IF tries = 1 THEN "free" ELSE "app")
\* Mutant: an attempt too many.
AgainOnceMore == tries <= Retries /\ tries' = tries + 1 /\ lock' = "app" /\ UNCHANGED at

Again  == tries < Retries /\ tries' = tries + 1 /\ lock' = "app" /\ UNCHANGED at
Over(place) == tries' = 1 /\ lock' = "free" /\ To(place)

\* connect, for the network the app thread is trying: right credentials may
\* fail too; a network that is not reachable is tried as often; and an error
\* of the driver, or an ssid too long for it, ends it.
JoinAttempt(joined, failed) ==
  /\ MayTry
  /\ \/ trying \in Reachable /\ radio' = Station /\ Over(joined) /\ NoFault
     \/ /\ radio' = Off
        /\ IF trying \in Reachable THEN Fault ELSE NoFault
        /\ Again \/ (tries = Retries /\ Over(failed))
     \/ radio' = Off /\ Fault /\ Over(failed)

\* start_ap: the coprocessor takes the name or falls back to its own, or comes
\* up as something else and is started again; an error of the driver, or an
\* access point that is something else to the last, ends it.
ApAttempt(started) ==
  /\ MayTry
  /\ \/ \E name \in {"requested", "hosted"} : radio' = Ap(name) /\ Over(started) /\ NoFault
     \/ radio' = Ap("foreign") /\ Fault /\ Again

\* stop_ap and current_ap_credentials hold the lock for one step.
Alone == lock = "free" /\ UNCHANGED lock

-----------------------------------------------------------------------------
(* ensure_network, on the app thread.                                      *)

Quiet == UNCHANGED <<app, panel, flashVars>>

\* The network built in, when there is one, is tried before anything else.
EnsureNotStarted ==
  /\ At("ensure") /\ manager.state = "NotStarted"
  /\ IF Baked = {} THEN To("startAp") /\ UNCHANGED trying
     ELSE To("joinBaked") /\ \E n \in Baked : trying' = n
  /\ RadioUnchanged /\ PortalUnchanged /\ Quiet
  /\ UNCHANGED <<tries, manager, faults, histories>>

JoinBaked ==
  /\ At("joinBaked") /\ JoinAttempt("publish", "startAp")
  /\ manager' = IF at' = "publish" THEN Manager("Finished", Nowhere) ELSE manager
  /\ trying' = IF at' = "startAp" THEN Nowhere ELSE trying
  /\ PortalUnchanged /\ Quiet /\ UNCHANGED histories

StartAp ==
  /\ At("startAp") /\ ApAttempt("startPortal")
  /\ PortalUnchanged /\ Quiet /\ UNCHANGED <<trying, manager, histories>>

StartPortal ==
  /\ At("startPortal") /\ To("readBack") /\ portal' = "up"
  /\ RadioUnchanged /\ Quiet /\ ManagerUnchanged /\ UNCHANGED <<connect, faults, histories>>

\* Mutant: the name asked for taken for the name on the air.
ReadBackAsRequested ==
  /\ At("readBack") /\ To("publish") /\ Alone
  /\ manager' = Manager("Started", "requested")
  /\ PortalUnchanged /\ Quiet /\ UNCHANGED <<radio, tries, trying, faults, histories>>

\* Mutant: the portal's state made new once the manager has started.
ReadBackAnew ==
  /\ At("readBack") /\ To("publish") /\ Alone
  /\ manager' = Manager("Started", radio.name) /\ connect' = NotConnected
  /\ Quiet /\ UNCHANGED <<portal, radio, tries, trying, faults, histories>>

\* current_ap_credentials: the name that the radio is configured with.
ReadBack ==
  /\ At("readBack") /\ To("publish") /\ Alone
  /\ manager' = Manager("Started", radio.name)
  /\ PortalUnchanged /\ Quiet /\ UNCHANGED <<radio, tries, trying, faults, histories>>

\* Nothing has been asked for, or a network has.
EnsureStarted ==
  /\ At("ensure") /\ manager.state = "Started"
  /\ IF connect.state = "Connecting"
     THEN To("stopAp") /\ trying' = connect.network
     ELSE To("publish") /\ UNCHANGED trying
  /\ RadioUnchanged /\ PortalUnchanged /\ Quiet
  /\ UNCHANGED <<tries, manager, faults, histories>>

StopAp ==
  /\ At("stopAp") /\ To("join") /\ Alone /\ radio' = Off
  /\ PortalUnchanged /\ Quiet /\ ManagerUnchanged /\ UNCHANGED <<faults, histories>>

\* Mutant: a network that could not be joined taken for one that was.
JoinRegardless ==
  /\ At("join") /\ JoinAttempt("mark", "mark")
  /\ PortalUnchanged /\ Quiet /\ UNCHANGED <<trying, manager, histories>>

Join ==
  /\ At("join") /\ JoinAttempt("mark", "restartAp")
  /\ PortalUnchanged /\ Quiet /\ UNCHANGED <<trying, manager, histories>>

\* mark_connected
Mark ==
  /\ At("mark") /\ To("stopPortal") /\ connect' = [state |-> "Connected"]
  /\ RadioUnchanged /\ Quiet /\ ManagerUnchanged /\ UNCHANGED <<portal, faults, histories>>

\* Mutant: the portal stopped under the radio's lock.
StopPortalUnderLock ==
  /\ At("stopPortal")
  /\ IF lock = "free" THEN lock' = "app" /\ UNCHANGED <<at, portal, manager>>
     ELSE /\ lock = "app" /\ portal = "up" /\ lock' = "free"
          /\ portal' = "down" /\ To("publish") /\ manager' = Manager("Finished", Nowhere)
  /\ UNCHANGED radio /\ Quiet /\ UNCHANGED <<tries, trying, connect, faults, histories>>

\* The server is stopped, once its thread has ended what it is doing.
StopPortal ==
  /\ At("stopPortal") /\ portal = "up" /\ portal' = "down"
  /\ To("publish") /\ manager' = Manager("Finished", Nowhere)
  /\ RadioUnchanged /\ Quiet /\ UNCHANGED <<tries, trying, connect, faults, histories>>

\* The access point again, under the name recorded, which is asked for as the
\* name of the first was; the manager keeps the name it has.
RestartAp ==
  /\ At("restartAp") /\ ApAttempt("reset") /\ retried' = TRUE
  /\ PortalUnchanged /\ Quiet /\ UNCHANGED <<trying, manager, asked>>

\* reset_connect_state, whatever has been asked for since.
ResetConnectState ==
  /\ At("reset") /\ To("publish") /\ trying' = Nowhere /\ connect' = NotConnected
  /\ RadioUnchanged /\ Quiet /\ UNCHANGED <<tries, manager, portal, faults, histories>>

Ensure ==
  \/ EnsureNotStarted \/ JoinBaked \/ StartAp \/ StartPortal \/ ReadBack
  \/ EnsureStarted \/ StopAp \/ Join \/ Mark \/ StopPortal \/ RestartAp \/ ResetConnectState

-----------------------------------------------------------------------------
(* The rest of the loop.                                                   *)

Phase == IF manager.state = "Finished" THEN "Connected" ELSE "Provisioning"

\* set_network_phase, and the panel.
Publish ==
  /\ At("publish") /\ To("save")
  /\ app' = [app EXCEPT !.network = Phase,
                        !.ssid = IF Phase = "Provisioning" THEN app.ssid ELSE Nowhere]
  /\ panel' = {app'}
  /\ SetUpUnchanged /\ UNCHANGED <<flashVars, faults, histories>>

\* Mutant: the checkpoint of the phase that is hoped for.
PersistAhead ==
  /\ At("save") /\ Save("NetworkConnected", app)
  /\ To(IF app.network = "Connected" THEN "leave" ELSE "details")
  /\ SetUpUnchanged /\ UNCHANGED <<app, panel, histories>>

Persist ==
  /\ At("save")
  /\ Save(IF app.network = "Connected" THEN "NetworkConnected" ELSE "Provisioning", app)
  /\ To(IF app.network = "Connected" THEN "leave" ELSE "details")
  /\ SetUpUnchanged /\ UNCHANGED <<app, panel, histories>>

\* Out of the loop, with the checkpoint once more.
Leave ==
  /\ At("leave") /\ To("done") /\ Save("NetworkConnected", app)
  /\ SetUpUnchanged /\ UNCHANGED <<app, panel, histories>>

\* Mutant: details that the application's state never gets.
DetailsForgotten ==
  /\ At("details") /\ To("ensure") /\ panel' = {app}
  /\ SetUpUnchanged /\ UNCHANGED <<app, flashVars, faults, histories>>

\* set_provisioning_details, the panel, and round the loop.
Details ==
  /\ At("details") /\ To("ensure")
  /\ app' = [app EXCEPT !.ssid = manager.ap] /\ panel' = {app'}
  /\ SetUpUnchanged /\ UNCHANGED <<flashVars, faults, histories>>

\* The initialisation, the radio's driver, the server or the panel returns an
\* error: run() is over and with it the portal; main() waits for ever, the access
\* point as it was.
Dies ==
  /\ at \in {"boot", "splash", "setup", "startAp", "startPortal", "readBack", "stopAp", "restartAp",
            "publish", "details"}
  /\ Fault /\ To("dead") /\ lock' = (IF lock = "scan" THEN "scan" ELSE "free")
  /\ portal' = (IF portal = "scan" THEN "closing" ELSE "down")
  /\ missed' = (missed \/ At("boot"))
  /\ UNCHANGED <<radio, connect, tries, trying, manager, app, panel, flash, saved, histories>>

AppThread == Boot \/ Splash \/ SetUp \/ Ensure \/ Publish \/ Persist \/ Leave \/ Details

-----------------------------------------------------------------------------
(* Phones, and the HTTP server's thread.                                   *)

Reached == portal = "up" /\ radio.mode # "off"

\* POST /connect
Submit(n) ==
  /\ Reached /\ connect' = Connecting(n) /\ asked' = asked \cup {n}
  /\ UNCHANGED <<appVars, radio, lock, portal, flashVars, retried>>

\* GET /wifi-scan: the scan waits for the radio, and then has it.
Scan ==
  /\ Reached /\ portal' = "scan"
  /\ UNCHANGED <<appVars, radio, lock, connect, flashVars, histories>>

ScanHolds ==
  /\ portal = "scan" /\ lock = "free" /\ lock' = "scan"
  /\ UNCHANGED <<appVars, radio, portal, connect, flashVars, histories>>

ScanEnds ==
  /\ lock = "scan" /\ lock' = "free"
  /\ portal' = IF portal = "closing" THEN "down" ELSE "up"
  /\ UNCHANGED <<appVars, radio, connect, flashVars, histories>>

\* Power is lost and comes back; nothing but the flash is kept.
PowerCycle ==
  /\ at' = "boot" /\ tries' = 1 /\ trying' = Nowhere
  /\ manager' = Manager("NotStarted", Nowhere)
  /\ radio' = Off /\ lock' = "free" /\ portal' = "down" /\ connect' = NotConnected
  /\ app' = NewApp /\ panel' = {} /\ asked' = {} /\ retried' = FALSE /\ missed' = FALSE
  /\ faults' = 0
  /\ UNCHANGED <<flash, saved>>

Next ==
  \/ AppThread \/ Dies
  \/ \E n \in Networks : Submit(n)
  \/ Scan \/ ScanHolds \/ ScanEnds
  \/ PowerCycle

\* Threads run.  The lock goes to a thread that waits for it, however often it
\* is taken by another.
Fairness == SF_vars(AppThread) /\ SF_vars(ScanHolds) /\ WF_vars(ScanEnds)

Spec == Init /\ [][Next]_vars /\ Fairness

-----------------------------------------------------------------------------
(* Properties.                                                             *)

Places ==
  {"boot", "splash", "setup", "ensure", "joinBaked", "startAp", "startPortal", "readBack",
   "stopAp", "join", "mark", "stopPortal", "restartAp", "reset", "publish", "save",
   "leave", "details", "done", "dead"}
AppStates == [phase : Phases, network : Networking, ssid : ApNames \cup {Nowhere}]
Snapshots == [checkpoint : Checkpoints, phase : Phases, network : Networking, flags : 0..3]

TypeOK ==
  /\ at \in Places /\ tries \in 1..Retries /\ trying \in Networks \cup {Nowhere}
  /\ manager \in [state : {"NotStarted", "Started", "Finished"}, ap : ApNames \cup {Nowhere}]
  /\ radio \in {Off, Station} \cup [mode : {"ap"}, name : ApNames]
  /\ lock \in {"free", "app", "scan"} /\ portal \in {"down", "up", "scan", "closing"}
  /\ connect \in [state : {"NotConnected", "Connected"}]
                 \cup [state : {"Connecting"}, network : Networks]
  /\ app \in AppStates /\ panel \in {{}} \cup {{a} : a \in AppStates}
  /\ flash \in Seq(Nat) /\ saved \in {{}} \cup {{s} : s \in Snapshots}
  /\ asked \subseteq Networks /\ retried \in BOOLEAN /\ missed \in BOOLEAN
  /\ faults \in 0..MaxFaults

\* What a boot reads off the flash is what was last saved there, or nothing at
\* all if an older firmware saved it (setup_state_store.rs:133).
ReadsWhatWasSaved == Decode(flash) = saved

\* What the flash says of this boot has happened in it, however power is cut,
\* unless it has no checkpoint of this boot, or not the last one, and may tell of
\* an older boot (main.rs:168).
FlashNotAhead ==
  at # "boot" /\ ~missed => \A s \in saved :
    /\ s.checkpoint = "Provisioning" => manager.state # "NotStarted"
    /\ s.checkpoint = "NetworkConnected" => manager.state = "Finished" /\ radio = Station
    /\ at = "done" => s.checkpoint = "NetworkConnected"

\* The access point that the panel names is the one on the air, though the
\* coprocessor may not have taken the name it was given; until a network that
\* was asked for has failed and the access point been started again, when its
\* name is not read back (provisioning.rs:131).
Named == {a.ssid : a \in panel}
PanelNamesAp == ApUp /\ ~retried => Named \subseteq {radio.name, Nowhere}

\* A frame with its portal up says on its panel how to reach it, or is on its
\* network before (main.rs:309).
Stopped == at \in {"boot", "dead"}
ApIsAnnounced ==
  manager.state = "Started" ~> manager.ap \in Named \/ manager.state = "Finished" \/ Stopped

\* A request made while no network is being tried is the next to be tried,
\* however the portal, its scans and the radio go on, unless another request
\* replaces it first.  One made during an attempt is not promised anything: it is
\* forgotten when the attempt ends, though its phone is told that the frame tries
\* the network (provisioning.rs:157, lib.rs:245).
RequestIsTried ==
  \A n \in Networks :
    connect = Connecting(n) /\ trying = Nowhere ~>
      \/ trying = n \/ Stopped
      \/ connect.state = "Connecting" /\ connect # Connecting(n)

\* A request does not hold the frame up for ever, tried or not: later the frame
\* is on the network, or its portal is open and takes another; only a frame that
\* died needs its power cut (provisioning.rs:156).
Accepting == ApUp /\ portal # "down" /\ connect = NotConnected
Retryable ==
  connect.state = "Connecting" ~> Accepting \/ manager.state = "Finished" \/ Stopped

\* However the app thread, the server's and the radio are interleaved, the
\* frame joins what was built in or asked for, ends each try with the portal
\* open or on the network, and stays there: it implements NetworkSetup.
Stage ==
  IF at = "dead" THEN "dead"
  ELSE IF at = "mark" \/ at = "stopPortal" \/ manager.state = "Finished" THEN "joined"
  ELSE IF trying # Nowhere THEN "joining"
  ELSE IF portal # "down" THEN "open" ELSE "starting"
Setup == INSTANCE NetworkSetup WITH
  Right <- Reachable, stage <- Stage,
  network <- IF at = "dead" THEN Nowhere ELSE trying, asked <- asked
SetupSpec == Setup!Spec
=============================================================================
