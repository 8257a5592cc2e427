---------------------------- MODULE ControlLink ----------------------------
(***************************************************************************)
(* The control channel between one frame and Home Assistant, both ends.    *)
(*                                                                         *)
(* Frame (packages/frame-firmware/src/runtime.rs): the control-plane       *)
(* thread dials, introduces the frame, alternates between sending one      *)
(* queued status and polling for one message, and backs off when the       *)
(* connection is gone; the render thread answers what it is handed with    *)
(* statuses; the main thread writes the controller phase once at start.    *)
(*                                                                         *)
(* Home Assistant (custom_components/photoframe_bridge/control_server.py): *)
(* one handler task per socket on one event loop, and a registry of one    *)
(* session per frame.  A task step runs until its next await.              *)
(*                                                                         *)
(* Each connection is a number: the frame's end, the handler and the two   *)
(* FIFO directions are functions of it; it is free again when both ends    *)
(* are done with it.  A cut connection loses what is in flight and each    *)
(* end notices in its own time, so Home Assistant may learn of it long     *)
(* after the frame has come back on another connection.                    *)
(***************************************************************************)
EXTENDS Naturals, Sequences

CONSTANTS
  MaxConns,      \* bound: connections that exist at once, for either end
  MaxFaults,     \* bound: cuts, failed dials and restarts (of either end) in all
  MaxEntryOps,   \* bound: set-ups and unloads of the frame's config entry
  MaxTokens,     \* bound: tokens the entry may be given (re-adoption renews it)
  MaxQueued,     \* bound: statuses waiting to be sent, events waiting to be rendered
  MaxInFlight    \* bound: messages sent and not yet read, each way

ASSUME BoundsAssumption ==
  /\ MaxConns \in Nat \ {0} /\ MaxFaults \in Nat /\ MaxEntryOps \in Nat
  /\ MaxTokens \in Nat \ {0} /\ MaxQueued \in Nat \ {0} /\ MaxInFlight \in Nat \ {0}

Conns  == 1..MaxConns
Tokens == 1..MaxTokens
None   == 0            \* no connection, no session, no token

Phases == {"not_started", "searching", "awaiting", "connected"}

\* What the frame sends: the introduction, and every other status.
UpMessages == {"intro", "status"}

\* What Home Assistant sends: the claim with its token, and the messages that
\* parse to an event for the render thread (a photo or a command).
Claim(t)     == [kind |-> "claim", token |-> t]
Event        == [kind |-> "event", token |-> None]
DownMessages == [kind : {"claim", "event"}, token : Tokens \cup {None}]

VARIABLES
  (* the frame *)
  ctl,         \* where the control-plane thread is
  cur,         \* the connection it holds, or None
  phase,       \* controller_state: the phase the panel and offline rotation read
  outbox,      \* statuses waiting in transport_rx (they are alike here)
  toRender,    \* events waiting in control_rx
  frameToken,  \* FRAME_TOKEN
  mainDone,    \* the main thread has written its one Searching
  (* Home Assistant *)
  haUp,        \* the process runs and its endpoints are registered
  session,     \* ControlServer._sessions: the connection of the frame's session
  handler,     \* FrameControlView.get, per connection
  entryToken,  \* the frame's token in PhotoFrameTokenRegistry, or None
  helloToken,  \* history: that token when the frame's connection was registered
  (* the network *)
  cut,         \* the path is dead
  up, down,    \* messages sent and not yet read, per connection
  faults, entryOps

frameVars == <<ctl, cur, phase, outbox, toRender, frameToken, mainDone>>
haVars    == <<haUp, session, handler, entryToken, helloToken>>
netVars   == <<cut, up, down>>
bounds    == <<faults, entryOps>>
vars      == <<frameVars, haVars, netVars, bounds>>

Init ==
  /\ ctl = "dial" /\ cur = None /\ phase = "not_started"
  /\ outbox = 0 /\ toRender = 0 /\ frameToken = None /\ mainDone = FALSE
  /\ haUp \in BOOLEAN /\ session = None
  /\ handler = [c \in Conns |-> "none"]
  /\ entryToken \in (IF haUp THEN Tokens \cup {None} ELSE {None})
  /\ helloToken = None
  /\ cut = [c \in Conns |-> FALSE]
  /\ up = [c \in Conns |-> <<>>] /\ down = [c \in Conns |-> <<>>]
  /\ faults = 0 /\ entryOps = 0

-----------------------------------------------------------------------------
(* The frame's control-plane thread.                                       *)

Open == ctl \in {"send", "read"}

\* Mutant: a wait entered without recording that the controller is away.
EnterBackoffSilently == ctl' = "backoff" /\ UNCHANGED phase

EnterBackoff == ctl' = "backoff" /\ phase' = "searching"

\* The frame drops its end; what it had not read is gone with it.
DropConnection ==
  /\ cur' = None /\ helloToken' = None
  /\ handler' = [handler EXCEPT ![cur] = IF @ = "done" THEN "none" ELSE @]
  /\ down' = [down EXCEPT ![cur] = <<>>]

\* The number a new connection gets: the lowest one neither end still uses.
Unused(c) == c # cur /\ handler[c] = "none"
Fresh(c)  == Unused(c) /\ \A d \in Conns : Unused(d) => c <= d

\* Mutant: the introduction left to whatever status goes out first.
DialUnannounced ==
  /\ ctl = "dial" /\ haUp
  /\ \E c \in Conns : Fresh(c) /\ cur' = c /\ handler' = [handler EXCEPT ![c] = "waiting"]
  /\ ctl' = "send" /\ phase' = "awaiting"
  /\ UNCHANGED <<outbox, toRender, frameToken, mainDone, haUp, session,
                 entryToken, helloToken, cut, up, down, bounds>>

\* connect() succeeds: the handshake starts a handler, and the introduction is
\* written before the thread can send anything else.
Dial ==
  /\ ctl = "dial" /\ haUp
  /\ \E c \in Conns : Fresh(c) /\ cur' = c /\ handler' = [handler EXCEPT ![c] = "waiting"]
  /\ up' = [up EXCEPT ![cur'] = <<"intro">>]
  /\ ctl' = "send" /\ phase' = "awaiting"
  /\ UNCHANGED <<outbox, toRender, frameToken, mainDone, haUp, session,
                 entryToken, helloToken, cut, down, bounds>>

\* connect() fails: nobody listens, or the network fails it.
DialFails ==
  /\ ctl = "dial"
  /\ \/ ~haUp /\ UNCHANGED faults
     \/ haUp /\ faults < MaxFaults /\ faults' = faults + 1
  /\ EnterBackoff
  /\ UNCHANGED <<cur, outbox, toRender, frameToken, mainDone, haVars, netVars,
                 entryOps>>

\* connect() fails after the handshake: a handler waits on a socket that never
\* introduces itself.
DialLosesIntroduction ==
  /\ ctl = "dial" /\ haUp /\ faults < MaxFaults /\ faults' = faults + 1
  /\ \E c \in Conns : Fresh(c) /\ handler' = [handler EXCEPT ![c] = "waiting"]
  /\ EnterBackoff
  /\ UNCHANGED <<cur, outbox, toRender, frameToken, mainDone, haUp, session,
                 entryToken, helloToken, cut, up, down, entryOps>>

\* One turn of the inner loop, first half: send at most one queued status.  A
\* write to a cut connection still succeeds until the frame notices.
SendTurn ==
  /\ ctl = "send" /\ ctl' = "read"
  /\ IF outbox = 0 THEN UNCHANGED <<outbox, up>>
     ELSE /\ Len(up[cur]) < MaxInFlight
          /\ outbox' = outbox - 1
          /\ up' = IF cut[cur] \/ handler[cur] = "done" THEN up
                   ELSE [up EXCEPT ![cur] = Append(@, "status")]
  /\ UNCHANGED <<cur, phase, toRender, frameToken, mainDone, haVars,
                 cut, down, bounds>>

\* The write fails: the status taken from the queue is lost with the connection.
SendFails ==
  /\ ctl = "send" /\ outbox > 0
  /\ cut[cur] \/ handler[cur] = "done"
  /\ outbox' = outbox - 1
  /\ DropConnection /\ EnterBackoff
  /\ UNCHANGED <<toRender, frameToken, mainDone, haUp, session, entryToken,
                 cut, up, bounds>>

\* Second half, a message: a claim is kept, anything else goes to the renderer.
ReadMessage ==
  /\ ctl = "read" /\ ctl' = "send"
  /\ down[cur] # <<>> /\ ~cut[cur]
  /\ LET m == Head(down[cur]) IN
       /\ phase' = "connected"
       /\ IF m.kind = "claim"
          THEN frameToken' = m.token /\ UNCHANGED toRender
          ELSE toRender < MaxQueued /\ toRender' = toRender + 1 /\ UNCHANGED frameToken
  /\ down' = [down EXCEPT ![cur] = Tail(@)]
  /\ UNCHANGED <<cur, outbox, mainDone, haVars,
                 cut, up, bounds>>

\* Second half, nothing within the poll interval.
ReadTimesOut ==
  /\ ctl = "read" /\ ctl' = "send"
  /\ UNCHANGED <<cur, phase, outbox, toRender, frameToken, mainDone,
                 haVars, netVars, bounds>>

\* Second half, the connection is gone.
ReadFails ==
  /\ ctl = "read"
  /\ cut[cur] \/ (handler[cur] = "done" /\ down[cur] = <<>>)
  /\ DropConnection /\ EnterBackoff
  /\ UNCHANGED <<outbox, toRender, frameToken, mainDone, haUp, session, entryToken, cut, up, bounds>>

\* Mutant: recv instead of recv_timeout, so only a status ends the wait.
BackoffUntilStatus ==
  /\ ctl = "backoff" /\ ctl' = "dial"
  /\ outbox > 0 /\ outbox' = outbox - 1
  /\ UNCHANGED <<cur, phase, toRender, frameToken, mainDone, haVars,
                 netVars, bounds>>

\* Mutant: a wait that takes a status whether or not one is queued.
BackoffTakesStatus ==
  /\ ctl = "backoff" /\ ctl' = "dial"
  /\ outbox' = outbox - 1
  /\ UNCHANGED <<cur, phase, toRender, frameToken, mainDone, haVars,
                 netVars, bounds>>

\* recv_timeout(delay): a queued status ends the wait at once and is dropped.
BackoffEnds ==
  /\ ctl = "backoff" /\ ctl' = "dial"
  /\ outbox' = IF outbox > 0 THEN outbox - 1 ELSE 0
  /\ UNCHANGED <<cur, phase, toRender, frameToken, mainDone, haVars,
                 netVars, bounds>>

ControlThread ==
  \/ Dial \/ DialFails \/ DialLosesIntroduction
  \/ SendTurn \/ SendFails \/ ReadMessage \/ ReadTimesOut \/ ReadFails \/ BackoffEnds

-----------------------------------------------------------------------------
(* The frame's other threads.                                              *)

\* The health thread, a tap or the boot queue a status of their own.
QueueStatus ==
  /\ outbox < MaxQueued /\ outbox' = outbox + 1
  /\ UNCHANGED <<ctl, cur, phase, toRender, frameToken, mainDone,
                 haVars, netVars, bounds>>

\* run() writes Searching after it has spawned the runtime.
MainSearching ==
  /\ ~mainDone /\ mainDone' = TRUE /\ phase' = "searching"
  /\ UNCHANGED <<ctl, cur, outbox, toRender, frameToken, haVars,
                 netVars, bounds>>

\* PreparedPhotoView: a photo is served to the bearer of the frame's token.
MayFetch == frameToken # None /\ frameToken = entryToken

\* The render thread takes one event.  Whether its photo is served or
\* answered 401, the render ends in a status (the two of a render are one here).
RenderEvent ==
  /\ toRender > 0 /\ toRender' = toRender - 1
  /\ outbox < MaxQueued /\ outbox' = outbox + 1
  /\ UNCHANGED <<ctl, cur, phase, frameToken, mainDone, haVars, netVars, bounds>>

-----------------------------------------------------------------------------
(* Home Assistant: the handler of one connection.                          *)

\* A handler that is over is "done" for as long as the frame holds its end.
Ended(c) == IF c = cur THEN "done" ELSE "none"

\* Mutant: a hello that is registered and not claimed.
FirstMessageUnclaimed(c) ==
  /\ haUp /\ handler[c] = "waiting" /\ up[c] # <<>>
  /\ up' = [up EXCEPT ![c] = Tail(@)]
  /\ IF Head(up[c]) = "intro"
     THEN /\ handler' = [handler EXCEPT ![c] = "claiming"]
          /\ session' = c
          /\ helloToken' = IF c = cur THEN entryToken ELSE helloToken
     ELSE /\ handler' = [handler EXCEPT ![c] = Ended(c)]
          /\ UNCHANGED <<session, helloToken>>
  /\ UNCHANGED <<frameVars, haUp, entryToken, cut, down, bounds>>

\* The first message identifies the frame or ends the connection.  register()
\* replaces whatever session the frame had, and _async_claim writes the claim,
\* if the frame has a token, before the handler first gives up the loop.
FirstMessage(c) ==
  /\ haUp /\ handler[c] = "waiting" /\ up[c] # <<>>
  /\ up' = [up EXCEPT ![c] = Tail(@)]
  /\ IF Head(up[c]) = "intro"
     THEN /\ handler' = [handler EXCEPT ![c] = "claiming"]
          /\ session' = c
          /\ helloToken' = IF c = cur THEN entryToken ELSE helloToken
          /\ down' = IF entryToken = None \/ cut[c] \/ c # cur THEN down
                     ELSE [down EXCEPT ![c] = Append(@, Claim(entryToken))]
     ELSE /\ handler' = [handler EXCEPT ![c] = Ended(c)]
          /\ UNCHANGED <<session, helloToken, down>>
  /\ UNCHANGED <<frameVars, haUp, entryToken, cut, bounds>>

\* The claim's send returns and the first message is applied as a status.
Claimed(c) ==
  /\ haUp /\ handler[c] = "claiming"
  /\ handler' = [handler EXCEPT ![c] = "open"]
  /\ UNCHANGED <<frameVars, haUp, session, entryToken, helloToken, netVars, bounds>>

\* Every later message is a status.
Status(c) ==
  /\ haUp /\ handler[c] = "open" /\ up[c] # <<>>
  /\ up' = [up EXCEPT ![c] = Tail(@)]
  /\ UNCHANGED <<frameVars, haVars, cut, down, bounds>>

\* The socket is over for this end: the path is dead (the heartbeat finds out)
\* or the frame closed its end and everything it sent has been read.
SocketOver(c) == cut[c] \/ (c # cur /\ up[c] = <<>>)

\* Mutant: a handler that ends without taking its session out of the registry.
HandlerEndsKeepingSession(c) ==
  /\ haUp /\ handler[c] \in {"waiting", "open"} /\ SocketOver(c)
  /\ handler' = [handler EXCEPT ![c] = Ended(c)]
  /\ up' = [up EXCEPT ![c] = <<>>] /\ cut' = [cut EXCEPT ![c] = FALSE]
  /\ UNCHANGED <<frameVars, haUp, session, entryToken, helloToken, down,
                 bounds>>

\* The finally block: a handler that got as far as a session removes the
\* session of its frame, whichever connection that session belongs to.  (To the
\* frame a finished handler is as good as a cut path, so `cut` is forgotten.)
HandlerEnds(c) ==
  /\ haUp /\ handler[c] \in {"waiting", "open"} /\ SocketOver(c)
  /\ handler' = [handler EXCEPT ![c] = Ended(c)]
  /\ session' = IF handler[c] = "open" THEN None ELSE session
  /\ up' = [up EXCEPT ![c] = <<>>] /\ cut' = [cut EXCEPT ![c] = FALSE]
  /\ UNCHANGED <<frameVars, haUp, entryToken, helloToken, down, bounds>>

\* send_render or send_command to the registered session, for a photo or a
\* command; nothing is written without one.
WriteEvent ==
  /\ haUp /\ session # None
  /\ ~cut[session] /\ session = cur /\ Len(down[session]) < MaxInFlight
  /\ down' = [down EXCEPT ![session] = Append(@, Event)]

\* The frame's coordinator exists while its entry is set up.
SendEvent ==
  /\ entryToken # None /\ WriteEvent
  /\ UNCHANGED <<frameVars, haVars, cut, up, bounds>>

\* async_setup_entry registers the frame's token; a reload reuses it and a new
\* adoption brings another.
SetupEntry ==
  /\ haUp /\ entryToken = None /\ entryOps < MaxEntryOps /\ entryOps' = entryOps + 1
  /\ entryToken' \in Tokens
  /\ UNCHANGED <<frameVars, haUp, session, handler, helloToken, netVars, faults>>

\* async_unload_entry revokes it.  A rotation already under way, or the reload_ui
\* of a removal, still goes out afterwards.
UnloadEntry ==
  /\ haUp /\ entryToken # None /\ entryOps < MaxEntryOps /\ entryOps' = entryOps + 1
  /\ entryToken' = None
  /\ WriteEvent \/ UNCHANGED down
  /\ UNCHANGED <<frameVars, haUp, session, handler, helloToken, cut, up, faults>>

-----------------------------------------------------------------------------
(* What goes wrong around them.                                            *)

CutConnection(c) ==
  /\ faults < MaxFaults /\ faults' = faults + 1
  /\ ~cut[c] /\ handler[c] \notin {"none", "done"}
  /\ cut' = [cut EXCEPT ![c] = TRUE]
  /\ down' = [down EXCEPT ![c] = <<>>]
  /\ UNCHANGED <<frameVars, haVars, up, entryOps>>

\* The frame restarts, by command or for want of power: its memory is gone, the
\* token included, and nothing tells Home Assistant's end of the connection.
FrameRestarts ==
  /\ faults < MaxFaults /\ faults' = faults + 1
  /\ ctl' = "dial" /\ cur' = None /\ phase' = "not_started"
  /\ outbox' = 0 /\ toRender' = 0 /\ frameToken' = None /\ mainDone' = FALSE
  /\ helloToken' = None
  /\ handler' = [c \in Conns |-> IF handler[c] = "done" THEN "none" ELSE handler[c]]
  /\ cut' = [c \in Conns |-> cut[c] \/ (c = cur /\ handler[c] # "done")]
  /\ down' = [c \in Conns |-> <<>>]
  /\ UNCHANGED <<haUp, session, entryToken, up, entryOps>>

\* Home Assistant stops: its sockets close and its memory is gone.
HAStops ==
  /\ haUp /\ faults < MaxFaults /\ faults' = faults + 1
  /\ haUp' = FALSE /\ session' = None /\ entryToken' = None
  /\ handler' = [c \in Conns |-> Ended(c)]
  /\ up' = [c \in Conns |-> <<>>] /\ cut' = [c \in Conns |-> FALSE]
  /\ UNCHANGED <<frameVars, helloToken, down, entryOps>>

\* It is back: the endpoints are registered with the first entry to be set up,
\* which is this frame's (its token is there at once) or another frame's.
HAStarts ==
  /\ ~haUp /\ haUp' = TRUE
  /\ entryToken' \in Tokens \cup {None}
  /\ UNCHANGED <<frameVars, session, handler, helloToken, netVars, bounds>>

Handlers == \E c \in Conns : FirstMessage(c) \/ Claimed(c) \/ Status(c) \/ HandlerEnds(c)

Next ==
  \/ ControlThread
  \/ QueueStatus \/ MainSearching \/ RenderEvent
  \/ Handlers \/ SendEvent \/ SetupEntry \/ UnloadEntry
  \/ (\E c \in Conns : CutConnection(c)) \/ FrameRestarts \/ HAStops \/ HAStarts

\* The control thread never blocks for good: every read, write and wait has a
\* timeout.  A message on a live connection is read eventually although polls
\* that find nothing interleave with it, hence strong fairness.  A cut is
\* noticed by each end (read error, heartbeat), Home Assistant is restarted, and
\* its rotation timer keeps sending photos.
Fairness ==
  /\ WF_vars(ControlThread)
  /\ SF_vars(ReadMessage) /\ SF_vars(ReadFails)
  /\ WF_vars(Dial) /\ SF_vars(RenderEvent) /\ WF_vars(MainSearching)
  /\ \A c \in Conns :
       WF_vars(FirstMessage(c) \/ Claimed(c) \/ Status(c) \/ HandlerEnds(c))
  /\ WF_vars(HAStarts) /\ SF_vars(SendEvent)

Spec == Init /\ [][Next]_vars /\ Fairness

-----------------------------------------------------------------------------
(* Properties.                                                             *)

TypeOK ==
  /\ ctl \in {"dial", "send", "read", "backoff"}
  /\ cur \in Conns \cup {None} /\ phase \in Phases
  /\ outbox \in 0..MaxQueued /\ toRender \in 0..MaxQueued
  /\ frameToken \in Tokens \cup {None} /\ entryToken \in Tokens \cup {None}
  /\ mainDone \in BOOLEAN /\ haUp \in BOOLEAN
  /\ session \in Conns \cup {None}
  /\ handler \in [Conns -> {"none", "waiting", "claiming", "open", "done"}]
  /\ helloToken \in Tokens \cup {None}
  /\ cut \in [Conns -> BOOLEAN]
  /\ up \in [Conns -> Seq(UpMessages)] /\ down \in [Conns -> Seq(DownMessages)]
  /\ faults \in 0..MaxFaults /\ entryOps \in 0..MaxEntryOps

\* A frame is never turned away for failing to say who it is: whatever statuses
\* were queued while it was away, and however often it redials, the first thing
\* a handler reads is the introduction (runtime.rs:551, control_server.py:284).
IntroducedFirst ==
  \A c \in Conns : handler[c] = "waiting" /\ up[c] # <<>> => Head(up[c]) = "intro"

\* The registry never holds the session of a handler that has ended, so a photo
\* is never written to a socket nobody is reading.
SessionIsServed == session # None => handler[session] \in {"claiming", "open"}

\* The phase says connected only while the control thread holds a connection it
\* has heard Home Assistant on: offline rotation, which runs in every other
\* phase, is not held back by a connection that is gone (main.rs:582).
ConnectedMeansOpen == phase = "connected" => Open /\ cur # None

\* A frame that was claimed on the connection it holds has the token it was
\* given there before it acts on any photo, however the claim's send, other
\* tasks' photos and the frame's polls interleave.
ConnectedHoldsToken ==
  phase = "connected" /\ helloToken # None => frameToken = helloToken

\* Once the faults are over the frame gets a connection and keeps it, whatever
\* it had queued, wherever it was in its loop and whenever Home Assistant
\* noticed the old ones (FR-026).
Reconnects == <>[]Open

\* NOT what the code does.  A frame whose live connection is being served has a
\* session: "Tracks connected frames and routes control messages to
\* them" (control_server.py:94).  unregister() removes by frame id.
LiveConnectionTracked ==
  \A c \in Conns :
    handler[c] = "open" /\ c = cur /\ ~cut[c] => session # None

\* NOT what the code does.  "401 tells the frame to drop its control connection
\* and re-hello, which is how it recovers from a rotated token"
\* (http_view.py:94).  A refused download is only reported as an error.
ShutOut == Open /\ haUp /\ entryToken # None /\ ~MayFetch
RefusalLeadsToHello == ShutOut ~> ~ShutOut
=============================================================================
