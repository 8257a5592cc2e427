----------------------------- MODULE Slideshow -----------------------------
(***************************************************************************)
(* How Home Assistant decides what one frame is sent                       *)
(* (custom_components/photoframe_bridge/coordinator.py), over the frame's  *)
(* session (control_server.py) and the listeners of __init__.py.           *)
(*                                                                         *)
(* The rotation timer, the first push, the services and the frame's own    *)
(* requests each run as a task on one event loop, advance one shared pool  *)
(* and write to one session.  A task runs undisturbed until it awaits, and *)
(* what it awaits is the preparation of a photo (async_prepare); writes to *)
(* one socket complete in the order they are made, so a write and what     *)
(* follows it are one step.                                                *)
(***************************************************************************)
EXTENDS Naturals, Sequences, FiniteSets, Functions

CONSTANTS
  Photos,         \* what the pool's items resolve to
  Tasks,          \* bound: tasks under way at once
  History,        \* SENT_HISTORY
  MaxAttempts,    \* photos one async_show_next tries (10)
  BufferTarget,   \* FRAME_BUFFER_TARGET
  MaxPerRequest,  \* MAX_PHOTOS_PER_REQUEST
  MaxTroubles     \* bound: failures, disconnects, refreshes, previous commands

ASSUME PhotosAssumption == IsFiniteSet(Photos) /\ Photos # {}
ASSUME NumbersAssumption ==
  /\ History \in Nat \ {0} /\ MaxAttempts \in Nat \ {0} /\ BufferTarget \in Nat \ {0}
  /\ MaxPerRequest \in Nat \ {0} /\ MaxTroubles \in Nat

VARIABLES
  order,     \* PhotoPool.items in play order; <<>> while the pool is empty
  cursor,    \* PhotoPool.cursor
  task,      \* the tasks
  link,      \* the frame's session: none, open, or closed and still registered
  sent,      \* FrameSession.sent_photo_ids
  pushed,    \* FrameSession.photo_pushed
  wire,      \* history: the last photos written to the session's socket
  hungry,    \* history: the session's first push ended without a photo
  troubles   \* how many of MaxTroubles there have been

pool == <<order, cursor>>
vars == <<order, cursor, task, link, sent, pushed, wire, hungry, troubles>>

N == Cardinality(Photos)

\* Play orders: the permutations of the photos.
Orders == {o \in [1..N -> Photos] : IsInjective(o)}

Least(a, b) == IF a <= b THEN a ELSE b

\* A task is idle or awaits the preparation of a photo, with `left` more turns
\* of its loop to go.
Kinds == {"next", "topup", "fill", "previous"}
Idle  == [kind |-> "idle"]
Busy(k, n, p) == [kind |-> k, left |-> n, photo |-> p]

Init ==
  /\ order \in Orders \cup {<<>>} /\ cursor = 0
  /\ task = [t \in Tasks |-> Idle]
  /\ link \in {"none", "open"} /\ sent = <<>> /\ pushed = FALSE
  /\ wire = <<>> /\ hungry = FALSE /\ troubles = 0

Trouble == troubles < MaxTroubles /\ troubles' = troubles + 1

-----------------------------------------------------------------------------
(* The pool.                                                               *)

\* PhotoPool.advance: the next photo is p; a pool played through is reshuffled.
Advance(p) ==
  /\ order # <<>>
  /\ IF cursor >= Len(order)
     THEN order' \in Orders /\ cursor' = 1 /\ p = order'[1]
     ELSE cursor' = cursor + 1 /\ p = order[cursor'] /\ UNCHANGED order

\* PhotoPool.previous: two back, then advance.
StepBack(p) ==
  /\ order # <<>>
  /\ cursor' = (IF cursor > 2 THEN cursor - 2 ELSE 0) + 1
  /\ p = order[cursor'] /\ UNCHANGED order

\* async_refresh_pool puts a new list in the pool and shuffles it.
Refresh ==
  /\ IF order = <<>> THEN UNCHANGED troubles ELSE Trouble
  /\ order' \in Orders /\ cursor' = 0
  /\ UNCHANGED <<task, link, sent, pushed, wire, hungry>>

\* A refresh that finds nothing leaves nothing in the pool, when the source is
\* the bundled photos or they have none to stand in; the next one reshuffles.
Empties ==
  /\ order # <<>> /\ Trouble
  /\ order' = <<>> /\ cursor' = 0
  /\ UNCHANGED <<task, link, sent, pushed, wire, hungry>>

-----------------------------------------------------------------------------
(* The session.                                                            *)

\* The last History elements of a sequence.
Latest(s) == IF Len(s) > History THEN SubSeq(s, Len(s) - History + 1, Len(s)) ELSE s

\* Mutant: a history that keeps its oldest entries.
RecordedOldest(s, p) == IF Len(s) < History THEN Append(s, p) ELSE s

\* Mutant: a history that never forgets.
RecordedForever(s, p) == Append(s, p)

\* FrameSession.record_sent
Recorded(s, p) == Latest(Append(s, p))

\* send_render writes p: there is a session, it has not had p lately, and its
\* socket is open.
Delivers(p) == link = "open" /\ p \notin Range(sent)

\* What send_render does, delivered or not: a photo new to the session is
\* recorded before the write that may fail.
SendRender(p) ==
  /\ sent' = IF link # "none" /\ p \notin Range(sent) THEN Recorded(sent, p) ELSE sent
  /\ wire' = IF Delivers(p) THEN Latest(Append(wire, p)) ELSE wire

NoSend == UNCHANGED <<sent, wire>>

-----------------------------------------------------------------------------
(* The tasks.                                                              *)

\* Task t awaits the preparation of the next photo, `left` turns before the end.
Begin(t, kind, left) ==
  \E p \in Photos : Advance(p) /\ task' = [task EXCEPT ![t] = Busy(kind, left, p)]

Finish(t) == task' = [task EXCEPT ![t] = Idle] /\ UNCHANGED pool

\* The loop goes round, or is over: every loop ends when the pool is empty.
Over(t) == task[t].left = 0 \/ order = <<>>
Continue(t) ==
  IF Over(t) THEN Finish(t) ELSE Begin(t, task[t].kind, task[t].left - 1)

\* A turn that showed nothing; async_show_next gives up after the last one.
Skip(t) ==
  /\ Continue(t)
  /\ hungry' = (hungry \/ (task[t].kind = "next" /\ Over(t)))

\* async_show_next: the timer, display_photo, next, and the first push.
Attempts == Least(N, MaxAttempts)

StartNext(t) ==
  /\ task[t] = Idle /\ Begin(t, "next", Attempts - 1)
  /\ UNCHANGED <<link, sent, pushed, wire, hungry, troubles>>

\* async_fill_frame_cache, for a frame that asks for `wanted` photos.
StartFill(t) ==
  /\ task[t] = Idle /\ link = "open"
  /\ \E wanted \in 1..MaxPerRequest : Begin(t, "fill", wanted - 1)
  /\ UNCHANGED <<link, sent, pushed, wire, hungry, troubles>>

\* async_show_previous
StartPrevious(t) ==
  /\ task[t] = Idle /\ Trouble
  /\ \E p \in Photos : StepBack(p) /\ task' = [task EXCEPT ![t] = Busy("previous", 0, p)]
  /\ UNCHANGED <<link, sent, pushed, wire, hungry>>

\* The photo could not be fetched or prepared: on to the next one.
NotPrepared(t) ==
  /\ task[t] # Idle /\ Trouble
  /\ Skip(t) /\ NoSend
  /\ UNCHANGED <<link, pushed>>

\* Home Assistant has no URL to give: only async_show_next tries another photo.
NoUrl(t) ==
  /\ task[t] # Idle /\ Trouble
  /\ IF task[t].kind = "next" THEN Skip(t) ELSE Finish(t) /\ UNCHANGED hungry
  /\ NoSend /\ UNCHANGED <<link, pushed>>

\* Preparing it raises what nothing catches (a source's own error, a store that
\* cannot be written): the task is over.
Raises(t) ==
  /\ task[t] # Idle /\ Trouble
  /\ Finish(t) /\ hungry' = (hungry \/ task[t].kind = "next")
  /\ NoSend /\ UNCHANGED <<link, pushed>>

\* The photo is ready and handed to send_render.  A photo shown is followed by
\* the top-up in the same task; a spare or a refused photo by the next turn.
Prepared(t) ==
  /\ task[t] # Idle
  /\ SendRender(task[t].photo)
  /\ IF task[t].kind = "next" /\ Delivers(task[t].photo)
     THEN /\ IF BufferTarget > 1 /\ order # <<>>
             THEN Begin(t, "topup", BufferTarget - 2) ELSE Finish(t)
          /\ UNCHANGED hungry
     ELSE IF Delivers(task[t].photo) THEN Continue(t) /\ UNCHANGED hungry ELSE Skip(t)
  /\ UNCHANGED <<link, pushed, troubles>>

-----------------------------------------------------------------------------
(* The connection.                                                         *)

\* _push_first_photo, on a session that has had none: photo_pushed is set
\* whether or not the pool has anything to push.
PushFirst ==
  /\ pushed' = TRUE /\ hungry' = (order = <<>>)
  /\ IF order = <<>> THEN UNCHANGED <<task, pool>>
     ELSE \E t \in Tasks : task[t] = Idle /\ Begin(t, "next", Attempts - 1)

\* Mutant: photo_pushed remembered for the frame, not for its connection.
ConnectKeepingPushed ==
  /\ link # "open" /\ link' = "open"
  /\ sent' = <<>> /\ wire' = <<>>
  /\ IF pushed THEN hungry' = FALSE /\ UNCHANGED <<task, pool, pushed>> ELSE PushFirst
  /\ UNCHANGED troubles

\* A frame connects: a new session, whose registration notifies the listener.
\* (Its push takes one of the model's tasks: it waits while all are under way.)
Connect ==
  /\ link # "open" /\ link' = "open"
  /\ sent' = <<>> /\ wire' = <<>> /\ PushFirst
  /\ UNCHANGED troubles

\* The frame was connected before its entry was set up.
SetUp ==
  /\ link = "open" /\ ~pushed /\ PushFirst
  /\ UNCHANGED <<link, sent, wire, troubles>>

\* Its socket closes, and the session with it a little later.
Disconnect ==
  /\ \/ link = "open" /\ link' = "closed" /\ Trouble
     \/ link = "closed" /\ link' = "none" /\ UNCHANGED troubles
  /\ UNCHANGED <<order, cursor, task, sent, pushed, wire, hungry>>

Step(t) == StartNext(t) \/ StartFill(t) \/ StartPrevious(t)
           \/ NotPrepared(t) \/ NoUrl(t) \/ Raises(t) \/ Prepared(t)

Next == (\E t \in Tasks : Step(t)) \/ Refresh \/ Empties \/ Connect \/ SetUp \/ Disconnect

\* The timer keeps ticking, what a task awaits completes, a frame that is away
\* comes back, and so do the photos of a source that had none.
Fairness ==
  /\ SF_vars(\E t \in Tasks : StartNext(t))
  /\ \A t \in Tasks : WF_vars(Prepared(t))
  /\ SF_vars(Connect) /\ WF_vars(order = <<>> /\ Refresh)

Spec == Init /\ [][Next]_vars /\ Fairness

-----------------------------------------------------------------------------
(* Properties.                                                             *)

TaskStates ==
  {Idle} \cup [kind : Kinds, left : 0..(MaxAttempts + BufferTarget + MaxPerRequest),
               photo : Photos]

TypeOK ==
  /\ order \in Orders \cup {<<>>} /\ cursor \in 0..Len(order)
  /\ task \in [Tasks -> TaskStates]
  /\ link \in {"none", "open", "closed"}
  /\ sent \in Seq(Photos) /\ Len(sent) <= History
  /\ wire \in Seq(Photos) /\ Len(wire) <= History
  /\ pushed \in BOOLEAN /\ hungry \in BOOLEAN /\ troubles \in 0..MaxTroubles

\* The timer, the services and the frame's requests advance one pool, and none
\* makes a connection carry a photo twice, although each chose its photo before it awaited
\* (control_server.py:53): the slideshow implements PhotoFeed.
Feed == INSTANCE PhotoFeed WITH Photos <- Photos, History <- History, wire <- wire
FeedSpec == Feed!Spec

\* A connection that has carried nothing yet has a first push on its way,
\* unless that push has already failed or the pool had nothing: a frame that
\* rebooted is not left waiting for the rotation timer (__init__.py:149).
FirstPhotoOnItsWay ==
  link = "open" /\ pushed /\ sent = <<>> /\ ~hungry
     => \E t \in Tasks : task[t] # Idle /\ task[t].kind = "next"

\* With a pool larger than the history photos keep coming, whatever order the
\* pool is played in and whichever task takes which photo.
Writes == wire' # wire
KeepsComing == []<><<Writes>>_vars
=============================================================================
