# ha-photoframe, modelled in TLA+

A photo frame (ESP32-P4, Rust) shows what Home Assistant sends it. The frame is
a thin client: the integration `photoframe_bridge` (Python) picks photos,
prepares them and decides when the picture changes; the frame keeps a small
reserve so that a tap is instant and an outage is not visible. This directory
holds TLA+ modules of that system, the TLC configurations that check them and
proofs that TLAPS checks.

Paths below are relative to `src/`. `CB` is `custom_components/photoframe_bridge`,
`FW` is `packages/frame-firmware/src`, `UI` is `packages/frame-ui/src`.

## Running

    tlc -workers 2 -config ControlLink.cfg ControlLink     # a run
    tlapm SlideshowProofs.tla                              # a proof module

## Inventory

### The parts of the system

| part | state | operations | talks to |
|---|---|---|---|
| **Control link, frame end** (`FW/runtime.rs`, `UI/controller_state.rs`) | the connection, the outbound queue, the queue to the renderer, `FRAME_TOKEN`, the controller phase, the backoff | connect and introduce, send one status, poll one message, back off; set the token; set the phase | Home Assistant over one WebSocket; the render thread over two channels; the UI loop through the phase |
| **Control link, Home Assistant end** (`CB/control_server.py`, `http_view.py`) | `_sessions` (one per frame id), the handlers, `_tokens` | accept, identify, register, claim, apply statuses, unregister; send_render, send_command; authenticate a download | the frame; listeners in `__init__.py` |
| **Slideshow** (`CB/coordinator.py`) | the pool and its cursor, the session's `sent_photo_ids` and `photo_pushed` | rotation tick, first push, top-up, filling the frame's card, previous, refresh | the store, the photo source, the session |
| **Photos held by the frame** (`UI/rendered_image.rs`, `FW/photo_cache.rs`, `UI/ui.rs`) | the buffer and its generation, the files on the card, what the panel shows | show, push, advance, clear; store, take the oldest; sync | render thread, UI loop, touch thread, health thread |
| **Photo requests** (`FW/main.rs`, `FW/touch.rs`) | time of the last request, of the last tap | tap, health report, request a batch | the buffer, the outbound queue |
| **Prepared-photo store** (`CB/photo_store.py`) | files of prepared photos with their access times | has, read, put (write, rename, evict), purge | executor threads of the coordinators and of the photo endpoint |
| **Pool refresh and fallback** (`CB/coordinator.py`, `CB/providers`) | time of the last refresh, failures, whether the bundled photos stand in | refresh, back off, fall back, recover | photo sources |
| **Adoption** (`CB/config_flow.py`, `__init__.py`) | config entries, flow steps, tokens | discover, confirm, choose a source, reload, remove | token registry, coordinators |
| **Provisioning** (`packages/frame-net`, `frame-captive-portal`, `FW/setup_state_store.rs`) | setup checkpoint in NVS, the provisioning manager's state, the radio and its lock, the portal's connect state | connect, start and stop the access point, scan, submit, retry | Wi-Fi driver, the panel |
| **Photos of the owner's own** (`UI/local_photos.rs`) | the scanned library, play order | scan once, push the next | the buffer |
| **Application state** (`packages/frame-core/src/state.rs`) | phases and the details of a setup | set phase, clear details | main thread, UI |
| **Protocol** (`frame-core/src/control.rs`, `CB/protocol.py`) | none | parse, validate | both ends |
| **Image work** (`CB/renderer.py`, `UI/fit.rs`) | none | cover, crop, letterbox, convert | store, panel |
| **Hardware** (`UI/panel.rs`, `screens.rs`, `FW/sd_card.rs`, vendored drivers) | device handles | draw, mount, read touches | - |

### How they interact

* A connection begins with the frame's introduction. The handler registers a
  session, replacing the frame's earlier one, claims the frame (which carries the
  token that downloads need) and applies every later message as a status.
* Registering notifies the listeners of the frame's entry, which push a first
  photo once per connection; the rotation timer and the frame's own requests
  use the same pool and the same session.
* A photo message becomes a render request on the frame. The render thread
  downloads it with the token and either shows it or, if it is a spare, writes
  it to the card.
* Memory holds two or three photos; four threads refill it from the card.
  The UI loop draws the first photo of the buffer whenever its generation
  changes, and rotates by itself while the phase is not connected.

### What is hard

Every thread of the frame and every task of Home Assistant runs at its own pace.
The two ends of a connection learn of its end at different times. Either end
may restart and forget. Tasks choose a photo, await, and send it later. The card
is shared without a lock, and power may go at any moment. `PROJECT.json` lists
the places where this bites (`hazards`), each with the properties that would
notice.

### What makes each part correct

* Link: the frame is always recognised; a claimed frame has its token before it
  acts on photos; the phase is honest; the registry matches the connections; the
  frame always gets back.
* Slideshow: nothing is sent to a connection twice in a row of recent photos;
  every connection gets a first photo; photos keep coming.
* Photos held: panel, buffer and generation agree; a spare never replaces the
  picture; the card keeps order, without duplicates, across boots; the frame
  never goes blank by itself; it rotates offline.
* Store: a photo that is served is whole, except while two tasks are writing that same
  photo, and is whole again once they have; evictions that overlap keep the store near its
  budget, unless one is given up.
* Refresh: the owner's photos come back once the source does; retries are bounded
  in rate.
* Adoption: tokens die with their entry.
* The owner's photos: each one that decodes is played, and none stays up for ever.
* Provisioning: a request made while nothing is being tried is the next to be tried, unless
  another takes its place; no request holds the frame up for ever, and a try ends on the
  network or with the portal open again; the panel names the access point that is up; a checkpoint never claims more
  than was reached.

## Modules

### `ControlLink` - the control channel, both ends

One frame, one Home Assistant, `MaxConns` connections at once. A connection is a
number; it has the frame's end (`cur`), a handler (`handler[c]`: none, waiting
for the first message, claiming, open, done) and two FIFO directions (`up`,
`down`). The frame's thread is `ctl`: dial, send, read, backoff.

| code | action |
|---|---|
| `connect` (TCP, handshake, introduction) | `Dial`, `DialFails`, `DialLosesIntroduction` |
| first and second half of a turn of the inner loop | `SendTurn`, `SendFails`; `ReadMessage`, `ReadTimesOut`, `ReadFails` |
| `recv_timeout(delay)` | `BackoffEnds` |
| `run_render_controller_loop` | `RenderEvent` |
| first message, `register`, `_async_claim` up to its await | `FirstMessage` |
| the claim's send returns; later statuses | `Claimed`, `Status` |
| `finally: unregister(frame_id)` | `HandlerEnds` |
| `send_render` / `send_command` | `SendEvent` |
| `async_setup_entry`, `async_unload_entry`, `async_remove_entry` | `SetupEntry`, `UnloadEntry` |

A step of Home Assistant runs until its next await: registration and the write of
the claim are one step because nothing between them gives up the event loop
(`send_str` writes before it waits for the buffer to drain). Messages are kinds:
an introduction or another status; a claim with its token, or an event. Left out:
the control thread's end, which only comes when `run()` ends because the panel could not be
drawn (`FW/main.rs:404`, `576`; the arms at `FW/runtime.rs:733`, `740`, `763` and `789`), a
frame that then shows nothing more until it is switched off and on;
the length of the backoff, ping and pong, messages that do not parse (dropped by
both ends without a change of state), a second frame (sessions are independent
by id; another frame's entry only explains why the endpoints may be up before
this frame's entry).

Environment: `CutConnection` (one end notices at its next read, the other when
its heartbeat does), `FrameRestarts`, `HAStops`, `HAStarts`.

### `Slideshow` implements `PhotoFeed` - what one frame is sent

`order` and `cursor` are the pool; a task is idle or awaits the preparation of
the photo it has chosen, with a number of turns left. `Prepared`, `NotPrepared`,
`NoUrl` and `Raises` are the ways the await can end, followed by all the code up
to the next await: the send, the record, the next choice, the change from showing
a photo to topping up. `link` is the session: none, open, or closed by its socket
but still registered.

`PhotoFeed` is what a frame may rely on: on one connection no photo is sent that
is among the last `History` sent, and a new connection starts from nothing. Its
variable `wire` is a history variable of `Slideshow`, the photos really written
to the socket, so the refinement mapping is the identity; what makes it a
statement is that the code keeps a different list, `sent`, which also records
photos whose write failed.

A session removed early by an old handler (`ControlLink`, finding 1) is here a
`Disconnect`. Left out: what a photo is prepared from; when a refresh comes and what
it finds, which is `PoolRefresh` (here one may come at any time, `MaxTroubles`
times, with photos, `Refresh`, or with none, `Empties`, after which every loop of a task
ends at its next turn); unloading the entry, which cancels its tasks. A connection's first
push is one of the model's `Tasks`: while all are under way a frame cannot connect, which
is a bound of the model.

### `FrameReserve` - the photos a frame holds

`buffer` is the deque behind the mutex, each operation of `rendered_image.rs` one
step. `redraw` stands for the generation: due when the UI's recorded generation is
out of date, drawing while a photo of the current generation is being drawn, done
when the recorded one is current. `card` is a set of names (order prefix and
photo), `short` those whose content has the wrong size. `thread[t]` is where a
thread is, with the listing it goes through and the file in its hand:
`top_up_from_cache` is `Check` (which lists the card), `NothingCached`, `Look` (one read),
`Drop` (the removal of what could not be used), `Remove` and `PushTaken`; `store` is
`AlreadyStored` or `Store` by its first listing of the card, `NoRoom` or `HasRoom` by its
second, `Numbers` by its third (with the writing of the temporary file), and `Stored`
(the rename). A removal takes whatever has the name by then, which may be a photo
written since.

The health thread and the touch thread are `Helpers`, each allowed what either
does. A power cut clears memory and may leave the newest file short (FAT writes
the directory entry before the data are safe); a temporary file is never listed,
so it is not in the model. A photo shown or taken is a whole one: decoding is not
modelled. Whether the card has room beyond the count (the 80 % rule) is left
open where `Crowded` holds; without it `NoRoom` is a card with its full count. Left out: a
card whose directory cannot be listed, which the code takes for an empty one, and a panel
that fails to draw, which ends `run()`.

### `LocalPhotos` - the owner's own photos, on top of `FrameReserve`

The module extends `FrameReserve` with the player's thread and takes over all its other
steps. `library` is what the folder held when the frame started, `index` the next
photo to load. The renderer's `Renders` is `Arrives` behind the test that drops a
photo while the library is not empty; `Reboot` is `PowerCut` with a new scan, in
which the owner may have changed the card.

| code (`UI/local_photos.rs`) | action |
|---|---|
| `scan_library`, once per boot | `Scan`, in `LocalInit` and `Reboot` |
| decode and `push_rendered_image` | `Load` |
| a photo that does not decode; the pause once all have failed | `LoadFails` |
| the interval | `Wakes` |

### `PhotoStore` - prepared photos on Home Assistant's disk

Nothing guards the directory, so each system call is a step, with two exceptions: the
`stat`s of the sort are one, since what they say only orders the removals, and so are the
`utime` and the read of `read`: a file lost between those makes the answer an error in place of
a 404, which the frame treats alike. `used` lists the
files by access time; a file is a photo's own or the temporary one its writers
share. A task that has a file open knows it by the name it has by now: a rename
changes that name, a removal leaves it none, and the task goes on writing all the same.

| code (`CB/photo_store.py`) | action |
|---|---|
| `async_prepare`: not in the store; preparing it fails | `Ask`, `NotPrepared` |
| `put`: open and truncate, write, `os.replace` | `Open`, `Write`, `WriteFails`, `Rename`, `RenameRaises` |
| `_evict_if_needed`: list, sort by access time, unlink | `List`, `Sort`, `SortRaises`, `Unlink` |
| `read`: exists, then utime and read | `Look`, `Touch` |
| `purge` | `Purge`, `PurgeOne` |
| Home Assistant is killed | `Kill` |

`gaveUp` is a history variable: an eviction has raised with its work undone.

The properties say how far the code goes, not how far one would like: half a photo
can be served under a photo's name while two tasks write the same photo
(one renames the temporary file that the other has truncated), and only then;
and it is whole again once the later of them has written. The store is over its budget
by no more than one photo for each task that has put one and is yet to evict
(`WithinBudget`), until an eviction is given up. The sort asks each listed file for its
access time outside of the `try` (`CB/photo_store.py:147`); if another eviction has removed
one since, it raises out of `put`, after the photo is in place and before
anything is removed. What was too much then stays until a later `put` evicts
undisturbed, and evictions that overlap again may each leave one photo more, so there is
no bound of that kind afterwards. A write is
there once made: the host losing power (the code does not `fsync`) is left out. A
temporary file that a kill leaves is never evicted or purged; it is truncated by the
next `put` of that photo. `delete` and `get` have no caller.

### `PoolRefresh` - the pool follows the source

Time passes in minutes. A walk of the source is `walking`, `listed` (with what it
has found) or `fallback` (awaiting the bundled photos); between these steps other
walks and the owner's changes come in. `since` is the age of
`_pool_refreshed_at`, capped where it stops to matter; before the first refresh it
is as old as that, since the code refreshes when there is no such time yet. What a walk lists is an
outcome: the source's album if it can be read; part of it, nothing or
`SourceUnavailable` if it cannot. `WalkTime` is a bound on the source: the code has no
timeout of its own, and a walk that never ends would never end there either. Left out: an
album that changes while it is walked (the walk lists it as it was when it was asked), and
exceptions other than `SourceUnavailable`, which end the refresh with nothing changed.

| code (`CB/coordinator.py`) | action |
|---|---|
| `_on_tick`, `_should_refresh_pool` | `Tick`, `ShouldRefresh`, `Backoff` |
| the refresh service | `Service` |
| `async_refresh_pool` up to the source's answer | `Lists` |
| ... and after it, by what it is | `Unavailable`, `Found`, `NoneBundled`, `None` |
| the bundled photos, after their await | `StandIn` |

### `Provisioning` implements `NetworkSetup` - from power-on to a network

`at` is where the app thread is in `run()` and in `ensure_network`; the portal's HTTP
server has one thread; `lock` is the mutex of the radio, which the app thread holds
through the retries of a connect and a scan holds for as long as it takes. `flash` is the
record as encoded, byte by byte as `setup_state_store.rs` does, since an older
firmware's must be told from this one's.

| code | action |
|---|---|
| `FW/main.rs` up to the loop: checkpoint, splash, `begin_setup` | `Boot`, `Splash`, `SetUp` |
| `provisioning.rs`, `ensure_network` before the portal | `EnsureNotStarted`, `JoinBaked`, `StartAp`, `StartPortal`, `ReadBack` |
| ... once the portal is up | `EnsureStarted`, `StopAp`, `Join`, `Mark`, `StopPortal`, `RestartAp`, `ResetConnectState` |
| `wifi.rs`: `connect`, `start_ap` with their attempts | `JoinAttempt`, `ApAttempt` |
| `FW/main.rs`: the loop's body, and the checkpoint after it | `Publish`, `Persist`, `Details`, `Leave` |
| any `?` in `run()` that fails | `Dies` |
| `frame-captive-portal`: `POST /connect`, `GET /wifi-scan` | `Submit`, `Scan`, `ScanHolds`, `ScanEnds` |
| `setup_state_store.rs` | `Encode`, `Decode`, `Save` |
| power is cut | `PowerCycle` |

`NetworkSetup` is what an owner may rely on: the frame joins only what it was built
with or what a phone has asked for since it was switched on; a try ends with the portal open
again, with the network joined for good, or with the frame stopped until it is
switched off and on. The mapping reads `stage` off the app thread's place, the network it
is `trying` and the portal, and `asked` is a history variable of `Provisioning`.

Not every request is tried. The portal and the app thread share one `ConnectState`
(`connect`). A second phone's request replaces the first one's if the app thread has not
read it yet; and `reset_connect_state` (`packages/frame-net/src/provisioning.rs:180`), which ends a failed try,
also wipes a request that came in since the try began (line 157); `mark_connected` writes over one
after a try that succeeds. The page that answers the request says all the same that the frame
is trying the network (`packages/frame-captive-portal/src/lib.rs:245`). `RequestIsTried` is
what does hold: of two requests the last, if it is not made during a try. `Retryable` says of
the others only that they do no harm: the frame gets on the network or takes another one.

Left out: the errors of a poisoned lock (no thread panics while it holds one), and the
record's magic number, the same in every record. The name that
`current_ap_credentials` reads back is taken to be the one on the air.

## Runs

| run | bounds | what it shows |
|---|---|---|
| `control_link` | 2 connections, 1 fault, 2 entry operations, 2 tokens, queues of 1, 2 messages in flight | type, introduction first, session is served, phase is honest, claimed frames hold their token, `Reconnects` |
| `live_connection_tracked` (violated) | 1 fault, no entry operation | see findings |
| `refusal_leads_to_hello` (violated) | no fault, 1 entry operation | see findings |
| `slideshow` | 3 photos, 2 tasks, history 2, 2 attempts, target 3, 1 trouble | type, first photo, `PhotoFeed`, photos keep coming |
| `slideshow_small_pool` (violated) | 2 photos, history 2 | see findings |
| `frame_reserve` | 2 photos, 3 threads, capacity 3, memory target 2, card of 2 | type, panel up to date, no photo twice, files arrive last, a spare waits, never runs dry |
| `frame_reserve_rotation` | `LocalPhotos`: 2 photos of Home Assistant's and 2 of the owner's (one does not decode), 3 folders, card of 2, prefixes to 1, no helper | offline rotation when the folder is empty, whatever was played before a reboot; every photo that decodes is played |
| `local_rotates` (violated) | 1 + 2 photos, card of 2, prefixes to 1 | see findings |
| `spare_kept` (violated) | 3 photos, 3 threads, capacity 2, memory target 1, card of 1, not crowded | see findings |
| `photo_store` | 3 photos, 2 tasks, 1 request, budget of 1, 1 fault; photos and tasks symmetric | type, when half a photo can be served, how far the store can be over its budget |
| `pool_refresh` | 2 walks, 2 albums, interval 2, refresh 6, backoff 1 to 4, a walk takes up to 1 | fallback and pool agree, the owner's photos come back in time, the pool catches up |
| `provisioning` | a reachable network and a wrong one that is built in, 3 attempts, 3 faults per boot | type, checkpoints, what the panel says, `RequestIsTried`, `Retryable`, `NetworkSetup` |

Why the bounds are enough. Two connections are the old one and the new one; a
third would be a second old one, which the code treats like the first. One fault
(a cut, a lost introduction, a restart) at any point leaves the two ends with
different beliefs; faults of both ends at once were also run with two faults for
the inductive invariant. Queues of one let a status wait through an outage.
Two tasks with three photos make tasks choose the same photo and send in either
order; a history of two with three photos is the smallest where a photo may come
again. In memory 3 and 2 are the code's own numbers, and a card of two has
an oldest and a newest file; two threads that take a file and one that writes one
are all the pairs there are. Where the order prefix is bounded
(`MaxSequence`), writing stops at the bound, so `FrameReserve` and `LocalPhotos` are
checked without deadlock detection. In the store two tasks are all the pairs, three
photos let two tasks write different ones while a third is evicted, and with a budget of
one every second `put` evicts. Two walks are all the pairs of refreshes; the
times keep the order that the code's constants have (first backoff < longest
backoff < refresh interval, and a walk no longer than any of them), and the longest
backoff is reached in two doublings, so one failure more is beyond it. Three
attempts have a first, a middle and a last one; three faults per boot let all attempts of a
reachable network fail, or two of them and the access point's restart. A network that
is reachable, one that is not and one that is built in are all the kinds the code tells apart.

Each property has a mutant, an operator named in a comment `Mutant:` that is the
code with a plausible bug, under which TLC finds the property violated.

### Fairness

* The control thread and every handler keep running (weak fairness): each of
  their reads, writes and waits has a timeout. Reading a message that is there and noticing
  that a connection is gone are strongly fair, since polls that find nothing
  interleave with them. A cut is noticed by the heartbeat. Home Assistant comes back
  and its timer keeps trying to send. `RenderEvent` and `SendEvent` are strongly fair
  only because the bounds on queues disable them now and then.
* In the slideshow the timer ticks again and again, what is awaited completes, a
  frame that is away comes back, and an emptied pool is filled again. Failures
  are bounded by `MaxTroubles`.
* On the frame every thread runs. Taps and arrivals are not fair. `OfflineRotates`
  (and `RotatesFromCard`, which says it of a frame with an empty folder)
  speaks of behaviours in which rotations keep coming due and nothing arrives.
  The player of the owner's photos is weakly fair; `KeepsPlaying` leaves out a frame whose
  power is cut again and again.
* For a refresh, time passes, the timer fires and what is awaited is answered (weak
  fairness). Changes of the source and the refresh service are not fair. `PhotoStore` has
  safety properties only.
* During the setup the app thread and a scan that waits for the lock are strongly fair: the lock
  is free again and again, and the scheduler of the chip does not pass over a waiting
  thread for ever. A scan under way ends (weak fairness). Phones, faults and power cuts
  are not fair, and a frame that died or reboots is excepted from all
  three liveness properties.

### Findings

1. **A new session is removed by the old connection's end.** The handler's
   `finally` removes the frame's session by frame id, whichever connection it
   belongs to (`CB/control_server.py:299`). A frame that reconnects within the
   heartbeat of a dead socket ends up connected and unknown. (`LiveConnectionTracked`)
2. **A refused download does not make the frame re-hello**, as
   `CB/http_view.py:94` says it does; a frame that was connected before its entry
   was set up stays without a token until the connection ends. (`RefusalLeadsToHello`)
3. **A pool no larger than the history stops.** With at most 64 photos, once each
   has been sent no photo is new to the connection and `send_render` refuses them
   all until the frame reconnects. (`KeepsComing`)
4. **A spare that the card has no room for is dropped**, while
   `FW/photo_cache.rs:143` and `FW/runtime.rs:434` say that it is still shown: in
   the run the card holds its full count and a third photo arrives. (`SpareKept`)
5. **The owner's photos do not rotate while Home Assistant is connected.** The player
   queues each photo behind the one on screen (`UI/local_photos.rs:175`), and
   the UI loop advances only when the phase is not connected (`FW/main.rs:582`), while
   `UI/local_photos.rs:33` gives the interval as "How long each photo stays on screen."
   (`LocalRotates`)

## Proofs

Everything below holds for every value of the constants that the assumptions named in
each module allow: any numbers of connections, tasks, threads, walks, photos and
networks, any capacities, times and numbers of attempts. The assumptions are that
bounds are naturals in the order the code's constants have, that the constants standing for "no
photo", "no network" or for an outcome are not photos, networks or albums, and, where
something is counted, that its set is finite (`TasksAssumption`). Every safety property
that a run checks is proved, and so are both refinements.

**`ControlLinkProofs`**: `TypeCorrect`, `IntroductionComesFirst`, `SessionsAreServed`,
`PhaseIsHonest`, `ClaimComesFirst`. None of the properties is inductive alone. The
invariant `LinkInv` adds: what the control thread holds in each place
(`Holding`); that connections nobody holds are quiet and the one the frame holds
has a handler (`Quiet`, `HeldIsServed`); that the introduction is in the queue of a
waiting handler (`IntroductionSent`); and for the claim, that nothing is in flight
before the handler has read the introduction, that the first message in flight is the
claim as long as the frame has not heard it, and that the claim carries the token
recorded at the registration (`Undelivered`, `BeforeHello`, `HelloHeld`,
`ClaimFirst`, `ClaimTokens`). `LinkInv` was checked by TLC as an invariant before it
was proved.

**`SlideshowProofs`**: `TypeCorrect`; `ImplementsPhotoFeed`, from the invariant that
while the connection is open `wire` and `sent` are the same (`Remembers`);
`NoRepeatOnAConnection`, which is `PhotoFeed`'s own property carried over; and
`FirstPhotoComes`, in which each action either leaves the pushing task alone, sends,
or gives up for good.

**`FrameReserveProofs`**: `TypeCorrect`, `PanelIsUpToDate`, `NoPhotoIsTwice`,
`FilesArriveLast`. Most steps are `Ordinary`: they write nothing to the card and
make a redraw due wherever they change the picture; one lemma shows that such
steps keep the invariant and one lemma per action that it is such a step. The invariant
adds what the UI has in its hand while it draws (`Drawing`) and that a photo
about to be written is not on the card, and its file newer than all there once it has its
order prefix (`StoreFresh`): each true at the listing that shows it, and kept until the
rename because the other threads only remove.
`LeastExists` and `GreatestExists`, on which `NextSequence` rests, come from the
well-foundedness of the naturals.

`SparesWait` and `PictureStays` are about steps: a push keeps the picture at the head, and
an advance, of the UI's or a tap's, leaves at least one photo. No invariant on who may
advance when is needed beyond the types, since the code advances only while two are there, in
the same critical section.

**`LocalPhotosProofs`**: `PlayerIsInItsFolder`, `PanelIsUpToDateWithPlayer`,
`NoPhotoIsTwiceWithPlayer`, `PictureStaysWithPlayer`. `FrameReserveProofs` is extended, not
repeated: its invariant `IInv` is shown to survive the player's pushes, the renderer that
drops what arrives and a reboot with another card. `PlayerOK` is added: the
player has a next photo exactly if it runs, and has failed on fewer in a row than there are.
What is proved of steps is proved again with the player: `FilesArriveLastWithPlayer`,
`SparesWaitWithPlayer`, and `OwnPhotosWait`, by which the owner's photos take their place
behind the one on screen like any other. No run has that last one; it is the safe half of
finding 5, whose other half is that nothing then advances to them.

**`PhotoStoreProofs`**: `TypeCorrect`, `ServedWhole`, `HalfIsOnItsWay`, `StoreIsBounded`. The
order of the files by access time is a sequence that steps take from, add to and rename in;
`WithoutIs`, `RenamedIs` and `AppendIs` say what that does to its files, and all else
follows from the set of them.

* A photo that was never raced for has one task that puts it, which writes to the
  temporary file and has written all before it renames it (`Unraced`). For this, only files
  under their own names may be removed (`FinalsGo`): an eviction that took a temporary
  file would take it from its writer.
* Until something fails, each file that is half there, and not only a photo, has a writer
  (`BeingWritten`). A rename moves both to another name.
* The budget counts tasks against photos. `Since[t]` are the tasks that have put a photo in
  place after `t` listed the files and are still at work: what `t` will leave over the
  budget is at most theirs to remove (`Counts`). It is kept as an existential in the invariant and not
  as a history variable. A task that ends hands what it
  leaves to those that came after it, which is why whoever is in `Since[u]` for a `u` in
  `Since[t]` is in `Since[t]`. An eviction given up hands over more than it may: the
  budget is lost at `SortRaises`, where the proof has `gaveUp` to go by. (An earlier form of
  the property allowed for evictions given up; it held in a run with three photos, and
  the attempt to prove it led to a counterexample with four.)

**`PoolRefreshProofs`**: `TypeCorrect`, `FallbackIsHonest`, `PhotosComeBackInTime`. That
`using_fallback` and the pool agree needs that the timer runs once the bundled
photos stand in, and that an owner who chose the bundled ones never falls back to them
(`TimerRuns`, `NeverFallsBack`). The time bound needs to know who will
bring the photos back (`InTime`): a refresh that will fail began before the source was back, so it
sets the clock back early only (`StaleBeganBefore`, `SinceKeepsUp`); and either the timer
is yet to find that it is time, or a refresh is under way that was begun in time
(`HelpIsNear`). `Doubled` is a recursive function; that it is one at all, and yields naturals,
is shown by its least counterexample, since the induction theorems cannot be used.

**`ProvisioningProofs`**: `TypeCorrect`, `FlashIsRead`, `FlashIsHonest`, `PanelIsHonest`,
`ImplementsNetworkSetup`, `JoinsWhatWasAsked`. The invariant says what each place of the app thread knows: the
manager's state (`StateAt`), what the radio does (`RadioAt`), whether a network is
being tried and that it was built in or asked for (`TryingAt`, `WasAsked`), and that the
portal is up from its start until the network is joined (`PortalAt`, `ScanHas`). `Told` relates the
names on the panel, in the manager and on the air; `Kept` the flash, what was saved there last and
how far the setup has come. `EncodeDecodes` says of every snapshot that decoding undoes
the encoding; a record of an older firmware is read as none. For the refinement `StageOfPlace` reads the abstract stage off the place, and
`SetupStep` takes the actions one by one: each is one of `NetworkSetup`'s or leaves all
that it speaks of alone.
`JoinsAsAsked` is proved of `NetworkSetup`'s steps alone, and `JoinsWhatWasAsked` carries it
along the refinement to the code's own state: a frame that is past its set-up is on a network that was built in
or asked for since power-on, and that accepts what it was given.

Only model-checked: all liveness (`Reconnects`, `KeepsComing`, `RotatesFromCard`,
`KeepsPlaying`, `CatchesUp`, `ApIsAnnounced`, `RequestIsTried`, `Retryable`), which the prover cannot
treat under fairness.

## Not modelled, and why

* **Adoption** (`CB/config_flow.py`): forms that one owner fills in; Home Assistant's flow
  manager keeps their state and the uniqueness of an entry. What setting up,
  unloading and removing an entry do to tokens and sessions is in `ControlLink`.
* **Rate of requests**: the batch, the cooldown of `request_photos` and the debouncing of
  the touch panel change how often a photo is asked for. Everywhere a request may
  come at any time, which includes every rate.
* **Field checks of messages**: a message that does not parse is dropped by both ends
  without a change of state.
* **Image work** (`CB/renderer.py`, `UI/fit.rs`): arithmetic on sizes around pixel work of Pillow
  and of the image crate; no state.
* **The network after it was joined**: the code has no reaction to a loss of Wi-Fi of
  its own; what the control channel sees of it is a cut in `ControlLink`. Credentials given
  by a phone are kept in memory only, so a power cut asks again.
* **Portal pages, form decoding, the DNS responder**, drawing, drivers, entity
  platforms that display a session's fields, the BLE spike and the API stub: wording,
  layout, hardware access, or no logic of the system's own.

## Plan

The modelling planned is done, and every safety property that is checked is proved.
What is left is a property that neither a run nor a theorem states yet, of `PhotoStore`: that
without overlapping evictions (one task) none is given up, so that the store settles within
its budget.
