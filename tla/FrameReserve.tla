---------------------------- MODULE FrameReserve ----------------------------
(***************************************************************************)
(* The photos a frame holds: a few decoded ones in memory, the first of    *)
(* them on the panel (frame-ui rendered_image.rs, ui.rs), and the files of *)
(* the cache on its card (frame-firmware photo_cache.rs).  The render      *)
(* thread puts photos in; it, the UI loop, the touch thread and the health *)
(* thread all move files into memory (runtime.rs, top_up_from_cache).      *)
(*                                                                         *)
(* Memory is behind a mutex and each operation on it is one step.  Nothing *)
(* guards the card: listing it, reading, removing and writing a file are   *)
(* steps that the threads interleave.  Photos of the owner's own, which    *)
(* take the place of what arrives, are in LocalPhotos.                     *)
(***************************************************************************)
EXTENDS Naturals, Sequences, FiniteSets

CONSTANTS
  Photos,
  Helpers,       \* the touch thread and the health thread
  Capacity,      \* BUFFER_CAPACITY
  MemoryTarget,  \* MEMORY_BUFFER_TARGET
  CardTarget,    \* TARGET_PHOTOS
  MaxSequence,   \* bound: the highest order prefix given to a file
  Crowded,       \* whether files of the owner's may take the card to its 80 %
  Screen         \* a status screen, where a photo would be

Threads == {"render", "ui"} \cup Helpers

ASSUME HelpersAssumption == "render" \notin Helpers /\ "ui" \notin Helpers
ASSUME ScreenAssumption == Screen \notin Photos
ASSUME SizesAssumption ==
  /\ MemoryTarget \in Nat \ {0} /\ Capacity \in Nat /\ Capacity > MemoryTarget
  /\ CardTarget \in Nat \ {0} /\ MaxSequence \in Nat /\ Crowded \in BOOLEAN

VARIABLES
  buffer,   \* the decoded photos, the first one on screen
  redraw,   \* whether the panel shows this generation of the buffer
  shown,    \* what the panel shows
  card,     \* names of the cached files
  short,    \* those of the wrong size
  thread    \* what each thread is doing

vars == <<buffer, redraw, shown, card, short, thread>>

\* A file is named by its order prefix and its photo.
Names == [seq : 0..MaxSequence, photo : Photos]

\* A decoded photo; one read back from the card has lost its id.
Images == [photo : Photos, id : BOOLEAN]
Image(p, known) == [photo |-> p, id |-> known]

\* A thread is somewhere, with a listing of the card to go through and the
\* file in its hand; the UI loop's first top-up is followed by an advance.
Places == {"idle", "room", "number", "store", "check", "look", "drop", "remove", "push",
           "advance", "draw"}
At(place, list, hand, then) ==
  [at |-> place, list |-> list, hand |-> hand, then |-> then]
Idle == At("idle", {}, {}, "idle")

Init ==
  /\ buffer = <<>> /\ redraw = "due" /\ shown = Screen
  /\ card = {} /\ short = {}
  /\ thread = [t \in Threads |-> Idle]

Goes(t, state) == thread' = [thread EXCEPT ![t] = state]
\* Goes round the loop of top_up_from_cache, or leaves it.
Tops(t, then)  == Goes(t, At("check", {}, {}, then))
Place(t, place) == thread[t].at = place
InHand(t) == CHOOSE f \in thread[t].hand : TRUE

-----------------------------------------------------------------------------
(* Memory (rendered_image.rs): the buffer after each operation.            *)

\* Mutant: a spare queued without looking at the room there is.
PushedUnbounded(b, image) == Append(b, image)

\* All but the last, when there is no room for one more.
Trimmed(b) == IF Len(b) >= Capacity THEN SubSeq(b, 1, Len(b) - 1) ELSE b

\* Mutant: the oldest spare makes room for a new one, and the oldest is the
\* picture on screen.
PushedOverFront(b, image) == Append(IF Len(b) >= Capacity THEN Tail(b) ELSE b, image)

\* push_rendered_image
Pushed(b, image) == Append(Trimmed(b), image)

\* Queueing behind a picture is no reason to redraw it.
Push(image) ==
  /\ buffer' = Pushed(buffer, image)
  /\ redraw' = IF Len(buffer') = 1 THEN "due" ELSE redraw

\* show_rendered_image: only a picture known to be the one already up is not shown.
Show(p) ==
  IF buffer # <<>> /\ Head(buffer) = Image(p, TRUE)
  THEN UNCHANGED <<buffer, redraw>>
  ELSE buffer' = <<Image(p, TRUE)>> \o Trimmed(buffer) /\ redraw' = "due"

\* Mutant: a frame that advances past its last picture.
AdvanceToNothing ==
  IF buffer # <<>> THEN buffer' = Tail(buffer) /\ redraw' = "due" ELSE UNCHANGED <<buffer, redraw>>

\* advance_rendered_image
Advance ==
  IF Len(buffer) >= 2 THEN buffer' = Tail(buffer) /\ redraw' = "due"
                      ELSE UNCHANGED <<buffer, redraw>>

MemoryUnchanged == UNCHANGED <<buffer, redraw, shown>>
CardUnchanged   == UNCHANGED <<card, short>>

-----------------------------------------------------------------------------
(* The card (photo_cache.rs).                                              *)

Oldest(files) == CHOOSE f \in files : \A g \in files : f.seq <= g.seq

Contains(p) == \E f \in card : f.photo = p

\* Mutant: the order prefix counted, not derived from the highest.
NextByCount == Cardinality(card)

\* next_sequence: from what is on the card, whichever boot wrote it.
NextSequence ==
  IF card = {} THEN 0
  ELSE 1 + (CHOOSE n \in {f.seq : f \in card} : \A f \in card : f.seq <= n)

Removed(f) == card' = card \ {f} /\ short' = short \ {f}

-----------------------------------------------------------------------------
(* top_up_from_cache, on any thread.                                       *)

\* Enough in memory, or a listing of the card to take the oldest photo of.
Check(t) ==
  /\ Place(t, "check")
  /\ IF Len(buffer) >= MemoryTarget
     THEN Goes(t, At(thread[t].then, {}, {}, "idle"))
     ELSE Goes(t, At("look", card, {}, thread[t].then))
  /\ MemoryUnchanged /\ CardUnchanged

\* The listing is used up.
NothingCached(t) ==
  /\ Place(t, "look") /\ thread[t].list = {}
  /\ Goes(t, At(thread[t].then, {}, {}, "idle"))
  /\ MemoryUnchanged /\ CardUnchanged

\* Reading the oldest file of the listing: it is taken if it is whole, and passed
\* over if it is short or another thread has removed it since.
Look(t) ==
  /\ Place(t, "look") /\ thread[t].list # {}
  /\ LET f == Oldest(thread[t].list)
         rest == thread[t].list \ {f}
     IN IF f \in card \ short
        THEN Goes(t, At("remove", {}, {f}, thread[t].then))
        ELSE Goes(t, At("drop", rest, {f}, thread[t].then))
  /\ MemoryUnchanged /\ CardUnchanged

\* A file passed over is removed, whatever has its name by now.
Drop(t) ==
  /\ Place(t, "drop") /\ Removed(InHand(t))
  /\ Goes(t, At("look", thread[t].list, {}, thread[t].then))
  /\ MemoryUnchanged

Remove(t) ==
  /\ Place(t, "remove") /\ Removed(InHand(t))
  /\ Goes(t, At("push", {}, thread[t].hand, thread[t].then))
  /\ MemoryUnchanged

PushTaken(t) ==
  /\ Place(t, "push") /\ Push(Image(InHand(t).photo, FALSE))
  /\ Tops(t, thread[t].then)
  /\ CardUnchanged /\ UNCHANGED shown

TopUp(t) ==
  Check(t) \/ NothingCached(t) \/ Look(t) \/ Drop(t) \/ Remove(t) \/ PushTaken(t)

-----------------------------------------------------------------------------
(* The render thread (MediaRenderExecutor), with a photo p downloaded; a    *)
(* failed download changes nothing.                                        *)

ShowArrives(p) ==
  /\ Place("render", "idle") /\ Show(p)
  /\ CardUnchanged /\ UNCHANGED <<shown, thread>>

\* store finds the photo on the card, and says Ok.
AlreadyStored(p) ==
  /\ Place("render", "idle") /\ Contains(p) /\ Tops("render", "idle")
  /\ MemoryUnchanged /\ CardUnchanged

\* The render thread goes on with the photo as a file of this order prefix.
Carries(place, n, p) == Goes("render", At(place, {}, {[seq |-> n, photo |-> p]}, "idle"))

\* Mutant: a photo written again, under a new name, while it is on the card.
StoreAgain(p) ==
  /\ Place("render", "idle") /\ NextSequence <= MaxSequence
  /\ Carries("room", 0, p)
  /\ MemoryUnchanged /\ CardUnchanged

\* The first listing of the card: the photo is not there.  The bound on the
\* order prefix is here, since the others only lower the next one.
Store(p) ==
  /\ Place("render", "idle") /\ ~Contains(p) /\ NextSequence <= MaxSequence
  /\ Carries("room", 0, p)
  /\ MemoryUnchanged /\ CardUnchanged

\* has_room, from a second listing: if there is none, store says Ok.
NoRoom ==
  /\ Place("render", "room") /\ (Cardinality(card) >= CardTarget \/ Crowded)
  /\ Tops("render", "idle")
  /\ MemoryUnchanged /\ CardUnchanged

HasRoom ==
  /\ Place("render", "room") /\ Cardinality(card) < CardTarget
  /\ Carries("number", 0, InHand("render").photo)
  /\ MemoryUnchanged /\ CardUnchanged

\* next_sequence, from a third listing; it is written under a temporary name.
Numbers ==
  /\ Place("render", "number") /\ NextSequence <= MaxSequence
  /\ Carries("store", NextSequence, InHand("render").photo)
  /\ MemoryUnchanged /\ CardUnchanged

\* The temporary file is renamed.
Stored ==
  /\ Place("render", "store") /\ card' = card \cup thread["render"].hand
  /\ Tops("render", "idle")
  /\ MemoryUnchanged /\ UNCHANGED short

Stores == NoRoom \/ HasRoom \/ Numbers \/ Stored

\* store refuses what it is given, or the card fails: the photo goes to memory.
StoreFails(p) ==
  /\ \/ Place("render", "idle")
     \/ Place("render", "store") /\ p = InHand("render").photo
  /\ Push(Image(p, TRUE)) /\ Tops("render", "idle")
  /\ CardUnchanged /\ UNCHANGED shown

\* reload_ui
ReloadUi ==
  /\ Place("render", "idle")
  /\ buffer' = <<>> /\ redraw' = "due"
  /\ CardUnchanged /\ UNCHANGED <<shown, thread>>

-----------------------------------------------------------------------------
(* The UI loop, and the helpers: any of them taps and reports, for either  *)
(* thread does to the photos what the other may do.                        *)

\* sync takes a snapshot of the buffer and, when there is a picture, draws it.
Sync ==
  /\ Place("ui", "idle")
  /\ IF buffer = <<>>
     THEN shown' = Screen /\ UNCHANGED <<redraw, thread>>
     ELSE /\ redraw # "done" /\ redraw' = "drawing"
          /\ Goes("ui", At("draw", {}, {[seq |-> 0, photo |-> Head(buffer).photo]}, "idle"))
          /\ UNCHANGED shown
  /\ CardUnchanged /\ UNCHANGED buffer

\* Mutant: the generation recorded is the one after the drawing.
DrawStampedAfter ==
  /\ Place("ui", "draw")
  /\ shown' = InHand("ui").photo /\ redraw' = "done"
  /\ Goes("ui", Idle)
  /\ CardUnchanged /\ UNCHANGED buffer

\* The generation recorded is the snapshot's.
Draw ==
  /\ Place("ui", "draw")
  /\ shown' = InHand("ui").photo
  /\ redraw' = IF redraw = "drawing" THEN "done" ELSE redraw
  /\ Goes("ui", Idle)
  /\ CardUnchanged /\ UNCHANGED buffer

\* Mutant: an offline rotation that does not top up first.
RotateUnfilled ==
  /\ Place("ui", "idle")
  /\ Goes("ui", At("advance", {}, {}, "idle"))
  /\ MemoryUnchanged /\ CardUnchanged

\* The offline rotation is due: top up, advance, and top up again.
Rotate ==
  /\ Place("ui", "idle") /\ Tops("ui", "advance")
  /\ MemoryUnchanged /\ CardUnchanged

RotateAdvances ==
  /\ Place("ui", "advance") /\ Advance
  /\ IF buffer' # buffer THEN Tops("ui", "idle") ELSE Goes("ui", Idle)
  /\ CardUnchanged /\ UNCHANGED shown

\* A tap advances, or tops up when there is nothing to advance to.
Tap(t) ==
  /\ Place(t, "idle") /\ Advance
  /\ IF buffer' = buffer THEN Tops(t, "idle") ELSE UNCHANGED thread
  /\ CardUnchanged /\ UNCHANGED shown

\* The health thread tops up before each report.
Report(t) ==
  /\ Place(t, "idle") /\ Tops(t, "idle")
  /\ MemoryUnchanged /\ CardUnchanged

-----------------------------------------------------------------------------
(* The outside.                                                            *)

\* Power is lost and comes back.  The file written last may not have reached the
\* card; a temporary file is never read.
PowerCut ==
  /\ buffer' = <<>> /\ redraw' = "due" /\ shown' = Screen
  /\ thread' = [t \in Threads |-> Idle]
  /\ UNCHANGED card
  /\ \E torn \in {{}, {f \in card : \A g \in card : f.seq >= g.seq}} : short' = short \cup torn

Arrives(p) == ShowArrives(p) \/ AlreadyStored(p) \/ Store(p) \/ StoreFails(p)

Next ==
  \/ \E t \in Threads : TopUp(t)
  \/ \E p \in Photos : Arrives(p)
  \/ Stores \/ ReloadUi
  \/ Sync \/ Draw \/ Rotate \/ RotateAdvances
  \/ \E t \in Helpers : Tap(t) \/ Report(t)
  \/ PowerCut

\* Threads run.  What arrives, taps, and whether rotations come due is up to
\* the outside.
Fairness ==
  /\ \A t \in Threads : WF_vars(TopUp(t))
  /\ WF_vars(Stores) /\ WF_vars(Draw) /\ WF_vars(RotateAdvances)

Spec == Init /\ [][Next]_vars /\ Fairness

-----------------------------------------------------------------------------
(* Properties.                                                             *)

ThreadStates ==
  [at : Places, list : SUBSET Names, hand : {{}} \cup {{f} : f \in Names},
   then : {"idle", "advance"}]

TypeOK ==
  /\ buffer \in Seq(Images) /\ Len(buffer) <= Capacity
  /\ redraw \in {"due", "drawing", "done"} /\ shown \in Photos \cup {Screen}
  /\ card \subseteq Names /\ short \subseteq card
  /\ thread \in [Threads -> ThreadStates]

\* The panel that the UI believes up to date shows the first photo of the
\* buffer, although threads change the buffer while it draws (ui.rs:50).
UpToDate == redraw = "done" => buffer # <<>> /\ shown = Head(buffer).photo

\* No photo is on the card twice, although files are taken off it between the
\* moment a photo is looked for there and the moment it is written.
NoPhotoTwice == \A f, g \in card : f.photo = g.photo => f = g

\* A photo written to the card comes after all that are there, in this boot or
\* an earlier one: none is overwritten and they are shown in order of arrival.
ArrivesLast ==
  [][\A f \in card' \ card : \A g \in card : f.seq > g.seq]_vars

\* A spare never takes the place of the picture on screen, however it arrives.
SpareWaits ==
  [][buffer # <<>> /\ ((\E p \in Photos : StoreFails(p)) \/ \E t \in Threads : PushTaken(t))
       => Head(buffer') = Head(buffer)]_vars

\* A frame that shows a picture goes on showing one: only the controller's
\* reload and a power cut empty the buffer (main.rs:590).
NeverRunsDry ==
  [][buffer # <<>> /\ buffer' = <<>> => ReloadUi \/ PowerCut]_vars

\* While the controller is away, that is while rotations keep coming due and
\* nothing arrives, and a good photo waits on the card, the picture does not
\* stay the same for ever (main.rs:569).
Cached(p) == \E f \in card \ short : f.photo # p
Up(p)     == buffer # <<>> /\ Head(buffer).photo = p
OfflineRotates ==
  \/ <>[][~Rotate]_vars
  \/ []<><<\E p \in Photos : Arrives(p)>>_vars
  \/ \A p \in Photos : (Up(p) /\ Cached(p)) ~> ~(Up(p) /\ Cached(p))

\* A photo queued by Home Assistant is kept, on the card or in memory
\* (photo_cache.rs:143, runtime.rs:434).
Kept(p) == Contains(p) \/ \E i \in 1..Len(buffer) : buffer[i].photo = p
NotStored(p) == AlreadyStored(p) \/ (NoRoom /\ InHand("render").photo = p)
SpareKept ==
  [][\A p \in Photos : NotStored(p) => Kept(p)]_vars
=============================================================================
