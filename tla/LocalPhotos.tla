---------------------------- MODULE LocalPhotos ----------------------------
(***************************************************************************)
(* Photos of the owner's own, in the media folder of the card (frame-ui    *)
(* local_photos.rs), played by a thread of their own into the memory that  *)
(* FrameReserve describes, in place of what Home Assistant sends.          *)
(*                                                                         *)
(* The folder is read once, when the frame starts.  With a photo in it the *)
(* player runs and the renderer drops what arrives; every other thread of  *)
(* FrameReserve goes on as ever.                                           *)
(***************************************************************************)
EXTENDS FrameReserve

CONSTANTS
  Own,      \* the owner's photos, the others being Home Assistant's
  Folders,  \* what the media folder may hold, in the order of the names
  Bad       \* those of Own that the frame cannot decode

ASSUME OwnAssumption ==
  /\ Own \subseteq Photos /\ Bad \subseteq Own
  /\ Folders \subseteq Seq(Own) /\ <<>> \in Folders

VARIABLES
  library,  \* the photos found when the frame started
  index,    \* the one to load next
  failures, \* consecutive_failures
  player    \* off, about to load, or asleep

local == <<library, index, failures, player>>
all == <<buffer, redraw, shown, card, short, thread, library, index, failures, player>>

Playable == {library[i] : i \in DOMAIN library} \ Bad

\* A card that cannot be mounted is a folder with nothing in it.
Scan ==
  \E folder \in Folders :
    /\ library' = folder /\ index' = 1 /\ failures' = 0
    /\ player' = IF folder = <<>> THEN "off" ELSE "loading"

LocalInit ==
  /\ Init
  /\ \E folder \in Folders :
       /\ library = folder /\ index = 1 /\ failures = 0
       /\ player = IF folder = <<>> THEN "off" ELSE "loading"

Following == index' = IF index = Len(library) THEN 1 ELSE index + 1

\* A photo is decoded and queued, and stays for its interval.
Load ==
  /\ player = "loading" /\ library[index] \notin Bad
  /\ Push(Image(library[index], FALSE))
  /\ Following /\ failures' = 0 /\ player' = "asleep"
  /\ UNCHANGED <<shown, card, short, thread, library>>

\* Mutant: a photo that does not decode tried again at once.
LoadFailsAgain ==
  /\ player = "loading" /\ library[index] \in Bad
  /\ failures' = 0 /\ player' = "asleep"
  /\ UNCHANGED <<vars, library, index>>

\* Mutant: failures counted for ever.
LoadFailsCounting ==
  /\ player = "loading" /\ library[index] \in Bad
  /\ Following /\ failures' = failures + 1
  /\ player' = IF failures' >= Len(library) THEN "asleep" ELSE "loading"
  /\ UNCHANGED <<vars, library>>

\* It is passed over, at once unless no photo of the folder could be decoded.
LoadFails ==
  /\ player = "loading" /\ library[index] \in Bad
  /\ Following
  /\ IF failures + 1 >= Len(library)
     THEN failures' = 0 /\ player' = "asleep"
     ELSE failures' = failures + 1 /\ UNCHANGED player
  /\ UNCHANGED <<vars, library>>

Wakes ==
  /\ player = "asleep" /\ player' = "loading"
  /\ UNCHANGED <<vars, library, index, failures>>

Play == Load \/ LoadFails \/ Wakes

\* render: dropped while the owner's photos are shown.
Renders(p) == library = <<>> /\ Arrives(p)

\* Power is lost; the card may be another one when it is back.
Reboot == PowerCut /\ Scan

LocalNext ==
  \/ /\ \/ \E t \in Threads : TopUp(t)
        \/ \E p \in Photos \ Own : Renders(p)
        \/ Stores \/ ReloadUi
        \/ Sync \/ Draw \/ Rotate \/ RotateAdvances
        \/ \E t \in Helpers : Tap(t) \/ Report(t)
     /\ UNCHANGED local
  \/ Play
  \/ Reboot

\* The player is a thread like the others.
LocalSpec == LocalInit /\ [][LocalNext]_all /\ Fairness /\ WF_all(Play)

-----------------------------------------------------------------------------
(* Properties.                                                             *)

LocalTypeOK ==
  /\ TypeOK
  /\ library \in Folders /\ index \in 1..(Len(library) + 1)
  /\ library # <<>> => index \in DOMAIN library
  /\ failures \in 0..Len(library) /\ (library # <<>> => failures < Len(library))
  /\ player \in {"off", "loading", "asleep"} /\ (player = "off" <=> library = <<>>)

\* As OfflineRotates, for a frame whose owner has put no photos on the card:
\* whatever they played before, or play in between, and left in memory (main.rs:569).
RotatesFromCard == <>[](library # <<>>) \/ OfflineRotates

\* However many photos of the folder do not decode, each one that does is
\* played again and again, unless power keeps being lost (local_photos.rs:149).
KeepsPlaying ==
  \/ []<><<Reboot>>_all
  \/ \A o \in Own : <>[](o \in Playable) => []<><<Load /\ library[index] = o>>_all

\* A photo of the owner's stays on screen for its interval, and not for ever
\* when there is another one (local_photos.rs:33).
LocalRotates ==
  \A o \in Own : (Up(o) /\ Playable \ {o} # {}) ~> ~Up(o)
=============================================================================
