------------------------- MODULE LocalPhotosProofs -------------------------
(***************************************************************************)
(* The player of the owner's photos keeps its place in the folder, and     *)
(* what FrameReserveProofs shows of the panel and of the card still holds  *)
(* with one more thread that pushes photos into memory, and with a card    *)
(* that may be another one after each loss of power.                       *)
(***************************************************************************)
EXTENDS LocalPhotos, FrameReserveProofs

-----------------------------------------------------------------------------
(* The player.                                                             *)

\* There is a next photo exactly if the player runs, and it has failed on fewer
\* in a row than there are.
PlayerOK ==
  /\ library \in Folders /\ index \in 1..(Len(library) + 1)
  /\ library # <<>> => index \in DOMAIN library
  /\ failures \in 0..Len(library) /\ (library # <<>> => failures < Len(library))
  /\ player \in {"off", "loading", "asleep"} /\ (player = "off" <=> library = <<>>)

LocalIInv == IInv /\ PlayerOK

LEMMA LocalTypeParts == LocalIInv => LocalTypeOK
BY TypeParts DEF LocalIInv, IInv, PlayerOK, LocalTypeOK

\* What the player finds in a folder.
LEMMA FoundOK ==
  ASSUME NEW folder \in Folders
  PROVE  /\ Len(folder) \in Nat /\ 1 \in 1..(Len(folder) + 1) /\ 0 \in 0..Len(folder)
         /\ folder # <<>> => 1 \in DOMAIN folder /\ 0 < Len(folder)
<1>1. folder \in Seq(Own)
  BY OwnAssumption
<1>2. Len(folder) \in Nat /\ DOMAIN folder = 1..Len(folder) /\ (folder # <<>> => Len(folder) # 0)
  BY <1>1, EmptySeq
<1>3. QED
  BY <1>2

LEMMA PlayerInit == LocalInit => PlayerOK
<1> SUFFICES ASSUME LocalInit PROVE PlayerOK
  OBVIOUS
<1>1. PICK folder \in Folders :
        /\ library = folder /\ index = 1 /\ failures = 0
        /\ player = IF folder = <<>> THEN "off" ELSE "loading"
  BY DEF LocalInit
<1>2. QED
  BY <1>1, FoundOK DEF PlayerOK

LEMMA ScanKeeps ==
  ASSUME Scan
  PROVE  PlayerOK'
<1>1. PICK folder \in Folders :
        /\ library' = folder /\ index' = 1 /\ failures' = 0
        /\ player' = IF folder = <<>> THEN "off" ELSE "loading"
  BY DEF Scan
<1>2. QED
  BY <1>1, FoundOK DEF PlayerOK

\* A player that loads has a photo of the owner's to load.
LEMMA HasNext ==
  ASSUME PlayerOK, player = "loading"
  PROVE  /\ library \in Seq(Own) /\ Len(library) \in Nat \ {0} /\ index \in 1..Len(library)
         /\ library[index] \in Photos
<1>1. library # <<>> /\ library \in Seq(Own)
  BY OwnAssumption DEF PlayerOK
<1>2. DOMAIN library = 1..Len(library) /\ Len(library) \in Nat
  BY <1>1
<1>3. index \in 1..Len(library)
  BY <1>1, <1>2 DEF PlayerOK
<1>4. library[index] \in Own
  BY <1>1, <1>3
<1>5. QED
  BY <1>1, <1>2, <1>3, <1>4, OwnAssumption

LEMMA OneAfter ==
  ASSUME NEW n \in Nat, NEW i \in 1..n, i # n
  PROVE  i + 1 \in 1..n
OBVIOUS

LEMMA PlayKeeps ==
  ASSUME PlayerOK, Play
  PROVE  PlayerOK'
<1>1. CASE Wakes
  BY <1>1 DEF Wakes, PlayerOK
<1>2. CASE Load \/ LoadFails
  <2>1. /\ player = "loading" /\ UNCHANGED library /\ Following
        /\ \/ failures' = 0 /\ player' = "asleep"
           \/ failures' = failures + 1 /\ failures + 1 < Len(library) /\ player' = player
    <3>1. CASE Load
      BY <3>1 DEF Load
    <3>2. CASE LoadFails
      <4>1. player = "loading" /\ Len(library) \in Nat /\ failures \in Nat
        BY <3>2, HasNext DEF LoadFails, PlayerOK
      <4>2. QED
        BY <3>2, <4>1 DEF LoadFails
    <3>3. QED
      BY <1>2, <3>1, <3>2
  <2>2. Len(library) \in Nat \ {0} /\ index \in 1..Len(library) /\ DOMAIN library = 1..Len(library)
    BY <2>1, HasNext
  <2>3. index' \in 1..Len(library)
    <3>1. CASE index = Len(library)
      BY <2>1, <2>2, <3>1 DEF Following
    <3>2. CASE index # Len(library)
      <4>1. index' = index + 1
        BY <2>1, <3>2 DEF Following
      <4>2. QED
        BY <2>2, <3>2, <4>1, OneAfter
    <3>3. QED
      BY <3>1, <3>2
  <2>4. failures' \in 0..Len(library) /\ failures' < Len(library)
    BY <2>1, <2>2 DEF PlayerOK
  <2>5. QED
    BY <2>1, <2>2, <2>3, <2>4 DEF PlayerOK
<1>3. QED
  BY <1>1, <1>2 DEF Play

-----------------------------------------------------------------------------
(* What the player does to memory.                                         *)

\* A photo of the owner's goes behind the picture on screen, as any other.
LEMMA LoadPushes ==
  ASSUME IInv, PlayerOK, Load
  PROVE  InMemory /\ buffer' # <<>> /\ (buffer # <<>> => Head(buffer') = Head(buffer))
<1>1. library[index] \in Photos
  BY HasNext DEF Load
<1>2. Image(library[index], FALSE) \in Images
  BY <1>1 DEF Image, Images
<1>3. QED
  BY <1>2, PushInMemory, PushTyped DEF Load, IInv, Parts

\* A thread in the middle of what it does is not disturbed by it.
LEMMA LoadKeeps ==
  ASSUME IInv, PlayerOK, Load
  PROVE  IInv'
<1> USE DEF IInv, Parts
<1>1. InMemory
  BY LoadPushes
<1>2. UNCHANGED <<shown, card, short, thread>>
  BY DEF Load
<1>3. Parts'
  BY <1>1, <1>2 DEF InMemory, Redrawn, PanelOK, CardOK, ThreadsOK, Handed
<1>4. redraw' # "due" => /\ redraw' = redraw
                         /\ buffer # <<>> => buffer' # <<>> /\ Head(buffer') = Head(buffer)
  BY <1>1 DEF InMemory, Redrawn
<1>5. Drawing' /\ UpToDate'
  BY <1>2, <1>4 DEF Drawing, UpToDate, InHand
<1>6. StoreFresh' /\ NoPhotoTwice'
  BY <1>2 DEF StoreFresh, NoPhotoTwice
<1>7. QED
  BY <1>3, <1>5, <1>6

-----------------------------------------------------------------------------
(* The steps.                                                              *)

\* A step of the frame's, of the player's, or a start with another card.
LEMMA LocalNextIsOne ==
  ASSUME LocalNext
  PROVE  (Next /\ UNCHANGED local) \/ Play \/ (PowerCut /\ Scan)
BY DEF LocalNext, Next, Renders, Reboot

LEMMA LocalStep == LocalIInv /\ [LocalNext]_all => LocalIInv'
<1> SUFFICES ASSUME LocalIInv, [LocalNext]_all PROVE LocalIInv'
  OBVIOUS
<1> USE DEF LocalIInv
<1>1. CASE Next /\ UNCHANGED local
  <2>1. IInv'
    BY <1>1, StepKeeps
  <2>2. PlayerOK'
    BY <1>1 DEF local, PlayerOK
  <2>3. QED
    BY <2>1, <2>2
<1>2. CASE Play
  <2>1. CASE Load
    BY <1>2, <2>1, LoadKeeps, PlayKeeps
  <2>2. CASE LoadFails \/ Wakes
    <3>1. UNCHANGED vars
      BY <2>2 DEF LoadFails, Wakes
    <3>2. IInv'
      BY <3>1, StutterKeeps
    <3>3. QED
      BY <1>2, <3>2, PlayKeeps
  <2>3. QED
    BY <1>2, <2>1, <2>2 DEF Play
<1>3. CASE PowerCut /\ Scan
  BY <1>3, PowerCutKeeps, ScanKeeps
<1>4. CASE UNCHANGED all
  <2>1. UNCHANGED vars /\ UNCHANGED local
    BY <1>4 DEF all, vars, local
  <2>2. IInv'
    BY <2>1, StutterKeeps
  <2>3. PlayerOK'
    BY <2>1 DEF local, PlayerOK
  <2>4. QED
    BY <2>2, <2>3
<1>5. QED
  BY <1>1, <1>2, <1>3, <1>4, LocalNextIsOne

LEMMA LocalInvariant == LocalSpec => []LocalIInv
<1>1. LocalInit => LocalIInv
  BY InitKeeps, PlayerInit DEF LocalInit, LocalIInv
<1>2. QED
  BY <1>1, LocalStep, PTL DEF LocalSpec

-----------------------------------------------------------------------------
(* The theorems.                                                           *)

\* The player never reads past the end of its folder, however many photos do
\* not decode, and gives up on a round of them before it counts one twice
\* (local_photos.rs:149).
THEOREM PlayerIsInItsFolder == LocalSpec => []LocalTypeOK
BY LocalInvariant, LocalTypeParts, PTL

\* The player changes memory while the UI draws, takes no part in what the UI
\* records of it, and yet the panel shows what the UI believes (ui.rs:50).
THEOREM PanelIsUpToDateWithPlayer == LocalSpec => []UpToDate
<1>1. LocalIInv => UpToDate
  BY DEF LocalIInv, IInv
<1>2. QED
  BY LocalInvariant, <1>1, PTL

\* Whatever is played, dropped and played again, no photo of the controller's
\* comes to be on the card twice (photo_cache.rs:126).
THEOREM NoPhotoIsTwiceWithPlayer == LocalSpec => []NoPhotoTwice
<1>1. LocalIInv => NoPhotoTwice
  BY DEF LocalIInv, IInv
<1>2. QED
  BY LocalInvariant, <1>1, PTL

\* With the player too, a frame that shows a picture goes on showing one
\* (main.rs:590).
THEOREM PictureStaysWithPlayer == LocalSpec => NeverRunsDry
<1> DEFINE Stays == buffer # <<>> /\ buffer' = <<>> => ReloadUi \/ PowerCut
<1>1. LocalIInv /\ [LocalNext]_all => [Stays]_vars
  <2> SUFFICES ASSUME LocalIInv, [LocalNext]_all, buffer # <<>>, buffer' = <<>>, ~UNCHANGED vars
               PROVE  ReloadUi \/ PowerCut
    OBVIOUS
  <2>1. CASE Next /\ UNCHANGED local
    BY <2>1, OneIsLeft DEF LocalIInv, IInv
  <2>2. CASE Play
    BY <2>2, LoadPushes DEF Play, LoadFails, Wakes, LocalIInv
  <2>3. CASE PowerCut /\ Scan
    BY <2>3
  <2>4. CASE UNCHANGED all
    BY <2>4 DEF all
  <2>5. QED
    BY <2>1, <2>2, <2>3, <2>4, LocalNextIsOne
<1>2. QED
  BY LocalInvariant, <1>1, PTL DEF LocalSpec, NeverRunsDry

\* Files arrive last across boots with another folder too, for the player has no
\* part in the card (photo_cache.rs:80).
THEOREM FilesArriveLastWithPlayer == LocalSpec => ArrivesLast
<1> DEFINE Beyond == \A f \in card' \ card : \A g \in card : f.seq > g.seq
<1>1. LocalIInv /\ [LocalNext]_all => [Beyond]_vars
  <2> SUFFICES ASSUME LocalIInv, [LocalNext]_all PROVE [Beyond]_vars
    OBVIOUS
  <2>1. CASE Next /\ UNCHANGED local
    BY <2>1, CardGrowsAtItsEnd DEF LocalIInv
  <2>2. CASE Play
    BY <2>2 DEF Play, Load, LoadFails, Wakes, vars
  <2>3. CASE PowerCut /\ Scan
    BY <2>3 DEF PowerCut
  <2>4. CASE UNCHANGED all
    BY <2>4 DEF all
  <2>5. QED
    BY <2>1, <2>2, <2>3, <2>4, LocalNextIsOne
<1>2. QED
  BY LocalInvariant, <1>1, PTL DEF LocalSpec, ArrivesLast

\* A spare waits behind the picture on screen, be that the owner's or not
\* (rendered_image.rs:184).
THEOREM SparesWaitWithPlayer == LocalSpec => SpareWaits
<1> DEFINE Waits ==
      buffer # <<>> /\ ((\E p \in Photos : StoreFails(p)) \/ \E t \in Threads : PushTaken(t))
        => Head(buffer') = Head(buffer)
<1>1. LocalIInv => [Waits]_vars
  BY PushKeepsPicture DEF LocalIInv, IInv
<1>2. QED
  BY LocalInvariant, <1>1, PTL DEF LocalSpec, SpareWaits

\* And so does the photo of the owner's that is due: it is queued, not shown
\* (local_photos.rs:175).
THEOREM OwnPhotosWait ==
  LocalSpec => [][Load /\ buffer # <<>> => Head(buffer') = Head(buffer)]_all
<1> DEFINE Waits == Load /\ buffer # <<>> => Head(buffer') = Head(buffer)
<1>1. LocalIInv => [Waits]_all
  BY LoadPushes DEF LocalIInv
<1>2. QED
  BY LocalInvariant, <1>1, PTL DEF LocalSpec
=============================================================================
