------------------------- MODULE FrameReserveProofs -------------------------
(***************************************************************************)
(* The panel shows what the UI believes it shows, and the card keeps its   *)
(* order, for any set of threads, any photos and any sizes.                *)
(***************************************************************************)
EXTENDS FrameReserve, SequenceTheorems, WellFoundedInduction, TLAPS

-----------------------------------------------------------------------------
(* Numbers.                                                                *)

LEMMA LeastExists ==
  ASSUME NEW T, T \subseteq Nat, T # {}
  PROVE  \E x \in T : \A y \in T : x <= y
<1>1. PICK x \in T : \A y \in T : ~(<<y, x>> \in OpToRel(<, Nat))
  BY NatLessThanWellFounded, WFMin
<1>2. \A y \in T : <<y, x>> \in Nat \X Nat => ~(y < x)
  BY <1>1 DEF OpToRel
<1>3. ASSUME NEW y \in T PROVE x <= y
  <2>1. x \in Nat /\ y \in Nat
    OBVIOUS
  <2>2. ~(y < x)
    BY <1>2, <2>1
  <2>3. QED
    BY <2>1, <2>2
<1>4. QED
  BY <1>3

LEMMA GreatestExists ==
  ASSUME NEW m \in Nat, NEW S, S \subseteq 0..m, S # {}
  PROVE  \E x \in S : \A y \in S : y <= x
<1> DEFINE T == {m - x : x \in S}
<1>1. T \subseteq Nat
  OBVIOUS
<1>2. T # {}
  <2>1. PICK s \in S : TRUE
    OBVIOUS
  <2>2. m - s \in T
    OBVIOUS
  <2>3. QED
    BY <2>2
<1>3. PICK d \in T : \A y \in T : d <= y
  BY <1>1, <1>2, LeastExists
<1>4. PICK x \in S : d = m - x
  OBVIOUS
<1>5. \A y \in S : m - x <= m - y
  BY <1>3, <1>4
<1>6. QED
  BY <1>5

LEMMA OldestExists ==
  ASSUME NEW files \in SUBSET Names, files # {}
  PROVE  \E f \in files : \A g \in files : f.seq <= g.seq
<1> DEFINE T == {f.seq : f \in files}
<1>1. T \subseteq Nat /\ T # {}
  BY SizesAssumption DEF Names
<1>2. PICK x \in T : \A y \in T : x <= y
  BY <1>1, LeastExists
<1>3. QED
  BY <1>2

\* The next order prefix is beyond every one on the card.
LEMMA NextIsBeyond ==
  ASSUME card \subseteq Names
  PROVE  NextSequence \in Nat /\ \A f \in card : f.seq < NextSequence
<1>1. CASE card = {}
  BY <1>1 DEF NextSequence
<1>2. CASE card # {}
  <2> DEFINE S == {f.seq : f \in card}
  <2>1. S \subseteq 0..MaxSequence
    BY DEF Names
  <2>2. S # {}
    <3>1. PICK f \in card : TRUE
      BY <1>2
    <3>2. f.seq \in S
      OBVIOUS
    <3>3. QED
      BY <3>2
  <2>3. \E x \in S : \A y \in S : y <= x
    BY <2>1, <2>2, SizesAssumption, GreatestExists
  <2>4. \E x \in S : \A f \in card : f.seq <= x
    BY <2>3
  <2> DEFINE n == CHOOSE x \in S : \A f \in card : f.seq <= x
  <2>5. n \in S /\ \A f \in card : f.seq <= n
    BY <2>4
  <2>6. NextSequence = 1 + n
    BY <1>2 DEF NextSequence
  <2>7. n \in Nat /\ \A f \in card : f.seq \in Nat
    BY <2>1, <2>5 DEF Names
  <2> HIDE DEF n
  <2>8. QED
    BY <2>5, <2>6, <2>7
<1>3. QED
  BY <1>1, <1>2

-----------------------------------------------------------------------------
(* The parts of the type invariant.                                        *)

BufferOK  == buffer \in Seq(Images) /\ Len(buffer) <= Capacity
PanelOK   == redraw \in {"due", "drawing", "done"} /\ shown \in Photos \cup {Screen}
CardOK    == card \subseteq Names /\ short \subseteq card
ThreadsOK == thread \in [Threads -> ThreadStates]

\* Where the render thread has a photo to write, and where any has a file in hand.
Writing  == {"room", "number", "store"}
Handling == Writing \cup {"drop", "remove", "push", "draw"}

\* A thread that is about to use the file in its hand has one there.
Handed ==
  \A t \in Threads : thread[t].at \in Handling => thread[t].hand # {}

Parts == BufferOK /\ PanelOK /\ CardOK /\ ThreadsOK /\ Handed

LEMMA TypeParts == Parts => TypeOK
  BY DEF TypeOK, Parts, BufferOK, PanelOK, CardOK, ThreadsOK

\* A thread's state after its step; the others stay.
LEMMA GoesTyped ==
  ASSUME ThreadsOK, Handed, NEW t \in Threads, NEW place \in Places,
         NEW list \in SUBSET Names, NEW hand \in {{}} \cup {{f} : f \in Names},
         NEW then \in {"idle", "advance"},
         place \in Handling => hand # {},
         Goes(t, At(place, list, hand, then))
  PROVE  /\ ThreadsOK' /\ Handed'
         /\ thread'[t] = At(place, list, hand, then)
         /\ \A u \in Threads \ {t} : thread'[u] = thread[u]
<1>1. At(place, list, hand, then) \in ThreadStates
  BY DEF At, ThreadStates
<1>2. /\ ThreadsOK' /\ thread'[t] = At(place, list, hand, then)
      /\ \A u \in Threads \ {t} : thread'[u] = thread[u]
  BY <1>1 DEF ThreadsOK, Goes
<1>3. Handed'
  BY <1>2 DEF Handed, At
<1>4. QED
  BY <1>2, <1>3

LEMMA StateFields ==
  ASSUME ThreadsOK, NEW t \in Threads
  PROVE  /\ thread[t].at \in Places /\ thread[t].list \in SUBSET Names
         /\ thread[t].hand \in {{}} \cup {{f} : f \in Names}
         /\ thread[t].then \in {"idle", "advance"}
  BY DEF ThreadsOK, ThreadStates

LEMMA HandFile ==
  ASSUME ThreadsOK, Handed, NEW t \in Threads,
         thread[t].at \in Handling
  PROVE  InHand(t) \in Names /\ thread[t].hand = {InHand(t)}
  BY StateFields DEF InHand, Handed

-----------------------------------------------------------------------------
(* Memory.                                                                 *)

LEMMA TrimmedTyped ==
  ASSUME NEW b \in Seq(Images), Len(b) <= Capacity
  PROVE  /\ Trimmed(b) \in Seq(Images) /\ Len(Trimmed(b)) < Capacity
         /\ b # <<>> => Len(Trimmed(b)) > 0 /\ Trimmed(b)[1] = b[1]
         /\ b = <<>> => Trimmed(b) = <<>>
<1>1. Capacity \in Nat /\ Capacity >= 2 /\ Len(b) \in Nat
  BY SizesAssumption
<1>2. CASE Len(b) >= Capacity
  <2>1. Trimmed(b) = SubSeq(b, 1, Len(b) - 1)
    BY <1>2 DEF Trimmed
  <2>2. \A i \in 1..(Len(b) - 1) : b[i] \in Images
    OBVIOUS
  <2>3. Len(b) - 1 \in Nat /\ Len(b) - 1 >= 1
    BY <1>1, <1>2
  <2>4. /\ SubSeq(b, 1, Len(b) - 1) \in Seq(Images)
        /\ Len(SubSeq(b, 1, Len(b) - 1)) = Len(b) - 1
        /\ SubSeq(b, 1, Len(b) - 1)[1] = b[1]
    BY <2>2, <2>3, SubSeqProperties
  <2>5. b # <<>>
    BY <1>1, <1>2
  <2>6. QED
    BY <1>1, <1>2, <2>1, <2>3, <2>4, <2>5
<1>3. CASE ~(Len(b) >= Capacity)
  BY <1>1, <1>3 DEF Trimmed
<1>4. QED
  BY <1>2, <1>3

\* A photo pushed behind a picture changes neither the picture nor its generation.
LEMMA PushTyped ==
  ASSUME BufferOK, NEW image \in Images, Push(image)
  PROVE  /\ BufferOK' /\ buffer' # <<>>
         /\ buffer # <<>> => Head(buffer') = Head(buffer) /\ redraw' = redraw
         /\ buffer = <<>> => redraw' = "due"
<1> DEFINE b == Trimmed(buffer)
<1>1. /\ b \in Seq(Images) /\ Len(b) < Capacity /\ Len(b) \in Nat
      /\ buffer # <<>> => Len(b) > 0 /\ b[1] = buffer[1]
      /\ buffer = <<>> => b = <<>>
  BY TrimmedTyped DEF BufferOK
<1>2. buffer' = Append(b, image) /\ redraw' = IF Len(buffer') = 1 THEN "due" ELSE redraw
  BY DEF Push, Pushed
<1> HIDE DEF b
<1>3. /\ buffer' \in Seq(Images) /\ buffer' # <<>> /\ Len(buffer') = Len(b) + 1
      /\ \A i \in 1..Len(b) : buffer'[i] = b[i]
  BY <1>1, <1>2, AppendProperties
<1>4. BufferOK'
  BY <1>1, <1>3, SizesAssumption DEF BufferOK
<1>5. ASSUME buffer # <<>> PROVE Head(buffer') = Head(buffer) /\ redraw' = redraw
  <2>1. Len(buffer') # 1 /\ 1 \in 1..Len(b)
    BY <1>1, <1>3, <1>5
  <2>2. buffer'[1] = buffer[1]
    BY <1>1, <1>3, <1>5, <2>1
  <2>3. QED
    BY <1>2, <1>3, <1>5, <2>1, <2>2 DEF BufferOK
<1>6. ASSUME buffer = <<>> PROVE redraw' = "due"
  BY <1>1, <1>2, <1>3, <1>6
<1>7. QED
  BY <1>3, <1>4, <1>5, <1>6

LEMMA ShowTyped ==
  ASSUME BufferOK, NEW p \in Photos, Show(p)
  PROVE  BufferOK' /\ (UNCHANGED <<buffer, redraw>> \/ redraw' = "due")
<1>1. CASE UNCHANGED <<buffer, redraw>>
  BY <1>1 DEF BufferOK
<1>2. CASE buffer' = <<Image(p, TRUE)>> \o Trimmed(buffer) /\ redraw' = "due"
  <2> DEFINE b == Trimmed(buffer)  i == Image(p, TRUE)
  <2>1. b \in Seq(Images) /\ Len(b) < Capacity
    BY TrimmedTyped DEF BufferOK
  <2>2. i \in Images
    BY DEF Image, Images
  <2>3. buffer' = <<i>> \o b
    BY <1>2
  <2> HIDE DEF b, i
  <2>4. <<i>> \in Seq(Images) /\ Len(<<i>>) = 1
    BY <2>2
  <2>5. buffer' \in Seq(Images) /\ Len(buffer') = 1 + Len(b)
    BY <2>1, <2>3, <2>4, ConcatProperties
  <2>6. Len(b) \in Nat
    BY <2>1
  <2>7. Len(buffer') <= Capacity
    BY <2>1, <2>5, <2>6, SizesAssumption
  <2>8. QED
    BY <1>2, <2>5, <2>7 DEF BufferOK
<1>3. QED
  BY <1>1, <1>2 DEF Show

LEMMA AdvanceTyped ==
  ASSUME BufferOK, Advance
  PROVE  BufferOK' /\ (UNCHANGED <<buffer, redraw>> \/ redraw' = "due")
<1>1. CASE UNCHANGED <<buffer, redraw>>
  BY <1>1 DEF BufferOK
<1>2. CASE Len(buffer) >= 2 /\ buffer' = Tail(buffer) /\ redraw' = "due"
  <2>1. buffer # <<>>
    BY <1>2 DEF BufferOK
  <2>2. Tail(buffer) \in Seq(Images) /\ Len(Tail(buffer)) = Len(buffer) - 1
    BY <2>1, HeadTailProperties DEF BufferOK
  <2>3. QED
    BY <1>2, <2>2, SizesAssumption DEF BufferOK
<1>3. QED
  BY <1>1, <1>2 DEF Advance

-----------------------------------------------------------------------------
(* The invariants.                                                         *)

\* What the UI is drawing is the first photo, unless a redraw is due anyway.
Drawing ==
  /\ redraw = "drawing" =>
       /\ thread["ui"].at = "draw" /\ buffer # <<>>
       /\ InHand("ui").photo = Head(buffer).photo
  /\ thread["ui"].at = "draw" => redraw # "done"

\* A photo to be written is not on the card; its file is newer than all there.
StoreFresh ==
  \A f \in thread["render"].hand, g \in card :
    /\ thread["render"].at \in Writing => f.photo # g.photo
    /\ thread["render"].at = "store" => f.seq > g.seq

IInv == Parts /\ Drawing /\ UpToDate /\ StoreFresh /\ NoPhotoTwice

\* What most steps of a thread t do: they draw nothing and write nothing to the
\* card, and where they change the picture in memory they make a redraw due.
Redrawn ==
  /\ redraw' \in {"due", "drawing", "done"}
  /\ \/ redraw' = "due"
     \/ redraw' = redraw /\ buffer' = buffer
     \/ /\ redraw' = redraw /\ buffer # <<>> /\ buffer' # <<>>
        /\ Head(buffer') = Head(buffer)

InMemory == BufferOK' /\ Redrawn /\ shown' = shown
OnCard   == card' \subseteq card /\ short' \subseteq card'
Moves(t) ==
  /\ ThreadsOK' /\ Handed' /\ thread'[t].at \notin Writing \cup {"draw"}
  /\ t = "ui" => thread["ui"].at # "draw"
  /\ \A u \in Threads \ {t} : thread'[u] = thread[u]

Ordinary(t) == InMemory /\ OnCard /\ Moves(t)

LEMMA OrdinaryKeeps ==
  ASSUME IInv, NEW t \in Threads, Ordinary(t)
  PROVE  IInv'
<1> USE DEF IInv, Parts, Ordinary
<1>1. Parts'
  <2>1. PanelOK'
    BY DEF PanelOK, InMemory, Redrawn
  <2>2. CardOK'
    BY DEF CardOK, OnCard
  <2>3. QED
    BY <2>1, <2>2 DEF InMemory, Moves
<1>2. redraw' # "due" => redraw' = redraw /\ (buffer # <<>> => buffer' # <<>> /\ Head(buffer') = Head(buffer))
  BY DEF InMemory, Redrawn
<1>3. Drawing'
  <2>1. thread'["ui"].at = "draw" => thread'["ui"] = thread["ui"]
    BY DEF Moves, Threads
  <2>2. thread["ui"].at = "draw" => thread'["ui"] = thread["ui"]
    BY DEF Moves, Threads
  <2>3. thread'["ui"].at = "draw" => redraw' # "done"
    BY <1>2, <2>1 DEF Drawing
  <2>4. ASSUME redraw' = "drawing"
        PROVE  /\ thread'["ui"].at = "draw" /\ buffer' # <<>>
               /\ InHand("ui")'.photo = Head(buffer').photo
    <3>1. /\ thread["ui"].at = "draw" /\ buffer # <<>>
          /\ InHand("ui").photo = Head(buffer).photo
      BY <1>2, <2>4 DEF Drawing
    <3>2. QED
      BY <1>2, <2>2, <2>4, <3>1 DEF InHand
  <2>5. QED
    BY <2>3, <2>4 DEF Drawing
<1>4. UpToDate'
  BY <1>2 DEF UpToDate, InMemory
<1>5. StoreFresh'
  <2> SUFFICES ASSUME thread'["render"].at \in Writing PROVE StoreFresh'
    BY DEF StoreFresh, Writing
  <2>1. thread'["render"] = thread["render"]
    BY DEF Moves, Threads
  <2>2. QED
    BY <2>1 DEF StoreFresh, OnCard
<1>6. NoPhotoTwice'
  BY DEF NoPhotoTwice, OnCard
<1>7. QED
  BY <1>1, <1>3, <1>4, <1>5, <1>6

LEMMA GoesMoves ==
  ASSUME ThreadsOK, Handed, NEW t \in Threads,
         NEW place \in Places, place \notin Writing \cup {"draw"},
         NEW list \in SUBSET Names, NEW hand \in {{}} \cup {{f} : f \in Names},
         NEW then \in {"idle", "advance"},
         place \in {"drop", "remove", "push"} => hand # {},
         Goes(t, At(place, list, hand, then)), t = "ui" => thread["ui"].at # "draw"
  PROVE  Moves(t)
<1>1. place \notin Handling \/ hand # {}
  BY DEF Handling
<1>2. At(place, list, hand, then) \in ThreadStates
  BY DEF At, ThreadStates
<1>3. /\ ThreadsOK' /\ thread'[t] = At(place, list, hand, then)
      /\ \A u \in Threads \ {t} : thread'[u] = thread[u]
  BY <1>2 DEF ThreadsOK, Goes
<1>4. Handed'
  BY <1>1, <1>3 DEF Handed, At
<1>5. QED
  BY <1>3, <1>4 DEF Moves, At

LEMMA TopsMoves ==
  ASSUME ThreadsOK, Handed, NEW t \in Threads, NEW then \in {"idle", "advance"},
         Tops(t, then), t = "ui" => thread["ui"].at # "draw"
  PROVE  Moves(t)
<1>1. "check" \in Places \ (Writing \cup {"draw"}) /\ {} \in SUBSET Names
  BY DEF Places, Writing
<1>2. QED
  BY <1>1, GoesMoves DEF Tops

LEMMA StaysMoves ==
  ASSUME ThreadsOK, Handed, NEW t \in Threads, Place(t, "idle"), UNCHANGED thread
  PROVE  Moves(t)
  BY DEF ThreadsOK, Handed, Place, Moves, Writing

LEMMA IdleState == "idle" \in Places \ (Writing \cup {"draw"}) /\ Idle = At("idle", {}, {}, "idle")
  BY DEF Places, Idle, Writing

LEMMA MemoryStays ==
  ASSUME BufferOK, PanelOK, MemoryUnchanged
  PROVE  InMemory
  BY DEF BufferOK, PanelOK, MemoryUnchanged, InMemory, Redrawn

LEMMA CardStays ==
  ASSUME CardOK, CardUnchanged
  PROVE  OnCard
  BY DEF CardOK, CardUnchanged, OnCard

LEMMA PushInMemory ==
  ASSUME BufferOK, PanelOK, NEW image \in Images, Push(image), UNCHANGED shown
  PROVE  InMemory
<1>1. /\ BufferOK' /\ buffer' # <<>>
      /\ buffer # <<>> => Head(buffer') = Head(buffer) /\ redraw' = redraw
      /\ buffer = <<>> => redraw' = "due"
  BY PushTyped
<1>2. QED
  BY <1>1 DEF PanelOK, InMemory, Redrawn

LEMMA RedoneInMemory ==
  ASSUME BufferOK', PanelOK, UNCHANGED shown,
         UNCHANGED <<buffer, redraw>> \/ redraw' = "due"
  PROVE  InMemory
  BY DEF PanelOK, InMemory, Redrawn

-----------------------------------------------------------------------------
(* The steps.                                                              *)

LEMMA TopUpOrdinary ==
  ASSUME IInv, NEW t \in Threads, TopUp(t)
  PROVE  Ordinary(t)
<1> USE DEF IInv, Parts, Ordinary
<1> DEFINE th == thread[t]
<1>1. /\ th.at \in Places /\ th.list \in SUBSET Names
      /\ th.hand \in {{}} \cup {{f} : f \in Names} /\ th.then \in {"idle", "advance"}
  BY StateFields
<1>2. th.then \in Places \ (Writing \cup {"draw"}) /\ th.then \notin {"drop", "remove", "push"}
  BY <1>1 DEF Places, Writing
<1>3. CASE Check(t)
  <2>1. InMemory /\ OnCard /\ (t = "ui" => thread["ui"].at # "draw")
    BY <1>3, MemoryStays, CardStays DEF Check, Place
  <2>2. CASE Goes(t, At(th.then, {}, {}, "idle"))
    BY <1>2, <2>1, <2>2, GoesMoves
  <2>3. CASE Goes(t, At("look", card, {}, th.then))
    <3>1. "look" \in Places \ (Writing \cup {"draw"}) /\ card \in SUBSET Names
      BY DEF Places, CardOK, Writing
    <3>2. QED
      BY <1>1, <2>1, <2>3, <3>1, GoesMoves
  <2>4. QED
    BY <1>3, <2>2, <2>3 DEF Check
<1>4. CASE NothingCached(t)
  <2>1. InMemory /\ OnCard /\ (t = "ui" => thread["ui"].at # "draw")
    BY <1>4, MemoryStays, CardStays DEF NothingCached, Place
  <2>2. Goes(t, At(th.then, {}, {}, "idle"))
    BY <1>4 DEF NothingCached
  <2>3. QED
    BY <1>2, <2>1, <2>2, GoesMoves
<1>5. CASE Look(t)
  <2> DEFINE f == Oldest(th.list)
  <2>1. InMemory /\ OnCard /\ (t = "ui" => thread["ui"].at # "draw")
    BY <1>5, MemoryStays, CardStays DEF Look, Place
  <2>2. f \in Names
    <3>1. PICK g \in th.list : \A h \in th.list : g.seq <= h.seq
      BY <1>1, <1>5, OldestExists DEF Look
    <3>2. QED
      BY <1>1, <3>1 DEF Oldest
  <2>3. /\ "remove" \in Places \ (Writing \cup {"draw"}) /\ "drop" \in Places \ (Writing \cup {"draw"})
        /\ {f} \in {{}} \cup {{g} : g \in Names} /\ {f} # {} /\ {} \in SUBSET Names
        /\ th.list \ {f} \in SUBSET Names
    BY <1>1, <2>2 DEF Places, Writing
  <2>4. \/ Goes(t, At("remove", {}, {f}, th.then))
        \/ Goes(t, At("drop", th.list \ {f}, {f}, th.then))
    BY <1>5 DEF Look
  <2> HIDE DEF f
  <2>5. CASE Goes(t, At("remove", {}, {f}, th.then))
    BY <1>1, <2>1, <2>3, <2>5, GoesMoves
  <2>6. CASE Goes(t, At("drop", th.list \ {f}, {f}, th.then))
    BY <1>1, <2>1, <2>3, <2>6, GoesMoves
  <2>7. QED
    BY <2>4, <2>5, <2>6
<1>6. CASE Drop(t)
  <2>1. InMemory /\ th.at = "drop" /\ Removed(InHand(t)) /\ Goes(t, At("look", th.list, {}, th.then))
    BY <1>6, MemoryStays DEF Drop, Place
  <2>2. OnCard
    BY <2>1 DEF Removed, OnCard, CardOK
  <2>3. "look" \in Places \ (Writing \cup {"draw"})
    BY DEF Places, Writing
  <2>4. Moves(t)
    BY <1>1, <2>1, <2>3, GoesMoves
  <2>5. QED
    BY <2>1, <2>2, <2>4
<1>7. CASE Remove(t)
  <2>1. InMemory /\ th.at = "remove" /\ Removed(InHand(t)) /\ Goes(t, At("push", {}, th.hand, th.then))
    BY <1>7, MemoryStays DEF Remove, Place
  <2>2. OnCard
    BY <2>1 DEF Removed, OnCard, CardOK
  <2>3. th.hand # {} /\ "push" \in Places \ (Writing \cup {"draw"}) /\ {} \in SUBSET Names
    BY <2>1 DEF Handed, Handling, Places, Writing
  <2>4. Moves(t)
    BY <1>1, <2>1, <2>3, GoesMoves
  <2>5. QED
    BY <2>1, <2>2, <2>4
<1>8. CASE PushTaken(t)
  <2>1. InHand(t) \in Names
    BY <1>8, HandFile DEF PushTaken, Place, Handling
  <2>2. Image(InHand(t).photo, FALSE) \in Images
    BY <2>1 DEF Names, Image, Images
  <2>3. InMemory
    BY <1>8, <2>2, PushInMemory DEF PushTaken
  <2>4. Moves(t)
    BY <1>1, <1>8, TopsMoves DEF PushTaken, Place
  <2>5. QED
    BY <1>8, <2>3, <2>4, CardStays DEF PushTaken
<1>9. QED
  BY <1>3, <1>4, <1>5, <1>6, <1>7, <1>8 DEF TopUp

LEMMA TheThreads == "render" \in Threads /\ "ui" \in Threads /\ Helpers \subseteq Threads
  BY DEF Threads

LEMMA ArrivesOrdinary ==
  ASSUME IInv, NEW p \in Photos, ShowArrives(p) \/ AlreadyStored(p) \/ StoreFails(p)
  PROVE  Ordinary("render")
<1> USE DEF IInv, Parts, Ordinary
<1>1. CASE ShowArrives(p)
  <2>1. BufferOK' /\ (UNCHANGED <<buffer, redraw>> \/ redraw' = "due")
    BY <1>1, ShowTyped DEF ShowArrives
  <2>2. QED
    BY <1>1, <2>1, RedoneInMemory, CardStays, StaysMoves, TheThreads DEF ShowArrives
<1>2. CASE AlreadyStored(p)
  BY <1>2, MemoryStays, CardStays, TopsMoves, TheThreads DEF AlreadyStored
<1>3. CASE StoreFails(p)
  <2>1. Image(p, TRUE) \in Images
    BY DEF Image, Images
  <2>2. QED
    BY <1>3, <2>1, PushInMemory, CardStays, TopsMoves, TheThreads DEF StoreFails
<1>4. QED
  BY <1>1, <1>2, <1>3

LEMMA NoRoomOrdinary ==
  ASSUME IInv, NoRoom
  PROVE  Ordinary("render")
  BY MemoryStays, CardStays, TopsMoves, TheThreads DEF NoRoom, IInv, Parts, Ordinary

LEMMA ReloadOrdinary ==
  ASSUME IInv, ReloadUi
  PROVE  Ordinary("render")
<1> USE DEF IInv, Parts, Ordinary
<1>1. BufferOK'
  BY SizesAssumption DEF ReloadUi, BufferOK
<1>2. QED
  BY <1>1, RedoneInMemory, CardStays, StaysMoves, TheThreads DEF ReloadUi

LEMMA UiOrdinary ==
  ASSUME IInv, Rotate \/ RotateAdvances
  PROVE  Ordinary("ui")
<1> USE DEF IInv, Parts, Ordinary
<1>1. CASE Rotate
  BY <1>1, MemoryStays, CardStays, TopsMoves, TheThreads DEF Rotate, Place
<1>2. CASE RotateAdvances
  <2>1. InMemory /\ OnCard
    BY <1>2, AdvanceTyped, RedoneInMemory, CardStays DEF RotateAdvances
  <2>2. thread["ui"].at # "draw"
    BY <1>2 DEF RotateAdvances, Place
  <2>3. CASE Tops("ui", "idle")
    BY <2>1, <2>2, <2>3, TopsMoves, TheThreads
  <2>4. CASE Goes("ui", Idle)
    BY <2>1, <2>2, <2>4, IdleState, GoesMoves, TheThreads
  <2>5. QED
    BY <1>2, <2>3, <2>4 DEF RotateAdvances
<1>3. QED
  BY <1>1, <1>2

LEMMA HelperOrdinary ==
  ASSUME IInv, NEW t \in Helpers, Tap(t) \/ Report(t)
  PROVE  Ordinary(t)
<1> USE DEF IInv, Parts, Ordinary
<1>1. t \in Threads /\ t # "ui"
  BY TheThreads, HelpersAssumption
<1>2. CASE Tap(t)
  <2>1. InMemory /\ OnCard
    BY <1>2, AdvanceTyped, RedoneInMemory, CardStays DEF Tap
  <2>2. Place(t, "idle") /\ thread[t].at = "idle"
    BY <1>2 DEF Tap, Place
  <2>3. CASE buffer' = buffer
    <3>1. Tops(t, "idle")
      BY <1>2, <2>3 DEF Tap
    <3>2. QED
      BY <1>1, <2>1, <3>1, TopsMoves
  <2>4. CASE buffer' # buffer
    <3>1. UNCHANGED thread
      BY <1>2, <2>4 DEF Tap
    <3>2. QED
      BY <1>1, <2>1, <2>2, <3>1, StaysMoves
  <2>5. QED
    BY <2>3, <2>4
<1>3. CASE Report(t)
  BY <1>1, <1>3, MemoryStays, CardStays, TopsMoves DEF Report
<1>4. QED
  BY <1>2, <1>3

\* The render thread goes on with a photo that is not on the card.
LEMMA CarriesKeeps ==
  ASSUME IInv, NEW place \in Writing, NEW n \in 0..MaxSequence, NEW p \in Photos,
         \A g \in card : g.photo # p /\ (place = "store" => n > g.seq),
         Carries(place, n, p), MemoryUnchanged, CardUnchanged
  PROVE  IInv'
<1> USE DEF IInv, Parts
<1> DEFINE f == [seq |-> n, photo |-> p]
<1>1. f \in Names /\ f.seq = n /\ f.photo = p
  BY DEF Names
<1>2. Goes("render", At(place, {}, {f}, "idle"))
  BY DEF Carries
<1> HIDE DEF f
<1>3. place \in Places /\ {f} \in {{}} \cup {{g} : g \in Names} /\ {f} # {}
  BY <1>1 DEF Places, Writing
<1>4. /\ ThreadsOK' /\ Handed' /\ thread'["render"] = At(place, {}, {f}, "idle")
      /\ \A u \in Threads \ {"render"} : thread'[u] = thread[u]
  BY <1>2, <1>3, TheThreads, GoesTyped
<1>5. UNCHANGED <<buffer, redraw, shown, card, short>>
  BY DEF MemoryUnchanged, CardUnchanged
<1>6. thread'["ui"] = thread["ui"]
  BY <1>4, TheThreads
<1>7. Parts'
  BY <1>4, <1>5 DEF BufferOK, PanelOK, CardOK
<1>8. Drawing' /\ UpToDate' /\ NoPhotoTwice'
  BY <1>5, <1>6 DEF Drawing, UpToDate, NoPhotoTwice, InHand
<1>9. StoreFresh'
  <2>1. thread'["render"].at = place /\ thread'["render"].hand = {f}
    BY <1>4 DEF At
  <2>2. QED
    BY <1>1, <1>5, <2>1 DEF StoreFresh
<1>10. QED
  BY <1>7, <1>8, <1>9

\* Its first listing shows that the photo is not there yet.
LEMMA StoreKeeps ==
  ASSUME IInv, NEW p \in Photos, Store(p)
  PROVE  IInv'
<1>1. \A g \in card : g.photo # p
  BY DEF Store, Contains
<1>2. "room" \in Writing /\ 0 \in 0..MaxSequence
  BY SizesAssumption DEF Writing
<1>3. QED
  BY <1>1, <1>2, CarriesKeeps DEF Store

\* The photo in the render thread's hand, which no other thread writes.
LEMMA StillFresh ==
  ASSUME IInv, thread["render"].at \in Writing
  PROVE  InHand("render").photo \in Photos /\ \A g \in card : g.photo # InHand("render").photo
<1>1. InHand("render") \in Names /\ thread["render"].hand = {InHand("render")}
  BY HandFile, TheThreads DEF IInv, Parts, Handling
<1>2. QED
  BY <1>1 DEF IInv, StoreFresh, Names

LEMMA HasRoomKeeps ==
  ASSUME IInv, HasRoom
  PROVE  IInv'
<1>1. "number" \in Writing /\ 0 \in 0..MaxSequence /\ thread["render"].at \in Writing
  BY SizesAssumption DEF HasRoom, Place, Writing
<1>2. QED
  BY <1>1, StillFresh, CarriesKeeps DEF HasRoom

\* Its file is given an order prefix beyond all.
LEMMA NumbersKeeps ==
  ASSUME IInv, Numbers
  PROVE  IInv'
<1> DEFINE n == NextSequence
<1>1. n \in Nat /\ \A g \in card : g.seq < n /\ g.seq \in Nat
  BY NextIsBeyond DEF IInv, Parts, CardOK, Names
<1>2. n <= MaxSequence /\ Carries("store", n, InHand("render").photo) /\ MemoryUnchanged /\ CardUnchanged
  BY DEF Numbers
<1>3. "store" \in Writing /\ thread["render"].at \in Writing
  BY DEF Numbers, Place, Writing
<1> HIDE DEF n
<1>4. n \in 0..MaxSequence /\ \A g \in card : n > g.seq
  BY <1>1, <1>2, SizesAssumption
<1>5. QED
  BY <1>2, <1>3, <1>4, StillFresh, CarriesKeeps

LEMMA StoredKeeps ==
  ASSUME IInv, Stored
  PROVE  IInv'
<1> USE DEF IInv, Parts
<1> DEFINE f == InHand("render")
<1>1. thread["render"].at = "store" /\ card' = card \cup thread["render"].hand
  BY DEF Stored, Place
<1>2. f \in Names /\ thread["render"].hand = {f}
  BY <1>1, TheThreads, HandFile DEF Handling, Writing
<1>3. \A g \in card : f.seq > g.seq /\ f.photo # g.photo
  BY <1>1, <1>2 DEF StoreFresh, Writing
<1> HIDE DEF f
<1>4. Moves("render")
  BY TopsMoves, TheThreads DEF Stored
<1>5. UNCHANGED <<buffer, redraw, shown, short>>
  BY DEF Stored, MemoryUnchanged
<1>6. thread'["ui"] = thread["ui"] /\ thread'["render"].at \notin Writing
  BY <1>4, TheThreads DEF Moves
<1>7. Parts'
  BY <1>1, <1>2, <1>4, <1>5 DEF BufferOK, PanelOK, CardOK, Moves
<1>8. Drawing' /\ UpToDate'
  BY <1>5, <1>6 DEF Drawing, UpToDate, InHand
<1>9. NoPhotoTwice'
  BY <1>1, <1>2, <1>3 DEF NoPhotoTwice
<1>10. StoreFresh'
  BY <1>6 DEF StoreFresh, Writing
<1>11. QED
  BY <1>7, <1>8, <1>9, <1>10

LEMMA SyncKeeps ==
  ASSUME IInv, Sync
  PROVE  IInv'
<1> USE DEF IInv, Parts
<1>1. CASE buffer = <<>>
  <2>1. shown' = Screen /\ UNCHANGED <<buffer, redraw, card, short, thread>>
    BY <1>1 DEF Sync, CardUnchanged
  <2>2. Parts'
    BY <2>1 DEF BufferOK, PanelOK, CardOK, ThreadsOK, Handed
  <2>3. redraw # "done"
    BY <1>1 DEF UpToDate
  <2>4. QED
    BY <2>1, <2>2, <2>3 DEF Drawing, UpToDate, StoreFresh, NoPhotoTwice, InHand
<1>2. CASE buffer # <<>>
  <2> DEFINE f == [seq |-> 0, photo |-> Head(buffer).photo]
  <2>1. Head(buffer) \in Images
    BY <1>2, HeadTailProperties DEF BufferOK
  <2>2. f \in Names
    BY <2>1, SizesAssumption DEF Images, Names
  <2>3. Goes("ui", At("draw", {}, {f}, "idle")) /\ redraw' = "drawing"
    BY <1>2 DEF Sync
  <2>4. UNCHANGED <<buffer, shown, card, short>>
    BY <1>2 DEF Sync, CardUnchanged
  <2>5. f.photo = Head(buffer).photo
    OBVIOUS
  <2> HIDE DEF f
  <2>6. "draw" \in Places /\ {f} \in {{}} \cup {{g} : g \in Names} /\ {f} # {}
    BY <2>2 DEF Places
  <2>7. /\ ThreadsOK' /\ Handed' /\ thread'["ui"] = At("draw", {}, {f}, "idle")
        /\ \A u \in Threads \ {"ui"} : thread'[u] = thread[u]
    BY <2>3, <2>6, TheThreads, GoesTyped
  <2>8. Parts'
    BY <2>3, <2>4, <2>7 DEF BufferOK, PanelOK, CardOK
  <2>9. thread'["ui"].at = "draw" /\ InHand("ui")' = f
    BY <2>7 DEF At, InHand
  <2>10. Drawing' /\ UpToDate'
    BY <1>2, <2>3, <2>4, <2>5, <2>9 DEF Drawing, UpToDate
  <2>11. thread'["render"] = thread["render"]
    BY <2>7, TheThreads
  <2>12. StoreFresh' /\ NoPhotoTwice'
    BY <2>4, <2>11 DEF StoreFresh, NoPhotoTwice
  <2>13. QED
    BY <2>8, <2>10, <2>12
<1>3. QED
  BY <1>1, <1>2

LEMMA DrawKeeps ==
  ASSUME IInv, Draw
  PROVE  IInv'
<1> USE DEF IInv, Parts
<1>1. thread["ui"].at = "draw" /\ shown' = InHand("ui").photo /\ Goes("ui", Idle)
  BY DEF Draw, Place
<1>2. redraw' = IF redraw = "drawing" THEN "done" ELSE redraw
  BY DEF Draw
<1>3. UNCHANGED <<buffer, card, short>>
  BY DEF Draw, CardUnchanged
<1>4. /\ ThreadsOK' /\ Handed' /\ thread'["ui"] = Idle
      /\ \A u \in Threads \ {"ui"} : thread'[u] = thread[u]
  <2>1. Goes("ui", At("idle", {}, {}, "idle")) /\ "idle" \in Places
    BY <1>1, IdleState
  <2>2. /\ ThreadsOK' /\ Handed' /\ thread'["ui"] = At("idle", {}, {}, "idle")
        /\ \A u \in Threads \ {"ui"} : thread'[u] = thread[u]
    BY <2>1, TheThreads, GoesTyped DEF Handling, Writing
  <2>3. QED
    BY <2>2, IdleState
<1>5. InHand("ui") \in Names
  BY <1>1, TheThreads, HandFile DEF Handling
<1>6. Parts'
  BY <1>1, <1>2, <1>3, <1>4, <1>5 DEF BufferOK, PanelOK, CardOK, Names
<1>7. /\ redraw = "drawing" => buffer # <<>> /\ InHand("ui").photo = Head(buffer).photo
      /\ redraw # "done"
  BY <1>1 DEF Drawing
<1>8. Drawing' /\ UpToDate'
  <2>1. redraw' # "drawing" /\ (redraw' = "done" => redraw = "drawing")
    BY <1>2, <1>7
  <2>2. thread'["ui"].at # "draw"
    BY <1>4 DEF Idle, At
  <2>3. QED
    BY <1>1, <1>3, <1>7, <2>1, <2>2 DEF Drawing, UpToDate
<1>9. thread'["render"] = thread["render"]
  BY <1>4, TheThreads
<1>10. StoreFresh' /\ NoPhotoTwice'
  BY <1>3, <1>9 DEF StoreFresh, NoPhotoTwice
<1>11. QED
  BY <1>6, <1>8, <1>10

LEMMA AtRest ==
  ASSUME thread = [t \in Threads |-> Idle]
  PROVE  /\ ThreadsOK /\ Handed /\ StoreFresh
         /\ thread["ui"].at # "draw"
<1>1. Idle \in ThreadStates /\ Idle.at = "idle"
  BY DEF Idle, At, ThreadStates, Places
<1>2. QED
  BY <1>1, TheThreads DEF ThreadsOK, Handed, StoreFresh, Handling, Writing

LEMMA PowerCutKeeps ==
  ASSUME IInv, PowerCut
  PROVE  IInv'
<1> USE DEF IInv, Parts
<1>1. thread' = [t \in Threads |-> Idle] /\ card' = card
  BY DEF PowerCut
<1>2. Idle \in ThreadStates /\ Idle.at = "idle"
  BY DEF Idle, At, ThreadStates, Places
<1>3. ThreadsOK' /\ Handed' /\ StoreFresh' /\ thread'["ui"].at # "draw"
  BY <1>1, <1>2, TheThreads DEF ThreadsOK, Handed, StoreFresh, Handling, Writing
<1>4. buffer' = <<>> /\ redraw' = "due" /\ shown' = Screen
  BY DEF PowerCut
<1>5. CardOK'
  BY <1>1 DEF PowerCut, CardOK
<1>6. BufferOK' /\ PanelOK'
  BY <1>4, SizesAssumption DEF BufferOK, PanelOK
<1>7. Drawing' /\ UpToDate' /\ NoPhotoTwice'
  BY <1>1, <1>3, <1>4 DEF Drawing, UpToDate, NoPhotoTwice
<1>8. QED
  BY <1>3, <1>5, <1>6, <1>7

LEMMA InitKeeps == Init => IInv
<1> SUFFICES ASSUME Init PROVE IInv
  OBVIOUS
<1>1. ThreadsOK /\ Handed /\ StoreFresh /\ thread["ui"].at # "draw"
  BY AtRest DEF Init
<1>2. BufferOK /\ PanelOK /\ CardOK
  BY SizesAssumption DEF Init, BufferOK, PanelOK, CardOK
<1>3. Drawing /\ UpToDate /\ NoPhotoTwice
  BY <1>1 DEF Init, Drawing, UpToDate, NoPhotoTwice
<1>4. QED
  BY <1>1, <1>2, <1>3 DEF IInv, Parts

LEMMA StutterKeeps == IInv /\ UNCHANGED vars => IInv'
  BY DEF IInv, Parts, BufferOK, PanelOK, CardOK, ThreadsOK, Handed, Drawing,
         UpToDate, StoreFresh, NoPhotoTwice, InHand, vars

\* The steps that are not ordinary.
Written == (\E p \in Photos : Store(p)) \/ HasRoom \/ Numbers \/ Stored
Shown   == Sync \/ Draw \/ PowerCut

LEMMA NextIsOne ==
  ASSUME IInv, Next
  PROVE  (\E t \in Threads : Ordinary(t)) \/ Written \/ Shown
<1>1. CASE \E t \in Threads : TopUp(t)
  BY <1>1, TopUpOrdinary
<1>2. CASE \E p \in Photos : Arrives(p)
  BY <1>2, ArrivesOrdinary, TheThreads DEF Arrives, Written
<1>3. CASE Stores
  BY <1>3, NoRoomOrdinary, TheThreads DEF Stores, Written
<1>4. CASE ReloadUi \/ Rotate \/ RotateAdvances
  BY <1>4, ReloadOrdinary, UiOrdinary, TheThreads
<1>5. CASE \E t \in Helpers : Tap(t) \/ Report(t)
  BY <1>5, HelperOrdinary, TheThreads
<1>6. CASE Sync \/ Draw \/ PowerCut
  BY <1>6 DEF Shown
<1>7. QED
  BY <1>1, <1>2, <1>3, <1>4, <1>5, <1>6 DEF Next

LEMMA StepKeeps == IInv /\ [Next]_vars => IInv'
<1> SUFFICES ASSUME IInv, [Next]_vars PROVE IInv'
  OBVIOUS
<1>1. CASE \E t \in Threads : Ordinary(t)
  BY <1>1, OrdinaryKeeps
<1>2. CASE Written
  BY <1>2, StoreKeeps, HasRoomKeeps, NumbersKeeps, StoredKeeps DEF Written
<1>3. CASE Shown
  BY <1>3, SyncKeeps, DrawKeeps, PowerCutKeeps DEF Shown
<1>4. CASE UNCHANGED vars
  BY <1>4, StutterKeeps
<1>5. QED
  BY <1>1, <1>2, <1>3, <1>4, NextIsOne

-----------------------------------------------------------------------------
(* The theorems.                                                           *)

LEMMA Invariant == Spec => []IInv
  BY InitKeeps, StepKeeps, PTL DEF Spec

\* Memory stays within BUFFER_CAPACITY, the card holds named files, and every
\* thread has in its hand what its next step uses.
THEOREM TypeCorrect == Spec => []TypeOK
<1>1. IInv => TypeOK
  BY TypeParts DEF IInv
<1>2. QED
  BY Invariant, <1>1, PTL

\* What the UI takes for shown is shown: no change to the buffer during a
\* drawing is lost (ui.rs:50).
THEOREM PanelIsUpToDate == Spec => []UpToDate
<1>1. IInv => UpToDate
  BY DEF IInv
<1>2. QED
  BY Invariant, <1>1, PTL

\* store's look at the card stands until the file is written: only the render
\* thread writes, and the others only remove (photo_cache.rs:126).
THEOREM NoPhotoIsTwice == Spec => []NoPhotoTwice
<1>1. IInv => NoPhotoTwice
  BY DEF IInv
<1>2. QED
  BY Invariant, <1>1, PTL

LEMMA CardGrowsAtItsEnd ==
  ASSUME IInv, Next
  PROVE  \A f \in card' \ card : \A g \in card : f.seq > g.seq
<1>1. CASE \E t \in Threads : Ordinary(t)
  BY <1>1 DEF Ordinary, OnCard
<1>2. CASE Stored
  BY <1>2 DEF Stored, Place, IInv, StoreFresh
<1>3. CASE (\E p \in Photos : Store(p)) \/ HasRoom \/ Numbers
  BY <1>3 DEF Store, HasRoom, Numbers, CardUnchanged
<1>4. CASE Shown
  BY <1>4 DEF Shown, Sync, Draw, PowerCut, CardUnchanged
<1>5. QED
  BY <1>1, <1>2, <1>3, <1>4, NextIsOne DEF Written

\* A file is written beyond all those on the card, whatever is removed between
\* the choice of its order prefix and the writing (photo_cache.rs:80).
THEOREM FilesArriveLast == Spec => ArrivesLast
<1> DEFINE Beyond == \A f \in card' \ card : \A g \in card : f.seq > g.seq
<1>1. IInv /\ [Next]_vars => [Beyond]_vars
  BY CardGrowsAtItsEnd
<1>2. QED
  BY Invariant, <1>1, PTL DEF Spec, ArrivesLast

\* Pushing is what puts spares in memory: in the card's hands or the controller's.
LEMMA PushKeepsPicture ==
  ASSUME Parts, buffer # <<>>,
         (\E p \in Photos : StoreFails(p)) \/ \E t \in Threads : PushTaken(t)
  PROVE  Head(buffer') = Head(buffer)
<1> USE DEF Parts
<1>1. ASSUME NEW p \in Photos, StoreFails(p) PROVE Head(buffer') = Head(buffer)
  <2>1. Image(p, TRUE) \in Images
    BY DEF Image, Images
  <2>2. QED
    BY <1>1, <2>1, PushTyped DEF StoreFails
<1>2. ASSUME NEW t \in Threads, PushTaken(t) PROVE Head(buffer') = Head(buffer)
  <2>1. InHand(t) \in Names
    BY <1>2, HandFile DEF PushTaken, Place, Handling
  <2>2. Image(InHand(t).photo, FALSE) \in Images
    BY <2>1 DEF Names, Image, Images
  <2>3. QED
    BY <1>2, <2>2, PushTyped DEF PushTaken
<1>3. QED
  BY <1>1, <1>2

\* Full or not, memory makes room for a spare behind the picture on screen, by
\* dropping the last: two are the least it holds (rendered_image.rs:184).
THEOREM SparesWait == Spec => SpareWaits
<1> DEFINE Waits ==
      buffer # <<>> /\ ((\E p \in Photos : StoreFails(p)) \/ \E t \in Threads : PushTaken(t))
        => Head(buffer') = Head(buffer)
<1>1. IInv /\ [Next]_vars => [Waits]_vars
  BY PushKeepsPicture DEF IInv
<1>2. QED
  BY Invariant, <1>1, PTL DEF Spec, SpareWaits

LEMMA ShowLeavesOne ==
  ASSUME BufferOK, NEW p \in Photos, Show(p), buffer # <<>>
  PROVE  buffer' # <<>>
<1>1. CASE UNCHANGED <<buffer, redraw>>
  BY <1>1
<1>2. CASE buffer' = <<Image(p, TRUE)>> \o Trimmed(buffer)
  <2> DEFINE b == Trimmed(buffer)  i == Image(p, TRUE)
  <2>1. b \in Seq(Images) /\ i \in Images /\ buffer' = <<i>> \o b
    BY <1>2, TrimmedTyped DEF BufferOK, Image, Images
  <2> HIDE DEF b, i
  <2>2. <<i>> \in Seq(Images) /\ Len(<<i>>) = 1
    BY <2>1
  <2>3. Len(buffer') = 1 + Len(b) /\ Len(b) \in Nat
    BY <2>1, <2>2, ConcatProperties
  <2>4. QED
    BY <2>3
<1>3. QED
  BY <1>1, <1>2 DEF Show

LEMMA AdvanceLeavesOne ==
  ASSUME BufferOK, Advance, buffer # <<>>
  PROVE  buffer' # <<>>
<1>1. CASE UNCHANGED <<buffer, redraw>>
  BY <1>1
<1>2. CASE Len(buffer) >= 2 /\ buffer' = Tail(buffer)
  <2>1. Len(Tail(buffer)) = Len(buffer) - 1 /\ Len(buffer) \in Nat
    BY HeadTailProperties DEF BufferOK
  <2>2. Len(buffer') >= 1
    BY <1>2, <2>1
  <2>3. QED
    BY <2>2
<1>3. QED
  BY <1>1, <1>2 DEF Advance

\* No step but a reload or a power cut takes the last picture.
LEMMA OneIsLeft ==
  ASSUME Parts, Next, buffer # <<>>, buffer' = <<>>
  PROVE  ReloadUi \/ PowerCut
<1> USE DEF Parts
<1>1. ASSUME NEW t \in Threads, TopUp(t) PROVE FALSE
  <2>1. CASE PushTaken(t)
    <3>1. InHand(t) \in Names
      BY <2>1, HandFile DEF PushTaken, Place, Handling
    <3>2. Image(InHand(t).photo, FALSE) \in Images
      BY <3>1 DEF Names, Image, Images
    <3>3. QED
      BY <2>1, <3>2, PushTyped DEF PushTaken
  <2>2. CASE Check(t) \/ NothingCached(t) \/ Look(t) \/ Drop(t) \/ Remove(t)
    BY <2>2 DEF Check, NothingCached, Look, Drop, Remove, MemoryUnchanged
  <2>3. QED
    BY <1>1, <2>1, <2>2 DEF TopUp
<1>2. ASSUME NEW p \in Photos, Arrives(p) PROVE FALSE
  <2>1. CASE ShowArrives(p)
    BY <2>1, ShowLeavesOne DEF ShowArrives
  <2>2. CASE StoreFails(p)
    <3>1. Image(p, TRUE) \in Images
      BY DEF Image, Images
    <3>2. QED
      BY <2>2, <3>1, PushTyped DEF StoreFails
  <2>3. CASE AlreadyStored(p) \/ Store(p)
    BY <2>3 DEF AlreadyStored, Store, MemoryUnchanged
  <2>4. QED
    BY <1>2, <2>1, <2>2, <2>3 DEF Arrives
<1>3. CASE RotateAdvances \/ \E t \in Helpers : Tap(t)
  BY <1>3, AdvanceLeavesOne DEF RotateAdvances, Tap
<1>4. CASE Stores \/ Sync \/ Draw \/ Rotate \/ \E t \in Helpers : Report(t)
  BY <1>4 DEF Stores, NoRoom, HasRoom, Numbers, Stored, Sync, Draw, Rotate, Report, MemoryUnchanged
<1>5. QED
  BY <1>1, <1>2, <1>3, <1>4 DEF Next

\* Whatever threads advance, top up and push at once, a frame with a picture
\* keeps one until it is told to reload or loses power (main.rs:590).
THEOREM PictureStays == Spec => NeverRunsDry
<1> DEFINE Stays == buffer # <<>> /\ buffer' = <<>> => ReloadUi \/ PowerCut
<1>1. IInv /\ [Next]_vars => [Stays]_vars
  BY OneIsLeft DEF IInv
<1>2. QED
  BY Invariant, <1>1, PTL DEF Spec, NeverRunsDry
=============================================================================
