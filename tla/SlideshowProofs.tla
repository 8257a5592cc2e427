-------------------------- MODULE SlideshowProofs --------------------------
(***************************************************************************)
(* Slideshow implements PhotoFeed, and a new connection is not forgotten,  *)
(* for any pool, any number of tasks and any length of history.            *)
(***************************************************************************)
EXTENDS Slideshow, FiniteSetTheorems, SequenceTheorems, TLAPS

LEMMA SomePhotos == N \in Nat \ {0}
  BY PhotosAssumption, FS_CardinalityType, FS_EmptySet DEF N

LEMMA OrderIsSequence ==
  ASSUME NEW o \in Orders
  PROVE  o \in Seq(Photos) /\ Len(o) = N
  BY SomePhotos DEF Orders

LEMMA LatestTyped ==
  ASSUME NEW s \in Seq(Photos)
  PROVE  /\ Latest(s) \in Seq(Photos) /\ Len(Latest(s)) <= History
         /\ s # <<>> => Latest(s) # <<>>
<1> USE NumbersAssumption
<1>1. CASE Len(s) <= History
  BY <1>1 DEF Latest
<1>2. CASE Len(s) > History
  <2>1. /\ Len(s) - History + 1 \in 1..Len(s)
    BY <1>2
  <2>2. \A i \in (Len(s) - History + 1)..Len(s) : s[i] \in Photos
    BY <2>1
  <2>3. /\ SubSeq(s, Len(s) - History + 1, Len(s)) \in Seq(Photos)
        /\ Len(SubSeq(s, Len(s) - History + 1, Len(s))) = History
    BY <2>1, <2>2, SubSeqProperties
  <2>4. Latest(s) = SubSeq(s, Len(s) - History + 1, Len(s))
    BY <1>2 DEF Latest
  <2>5. Latest(s) \in Seq(Photos) /\ Len(Latest(s)) = History
    BY <2>3, <2>4
  <2>6. Latest(s) # <<>>
    BY <2>5
  <2>7. QED
    BY <2>5, <2>6
<1>3. QED
  BY <1>1, <1>2

PoolOK == order \in Orders \cup {<<>>} /\ cursor \in 0..Len(order)
TasksOK == task \in [Tasks -> TaskStates]

\* A turn of any task's loop leaves the pool and the tasks well formed.
LEMMA BeginTyped ==
  ASSUME PoolOK, TasksOK, NEW t \in Tasks, NEW k \in Kinds,
         NEW n \in 0..(MaxAttempts + BufferTarget + MaxPerRequest), Begin(t, k, n)
  PROVE  PoolOK' /\ TasksOK'
<1>1. PICK p \in Photos : Advance(p) /\ task' = [task EXCEPT ![t] = Busy(k, n, p)]
  BY DEF Begin
<1>2. Busy(k, n, p) \in TaskStates
  BY DEF Busy, TaskStates
<1>3. TasksOK'
  BY <1>1, <1>2 DEF TasksOK
<1>4. order' \in Orders /\ cursor' \in 1..N
  <2>1. order \in Orders /\ Len(order) = N
    BY <1>1, OrderIsSequence DEF PoolOK, Advance
  <2>2. QED
    BY <1>1, <2>1, SomePhotos DEF PoolOK, Advance
<1>5. PoolOK'
  BY <1>4, OrderIsSequence, SomePhotos DEF PoolOK
<1>6. QED
  BY <1>3, <1>5

LEMMA IdleTyped ==
  ASSUME PoolOK, TasksOK, NEW t \in Tasks, Finish(t)
  PROVE  PoolOK' /\ TasksOK'
<1>1. TasksOK'
  BY DEF Finish, TasksOK, TaskStates
<1>2. QED
  BY <1>1 DEF Finish, PoolOK, pool

LEMMA BusyFields ==
  ASSUME TasksOK, NEW t \in Tasks, task[t] # Idle
  PROVE  /\ task[t].kind \in Kinds /\ task[t].photo \in Photos
         /\ task[t].left \in 0..(MaxAttempts + BufferTarget + MaxPerRequest)
  BY DEF TasksOK, TaskStates

LEMMA ContinueTyped ==
  ASSUME PoolOK, TasksOK, NEW t \in Tasks, task[t] # Idle, Continue(t)
  PROVE  PoolOK' /\ TasksOK'
<1>1. /\ task[t].kind \in Kinds
      /\ task[t].left \in 0..(MaxAttempts + BufferTarget + MaxPerRequest)
  BY BusyFields
<1>2. CASE ~Over(t)
  <2>1. task[t].left - 1 \in 0..(MaxAttempts + BufferTarget + MaxPerRequest)
    BY <1>1, <1>2, NumbersAssumption DEF Over
  <2>2. QED
    BY <1>1, <1>2, <2>1, BeginTyped DEF Continue
<1>3. CASE Over(t)
  BY <1>3, IdleTyped DEF Continue
<1>4. QED
  BY <1>2, <1>3

SessionOK ==
  /\ sent \in Seq(Photos) /\ Len(sent) <= History
  /\ wire \in Seq(Photos) /\ Len(wire) <= History

\* A photo handed to send_render, delivered or not.
LEMMA SendTyped ==
  ASSUME SessionOK, NEW p \in Photos, SendRender(p)
  PROVE  SessionOK' /\ (sent # <<>> => sent' # <<>>) /\ (link = "open" => sent' # <<>>)
<1>1. /\ Append(sent, p) \in Seq(Photos) /\ Append(sent, p) # <<>>
      /\ Append(wire, p) \in Seq(Photos)
  BY AppendProperties DEF SessionOK
<1>2. /\ Latest(Append(sent, p)) \in Seq(Photos) /\ Len(Latest(Append(sent, p))) <= History
      /\ Latest(Append(sent, p)) # <<>>
      /\ Latest(Append(wire, p)) \in Seq(Photos) /\ Len(Latest(Append(wire, p))) <= History
  BY <1>1, LatestTyped
<1>3. SessionOK' /\ (sent # <<>> => sent' # <<>>)
  BY <1>2 DEF SendRender, SessionOK, Recorded
<1>4. p \in Range(sent) => sent # <<>>
  BY DEF Range
<1>5. QED
  BY <1>2, <1>3, <1>4 DEF SendRender, Recorded

FlagsOK ==
  /\ link \in {"none", "open", "closed"} /\ pushed \in BOOLEAN /\ hungry \in BOOLEAN
  /\ troubles \in 0..MaxTroubles

LEMMA TroubleTyped == FlagsOK /\ Trouble => troubles' \in 0..MaxTroubles
  BY NumbersAssumption DEF FlagsOK, Trouble

LEMMA AttemptsTyped == Attempts - 1 \in 0..(MaxAttempts + BufferTarget + MaxPerRequest)
  BY SomePhotos, NumbersAssumption DEF Attempts, Least

LEMMA PushFirstTyped ==
  ASSUME PoolOK, TasksOK, PushFirst
  PROVE  PoolOK' /\ TasksOK' /\ pushed' \in BOOLEAN /\ hungry' \in BOOLEAN
<1>1. pushed' \in BOOLEAN /\ hungry' \in BOOLEAN
  BY DEF PushFirst
<1>2. CASE order = <<>>
  BY <1>1, <1>2 DEF PushFirst, PoolOK, TasksOK, pool
<1>3. CASE order # <<>>
  <2>1. PICK t \in Tasks : Begin(t, "next", Attempts - 1)
    BY <1>3 DEF PushFirst
  <2>2. QED
    BY <1>1, <2>1, BeginTyped, AttemptsTyped DEF Kinds
<1>4. QED
  BY <1>2, <1>3

-----------------------------------------------------------------------------
(* The type invariant.                                                     *)

Parts == PoolOK /\ TasksOK /\ SessionOK /\ FlagsOK

LEMMA TypeParts == TypeOK <=> Parts
  BY DEF TypeOK, Parts, PoolOK, TasksOK, SessionOK, FlagsOK

\* The task of a photo that arrives goes on with a top-up, its next turn, or nothing.
LEMMA PreparedTasks ==
  ASSUME PoolOK, TasksOK, NEW t \in Tasks, Prepared(t)
  PROVE  PoolOK' /\ TasksOK'
<1>1. task[t] # Idle
  BY DEF Prepared
<1>2. CASE Continue(t)
  BY <1>1, <1>2, ContinueTyped
<1>3. CASE Finish(t)
  BY <1>3, IdleTyped
<1>4. CASE BufferTarget > 1 /\ Begin(t, "topup", BufferTarget - 2)
  <2>1. BufferTarget - 2 \in 0..(MaxAttempts + BufferTarget + MaxPerRequest)
    BY <1>4, NumbersAssumption
  <2>2. QED
    BY <1>4, <2>1, BeginTyped DEF Kinds
<1>5. QED
  BY <1>2, <1>3, <1>4 DEF Prepared, Skip

LEMMA TaskStepTyped ==
  ASSUME Parts, NEW t \in Tasks, Step(t)
  PROVE  Parts'
<1> USE DEF Parts
<1>1. CASE StartNext(t)
  BY <1>1, BeginTyped, AttemptsTyped DEF StartNext, Kinds, SessionOK, FlagsOK
<1>2. CASE StartFill(t)
  <2>1. PICK wanted \in 1..MaxPerRequest : Begin(t, "fill", wanted - 1)
    BY <1>2 DEF StartFill
  <2>2. wanted - 1 \in 0..(MaxAttempts + BufferTarget + MaxPerRequest)
    BY NumbersAssumption
  <2>3. PoolOK' /\ TasksOK'
    BY <2>1, <2>2, BeginTyped DEF Kinds
  <2>4. QED
    BY <1>2, <2>3 DEF StartFill, SessionOK, FlagsOK
<1>3. CASE StartPrevious(t)
  <2>1. PICK p \in Photos : StepBack(p) /\ task' = [task EXCEPT ![t] = Busy("previous", 0, p)]
    BY <1>3 DEF StartPrevious
  <2>2. Busy("previous", 0, p) \in TaskStates
    BY NumbersAssumption DEF Busy, TaskStates, Kinds
  <2>3. TasksOK'
    BY <2>1, <2>2 DEF TasksOK
  <2>4. order \in Orders /\ Len(order) = N /\ order' = order
    BY <2>1, OrderIsSequence DEF PoolOK, StepBack
  <2>5. cursor' \in 0..N
    BY <2>1, <2>4, SomePhotos DEF PoolOK, StepBack
  <2>6. PoolOK'
    BY <2>4, <2>5 DEF PoolOK
  <2>7. QED
    BY <1>3, <2>3, <2>6, TroubleTyped DEF StartPrevious, SessionOK, FlagsOK
<1>4. CASE NotPrepared(t)
  <2>1. PoolOK' /\ TasksOK'
    BY <1>4, ContinueTyped DEF NotPrepared, Skip
  <2>2. QED
    BY <1>4, <2>1, TroubleTyped DEF NotPrepared, Skip, NoSend, SessionOK, FlagsOK
<1>5. CASE NoUrl(t)
  <2>1. PoolOK' /\ TasksOK'
    BY <1>5, ContinueTyped, IdleTyped DEF NoUrl, Skip
  <2>2. QED
    BY <1>5, <2>1, TroubleTyped DEF NoUrl, Skip, NoSend, SessionOK, FlagsOK
<1>6. CASE Raises(t)
  <2>1. PoolOK' /\ TasksOK'
    BY <1>6, IdleTyped DEF Raises
  <2>2. hungry' \in BOOLEAN
    BY <1>6 DEF Raises
  <2>3. QED
    BY <1>6, <2>1, <2>2, TroubleTyped DEF Raises, NoSend, SessionOK, FlagsOK
<1>7. CASE Prepared(t)
  <2>1. task[t].photo \in Photos
    BY <1>7, BusyFields DEF Prepared
  <2>2. SessionOK'
    BY <1>7, <2>1, SendTyped DEF Prepared
  <2>3. FlagsOK'
    BY <1>7 DEF Prepared, Skip, FlagsOK
  <2>4. QED
    BY <1>7, <2>2, <2>3, PreparedTasks
<1>8. QED
  BY <1>1, <1>2, <1>3, <1>4, <1>5, <1>6, <1>7 DEF Step

LEMMA TypeStep == TypeOK /\ [Next]_vars => TypeOK'
<1> SUFFICES ASSUME Parts, [Next]_vars PROVE Parts'
  BY DEF TypeOK, Parts, PoolOK, TasksOK, SessionOK, FlagsOK
<1>1. CASE UNCHANGED vars
  BY <1>1 DEF vars, Parts, PoolOK, TasksOK, SessionOK, FlagsOK
<1>2. ASSUME NEW t \in Tasks, Step(t) PROVE Parts'
  BY <1>2, TaskStepTyped
<1>3. CASE Refresh
  <2>1. PoolOK'
    BY <1>3, OrderIsSequence, SomePhotos DEF Refresh, PoolOK
  <2>2. QED
    BY <1>3, <2>1, TroubleTyped DEF Refresh, Parts, TasksOK, SessionOK, FlagsOK
<1>4. CASE Connect
  BY <1>4, PushFirstTyped, NumbersAssumption DEF Connect, Parts, SessionOK, FlagsOK
<1>5. CASE SetUp
  BY <1>5, PushFirstTyped DEF SetUp, Parts, SessionOK, FlagsOK
<1>6. CASE Disconnect
  BY <1>6, TroubleTyped DEF Disconnect, Parts, PoolOK, TasksOK, SessionOK, FlagsOK
<1>7. CASE Empties
  <2>1. PoolOK'
    BY <1>7 DEF Empties, PoolOK
  <2>2. QED
    BY <1>7, <2>1, TroubleTyped DEF Empties, Parts, TasksOK, SessionOK, FlagsOK
<1>8. QED
  BY <1>1, <1>2, <1>3, <1>4, <1>5, <1>6, <1>7 DEF Next

LEMMA TypeInit == Init => TypeOK
<1> SUFFICES ASSUME Init PROVE Parts
  BY TypeParts
<1>1. PoolOK
  BY OrderIsSequence, SomePhotos DEF Init, PoolOK
<1>2. TasksOK
  BY DEF Init, TasksOK, TaskStates
<1>3. SessionOK
  <2>1. <<>> \in Seq(Photos) /\ Len(<<>>) <= History
    BY NumbersAssumption
  <2>2. QED
    BY <2>1 DEF Init, SessionOK
<1>4. FlagsOK
  <2>1. link \in {"none", "open"} /\ pushed \in BOOLEAN /\ hungry \in BOOLEAN /\ troubles = 0
    BY DEF Init
  <2>2. 0 \in 0..MaxTroubles
    BY NumbersAssumption
  <2>3. QED
    BY <2>1, <2>2 DEF FlagsOK
<1>5. QED
  BY <1>1, <1>2, <1>3, <1>4 DEF Parts

\* Every variable keeps its type: the histories never outgrow SENT_HISTORY.
THEOREM TypeCorrect == Spec => []TypeOK
  BY TypeInit, TypeStep, PTL DEF Spec

-----------------------------------------------------------------------------
(* The refinement.                                                         *)

\* While its socket is open, the session remembers exactly what was written to it.
Remembers == link = "open" => wire = sent

LEMMA RemembersStep == TypeOK /\ Remembers /\ [Next]_vars => Remembers'
<1> SUFFICES ASSUME TypeOK, Remembers, [Next]_vars PROVE Remembers'
  OBVIOUS
<1> USE DEF Remembers
<1>1. ASSUME NEW t \in Tasks, Prepared(t) PROVE Remembers'
  BY <1>1 DEF Prepared, SendRender, Delivers, Recorded
<1>2. CASE Connect
  BY <1>2 DEF Connect
<1>3. CASE Disconnect
  BY <1>3 DEF Disconnect
<1>4. CASE UNCHANGED <<link, sent, wire>>
  BY <1>4
<1>5. QED
  BY <1>1, <1>2, <1>3, <1>4
  DEF Next, Step, StartNext, StartFill, StartPrevious, NotPrepared, NoUrl, Raises, NoSend, Refresh,
      Empties, SetUp, vars

LEMMA FeedStep == TypeOK /\ Remembers /\ [Next]_vars => [Feed!Next]_wire
<1> SUFFICES ASSUME TypeOK, Remembers, [Next]_vars PROVE [Feed!Next]_wire
  OBVIOUS
<1>1. ASSUME NEW t \in Tasks, Prepared(t) PROVE [Feed!Next]_wire
  <2>1. task[t].photo \in Photos
    BY <1>1, TypeParts, BusyFields DEF Prepared, Parts
  <2>2. CASE Delivers(task[t].photo)
    <3>1. wire = sent /\ task[t].photo \notin Range(sent)
      BY <2>2 DEF Delivers, Remembers
    <3>2. wire' = Latest(Append(wire, task[t].photo))
      BY <1>1, <2>2 DEF Prepared, SendRender
    <3>3. Feed!Send(task[t].photo)
      BY <3>1, <3>2 DEF Feed!Send, Latest, Feed!Latest, Range, Feed!Range
    <3>4. QED
      BY <2>1, <3>3 DEF Feed!Next
  <2>3. CASE ~Delivers(task[t].photo)
    BY <1>1, <2>3 DEF Prepared, SendRender
  <2>4. QED
    BY <2>2, <2>3
<1>2. CASE Connect
  BY <1>2 DEF Connect, Feed!Next, Feed!Reconnect
<1>3. CASE UNCHANGED wire
  BY <1>3
<1>4. QED
  BY <1>1, <1>2, <1>3
  DEF Next, Step, StartNext, StartFill, StartPrevious, NotPrepared, NoUrl, Raises, NoSend, Refresh,
      Empties, SetUp, Disconnect, vars

\* Whatever the tasks do, on one connection no photo is sent again while it is
\* among the last SENT_HISTORY sent.
THEOREM ImplementsPhotoFeed == Spec => FeedSpec
<1>1. Init => Remembers /\ Feed!Init
  BY DEF Init, Remembers, Feed!Init
<1>2. Spec => [](TypeOK /\ Remembers)
  BY <1>1, TypeInit, TypeStep, RemembersStep, PTL DEF Spec
<1>3. Spec => Feed!Init /\ [][Feed!Next]_wire
  BY <1>1, <1>2, FeedStep, PTL DEF Spec
<1>4. QED
  BY <1>3 DEF FeedSpec, Feed!Spec

\* A photo that is not among those sent can be sent, and the oldest forgotten,
\* without a repetition.
LEMMA AppendKeepsDistinct ==
  ASSUME NEW s \in Seq(Photos), IsInjective(s), NEW p \in Photos, p \notin Range(s)
  PROVE  IsInjective(Append(s, p))
<1> DEFINE a == Append(s, p)
<1>1. /\ a \in Seq(Photos) /\ Len(a) = Len(s) + 1 /\ a[Len(s) + 1] = p
      /\ \A i \in 1..Len(s) : a[i] = s[i]
  BY AppendProperties
<1>2. DOMAIN s = 1..Len(s) /\ DOMAIN a = 1..Len(a) /\ Len(s) \in Nat
  BY <1>1
<1> HIDE DEF a
<1>3. \A i \in DOMAIN a : i = Len(s) + 1 \/ i \in DOMAIN s
  BY <1>1, <1>2
<1>4. \A i \in DOMAIN s : a[i] = s[i] /\ s[i] # p
  BY <1>1, <1>2 DEF Range
<1>5. \A i, j \in DOMAIN a : a[i] = a[j] => i = j
  BY <1>1, <1>3, <1>4 DEF IsInjective
<1>6. QED
  BY <1>5 DEF IsInjective, a

LEMMA LatestKeepsDistinct ==
  ASSUME NEW s \in Seq(Photos), IsInjective(s)
  PROVE  IsInjective(Latest(s))
<1>1. CASE ~(Len(s) > History)
  BY <1>1 DEF Latest
<1>2. CASE Len(s) > History
  <2> DEFINE m == Len(s) - History + 1
             l == SubSeq(s, m, Len(s))
  <2>1. Len(s) \in Nat /\ m \in 1..Len(s) /\ DOMAIN s = 1..Len(s)
    BY <1>2, NumbersAssumption
  <2>2. /\ DOMAIN l = 1..(Len(s) - m + 1)
        /\ \A i \in 1..(Len(s) - m + 1) : l[i] = s[m + i - 1] /\ m + i - 1 \in DOMAIN s
    BY <2>1
  <2>3. \A i, j \in DOMAIN l : m + i - 1 = m + j - 1 => i = j
    BY <2>1, <2>2
  <2>4. IsInjective(l)
    BY <2>2, <2>3 DEF IsInjective
  <2>5. QED
    BY <1>2, <2>4 DEF Latest
<1>3. QED
  BY <1>1, <1>2

\* Hence the last SENT_HISTORY photos written to a connection are all different.
THEOREM NoRepeatOnAConnection == Spec => []Feed!NoRepeat
<1>1. Init => Remembers /\ Feed!NoRepeat
  BY DEF Init, Remembers, Feed!NoRepeat, Feed!IsInjective
<1>2. TypeOK /\ Remembers /\ Feed!NoRepeat /\ [Next]_vars => Feed!NoRepeat'
  <2> SUFFICES ASSUME TypeOK, Remembers, Feed!NoRepeat, [Next]_vars PROVE Feed!NoRepeat'
    OBVIOUS
  <2>1. [Feed!Next]_wire /\ wire \in Seq(Photos) /\ IsInjective(wire)
    BY FeedStep DEF TypeOK, Feed!NoRepeat, Feed!IsInjective, IsInjective
  <2>2. CASE UNCHANGED wire \/ Feed!Reconnect
    BY <2>2 DEF Feed!Reconnect, Feed!NoRepeat, Feed!IsInjective
  <2>3. ASSUME NEW p \in Photos, Feed!Send(p) PROVE Feed!NoRepeat'
    <3>1. p \notin Range(wire) /\ wire' = Latest(Append(wire, p))
      BY <2>3 DEF Feed!Send, Range, Feed!Range, Latest, Feed!Latest
    <3>2. IsInjective(wire')
      BY <2>1, <3>1, AppendKeepsDistinct, LatestKeepsDistinct, AppendProperties
    <3>3. QED
      BY <3>2 DEF Feed!NoRepeat, Feed!IsInjective, IsInjective
  <2>4. QED
    BY <2>1, <2>2, <2>3 DEF Feed!Next
<1>3. QED
  BY <1>1, <1>2, TypeInit, TypeStep, RemembersStep, PTL DEF Spec

-----------------------------------------------------------------------------
(* The first photo of a connection.                                        *)

Owed == link = "open" /\ pushed /\ sent = <<>> /\ ~hungry
OnItsWay == \E t \in Tasks : task[t] # Idle /\ task[t].kind = "next"

\* A turn taken by a task of kind k leaves that task of kind k; the others stay.
LEMMA OthersStay ==
  ASSUME TasksOK, NEW t \in Tasks, NEW state, task' = [task EXCEPT ![t] = state]
  PROVE  task'[t] = state /\ \A u \in Tasks \ {t} : task'[u] = task[u]
  BY DEF TasksOK

LEMMA BeginIsBusy ==
  ASSUME TasksOK, NEW t \in Tasks, NEW k, NEW n, Begin(t, k, n)
  PROVE  /\ task'[t] # Idle /\ task'[t].kind = k
         /\ \A u \in Tasks \ {t} : task'[u] = task[u]
<1>1. PICK p \in Photos : task' = [task EXCEPT ![t] = Busy(k, n, p)]
  BY DEF Begin
<1>2. task'[t] = Busy(k, n, p) /\ \A u \in Tasks \ {t} : task'[u] = task[u]
  BY <1>1, OthersStay
<1>3. Busy(k, n, p) # Idle
  <2>1. DOMAIN Busy(k, n, p) = {"kind", "left", "photo"} /\ DOMAIN Idle = {"kind"}
    BY DEF Busy, Idle
  <2>2. QED
    BY <2>1
<1>4. QED
  BY <1>2, <1>3 DEF Busy

\* A turn that shows nothing keeps the first push going or marks it failed.
LEMMA SkipKeepsOwing ==
  ASSUME TasksOK, NEW t \in Tasks, task[t] # Idle, Skip(t), OnItsWay, ~hungry'
  PROVE  OnItsWay'
<1>1. PICK u \in Tasks : task[u] # Idle /\ task[u].kind = "next"
  BY DEF OnItsWay
<1>2. CASE u # t
  <2>1. task'[u] = task[u]
    <3>1. CASE Begin(t, task[t].kind, task[t].left - 1)
      BY <1>2, <3>1, BeginIsBusy
    <3>2. CASE Finish(t)
      BY <1>2, <3>2 DEF Finish, TasksOK
    <3>3. QED
      BY <3>1, <3>2 DEF Skip, Continue
  <2>2. QED
    BY <1>1, <2>1 DEF OnItsWay
<1>3. CASE u = t
  <2>1. ~Over(t)
    BY <1>1, <1>3, Zenon DEF Skip
  <2>2. Begin(t, "next", task[t].left - 1)
    BY <1>1, <1>3, <2>1 DEF Skip, Continue
  <2>3. QED
    BY <2>2, BeginIsBusy DEF OnItsWay
<1>4. QED
  BY <1>2, <1>3

\* A task that begins where there was none leaves the first push alone.
LEMMA StartKeepsOwing ==
  ASSUME TasksOK, NEW t \in Tasks, task[t] = Idle, OnItsWay,
         \A u \in Tasks \ {t} : task'[u] = task[u]
  PROVE  OnItsWay'
  BY DEF OnItsWay

LEMMA PushFirstOwes ==
  ASSUME TasksOK, PushFirst, ~hungry'
  PROVE  OnItsWay'
<1>1. order # <<>>
  BY DEF PushFirst
<1>2. PICK t \in Tasks : Begin(t, "next", Attempts - 1)
  BY <1>1 DEF PushFirst
<1>3. QED
  BY <1>2, BeginIsBusy DEF OnItsWay

LEMMA OwedStep ==
  ASSUME TypeOK, Owed => OnItsWay, [Next]_vars, Owed'
  PROVE  OnItsWay'
<1>1. TasksOK /\ SessionOK
  BY TypeParts DEF Parts
<1>2. ASSUME NEW t \in Tasks, StartNext(t) \/ StartFill(t) \/ StartPrevious(t)
      PROVE  OnItsWay'
  <2>1. Owed
    <3>1. UNCHANGED <<link, sent, pushed, hungry>>
      BY <1>2 DEF StartNext, StartFill, StartPrevious
    <3>2. QED
      BY <3>1 DEF Owed
  <2>2. task[t] = Idle
    BY <1>2 DEF StartNext, StartFill, StartPrevious
  <2>3. \A u \in Tasks \ {t} : task'[u] = task[u]
    <3>1. CASE StartNext(t)
      BY <1>1, <3>1, BeginIsBusy DEF StartNext
    <3>2. CASE StartFill(t)
      BY <1>1, <3>2, BeginIsBusy DEF StartFill
    <3>3. CASE StartPrevious(t)
      BY <1>1, <3>3, OthersStay DEF StartPrevious
    <3>4. QED
      BY <1>2, <3>1, <3>2, <3>3
  <2>4. QED
    BY <1>1, <2>1, <2>2, <2>3, StartKeepsOwing
<1>3. ASSUME NEW t \in Tasks, NotPrepared(t) \/ NoUrl(t) \/ Raises(t) PROVE OnItsWay'
  <2>1. CASE Skip(t)
    <3>1. ~hungry' /\ ~hungry /\ Owed
      BY <1>3, <2>1 DEF Owed, NotPrepared, NoUrl, Raises, NoSend, Skip
    <3>2. task[t] # Idle
      BY <1>3 DEF NotPrepared, NoUrl, Raises
    <3>3. QED
      BY <1>1, <2>1, <3>1, <3>2, SkipKeepsOwing
  <2>2. CASE task[t].kind # "next" /\ Finish(t) /\ ~hungry
    <3>1. Owed
      BY <1>3, <2>2 DEF Owed, NotPrepared, NoUrl, Raises, NoSend
    <3>2. PICK u \in Tasks : task[u] # Idle /\ task[u].kind = "next"
      BY <3>1 DEF OnItsWay
    <3>3. task'[u] = task[u]
      BY <1>1, <2>2, <3>2 DEF Finish, TasksOK
    <3>4. QED
      BY <3>2, <3>3 DEF OnItsWay
  <2>3. ~hungry'
    BY DEF Owed
  <2>4. CASE Raises(t)
    <3>1. hungry' = (hungry \/ task[t].kind = "next") /\ Finish(t)
      BY <2>4 DEF Raises
    <3>2. ~hungry /\ task[t].kind # "next"
      BY <2>3, <3>1, Zenon
    <3>3. QED
      BY <2>2, <3>1, <3>2
  <2>5. CASE NotPrepared(t)
    BY <2>1, <2>5 DEF NotPrepared
  <2>6. CASE NoUrl(t)
    <3>1. CASE task[t].kind = "next"
      BY <2>1, <2>6, <3>1 DEF NoUrl
    <3>2. CASE task[t].kind # "next"
      BY <2>2, <2>3, <2>6, <3>2 DEF NoUrl
    <3>3. QED
      BY <3>1, <3>2
  <2>7. QED
    BY <1>3, <2>4, <2>5, <2>6
<1>4. ASSUME NEW t \in Tasks, Prepared(t) PROVE OnItsWay'
  <2>1. link = "open" /\ sent' = <<>>
    BY <1>4 DEF Prepared, Owed
  <2>2. task[t].photo \in Photos
    BY <1>1, <1>4, BusyFields DEF Prepared
  <2>3. QED
    BY <1>1, <1>4, <2>1, <2>2, SendTyped DEF Prepared
<1>5. CASE Connect \/ SetUp
  BY <1>1, <1>5, PushFirstOwes DEF Connect, SetUp, Owed
<1>6. CASE Disconnect
  BY <1>6 DEF Disconnect, Owed
<1>7. CASE Refresh \/ Empties \/ UNCHANGED vars
  BY <1>7 DEF Refresh, Empties, vars, Owed, OnItsWay
<1>8. QED
  BY <1>2, <1>3, <1>4, <1>5, <1>6, <1>7 DEF Next, Step

\* A connection that has carried nothing has a first push on its way, unless
\* that push failed or found the pool empty.
THEOREM FirstPhotoComes == Spec => []FirstPhotoOnItsWay
<1>1. Init => FirstPhotoOnItsWay
  BY DEF Init, FirstPhotoOnItsWay
<1>2. TypeOK /\ FirstPhotoOnItsWay /\ [Next]_vars => FirstPhotoOnItsWay'
  BY OwedStep DEF FirstPhotoOnItsWay, Owed, OnItsWay
<1>3. QED
  BY <1>1, <1>2, TypeCorrect, PTL DEF Spec
=============================================================================
