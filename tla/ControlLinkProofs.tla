------------------------- MODULE ControlLinkProofs -------------------------
(***************************************************************************)
(* What ControlLink's runs check on small instances, proved for any number *)
(* of connections, faults, tokens and queued messages.                     *)
(***************************************************************************)
EXTENDS ControlLink, SequenceTheorems, TLAPS

\* The thread holds a connection while it sends and reads, and at no other time.
Holding == Open <=> cur # None

Typed == TypeOK /\ Holding

\* What Home Assistant writes is a message.
LEMMA Written == Event \in DownMessages /\ \A t \in Tokens : Claim(t) \in DownMessages
  BY DEF Event, Claim, DownMessages, None

\* The frame's end of a connection dropped, types are what they were.
LEMMA DropTypes ==
  ASSUME TypeOK, DropConnection
  PROVE  /\ cur' \in Conns \cup {None} /\ helloToken' \in Tokens \cup {None}
         /\ handler' \in [Conns -> {"none", "waiting", "claiming", "open", "done"}]
         /\ down' \in [Conns -> Seq(DownMessages)]
<1>1. down' \in [Conns -> Seq(DownMessages)]
  <2>1. <<>> \in Seq(DownMessages)
    OBVIOUS
  <2>2. QED
    BY <2>1 DEF Typed, TypeOK, DropConnection
<1>2. handler' \in [Conns -> {"none", "waiting", "claiming", "open", "done"}]
  BY DEF Typed, TypeOK, DropConnection
<1>3. QED
  BY <1>1, <1>2 DEF DropConnection

\* Steps are taken apart by their action: the disjuncts of ControlThread and
\* of Handlers count as actions of their own.
LEMMA TypedStep == Typed /\ [Next]_vars => TypeOK'
<1> USE BoundsAssumption
<1>1. Typed /\ UNCHANGED vars => TypeOK'
  BY DEF Typed, TypeOK, vars, frameVars, haVars, netVars, bounds
<1>2. Typed /\ Dial => TypeOK'
  BY DEF Typed, TypeOK, Dial, Phases, UpMessages, bounds
<1>3. Typed /\ DialFails => TypeOK'
  BY DEF Typed, TypeOK, DialFails, EnterBackoff, Phases, haVars, netVars
<1>4. Typed /\ DialLosesIntroduction => TypeOK'
  BY DEF Typed, TypeOK, DialLosesIntroduction, EnterBackoff, Phases
<1>5. Typed /\ SendTurn => TypeOK'
  <2> SUFFICES ASSUME Typed, SendTurn PROVE TypeOK'
    OBVIOUS
  <2>1. outbox' \in 0..MaxQueued
    BY DEF Typed, TypeOK, SendTurn
  <2>2. up' \in [Conns -> Seq(UpMessages)]
    <3>1. "status" \in UpMessages
      BY DEF UpMessages
    <3>2. \A q \in Seq(UpMessages) : Append(q, "status") \in Seq(UpMessages)
      BY <3>1
    <3>3. cur \in Conns
      BY DEF Typed, TypeOK, Holding, SendTurn, Open
    <3>4. QED
      BY <3>2, <3>3 DEF Typed, TypeOK, SendTurn
  <2>3. QED
    BY <2>1, <2>2 DEF Typed, TypeOK, SendTurn, haVars, bounds
<1>6. Typed /\ SendFails => TypeOK'
  BY DropTypes DEF Typed, TypeOK, SendFails, EnterBackoff, Phases, bounds
<1>7. Typed /\ ReadMessage => TypeOK'
  <2> SUFFICES ASSUME Typed, ReadMessage PROVE TypeOK'
    OBVIOUS
  <2>1. cur \in Conns
    BY DEF Typed, TypeOK, Holding, ReadMessage, Open
  <2>2. down[cur] \in Seq(DownMessages) /\ down[cur] # <<>>
    BY <2>1 DEF Typed, TypeOK, ReadMessage
  <2>3. Head(down[cur]) \in DownMessages /\ Tail(down[cur]) \in Seq(DownMessages)
    BY <2>2
  <2>5. down' \in [Conns -> Seq(DownMessages)]
    BY <2>3 DEF Typed, TypeOK, ReadMessage
  <2>4. frameToken' \in Tokens \cup {None} /\ toRender' \in 0..MaxQueued
    BY <2>3 DEF Typed, TypeOK, ReadMessage, DownMessages
  <2>6. QED
    BY <2>4, <2>5 DEF Typed, TypeOK, ReadMessage, Phases, haVars, bounds
<1>8. Typed /\ ReadTimesOut => TypeOK'
  BY DEF Typed, TypeOK, ReadTimesOut, haVars, netVars, bounds
<1>9. Typed /\ ReadFails => TypeOK'
  BY DropTypes DEF Typed, TypeOK, ReadFails, EnterBackoff, Phases, bounds
<1>10. Typed /\ BackoffEnds => TypeOK'
  BY DEF Typed, TypeOK, BackoffEnds, haVars, netVars, bounds
<1>11. Typed /\ QueueStatus => TypeOK'
  BY DEF Typed, TypeOK, QueueStatus, haVars, netVars, bounds
<1>12. Typed /\ MainSearching => TypeOK'
  BY DEF Typed, TypeOK, MainSearching, Phases, haVars, netVars, bounds
<1>13. Typed /\ RenderEvent => TypeOK'
  BY DEF Typed, TypeOK, RenderEvent, haVars, netVars, bounds
<1>14. \A c \in Conns : Typed /\ FirstMessage(c) => TypeOK'
  <2> SUFFICES ASSUME Typed, NEW c \in Conns, FirstMessage(c) PROVE TypeOK'
    OBVIOUS
  <2>1. up' \in [Conns -> Seq(UpMessages)]
    BY DEF Typed, TypeOK, FirstMessage
  <2>2. down' \in [Conns -> Seq(DownMessages)]
    <3>1. \A t \in Tokens : Append(down[c], Claim(t)) \in Seq(DownMessages)
      BY Written DEF Typed, TypeOK
    <3>2. QED
      BY <3>1 DEF Typed, TypeOK, FirstMessage
  <2>3. handler' \in [Conns -> {"none", "waiting", "claiming", "open", "done"}]
    BY DEF Typed, TypeOK, FirstMessage, Ended
  <2>4. QED
    BY <2>1, <2>2, <2>3 DEF Typed, TypeOK, FirstMessage, frameVars, bounds
<1>15. \A c \in Conns : Typed /\ Claimed(c) => TypeOK'
  BY DEF Typed, TypeOK, Claimed, frameVars, netVars, bounds
<1>16. \A c \in Conns : Typed /\ Status(c) => TypeOK'
  BY DEF Typed, TypeOK, Status, frameVars, haVars, bounds
<1>17. \A c \in Conns : Typed /\ HandlerEnds(c) => TypeOK'
  BY DEF Typed, TypeOK, HandlerEnds, Ended, frameVars, bounds
<1>18. Typed /\ SendEvent => TypeOK'
  BY Written DEF Typed, TypeOK, SendEvent, WriteEvent, frameVars, haVars, bounds
<1>19. Typed /\ SetupEntry => TypeOK'
  BY DEF Typed, TypeOK, SetupEntry, frameVars, netVars
<1>20. Typed /\ UnloadEntry => TypeOK'
  <2> SUFFICES ASSUME Typed, UnloadEntry PROVE TypeOK'
    OBVIOUS
  <2>1. down' \in [Conns -> Seq(DownMessages)]
    <3>1. \A q \in Seq(DownMessages) : Append(q, Event) \in Seq(DownMessages)
      BY Written
    <3>2. CASE UNCHANGED down
      BY <3>2 DEF Typed, TypeOK
    <3>3. CASE WriteEvent
      BY <3>1, <3>3 DEF Typed, TypeOK, WriteEvent
    <3>4. QED
      BY <3>2, <3>3 DEF UnloadEntry
  <2>2. QED
    BY <2>1 DEF Typed, TypeOK, UnloadEntry, frameVars
<1>21. \A c \in Conns : Typed /\ CutConnection(c) => TypeOK'
  BY DEF Typed, TypeOK, CutConnection, frameVars, haVars
<1>22. Typed /\ FrameRestarts => TypeOK'
  <2> SUFFICES ASSUME Typed, FrameRestarts PROVE TypeOK'
    OBVIOUS
  <2>1. handler' \in [Conns -> {"none", "waiting", "claiming", "open", "done"}]
    BY DEF Typed, TypeOK, FrameRestarts
  <2>2. cut' \in [Conns -> BOOLEAN]
    BY DEF Typed, TypeOK, FrameRestarts
  <2>3. down' \in [Conns -> Seq(DownMessages)]
    BY DEF Typed, TypeOK, FrameRestarts
  <2>4. outbox' \in 0..MaxQueued /\ toRender' \in 0..MaxQueued
    BY DEF FrameRestarts
  <2>5. /\ ctl' = "dial" /\ cur' = None /\ phase' \in Phases
        /\ frameToken' = None /\ mainDone' = FALSE
        /\ helloToken' = None /\ faults' \in 0..MaxFaults
    BY DEF Typed, TypeOK, FrameRestarts, Phases
  <2>6. UNCHANGED <<haUp, session, entryToken, up, entryOps>>
    BY DEF FrameRestarts
  <2>7. QED
    BY <2>1, <2>2, <2>3, <2>4, <2>5, <2>6 DEF Typed, TypeOK
<1>23. Typed /\ HAStops => TypeOK'
  <2> SUFFICES ASSUME Typed, HAStops PROVE TypeOK'
    OBVIOUS
  <2>1. handler' \in [Conns -> {"none", "waiting", "claiming", "open", "done"}]
    BY DEF Typed, TypeOK, HAStops, Ended
  <2>2. up' \in [Conns -> Seq(UpMessages)] /\ cut' \in [Conns -> BOOLEAN]
    BY DEF Typed, TypeOK, HAStops
  <2>3. /\ haUp' = FALSE /\ session' = None /\ entryToken' = None
        /\ faults' \in 0..MaxFaults /\ UNCHANGED <<helloToken, down, entryOps>>
        /\ UNCHANGED frameVars
    BY DEF Typed, TypeOK, HAStops
  <2>4. QED
    BY <2>1, <2>2, <2>3 DEF Typed, TypeOK, frameVars
<1>24. Typed /\ HAStarts => TypeOK'
  BY DEF Typed, TypeOK, HAStarts, frameVars, netVars, bounds
<1>25. QED
  BY <1>1, <1>2, <1>3, <1>4, <1>5, <1>6, <1>7, <1>8, <1>9, <1>10, <1>11, <1>12,
     <1>13, <1>14, <1>15, <1>16, <1>17, <1>18, <1>19, <1>20, <1>21, <1>22, <1>23,
     <1>24 DEF Next, ControlThread, Handlers

LEMMA HoldingStep == Typed /\ [Next]_vars => Holding'
<1> SUFFICES ASSUME Typed, [Next]_vars PROVE Holding'
  OBVIOUS
<1> USE DEF Holding, Open, Typed
<1>1. CASE UNCHANGED vars
  BY <1>1 DEF vars, frameVars
<1>2. CASE Dial
  BY <1>2 DEF Dial, Conns, None
<1>3. CASE DialFails \/ DialLosesIntroduction
  BY <1>3 DEF DialFails, DialLosesIntroduction, EnterBackoff
<1>4. CASE SendTurn \/ ReadMessage \/ ReadTimesOut
  BY <1>4 DEF SendTurn, ReadMessage, ReadTimesOut
<1>5. CASE SendFails \/ ReadFails
  BY <1>5 DEF SendFails, ReadFails, DropConnection, EnterBackoff
<1>6. CASE BackoffEnds
  BY <1>6 DEF BackoffEnds
<1>7. CASE QueueStatus \/ MainSearching \/ RenderEvent
  BY <1>7 DEF QueueStatus, MainSearching, RenderEvent
<1>8. CASE FrameRestarts
  BY <1>8 DEF FrameRestarts
<1>9. CASE UNCHANGED frameVars
  BY <1>9 DEF frameVars
<1>10. QED
  BY <1>1, <1>2, <1>3, <1>4, <1>5, <1>6, <1>7, <1>8, <1>9
  DEF Next, ControlThread, Handlers, FirstMessage, Claimed, Status, HandlerEnds, SendEvent,
      SetupEntry, UnloadEntry, CutConnection, HAStops, HAStarts

LEMMA TypedInit == Init => Typed
<1> SUFFICES ASSUME Init PROVE Typed
  OBVIOUS
<1>1. /\ handler \in [Conns -> {"none", "waiting", "claiming", "open", "done"}]
      /\ cut \in [Conns -> BOOLEAN]
  BY DEF Init
<1>2. up \in [Conns -> Seq(UpMessages)] /\ down \in [Conns -> Seq(DownMessages)]
  BY DEF Init
<1>3. 0 \in 0..MaxQueued /\ 0 \in 0..MaxFaults /\ 0 \in 0..MaxEntryOps
  BY BoundsAssumption
<1>4. QED
  BY <1>1, <1>2, <1>3 DEF Init, Typed, TypeOK, Holding, Open, Phases

\* Every variable keeps its type, whatever the bounds.
THEOREM TypeCorrect == Spec => []TypeOK
<1>1. Spec => []Typed
  BY TypedInit, TypedStep, HoldingStep, PTL DEF Spec, Typed
<1>2. Typed => TypeOK
  BY DEF Typed
<1>3. QED
  BY <1>1, <1>2, PTL

-----------------------------------------------------------------------------
(* The inductive invariant.                                                *)

\* Nothing is on its way to a handler that has not begun or is over.
Quiet == \A c \in Conns : handler[c] \in {"none", "done"} => up[c] = <<>>

\* Home Assistant's end of the connection the frame holds has not gone unnoticed.
HeldIsServed == cur # None => handler[cur] # "none"

\* A handler waiting for the connection the frame holds has its introduction
\* before it.
IntroductionSent == Open /\ handler[cur] = "waiting" => up[cur] # <<>>

\* Nothing is on its way to the frame but on the connection it holds.
Undelivered == \A c \in Conns : c # cur => down[c] = <<>>

\* Before the hello is read, Home Assistant has said nothing.
BeforeHello ==
  cur # None /\ handler[cur] = "waiting"
    => phase # "connected" /\ down[cur] = <<>> /\ helloToken = None

HelloHeld == helloToken # None => cur # None

\* A token the frame does not have yet is the first thing it will read, or it
\* will read nothing more on this connection.
ClaimFirst ==
  helloToken # None /\ frameToken # helloToken
    => /\ phase # "connected"
       /\ IF down[cur] = <<>> THEN cut[cur] \/ handler[cur] = "done"
                              ELSE Head(down[cur]) = Claim(helloToken)

\* No claim on its way carries another token.
ClaimTokens ==
  cur # None => \A i \in 1..Len(down[cur]) :
                  down[cur][i].kind = "claim" => down[cur][i].token = helloToken

\* What travels to Home Assistant, and what travels to the frame.
UpInv   == Quiet /\ HeldIsServed /\ IntroducedFirst /\ IntroductionSent
DownInv == Undelivered /\ BeforeHello /\ HelloHeld /\ ClaimFirst /\ ClaimTokens

LinkInv == Typed /\ SessionIsServed /\ ConnectedMeansOpen /\ UpInv /\ DownInv

LEMMA SessionStep == Typed /\ SessionIsServed /\ [Next]_vars => SessionIsServed'
<1> SUFFICES ASSUME Typed, SessionIsServed, [Next]_vars PROVE SessionIsServed'
  OBVIOUS
<1> USE DEF SessionIsServed, Typed, TypeOK
<1>1. CASE Dial \/ DialLosesIntroduction
  BY <1>1 DEF Dial, DialLosesIntroduction, Fresh, Unused
<1>2. CASE SendFails \/ ReadFails
  BY <1>2 DEF SendFails, ReadFails, DropConnection
<1>3. ASSUME NEW c \in Conns, FirstMessage(c) \/ Claimed(c) \/ HandlerEnds(c)
      PROVE  SessionIsServed'
  BY <1>3 DEF FirstMessage, Claimed, HandlerEnds, Ended
<1>4. CASE FrameRestarts
  BY <1>4 DEF FrameRestarts
<1>5. CASE HAStops
  BY <1>5 DEF HAStops
<1>6. CASE UNCHANGED <<session, handler>>
  BY <1>6
<1>7. QED
  BY <1>1, <1>2, <1>3, <1>4, <1>5, <1>6
  DEF Next, ControlThread, Handlers, DialFails, SendTurn, ReadMessage, ReadTimesOut,
      BackoffEnds, QueueStatus, MainSearching, RenderEvent, Status, SendEvent, SetupEntry,
      UnloadEntry, CutConnection, HAStarts, vars, haVars

LEMMA ConnectedStep == Typed /\ ConnectedMeansOpen /\ [Next]_vars => ConnectedMeansOpen'
<1> SUFFICES ASSUME Typed, ConnectedMeansOpen, [Next]_vars PROVE ConnectedMeansOpen'
  OBVIOUS
<1> USE DEF ConnectedMeansOpen, Typed, Holding, Open
<1>1. CASE Dial \/ MainSearching \/ FrameRestarts
  BY <1>1 DEF Dial, MainSearching, FrameRestarts
<1>2. CASE DialFails \/ DialLosesIntroduction \/ SendFails \/ ReadFails
  BY <1>2 DEF DialFails, DialLosesIntroduction, SendFails, ReadFails, EnterBackoff
<1>3. CASE SendTurn \/ ReadMessage \/ ReadTimesOut \/ BackoffEnds
  BY <1>3 DEF SendTurn, ReadMessage, ReadTimesOut, BackoffEnds
<1>4. CASE UNCHANGED <<ctl, cur, phase>>
  BY <1>4
<1>5. QED
  BY <1>1, <1>2, <1>3, <1>4
  DEF Next, ControlThread, Handlers, QueueStatus, RenderEvent, FirstMessage, Claimed, Status,
      HandlerEnds, SendEvent, SetupEntry, UnloadEntry, CutConnection, HAStops, HAStarts,
      vars, frameVars

\* A status written after others does not change what is read first.
LEMMA StatusLast ==
  ASSUME NEW q \in Seq(UpMessages)
  PROVE  /\ Append(q, "status") # <<>>
         /\ q # <<>> => Head(Append(q, "status")) = Head(q)
<1>1. "status" \in UpMessages
  BY DEF UpMessages
<1>2. Append(q, "status") # <<>>
  BY <1>1, AppendProperties
<1>3. QED
  BY <1>2, HeadTailAppend

LEMMA UpStep == Typed /\ UpInv /\ [Next]_vars => UpInv'
<1> SUFFICES ASSUME Typed, UpInv, [Next]_vars PROVE UpInv'
  OBVIOUS
<1> USE DEF UpInv, Quiet, HeldIsServed, IntroducedFirst, IntroductionSent, Typed, TypeOK, Holding, Open
<1>1. CASE Dial
  BY <1>1 DEF Dial, Fresh, Unused
<1>2. CASE DialLosesIntroduction
  BY <1>2 DEF DialLosesIntroduction, EnterBackoff, Fresh, Unused
<1>3. CASE SendTurn
  <2>1. cur \in Conns
    BY <1>3 DEF SendTurn
  <2>2. up[cur] \in Seq(UpMessages)
    BY <2>1
  <2>3. /\ Append(up[cur], "status") # <<>>
        /\ up[cur] # <<>> => Head(Append(up[cur], "status")) = Head(up[cur])
    BY <2>2, StatusLast
  <2>5. ctl = "send" /\ UNCHANGED <<cur, handler>>
    BY <1>3 DEF SendTurn, haVars
  <2>6. CASE UNCHANGED up
    BY <2>5, <2>6
  <2>7. CASE handler[cur] # "done" /\ up' = [up EXCEPT ![cur] = Append(up[cur], "status")]
    <3>1. up'[cur] = Append(up[cur], "status") /\ \A c \in Conns \ {cur} : up'[c] = up[c]
      BY <2>1, <2>7
    <3>2. handler[cur] # "none"
      BY <2>1, <2>5, <2>7
    <3>3. QED
      BY <2>1, <2>3, <2>5, <2>7, <3>1, <3>2
  <2>8. QED
    BY <1>3, <2>6, <2>7 DEF SendTurn
<1>4. CASE SendFails \/ ReadFails
  BY <1>4 DEF SendFails, ReadFails, DropConnection, EnterBackoff
<1>5. CASE DialFails \/ ReadMessage \/ ReadTimesOut \/ BackoffEnds
  BY <1>5 DEF DialFails, EnterBackoff, ReadMessage, ReadTimesOut, BackoffEnds, haVars, netVars
<1>6. ASSUME NEW c \in Conns, FirstMessage(c) PROVE UpInv'
  BY <1>6 DEF FirstMessage, Ended, frameVars
<1>7. ASSUME NEW c \in Conns, Claimed(c) \/ Status(c) PROVE UpInv'
  BY <1>7 DEF Claimed, Status, frameVars, haVars, netVars
<1>8. ASSUME NEW c \in Conns, HandlerEnds(c) PROVE UpInv'
  BY <1>8 DEF HandlerEnds, Ended, frameVars
<1>9. CASE FrameRestarts
  BY <1>9 DEF FrameRestarts
<1>10. CASE HAStops
  BY <1>10 DEF HAStops, Ended, frameVars
<1>11. CASE UNCHANGED <<ctl, cur, handler, up>>
  BY <1>11
<1>12. QED
  BY <1>1, <1>2, <1>3, <1>4, <1>5, <1>6, <1>7, <1>8, <1>9, <1>10, <1>11
  DEF Next, ControlThread, Handlers, QueueStatus, MainSearching, RenderEvent, SendEvent,
      SetupEntry, UnloadEntry, CutConnection, HAStarts, vars, frameVars, haVars, netVars

\* What is written last comes last, and what is read was there.
LEMMA WrittenLast ==
  ASSUME NEW q \in Seq(DownMessages), NEW m \in DownMessages
  PROVE  /\ Append(q, m) # <<>>
         /\ Head(Append(q, m)) = IF q = <<>> THEN m ELSE Head(q)
         /\ \A i \in 1..Len(Append(q, m)) :
              Append(q, m)[i] = m \/ (i \in 1..Len(q) /\ Append(q, m)[i] = q[i])
<1>1. /\ Append(q, m) # <<>> /\ Len(Append(q, m)) = Len(q) + 1
      /\ \A i \in 1..Len(q) : Append(q, m)[i] = q[i]
      /\ Append(q, m)[Len(q) + 1] = m
  BY AppendProperties
<1>2. Head(Append(q, m)) = IF q = <<>> THEN m ELSE Head(q)
  BY HeadTailAppend
<1>3. Len(q) \in Nat
  OBVIOUS
<1>4. \A i \in 1..Len(Append(q, m)) : i = Len(q) + 1 \/ i \in 1..Len(q)
  BY <1>1, <1>3
<1>5. QED
  BY <1>1, <1>2, <1>4

LEMMA ReadFirst ==
  ASSUME NEW q \in Seq(DownMessages), q # <<>>
  PROVE  /\ Head(q) \in DownMessages /\ Len(q) \in Nat \ {0} /\ Head(q) = q[1]
         /\ \A i \in 1..Len(Tail(q)) : i + 1 \in 1..Len(q) /\ Tail(q)[i] = q[i + 1]
<1>1. Len(q) \in Nat \ {0}
  OBVIOUS
<1>2. /\ Head(q) \in DownMessages /\ Len(Tail(q)) = Len(q) - 1
      /\ \A i \in 1..Len(Tail(q)) : Tail(q)[i] = q[i + 1]
  BY HeadTailProperties
<1>3. \A i \in 1..Len(Tail(q)) : i + 1 \in 1..Len(q)
  BY <1>1, <1>2
<1>4. Head(q) = q[1]
  OBVIOUS
<1>5. QED
  BY <1>1, <1>2, <1>3, <1>4

\* A photo or a command goes to a handler that is past the hello.
LEMMA EventKeepsDown ==
  ASSUME Typed, SessionIsServed, DownInv, WriteEvent,
         UNCHANGED <<cur, phase, handler, helloToken, frameToken, cut>>
  PROVE  DownInv'
<1>1. /\ cur \in Conns /\ handler[cur] \in {"claiming", "open"} /\ ~cut[cur]
      /\ down' = [down EXCEPT ![cur] = Append(down[cur], Event)]
  BY DEF Typed, TypeOK, SessionIsServed, WriteEvent
<1>2. down[cur] \in Seq(DownMessages) /\ Event \in DownMessages
  BY <1>1, Written DEF Typed, TypeOK
<1>3. /\ down'[cur] = Append(down[cur], Event)
      /\ \A c \in Conns \ {cur} : down'[c] = down[c]
  BY <1>1 DEF Typed, TypeOK
<1>4. Undelivered' /\ BeforeHello' /\ HelloHeld'
  BY <1>1, <1>3 DEF DownInv, Undelivered, BeforeHello, HelloHeld
<1>5. ClaimFirst'
  BY <1>1, <1>2, <1>3, WrittenLast DEF DownInv, ClaimFirst
<1>6. ClaimTokens'
  BY <1>1, <1>2, <1>3, WrittenLast DEF DownInv, ClaimTokens, Event
<1>7. QED
  BY <1>4, <1>5, <1>6 DEF DownInv

\* The first message of the connection the frame holds is answered by the claim.
LEMMA HelloKeepsDown ==
  ASSUME Typed, DownInv, NEW c \in Conns, FirstMessage(c)
  PROVE  DownInv'
<1>1. UNCHANGED <<cur, phase, frameToken, cut>>
  BY DEF FirstMessage, frameVars
<1>2. CASE c # cur
  <2>1. UNCHANGED <<down, helloToken>> /\ (cur # None => cur \in Conns /\ handler'[cur] = handler[cur])
    BY <1>2 DEF FirstMessage, Typed, TypeOK
  <2>2. QED
    BY <1>1, <2>1 DEF DownInv, Undelivered, BeforeHello, HelloHeld, ClaimFirst, ClaimTokens
<1>3. CASE c = cur
  <2>1. /\ cur # None /\ handler[cur] = "waiting" /\ handler'[cur] # "waiting"
        /\ phase # "connected" /\ down[cur] = <<>> /\ helloToken = None
    <3>1. cur # None
      BY <1>3, BoundsAssumption DEF Conns, None
    <3>2. handler[cur] = "waiting" /\ handler'[cur] # "waiting"
      BY <1>3 DEF FirstMessage, Typed, TypeOK, Ended
    <3>3. QED
      BY <3>1, <3>2 DEF DownInv, BeforeHello
  <2>2. CASE UNCHANGED <<down, helloToken>>
    BY <1>1, <2>1, <2>2 DEF DownInv, Undelivered, BeforeHello, HelloHeld, ClaimFirst, ClaimTokens
  <2>3. CASE helloToken' = entryToken /\ UNCHANGED down /\ (entryToken = None \/ cut[cur])
    BY <1>1, <2>1, <2>3 DEF DownInv, Undelivered, BeforeHello, HelloHeld, ClaimFirst, ClaimTokens
  <2>4. CASE /\ helloToken' = entryToken /\ entryToken # None
             /\ down' = [down EXCEPT ![cur] = Append(down[cur], Claim(entryToken))]
    <3>1. /\ down'[cur] = Append(down[cur], Claim(entryToken))
          /\ \A d \in Conns \ {cur} : down'[d] = down[d]
      BY <1>3, <2>4 DEF Typed, TypeOK
    <3>2. down[cur] \in Seq(DownMessages) /\ Claim(entryToken) \in DownMessages
      BY <1>3, <2>4, Written DEF Typed, TypeOK
    <3>3. /\ down'[cur] # <<>> /\ Head(down'[cur]) = Claim(entryToken)
          /\ \A i \in 1..Len(down'[cur]) : down'[cur][i] = Claim(entryToken)
      BY <2>1, <3>1, <3>2, WrittenLast
    <3>4. Undelivered' /\ BeforeHello' /\ HelloHeld'
      BY <1>1, <2>1, <3>1 DEF DownInv, Undelivered, BeforeHello, HelloHeld
    <3>5. ClaimFirst' /\ ClaimTokens'
      BY <1>1, <2>1, <2>4, <3>3 DEF ClaimFirst, ClaimTokens, Claim
    <3>6. QED
      BY <3>4, <3>5 DEF DownInv
  <2>5. QED
    BY <1>3, <2>2, <2>3, <2>4 DEF FirstMessage
<1>4. QED
  BY <1>2, <1>3

\* The frame reads the claim before anything else.
LEMMA ReadKeepsDown ==
  ASSUME Typed, DownInv, ReadMessage
  PROVE  DownInv'
<1>1. /\ cur \in Conns /\ cur # None /\ down[cur] \in Seq(DownMessages) /\ down[cur] # <<>>
      /\ UNCHANGED <<cur, handler, helloToken, cut>>
  BY DEF Typed, TypeOK, Holding, Open, ReadMessage, haVars
<1>2. /\ down'[cur] = Tail(down[cur])
      /\ \A d \in Conns \ {cur} : down'[d] = down[d]
  BY <1>1 DEF ReadMessage, Typed, TypeOK
<1>3. ClaimTokens'
  BY <1>1, <1>2, ReadFirst DEF DownInv, ClaimTokens
<1>4. helloToken # None => frameToken' = helloToken
  <2>1. CASE Head(down[cur]).kind = "claim"
    <3>1. 1 \in 1..Len(down[cur]) /\ Head(down[cur]) = down[cur][1]
      BY <1>1, ReadFirst
    <3>2. Head(down[cur]).token = helloToken
      BY <1>1, <2>1, <3>1 DEF DownInv, ClaimTokens
    <3>3. QED
      BY <2>1, <3>2 DEF ReadMessage
  <2>2. CASE Head(down[cur]).kind # "claim"
    BY <1>1, <2>2 DEF ReadMessage, DownInv, ClaimFirst, Claim
  <2>3. QED
    BY <2>1, <2>2
<1>5. Undelivered' /\ BeforeHello' /\ HelloHeld'
  BY <1>1, <1>2 DEF DownInv, Undelivered, BeforeHello, HelloHeld
<1>6. QED
  BY <1>1, <1>3, <1>4, <1>5 DEF DownInv, ClaimFirst

LEMMA DownStep ==
  Typed /\ SessionIsServed /\ DownInv /\ [Next]_vars => DownInv'
<1> SUFFICES ASSUME Typed, SessionIsServed, DownInv, [Next]_vars PROVE DownInv'
  OBVIOUS
<1> USE DEF Undelivered, BeforeHello, HelloHeld, ClaimFirst, ClaimTokens
<1>1. CASE Dial
  <2>1. /\ ctl = "dial" /\ cur = None /\ helloToken = None
        /\ UNCHANGED <<down, helloToken>> /\ phase' = "awaiting" /\ cur' \in Conns
    BY <1>1 DEF Dial, Typed, Holding, Open, DownInv
  <2>2. \A c \in Conns : down[c] = <<>>
    BY <2>1, BoundsAssumption DEF DownInv, Conns, None
  <2>3. QED
    BY <2>1, <2>2 DEF DownInv
<1>2. CASE DialFails \/ DialLosesIntroduction
  <2>1. cur = None /\ helloToken = None /\ UNCHANGED <<cur, helloToken, down>>
    BY <1>2 DEF DialFails, DialLosesIntroduction, haVars, netVars, Typed, Holding, Open, DownInv
  <2>2. QED
    BY <2>1 DEF DownInv
<1>3. CASE SendFails \/ ReadFails
  <2>1. /\ cur' = None /\ helloToken' = None
        /\ down' = [down EXCEPT ![cur] = <<>>]
    BY <1>3 DEF SendFails, ReadFails, DropConnection
  <2>2. \A c \in Conns : down'[c] = <<>>
    BY <2>1 DEF Typed, TypeOK, DownInv
  <2>3. QED
    BY <2>1, <2>2 DEF DownInv
<1>4. CASE ReadMessage
  BY <1>4, ReadKeepsDown
<1>5. CASE SendTurn \/ ReadTimesOut \/ BackoffEnds \/ QueueStatus \/ RenderEvent
  BY <1>5 DEF SendTurn, ReadTimesOut, BackoffEnds, QueueStatus, RenderEvent, haVars, netVars,
              DownInv
<1>6. CASE MainSearching
  BY <1>6 DEF MainSearching, haVars, netVars, DownInv
<1>7. ASSUME NEW c \in Conns, FirstMessage(c) PROVE DownInv'
  BY <1>7, HelloKeepsDown
<1>8. ASSUME NEW c \in Conns, Claimed(c) PROVE DownInv'
  <2>1. /\ UNCHANGED <<cur, phase, frameToken, helloToken, cut, down>>
        /\ cur \in Conns => (handler'[cur] = "waiting" => handler[cur] = "waiting")
                            /\ (handler[cur] = "done" => handler'[cur] = "done")
    BY <1>8 DEF Claimed, frameVars, netVars, Typed, TypeOK
  <2>2. cur # None => cur \in Conns
    BY DEF Typed, TypeOK
  <2>3. QED
    BY <2>1, <2>2 DEF DownInv
<1>9. ASSUME NEW c \in Conns, HandlerEnds(c) PROVE DownInv'
  <2>1. UNCHANGED <<cur, phase, frameToken, helloToken, down>>
    BY <1>9 DEF HandlerEnds, frameVars
  <2>2. cur # None => cur \in Conns
    BY DEF Typed, TypeOK
  <2>3. CASE c = cur
    <3>1. handler'[cur] = "done"
      BY <1>9, <2>3 DEF HandlerEnds, Ended, Typed, TypeOK
    <3>2. QED
      BY <2>1, <3>1 DEF DownInv
  <2>4. CASE c # cur
    <3>1. cur \in Conns => handler'[cur] = handler[cur] /\ cut'[cur] = cut[cur]
      BY <1>9, <2>4 DEF HandlerEnds, Typed, TypeOK
    <3>2. QED
      BY <2>1, <2>2, <3>1 DEF DownInv
  <2>5. QED
    BY <2>3, <2>4
<1>10. CASE SendEvent
  BY <1>10, EventKeepsDown DEF SendEvent, frameVars, haVars
<1>11. CASE UnloadEntry
  <2>1. CASE WriteEvent
    BY <1>11, <2>1, EventKeepsDown DEF UnloadEntry, frameVars
  <2>2. CASE UNCHANGED down
    BY <1>11, <2>2 DEF UnloadEntry, frameVars, DownInv
  <2>3. QED
    BY <1>11, <2>1, <2>2 DEF UnloadEntry
<1>12. ASSUME NEW c \in Conns, CutConnection(c) PROVE DownInv'
  <2>1. /\ UNCHANGED <<cur, phase, frameToken, helloToken, handler>>
        /\ down' = [down EXCEPT ![c] = <<>>] /\ cut' = [cut EXCEPT ![c] = TRUE]
    BY <1>12 DEF CutConnection, frameVars, haVars
  <2>2. cur # None => cur \in Conns
    BY DEF Typed, TypeOK
  <2>3. CASE c = cur
    <3>1. down'[cur] = <<>> /\ cut'[cur] /\ \A d \in Conns \ {cur} : down'[d] = down[d]
      BY <2>1, <2>3 DEF Typed, TypeOK
    <3>2. QED
      BY <2>1, <3>1 DEF DownInv
  <2>4. CASE c # cur
    <3>1. /\ \A d \in Conns : down'[d] = IF d = c THEN <<>> ELSE down[d]
          /\ cur \in Conns => down'[cur] = down[cur] /\ cut'[cur] = cut[cur]
      BY <2>1, <2>4 DEF Typed, TypeOK
    <3>2. Undelivered' /\ HelloHeld'
      BY <2>1, <3>1 DEF DownInv
    <3>3. BeforeHello' /\ ClaimFirst'
      BY <2>1, <2>2, <3>1 DEF DownInv
    <3>4. ClaimTokens'
      BY <2>1, <2>2, <3>1 DEF DownInv
    <3>5. QED
      BY <3>2, <3>3, <3>4 DEF DownInv
  <2>5. QED
    BY <2>3, <2>4
<1>13. CASE FrameRestarts
  BY <1>13 DEF FrameRestarts, DownInv
<1>14. CASE HAStops
  <2>1. UNCHANGED <<cur, phase, frameToken, helloToken, down>>
    BY <1>14 DEF HAStops, frameVars
  <2>2. cur # None => cur \in Conns /\ handler'[cur] = "done"
    BY <1>14 DEF HAStops, Ended, Typed, TypeOK
  <2>3. QED
    BY <2>1, <2>2 DEF DownInv
<1>15. CASE UNCHANGED <<cur, phase, frameToken, helloToken, handler, cut, down>>
  BY <1>15 DEF DownInv
<1>16. QED
  BY <1>1, <1>2, <1>3, <1>4, <1>5, <1>6, <1>7, <1>8, <1>9, <1>10, <1>11, <1>12, <1>13,
     <1>14, <1>15
  DEF Next, ControlThread, Handlers, Status, SetupEntry, HAStarts, vars, frameVars, haVars, netVars

LEMMA LinkInvInit == Init => LinkInv
<1> SUFFICES ASSUME Init PROVE LinkInv
  OBVIOUS
<1>1. Typed
  BY TypedInit
<1>2. /\ \A c \in Conns : handler[c] = "none" /\ up[c] = <<>> /\ down[c] = <<>>
      /\ session = None /\ cur = None /\ helloToken = None
      /\ phase = "not_started" /\ ctl = "dial"
  BY DEF Init
<1>3. SessionIsServed /\ ConnectedMeansOpen
  BY <1>2 DEF SessionIsServed, ConnectedMeansOpen
<1>4. UpInv /\ DownInv
  BY <1>2 DEF UpInv, Quiet, HeldIsServed, IntroducedFirst, IntroductionSent, Open,
              DownInv, Undelivered, BeforeHello, HelloHeld, ClaimFirst, ClaimTokens
<1>5. QED
  BY <1>1, <1>3, <1>4 DEF LinkInv

LEMMA LinkInvStep == LinkInv /\ [Next]_vars => LinkInv'
<1> SUFFICES ASSUME LinkInv, [Next]_vars PROVE LinkInv'
  OBVIOUS
<1>1. Typed'
  BY TypedStep, HoldingStep DEF LinkInv, Typed
<1>2. QED
  BY <1>1, SessionStep, ConnectedStep, UpStep, DownStep DEF LinkInv

LEMMA LinkInvariant == Spec => []LinkInv
  BY LinkInvInit, LinkInvStep, PTL DEF Spec

-----------------------------------------------------------------------------
(* The theorems.                                                           *)

\* The first message a handler reads on a connection is the introduction.
THEOREM IntroductionComesFirst == Spec => []IntroducedFirst
<1>1. LinkInv => IntroducedFirst
  BY DEF LinkInv, UpInv
<1>2. QED
  BY <1>1, LinkInvariant, PTL

\* A registered session belongs to a handler that has not ended, although any
\* handler that ends removes whatever session its frame has.
THEOREM SessionsAreServed == Spec => []SessionIsServed
<1>1. LinkInv => SessionIsServed
  BY DEF LinkInv
<1>2. QED
  BY <1>1, LinkInvariant, PTL

\* The panel's phase says connected only while a connection is held.
THEOREM PhaseIsHonest == Spec => []ConnectedMeansOpen
<1>1. LinkInv => ConnectedMeansOpen
  BY DEF LinkInv
<1>2. QED
  BY <1>1, LinkInvariant, PTL

\* A claimed frame has its token before it acts on a photo: the claim is the
\* first message of its connection, or none of them arrives.
THEOREM ClaimComesFirst == Spec => []ConnectedHoldsToken
<1>1. LinkInv => ConnectedHoldsToken
  BY DEF LinkInv, DownInv, ClaimFirst, ConnectedHoldsToken
<1>2. QED
  BY <1>1, LinkInvariant, PTL
=============================================================================
