------------------------- MODULE PoolRefreshProofs -------------------------
(***************************************************************************)
(* The bundled photos stand in exactly while using_fallback says so, and   *)
(* no longer than the times allow, for any number of overlapping refreshes *)
(* and any times.                                                          *)
(***************************************************************************)
EXTENDS PoolRefresh, WellFoundedInduction, TLAPS

-----------------------------------------------------------------------------
(* The backoff.                                                            *)

LEMMA LeastExists ==
  ASSUME NEW T, T \subseteq Nat, T # {}
  PROVE  \E x \in T : \A y \in T : x <= y
<1>1. PICK x \in T : \A y \in T : ~(<<y, x>> \in OpToRel(<, Nat))
  BY NatLessThanWellFounded, WFMin
<1>2. \A y \in T : <<y, x>> \in Nat \X Nat => ~(y < x)
  BY <1>1 DEF OpToRel
<1>3. ASSUME NEW y \in T PROVE x <= y
  <2>1. x \in Nat /\ y \in Nat
    OBVIOUS
  <2>2. ~(y < x)
    BY <1>2, <2>1
  <2>3. QED
    BY <2>1, <2>2
<1>4. QED
  BY <1>3

\* What the definition of Doubled says of a function.
Doubles(f, m) == f = [n \in 0..m |-> IF n = 0 THEN RetryBase ELSE 2 * f[n - 1]]

\* Otherwise there would be a least m without such a function, and the function
\* of m - 1 extends to it.
LEMMA DoublesExists == \A m \in Nat : \E f : Doubles(f, m)
<1> DEFINE T == {m \in Nat : ~ \E f : Doubles(f, m)}
<1> SUFFICES ASSUME T # {} PROVE FALSE
  OBVIOUS
<1>1. PICK m \in T : \A y \in T : m <= y
  BY LeastExists
<1>2. CASE m = 0
  <2> DEFINE f == [n \in 0..0 |-> RetryBase]
  <2>1. Doubles(f, m)
    BY <1>2 DEF Doubles
  <2>2. QED
    BY <2>1
<1>3. CASE m # 0
  <2>1. m - 1 \in Nat /\ m - 1 \notin T
    BY <1>1, <1>3
  <2>2. PICK f : Doubles(f, m - 1)
    BY <2>1
  <2> DEFINE g == [n \in 0..m |-> IF n = m THEN 2 * f[m - 1] ELSE f[n]]
  <2>3. \A n \in 0..m : g[n] = IF n = 0 THEN RetryBase ELSE 2 * g[n - 1]
    BY <1>3, <2>1, <2>2 DEF Doubles
  <2>4. Doubles(g, m)
    BY <2>3 DEF Doubles
  <2>5. QED
    BY <2>4
<1>4. QED
  BY <1>2, <1>3

LEMMA DoubledIsNat == \A n \in 0..MaxDoublings : Doubled[n] \in Nat
<1>1. Doubles(Doubled, MaxDoublings)
  <2>1. \E f : Doubles(f, MaxDoublings)
    BY DoublesExists, TimesAssumption
  <2>2. QED
    BY <2>1 DEF Doubles, Doubled
<1>2. \A n \in 0..MaxDoublings :
        Doubled[n] = IF n = 0 THEN RetryBase ELSE 2 * Doubled[n - 1]
  BY <1>1 DEF Doubles
<1> HIDE DEF Doubled
<1> DEFINE T == {n \in 0..MaxDoublings : Doubled[n] \notin Nat}
<1> SUFFICES ASSUME T # {} PROVE FALSE
  OBVIOUS
<1>3. PICK n \in T : \A y \in T : n <= y
  <2>1. T \subseteq Nat
    BY TimesAssumption
  <2>2. QED
    BY <2>1, LeastExists
<1>4. CASE n = 0
  BY <1>2, <1>4, TimesAssumption
<1>5. CASE n # 0
  <2>1. n - 1 \in 0..MaxDoublings /\ n - 1 \notin T
    BY <1>3, <1>5, TimesAssumption
  <2>2. Doubled[n - 1] \in Nat /\ Doubled[n] = 2 * Doubled[n - 1]
    BY <1>2, <1>5, <2>1
  <2>3. QED
    BY <2>2
<1>6. QED
  BY <1>4, <1>5

\* However often it has doubled, the backoff is no longer than its ceiling.
LEMMA BackoffBounded ==
  ASSUME failed \in 0..MaxDoublings
  PROVE  Backoff \in Nat /\ Backoff <= RetryMax
BY DoubledIsNat, TimesAssumption DEF Backoff, Least

-----------------------------------------------------------------------------
(* The inductive invariant.                                                *)

\* The timer runs once the bundled photos stand in.
TimerRuns == using => started

\* An owner who chose the bundled photos never falls back to them.
NeverFallsBack ==
  selection = "bundled" => ~using /\ \A w \in Walks : ~Doing(w, "fallback")

\* A refresh that will not end with photos, and one that will if the source has
\* them.
Stale(w) == Doing(w, "fallback") \/ (Doing(w, "listed") /\ Listing(w) \in {"none", "raises"})
Fresh(w) == Doing(w, "walking") \/ (Doing(w, "listed") /\ Listing(w) \notin {"none", "raises"})

\* There is only something to be late for while the source has photos that are
\* not shown.
LateFor == (source = "down" \/ ~using) => late = 0

\* A refresh that will fail has begun before the source came back.
StaleBeganBefore == \A w \in Walks : Stale(w) => late <= walk[w].minutes

\* So it sets the clock back early.
SinceKeepsUp == since >= RetryMax \/ late <= since + WalkTime

\* Either the timer has yet to find that it is time, or a refresh is under way
\* that was begun in time.
HelpIsNear ==
  \/ late <= RetryMax + WalkTime + timer
  \/ \E w \in Walks : Fresh(w) /\ late <= RetryMax + Interval + WalkTime + walk[w].minutes

InTime == LateFor /\ StaleBeganBefore /\ SinceKeepsUp /\ HelpIsNear

IInv == TypeOK /\ UsingMeansStandIn /\ TimerRuns /\ NeverFallsBack /\ InTime

-----------------------------------------------------------------------------
(* Each action keeps it.                                                   *)

LEMMA WalkStatesAre ==
  /\ NoWalk \in WalkStates /\ Walking \in WalkStates
  /\ NoWalk.at = "idle" /\ Walking.at = "walking" /\ Walking.minutes = 0
  /\ \A s \in WalkStates : s.at \in {"idle", "walking", "listed", "fallback"}
  /\ \A s \in WalkStates : s.at # "idle" => s.minutes \in 0..WalkTime
  /\ \A s \in WalkStates : s.at = "listed" => s.list \in Listings
BY TimesAssumption DEF WalkStates, NoWalk, Walking

LEMMA Ranges ==
  /\ 0 \in 0..MaxDoublings /\ 0 \in 0..RefreshAfter /\ RefreshAfter \in 0..RefreshAfter
  /\ 0 \in 0..Interval /\ 0 \in Nat
BY TimesAssumption

\* One walk moves on; the others stay.
LEMMA MovesOn ==
  ASSUME TypeOK, NEW w \in Walks, NEW s \in WalkStates, walk' = [walk EXCEPT ![w] = s]
  PROVE  /\ walk' \in [Walks -> WalkStates] /\ walk'[w] = s
         /\ \A v \in Walks \ {w} : walk'[v] = walk[v]
BY DEF TypeOK

\* What is said of the walks, of those that stay as they are.
LEMMA OthersStay ==
  ASSUME NEW v \in Walks, walk'[v] = walk[v]
  PROVE  /\ Fresh(v)' <=> Fresh(v)
         /\ Stale(v)' <=> Stale(v)
         /\ Doing(v, "fallback")' <=> Doing(v, "fallback")
BY DEF Fresh, Stale, Doing, Listing

LEMMA StartsKeeps ==
  ASSUME IInv, NEW w \in Walks, Starts(w), UNCHANGED <<settings, state, started, late>>,
         timer' \in 0..Interval,
         late <= RetryMax + Interval + WalkTime \/ \E v \in Walks : Fresh(v)
  PROVE  IInv'
<1> USE DEF IInv
<1>1. walk[w].at = "idle" /\ walk' = [walk EXCEPT ![w] = Walking]
  BY DEF Starts, Doing
<1>2. /\ walk' \in [Walks -> WalkStates] /\ walk'[w] = Walking
      /\ \A v \in Walks \ {w} : walk'[v] = walk[v]
  BY <1>1, MovesOn, WalkStatesAre
<1>3. UNCHANGED <<source, selection, pool, using, failed, since, started, late>>
  BY DEF settings, state
<1>4. TypeOK'
  BY <1>2, <1>3 DEF TypeOK
<1>5. UsingMeansStandIn' /\ TimerRuns' /\ LateFor'
  BY <1>3 DEF UsingMeansStandIn, TimerRuns, LateFor, InTime
<1>6. Fresh(w)' /\ ~Stale(w)' /\ ~Doing(w, "fallback")' /\ walk'[w].minutes = 0
  BY <1>2, WalkStatesAre DEF Fresh, Stale, Doing
<1>7. NeverFallsBack' /\ StaleBeganBefore' /\ SinceKeepsUp'
  BY <1>2, <1>3, <1>6, OthersStay DEF NeverFallsBack, StaleBeganBefore, SinceKeepsUp, InTime
<1>8. HelpIsNear'
  <2>1. CASE late <= RetryMax + Interval + WalkTime
    <3>1. late' <= RetryMax + Interval + WalkTime + walk'[w].minutes
      BY <1>3, <1>6, <2>1, TimesAssumption DEF TypeOK
    <3>2. QED
      BY <1>6, <3>1 DEF HelpIsNear
  <2>2. CASE ~(late <= RetryMax + Interval + WalkTime)
    <3>1. late > RetryMax + WalkTime + timer
      BY <2>2, TimesAssumption DEF TypeOK
    <3>2. PICK v \in Walks : Fresh(v) /\ late <= RetryMax + Interval + WalkTime + walk[v].minutes
      BY <3>1, TimesAssumption DEF HelpIsNear, InTime, TypeOK
    <3>3. v # w
      BY <1>1, <3>2 DEF Fresh, Doing
    <3>4. QED
      BY <1>2, <1>3, <3>2, <3>3, OthersStay DEF HelpIsNear
  <2>3. QED
    BY <2>1, <2>2
<1>9. QED
  BY <1>4, <1>5, <1>7, <1>8 DEF InTime

\* If nothing fresh is under way, the timer has yet to find that it is time.
LEMMA StillEarly ==
  ASSUME IInv
  PROVE  late <= RetryMax + Interval + WalkTime \/ \E v \in Walks : Fresh(v)
BY TimesAssumption DEF IInv, InTime, HelpIsNear, TypeOK

LEMMA TickKeeps ==
  ASSUME IInv, Tick
  PROVE  IInv'
<1> USE DEF IInv
<1>1. timer = Interval /\ timer' = 0 /\ UNCHANGED <<settings, state, started, late>>
  BY DEF Tick
<1>2. CASE ShouldRefresh
  <2>1. PICK w \in Walks : Starts(w)
    BY <1>2 DEF Tick
  <2>2. timer' \in 0..Interval
    BY <1>1, TimesAssumption
  <2>3. QED
    BY <1>1, <2>1, <2>2, StillEarly, StartsKeeps
<1>3. CASE ~ShouldRefresh
  <2>1. UNCHANGED <<source, selection, pool, using, failed, since, started, walk, late>>
    BY <1>1, <1>3 DEF Tick, settings, state
  <2>2. TypeOK'
    BY <1>1, <2>1, TimesAssumption DEF TypeOK
  <2>3. /\ UsingMeansStandIn' /\ TimerRuns' /\ NeverFallsBack' /\ LateFor'
        /\ StaleBeganBefore' /\ SinceKeepsUp'
    BY <2>1 DEF UsingMeansStandIn, TimerRuns, NeverFallsBack, LateFor, StaleBeganBefore,
         SinceKeepsUp, InTime, Stale, Doing, Listing
  <2>4. late <= RetryMax + WalkTime
    <3>1. CASE ~using
      BY <3>1, TimesAssumption DEF LateFor, InTime
    <3>2. CASE using
      <4>1. Backoff \in Nat /\ Backoff <= RetryMax
        BY BackoffBounded DEF TypeOK
      <4>2. ~(since >= Backoff)
        BY <1>3, <3>2 DEF ShouldRefresh
      <4>3. since \in Nat /\ late \in Nat
        BY TimesAssumption DEF TypeOK
      <4>4. QED
        BY <4>1, <4>2, <4>3, TimesAssumption DEF SinceKeepsUp, InTime
    <3>3. QED
      BY <3>1, <3>2
  <2>5. HelpIsNear'
    BY <1>1, <2>1, <2>4, TimesAssumption DEF HelpIsNear
  <2>6. QED
    BY <2>2, <2>3, <2>5 DEF InTime
<1>4. QED
  BY <1>2, <1>3

LEMMA ServiceKeeps ==
  ASSUME IInv, Service
  PROVE  IInv'
<1>1. PICK w \in Walks : Starts(w)
  BY DEF Service
<1>2. UNCHANGED <<settings, state, started, late>> /\ timer' = timer
  BY DEF Service, clock
<1>3. timer' \in 0..Interval
  BY <1>2 DEF IInv, TypeOK
<1>4. QED
  BY <1>1, <1>2, <1>3, StillEarly, StartsKeeps

\* A walk that moves on without a change of the pool.
LEMMA ListsKeeps ==
  ASSUME IInv, NEW w \in Walks, Lists(w)
  PROVE  IInv'
<1> USE DEF IInv
<1>1. PICK l \in Listed :
        walk' = [walk EXCEPT ![w] = [at |-> "listed", minutes |-> walk[w].minutes, list |-> l]]
  BY DEF Lists
<1> DEFINE s == [at |-> "listed", minutes |-> walk[w].minutes, list |-> l]
<1>2. walk[w].at = "walking" /\ walk[w].minutes \in 0..WalkTime
  BY WalkStatesAre DEF Lists, Doing, TypeOK
<1>3. s \in WalkStates /\ s.at = "listed" /\ s.minutes = walk[w].minutes /\ s.list = l
  <2>1. l \in Listings
    BY DEF Listed, Listings
  <2>2. QED
    BY <1>2, <2>1 DEF WalkStates
<1> HIDE DEF s
<1>4. /\ walk' \in [Walks -> WalkStates] /\ walk'[w] = s
      /\ \A v \in Walks \ {w} : walk'[v] = walk[v]
  BY <1>1, <1>3, MovesOn DEF s
<1>5. UNCHANGED <<source, selection, pool, using, failed, since, started, timer, late>>
  BY DEF Lists, settings, state, clock
<1>6. TypeOK'
  BY <1>4, <1>5 DEF TypeOK
<1>7. /\ UsingMeansStandIn' /\ TimerRuns' /\ LateFor' /\ SinceKeepsUp'
  BY <1>5 DEF UsingMeansStandIn, TimerRuns, LateFor, SinceKeepsUp, InTime
<1>8. ~Doing(w, "fallback")'
  BY <1>3, <1>4 DEF Doing
<1>9. NeverFallsBack'
  BY <1>4, <1>5, <1>8, OthersStay DEF NeverFallsBack
<1>10. CASE source = "down"
  <2>1. late = 0
    BY <1>10 DEF LateFor, InTime
  <2>2. StaleBeganBefore'
    BY <1>2, <1>3, <1>4, <1>5, <2>1, OthersStay DEF StaleBeganBefore, InTime
  <2>3. HelpIsNear'
    BY <1>5, <2>1, TimesAssumption DEF HelpIsNear, TypeOK
  <2>4. QED
    BY <1>6, <1>7, <1>9, <2>2, <2>3 DEF InTime
<1>11. CASE source # "down"
  <2>1. l \notin {"none", "raises"}
    BY <1>11, AlbumsAssumption DEF Listed, TypeOK
  <2>2. Fresh(w)' /\ ~Stale(w)'
    BY <1>3, <1>4, <2>1 DEF Fresh, Stale, Doing, Listing
  <2>3. StaleBeganBefore'
    BY <1>4, <1>5, <2>2, OthersStay DEF StaleBeganBefore, InTime
  <2>4. HelpIsNear'
    <3>1. CASE late <= RetryMax + WalkTime + timer
      BY <1>5, <3>1 DEF HelpIsNear
    <3>2. ASSUME NEW v \in Walks, Fresh(v),
                 late <= RetryMax + Interval + WalkTime + walk[v].minutes
          PROVE  HelpIsNear'
      <4>1. Fresh(v)' /\ walk'[v].minutes = walk[v].minutes
        BY <1>3, <1>4, <2>2, <3>2, OthersStay
      <4>2. QED
        BY <1>5, <3>2, <4>1 DEF HelpIsNear
    <3>3. QED
      BY <3>1, <3>2 DEF HelpIsNear, InTime
  <2>5. QED
    BY <1>6, <1>7, <1>9, <2>3, <2>4 DEF InTime
<1>12. QED
  BY <1>10, <1>11

\* A stale refresh that fails, or falls back, while the photos it leaves in the
\* pool, the clock and the others stay in order.
LEMMA FailingKeeps ==
  ASSUME IInv, NEW w \in Walks, NEW s \in WalkStates, walk' = [walk EXCEPT ![w] = s],
         Stale(w), s.at \in {"idle", "fallback"},
         s.at = "fallback" => s.minutes = walk[w].minutes /\ selection = "source",
         UNCHANGED <<settings, late>>,
         pool' \in Holdings, using' \in BOOLEAN, failed' \in 0..MaxDoublings,
         since' = 0 \/ since' = since, started' \in BOOLEAN, timer' = timer,
         UsingMeansStandIn', TimerRuns', using => using',
         using' => selection = "source"
  PROVE  IInv'
<1> USE DEF IInv
<1>1. /\ walk' \in [Walks -> WalkStates] /\ walk'[w] = s
      /\ \A v \in Walks \ {w} : walk'[v] = walk[v]
  BY MovesOn
<1>2. UNCHANGED <<source, selection, late, timer>>
  BY DEF settings
<1>3. TypeOK'
  BY <1>1, <1>2, TimesAssumption DEF TypeOK
<1>4. NeverFallsBack'
  <2>1. ASSUME NEW v \in Walks, Doing(v, "fallback")' PROVE selection = "source"
    BY <1>1, <2>1, OthersStay DEF NeverFallsBack, Doing, TypeOK
  <2>2. QED
    BY <1>2, <2>1 DEF NeverFallsBack
<1>5. LateFor'
  BY <1>2 DEF LateFor, InTime
<1>6. late <= walk[w].minutes /\ walk[w].minutes \in 0..WalkTime /\ late \in Nat
  <2>1. walk[w] \in WalkStates /\ walk[w].at # "idle"
    BY DEF TypeOK, Stale, Doing
  <2>2. QED
    BY <2>1, WalkStatesAre DEF StaleBeganBefore, InTime, TypeOK
<1>7. StaleBeganBefore'
  <2>1. Stale(w)' => late <= walk'[w].minutes
    BY <1>1, <1>6 DEF Stale, Doing
  <2>2. QED
    BY <1>1, <1>2, <2>1, OthersStay DEF StaleBeganBefore, InTime
<1>8. SinceKeepsUp'
  BY <1>2, <1>6, TimesAssumption DEF SinceKeepsUp, InTime
<1>9. HelpIsNear'
  <2>1. late <= RetryMax + WalkTime + timer
    BY <1>6, TimesAssumption DEF TypeOK
  <2>2. QED
    BY <1>2, <2>1 DEF HelpIsNear
<1>10. QED
  BY <1>3, <1>4, <1>5, <1>7, <1>8, <1>9 DEF InTime

LEMMA FailsTyped ==
  ASSUME TypeOK, Fails
  PROVE  failed' \in 0..MaxDoublings
BY TimesAssumption DEF TypeOK, Fails, Least

LEMMA UnavailableKeeps ==
  ASSUME IInv, NEW w \in Walks, Unavailable(w)
  PROVE  IInv'
<1> USE DEF IInv
<1>1. Stale(w) /\ walk' = [walk EXCEPT ![w] = NoWalk]
  BY DEF Unavailable, Stale, Ends
<1>2. UNCHANGED <<settings, pool, using, late>> /\ since' = 0 /\ Fails
  BY DEF Unavailable
<1>3. started' = TRUE /\ timer' = timer
  BY DEF Unavailable, Timer
<1>4. failed' \in 0..MaxDoublings
  BY <1>2, FailsTyped
<1>5. pool' \in Holdings /\ using' \in BOOLEAN /\ (using' => selection = "source")
  BY <1>2 DEF TypeOK, NeverFallsBack
<1>6. UsingMeansStandIn' /\ TimerRuns'
  BY <1>2, <1>3 DEF UsingMeansStandIn, TimerRuns
<1>7. QED
  BY <1>1, <1>2, <1>3, <1>4, <1>5, <1>6, WalkStatesAre, FailingKeeps

LEMMA NoneBundledKeeps ==
  ASSUME IInv, NEW w \in Walks, NoneBundled(w)
  PROVE  IInv'
<1> USE DEF IInv
<1>1. Stale(w) /\ walk' = [walk EXCEPT ![w] = NoWalk]
  BY DEF NoneBundled, Stale, Ends
<1>2. UNCHANGED <<settings, using, failed, late>> /\ since' = 0 /\ pool' = "none"
  BY DEF NoneBundled
<1>3. started' = TRUE /\ timer' = timer
  BY DEF NoneBundled, Timer
<1>4. using = FALSE
  BY DEF NoneBundled, NeverFallsBack, TypeOK
<1>5. UsingMeansStandIn' /\ TimerRuns' /\ pool' \in Holdings
  BY <1>2, <1>4 DEF UsingMeansStandIn, TimerRuns, Holdings
<1>6. failed' \in 0..MaxDoublings
  BY <1>2 DEF TypeOK
<1>7. QED
  BY <1>1, <1>2, <1>3, <1>4, <1>5, <1>6, WalkStatesAre, FailingKeeps

LEMMA NoneKeeps ==
  ASSUME IInv, NEW w \in Walks, None(w)
  PROVE  IInv'
<1> USE DEF IInv
<1> DEFINE s == [at |-> "fallback", minutes |-> walk[w].minutes]
<1>1. Stale(w) /\ walk' = [walk EXCEPT ![w] = s] /\ selection = "source"
  BY DEF None, Stale
<1>2. s \in WalkStates /\ s.at = "fallback" /\ s.minutes = walk[w].minutes
  <2>1. walk[w].minutes \in 0..WalkTime
    BY WalkStatesAre DEF None, Doing, TypeOK
  <2>2. QED
    BY <2>1 DEF WalkStates
<1> HIDE DEF s
<1>3. UNCHANGED <<settings, pool, using, late>> /\ since' = 0 /\ Fails
  BY DEF None
<1>4. started' = started /\ timer' = timer
  BY DEF None, clock
<1>5. failed' \in 0..MaxDoublings
  BY <1>3, FailsTyped
<1>6. pool' \in Holdings /\ using' \in BOOLEAN /\ started' \in BOOLEAN
  BY <1>3, <1>4 DEF TypeOK
<1>7. UsingMeansStandIn' /\ TimerRuns'
  BY <1>3, <1>4 DEF UsingMeansStandIn, TimerRuns
<1>8. QED
  BY <1>1, <1>2, <1>3, <1>4, <1>5, <1>6, <1>7, FailingKeeps

LEMMA StandInKeeps ==
  ASSUME IInv, NEW w \in Walks, StandIn(w)
  PROVE  IInv'
<1> USE DEF IInv
<1>1. Stale(w) /\ walk' = [walk EXCEPT ![w] = NoWalk]
  BY DEF StandIn, Stale, Ends
<1>2. UNCHANGED <<settings, failed, since, late>> /\ using' = TRUE /\ pool' = "bundled"
  BY DEF StandIn
<1>3. started' = TRUE /\ timer' = timer
  BY DEF StandIn, Timer
<1>4. selection = "source"
  BY DEF StandIn, NeverFallsBack, TypeOK
<1>5. UsingMeansStandIn' /\ TimerRuns' /\ pool' \in Holdings
  BY <1>2, <1>3 DEF UsingMeansStandIn, TimerRuns, Holdings
<1>6. failed' \in 0..MaxDoublings
  BY <1>2 DEF TypeOK
<1>7. QED
  BY <1>1, <1>2, <1>3, <1>4, <1>5, <1>6, WalkStatesAre, FailingKeeps

LEMMA FoundKeeps ==
  ASSUME IInv, NEW w \in Walks, Found(w)
  PROVE  IInv'
<1> USE DEF IInv
<1>1. walk' = [walk EXCEPT ![w] = NoWalk] /\ walk[w].at = "listed"
  BY DEF Found, Ends, Doing
<1>2. /\ walk' \in [Walks -> WalkStates] /\ walk'[w] = NoWalk
      /\ \A v \in Walks \ {w} : walk'[v] = walk[v]
  BY <1>1, MovesOn, WalkStatesAre
<1>3. /\ UNCHANGED <<source, selection, timer>> /\ started' = TRUE
      /\ since' = 0 /\ failed' = 0 /\ using' = FALSE /\ pool' = walk[w].list /\ late' = 0
  BY DEF Found, Timer, settings, Listing
<1>4. pool' \in Holdings \ {"bundled"}
  <2>1. walk[w].list \in Listings \ {"raises", "none"}
    BY <1>1, WalkStatesAre DEF Found, Listing, TypeOK
  <2>2. QED
    BY <1>3, <2>1, AlbumsAssumption DEF Listings, Holdings
<1>5. TypeOK'
  BY <1>2, <1>3, <1>4, Ranges DEF TypeOK
<1>6. UsingMeansStandIn' /\ TimerRuns' /\ LateFor'
  BY <1>3, <1>4 DEF UsingMeansStandIn, TimerRuns, LateFor
<1>7. ~Doing(w, "fallback")' /\ ~Stale(w)'
  BY <1>2, WalkStatesAre DEF Doing, Stale
<1>8. NeverFallsBack'
  BY <1>2, <1>3, <1>7, OthersStay DEF NeverFallsBack
<1>9. StaleBeganBefore'
  <2>1. ASSUME NEW v \in Walks, Stale(v)' PROVE walk'[v].minutes \in Nat
    <3>1. walk'[v] \in WalkStates /\ walk'[v].at # "idle"
      BY <1>2, <2>1 DEF Stale, Doing
    <3>2. QED
      BY <3>1, WalkStatesAre, TimesAssumption
  <2>2. QED
    BY <1>3, <2>1 DEF StaleBeganBefore
<1>10. SinceKeepsUp' /\ HelpIsNear'
  <2>1. late' <= since' + WalkTime /\ late' <= RetryMax + WalkTime + timer'
    BY <1>3, TimesAssumption DEF TypeOK
  <2>2. QED
    BY <2>1, <1>3, TimesAssumption DEF SinceKeepsUp, HelpIsNear
<1>11. QED
  BY <1>5, <1>6, <1>8, <1>9, <1>10 DEF InTime

LEMMA SourceChangesKeeps ==
  ASSUME IInv, SourceChanges
  PROVE  IInv'
<1> USE DEF IInv
<1>1. /\ UNCHANGED <<selection, pool, using, failed, since, started, timer, walk>>
      /\ source' \in Albums \cup {"down"}
      /\ late' = IF source' = "down" THEN 0 ELSE late
  BY DEF SourceChanges, state, clock
<1>2. late' \in Nat /\ late' <= late
  BY <1>1 DEF TypeOK
<1>3. TypeOK'
  BY <1>1, <1>2 DEF TypeOK
<1>4. UsingMeansStandIn' /\ TimerRuns' /\ NeverFallsBack' /\ LateFor'
  BY <1>1 DEF UsingMeansStandIn, TimerRuns, NeverFallsBack, LateFor, InTime, Doing
<1>5. \A v \in Walks : (Stale(v)' <=> Stale(v)) /\ (Fresh(v)' <=> Fresh(v))
  BY <1>1, OthersStay
<1>6. \A v \in Walks : walk[v].at # "idle" => walk[v].minutes \in Nat
  BY WalkStatesAre, TimesAssumption DEF TypeOK
<1>7. StaleBeganBefore'
  <2>1. ASSUME NEW v \in Walks, Stale(v)' PROVE late' <= walk'[v].minutes
    <3>1. late <= walk[v].minutes /\ walk[v].minutes \in Nat
      BY <1>5, <1>6, <2>1 DEF StaleBeganBefore, InTime, Stale, Doing
    <3>2. QED
      BY <1>1, <1>2, <3>1 DEF TypeOK
  <2>2. QED
    BY <2>1 DEF StaleBeganBefore
<1>8. SinceKeepsUp'
  BY <1>1, <1>2, TimesAssumption DEF SinceKeepsUp, InTime, TypeOK
<1>9. HelpIsNear'
  <2>1. CASE late <= RetryMax + WalkTime + timer
    <3>1. late' <= RetryMax + WalkTime + timer'
      BY <1>1, <1>2, <2>1, TimesAssumption DEF TypeOK
    <3>2. QED
      BY <3>1 DEF HelpIsNear
  <2>2. ASSUME NEW v \in Walks, Fresh(v),
               late <= RetryMax + Interval + WalkTime + walk[v].minutes
        PROVE  HelpIsNear'
    <3>1. walk[v].minutes \in Nat
      BY <1>6, <2>2 DEF Fresh, Doing
    <3>2. late' <= RetryMax + Interval + WalkTime + walk'[v].minutes
      BY <1>1, <1>2, <2>2, <3>1, TimesAssumption DEF TypeOK
    <3>3. QED
      BY <1>5, <2>2, <3>2 DEF HelpIsNear
  <2>3. QED
    BY <2>1, <2>2 DEF HelpIsNear, InTime
<1>10. QED
  BY <1>3, <1>4, <1>7, <1>8, <1>9 DEF InTime

\* A minute makes a walk a minute older, and is no other change to it.
LEMMA WalksAge ==
  ASSUME TypeOK, Minute, NEW v \in Walks
  PROVE  /\ walk'[v] \in WalkStates
         /\ walk'[v].at = walk[v].at
         /\ Fresh(v)' <=> Fresh(v)
         /\ Stale(v)' <=> Stale(v)
         /\ walk[v].at # "idle" =>
              walk[v].minutes \in Nat /\ walk'[v].minutes = walk[v].minutes + 1
<1>1. walk[v] \in WalkStates /\ walk[v].at \in {"idle", "walking", "listed", "fallback"}
  BY WalkStatesAre DEF TypeOK
<1>2. walk'[v] = IF Doing(v, "idle") THEN NoWalk ELSE [walk[v] EXCEPT !.minutes = @ + 1]
  BY DEF Minute
<1>3. CASE walk[v].at = "idle"
  BY <1>2, <1>3, WalkStatesAre DEF Doing, Fresh, Stale
<1>4. CASE walk[v].at # "idle"
  <2>1. walk[v].minutes \in 0..WalkTime /\ walk[v].minutes < WalkTime
    BY <1>1, <1>4, WalkStatesAre DEF Minute
  <2>2. walk[v].minutes + 1 \in 0..WalkTime
    BY <2>1, TimesAssumption
  <2>3. walk'[v] = [walk[v] EXCEPT !.minutes = @ + 1]
    BY <1>2, <1>4 DEF Doing
  <2>4. CASE walk[v].at = "listed"
    <3>1. walk[v] \in [at : {"listed"}, minutes : 0..WalkTime, list : Listings]
      BY <1>1, <2>4 DEF WalkStates, NoWalk
    <3>2. /\ walk'[v] \in [at : {"listed"}, minutes : 0..WalkTime, list : Listings]
          /\ walk'[v].list = walk[v].list /\ walk'[v].minutes = walk[v].minutes + 1
      BY <2>2, <2>3, <3>1
    <3>3. QED
      BY <2>1, <2>4, <3>2 DEF WalkStates, Fresh, Stale, Doing, Listing
  <2>5. CASE walk[v].at \in {"walking", "fallback"}
    <3>1. walk[v] \in [at : {"walking", "fallback"}, minutes : 0..WalkTime]
      BY <1>1, <2>5 DEF WalkStates, NoWalk
    <3>2. /\ walk'[v] \in [at : {"walking", "fallback"}, minutes : 0..WalkTime]
          /\ walk'[v].at = walk[v].at /\ walk'[v].minutes = walk[v].minutes + 1
      BY <2>2, <2>3, <3>1
    <3>3. QED
      BY <2>1, <2>5, <3>2 DEF WalkStates, Fresh, Stale, Doing, Listing
  <2>6. QED
    BY <1>1, <1>4, <2>4, <2>5
<1>5. QED
  BY <1>3, <1>4

LEMMA MinuteKeeps ==
  ASSUME IInv, Minute
  PROVE  IInv'
<1> USE DEF IInv
<1>1. UNCHANGED <<source, selection, pool, using, failed, started>>
  BY DEF Minute, settings
<1>2. timer' = (IF started THEN timer + 1 ELSE 0) /\ timer' \in 0..Interval
  BY TimesAssumption DEF Minute, TypeOK
<1>3. since' = Least(since + 1, RefreshAfter) /\ since' \in 0..RefreshAfter
  BY TimesAssumption DEF Minute, Least, TypeOK
<1>4. late' = (IF using /\ source \in Albums THEN late + 1 ELSE 0) /\ late' \in Nat
  BY DEF Minute, TypeOK
<1>5. walk' \in [Walks -> WalkStates]
  <2>1. \A v \in Walks : walk'[v] \in WalkStates
    BY WalksAge
  <2>2. QED
    BY <2>1 DEF Minute
<1>6. TypeOK'
  BY <1>1, <1>2, <1>3, <1>4, <1>5 DEF TypeOK
<1>7. NeverFallsBack'
  BY <1>1, WalksAge DEF NeverFallsBack, Doing
<1>8. UsingMeansStandIn' /\ TimerRuns' /\ LateFor'
  BY <1>1, <1>4, AlbumsAssumption DEF UsingMeansStandIn, TimerRuns, LateFor
<1>9. late' <= late + 1 /\ (late' # 0 => started)
  BY <1>4 DEF TypeOK, TimerRuns
<1>10. StaleBeganBefore'
  <2>1. ASSUME NEW v \in Walks, Stale(v)' PROVE late' <= walk'[v].minutes
    <3>1. Stale(v) /\ walk[v].minutes \in Nat /\ walk'[v].minutes = walk[v].minutes + 1
      BY <2>1, WalksAge DEF Stale, Doing
    <3>2. late <= walk[v].minutes
      BY <3>1 DEF StaleBeganBefore, InTime
    <3>3. QED
      BY <1>4, <1>9, <3>1, <3>2 DEF TypeOK
  <2>2. QED
    BY <2>1 DEF StaleBeganBefore
<1>11. SinceKeepsUp'
  BY <1>3, <1>4, <1>9, TimesAssumption DEF SinceKeepsUp, InTime, Least, TypeOK
<1>12. HelpIsNear'
  <2>1. CASE late' = 0
    <3>1. late' <= RetryMax + WalkTime + timer'
      BY <1>2, <2>1, TimesAssumption
    <3>2. QED
      BY <3>1 DEF HelpIsNear
  <2>2. CASE late' # 0 /\ late <= RetryMax + WalkTime + timer
    <3>1. late' <= RetryMax + WalkTime + timer'
      BY <1>2, <1>4, <1>9, <2>2, TimesAssumption DEF TypeOK
    <3>2. QED
      BY <3>1 DEF HelpIsNear
  <2>3. ASSUME NEW v \in Walks, Fresh(v),
               late <= RetryMax + Interval + WalkTime + walk[v].minutes
        PROVE  HelpIsNear'
    <3>1. Fresh(v)' /\ walk[v].minutes \in Nat /\ walk'[v].minutes = walk[v].minutes + 1
      BY <2>3, WalksAge DEF Fresh, Doing
    <3>2. late' <= RetryMax + Interval + WalkTime + walk'[v].minutes
      BY <1>4, <1>9, <2>3, <3>1, TimesAssumption DEF TypeOK
    <3>3. QED
      BY <3>1, <3>2 DEF HelpIsNear
  <2>4. QED
    BY <2>1, <2>2, <2>3 DEF HelpIsNear, InTime
<1>13. QED
  BY <1>6, <1>7, <1>8, <1>10, <1>11, <1>12 DEF InTime

LEMMA InitHolds == Init => IInv
<1> SUFFICES ASSUME Init PROVE IInv
  OBVIOUS
<1>1. PICK w \in Walks : walk = [v \in Walks |-> IF v = w THEN Walking ELSE NoWalk]
  BY DEF Init
<1>2. walk \in [Walks -> WalkStates] /\ \A v \in Walks : walk[v] \in {Walking, NoWalk}
  BY <1>1, WalkStatesAre
<1>3. TypeOK
  BY <1>2, Ranges DEF Init, TypeOK, Holdings
<1>4. \A v \in Walks : ~Stale(v) /\ ~Doing(v, "fallback")
  BY <1>2, WalkStatesAre DEF Stale, Doing
<1>5. UsingMeansStandIn /\ TimerRuns /\ NeverFallsBack
  BY <1>4 DEF Init, UsingMeansStandIn, TimerRuns, NeverFallsBack
<1>6. LateFor /\ StaleBeganBefore
  BY <1>4 DEF Init, LateFor, StaleBeganBefore
<1>7. SinceKeepsUp /\ HelpIsNear
  BY TimesAssumption DEF Init, SinceKeepsUp, HelpIsNear
<1>8. QED
  BY <1>3, <1>5, <1>6, <1>7 DEF IInv, InTime

LEMMA StutterKeeps == IInv /\ UNCHANGED vars => IInv'
  BY DEF IInv, InTime, TypeOK, UsingMeansStandIn, TimerRuns, NeverFallsBack, LateFor,
         StaleBeganBefore, SinceKeepsUp, HelpIsNear, Stale, Fresh, Doing, Listing,
         vars, settings, state, clock

LEMMA StepKeeps == IInv /\ [Next]_vars => IInv'
<1> SUFFICES ASSUME IInv, [Next]_vars PROVE IInv'
  OBVIOUS
<1>1. CASE Tick \/ Service
  BY <1>1, TickKeeps, ServiceKeeps
<1>2. CASE \E w \in Walks : Refresh(w)
  BY <1>2, ListsKeeps, UnavailableKeeps, FoundKeeps, NoneBundledKeeps, NoneKeeps,
     StandInKeeps DEF Refresh
<1>3. CASE SourceChanges \/ Minute
  BY <1>3, SourceChangesKeeps, MinuteKeeps
<1>4. CASE UNCHANGED vars
  BY <1>4, StutterKeeps
<1>5. QED
  BY <1>1, <1>2, <1>3, <1>4 DEF Next

-----------------------------------------------------------------------------
(* The theorems.                                                           *)

LEMMA Invariant == Spec => []IInv
  BY InitHolds, StepKeeps, PTL DEF Spec

\* The pool holds an album, a part of one, the bundled photos or nothing, the
\* clocks stay within what matters, and each walk is where its next step begins.
THEOREM TypeCorrect == Spec => []TypeOK
<1>1. IInv => TypeOK
  BY DEF IInv
<1>2. QED
  BY Invariant, <1>1, PTL

\* However many refreshes overlap, using_fallback and the pool never disagree:
\* the retries are frequent exactly while the bundled photos are in the pool
\* (coordinator.py:193).
THEOREM FallbackIsHonest == Spec => []UsingMeansStandIn
<1>1. IInv => UsingMeansStandIn
  BY DEF IInv
<1>2. QED
  BY Invariant, <1>1, PTL

\* The owner's photos are back within the longest backoff, one interval and
\* two walks, whatever these are and however many refreshes overlap
\* (coordinator.py:227).
THEOREM PhotosComeBackInTime == Spec => []RecoversInTime
<1>1. IInv => RecoversInTime
  <2> SUFFICES ASSUME IInv PROVE RecoversInTime
    OBVIOUS
  <2> USE DEF IInv
  <2>1. CASE late <= RetryMax + WalkTime + timer
    BY <2>1, TimesAssumption DEF RecoversInTime, TypeOK
  <2>2. ASSUME NEW w \in Walks, Fresh(w),
               late <= RetryMax + Interval + WalkTime + walk[w].minutes
        PROVE  RecoversInTime
    <3>1. walk[w].minutes \in 0..WalkTime
      BY <2>2, WalkStatesAre DEF Fresh, Doing, TypeOK
    <3>2. QED
      BY <2>2, <3>1, TimesAssumption DEF RecoversInTime, TypeOK
  <2>3. QED
    BY <2>1, <2>2 DEF HelpIsNear, InTime
<1>2. QED
  BY Invariant, <1>1, PTL
=============================================================================
