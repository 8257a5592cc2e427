---------------------------- MODULE PoolRefresh ----------------------------
(***************************************************************************)
(* How a frame's pool of photos follows the source the owner chose         *)
(* (custom_components/photoframe_bridge/coordinator.py,                    *)
(* async_refresh_pool), and the bundled photos stand in for a source that  *)
(* has none.                                                               *)
(*                                                                         *)
(* A refresh walks the whole source and awaits each part of it.  The timer *)
(* starts one when _should_refresh_pool says so, whether or not another is *)
(* under way, and the refresh service starts one at any time; each applies *)
(* what it has listed when it ends.  Minutes pass between the steps.       *)
(***************************************************************************)
EXTENDS Naturals, FiniteSets

CONSTANTS
  Walks,         \* bound: refreshes under way at once
  Albums,        \* what the source may hold
  Interval,      \* the rotation interval
  RefreshAfter,  \* POOL_REFRESH_SECONDS
  RetryBase,     \* FALLBACK_RETRY_BASE_SECONDS
  RetryMax,      \* FALLBACK_RETRY_MAX_SECONDS
  MaxDoublings,  \* how often the backoff doubles (8)
  WalkTime       \* bound: minutes a refresh takes at most

ASSUME WalksAssumption == IsFiniteSet(Walks) /\ Walks # {}
ASSUME AlbumsAssumption == Albums \cap {"part", "none", "raises", "bundled", "down"} = {}
ASSUME TimesAssumption ==
  /\ Interval \in Nat \ {0} /\ RetryBase \in Nat \ {0} /\ RetryMax \in Nat /\ WalkTime \in Nat
  /\ MaxDoublings \in Nat /\ RefreshAfter \in Nat /\ RetryMax <= RefreshAfter

VARIABLES
  source,     \* what the source holds, or that it cannot be read
  selection,  \* whether the owner has chosen a source, or the bundled photos
  pool,       \* PhotoPool.items
  using,      \* using_fallback
  failed,     \* _failed_refreshes, of which no more than MaxDoublings matter
  since,      \* minutes since _pool_refreshed_at, as far as they matter: never
              \* is as long as matters
  started,    \* whether the rotation timer runs
  timer,      \* minutes since it fired
  walk,       \* the refreshes
  late        \* history: minutes for which the bundled photos have stood in for a
              \* source that has photos

settings == <<source, selection>>
state == <<pool, using, failed, since>>
clock == <<started, timer>>
vars == <<settings, state, clock, walk, late>>

Least(a, b) == IF a <= b THEN a ELSE b

\* The pool holds an album, what could be read of one, the bundled photos or none.
Holdings == Albums \cup {"part", "bundled", "none"}
Listings == Albums \cup {"part", "none", "raises"}

\* A refresh walks the source, has listed it, or awaits the bundled photos.
NoWalk == [at |-> "idle"]
Walking == [at |-> "walking", minutes |-> 0]
Doing(w, place) == walk[w].at = place

Init ==
  /\ source \in Albums \cup {"down"} /\ selection \in {"source", "bundled"}
  /\ pool = "none" /\ using = FALSE /\ failed = 0 /\ since = RefreshAfter
  /\ started = FALSE /\ timer = 0
  /\ \E w \in Walks : walk = [v \in Walks |-> IF v = w THEN Walking ELSE NoWalk]
  /\ late = 0

-----------------------------------------------------------------------------
(* When to refresh.                                                        *)

\* RetryBase * 2^n.
Doubled[n \in 0..MaxDoublings] == IF n = 0 THEN RetryBase ELSE 2 * Doubled[n - 1]

\* Mutant: a backoff that doubles past its ceiling.
BackoffUnbounded == Doubled[failed]

\* How long to wait for a source that gave nothing.
Backoff == Least(RetryMax, Doubled[failed])

\* Mutant: a source that works is not read again.
ShouldRefreshFailing == using /\ since >= Backoff

\* _should_refresh_pool
ShouldRefresh == since >= (IF using THEN Backoff ELSE RefreshAfter)

Starts(w) == Doing(w, "idle") /\ walk' = [walk EXCEPT ![w] = Walking]

\* _on_tick: the refresh, if one is due, and the next photo (see Slideshow).
Tick ==
  /\ started /\ timer = Interval /\ timer' = 0
  /\ IF ShouldRefresh THEN \E w \in Walks : Starts(w) ELSE UNCHANGED walk
  /\ UNCHANGED <<settings, state, started, late>>

\* The refresh service.
Service ==
  /\ started /\ \E w \in Walks : Starts(w)
  /\ UNCHANGED <<settings, state, clock, late>>

-----------------------------------------------------------------------------
(* async_refresh_pool.                                                     *)

\* What a walk that ends now may have listed: parts of a source that cannot be
\* read are passed over, unless the provider raises SourceUnavailable.
Listed == IF source \in Albums THEN {source} ELSE {"part", "none", "raises"}

\* The walk has passed all there is; it may end minutes later.
Lists(w) ==
  /\ Doing(w, "walking")
  /\ \E l \in Listed :
       walk' = [walk EXCEPT ![w] = [at |-> "listed", minutes |-> walk[w].minutes, list |-> l]]
  /\ UNCHANGED <<settings, state, clock, late>>

Ends(w) == walk' = [walk EXCEPT ![w] = NoWalk]
Listing(w) == walk[w].list

\* The first refresh of all is async_start's, which then starts the timer.
Timer == started' = TRUE /\ UNCHANGED timer

Fails == failed' = Least(failed + 1, MaxDoublings)

\* SourceUnavailable: the pool stays as it is.
Unavailable(w) ==
  /\ Doing(w, "listed") /\ Listing(w) = "raises"
  /\ since' = 0 /\ Fails /\ Ends(w) /\ Timer
  /\ UNCHANGED <<settings, pool, using, late>>

\* Mutant: an error taken for an album.
FoundAnything(w) ==
  /\ Doing(w, "listed") /\ Listing(w) # "none"
  /\ since' = 0 /\ failed' = 0 /\ using' = FALSE /\ pool' = Listing(w)
  /\ Ends(w) /\ Timer /\ late' = 0 /\ UNCHANGED settings

\* There are photos, and the pool is what was listed.
Found(w) ==
  /\ Doing(w, "listed") /\ Listing(w) \notin {"raises", "none"}
  /\ since' = 0 /\ failed' = 0 /\ using' = FALSE /\ pool' = Listing(w)
  /\ Ends(w) /\ Timer /\ late' = 0 /\ UNCHANGED settings

\* The owner chose the bundled photos, and there are none.
NoneBundled(w) ==
  /\ Doing(w, "listed") /\ Listing(w) = "none" /\ selection = "bundled"
  /\ since' = 0 /\ pool' = "none" /\ Ends(w) /\ Timer
  /\ UNCHANGED <<settings, using, failed, late>>

\* Mutant: the fallback said to be in use before it is.
NoneSaysFallback(w) ==
  /\ Doing(w, "listed") /\ Listing(w) = "none" /\ selection = "source"
  /\ since' = 0 /\ Fails /\ using' = TRUE
  /\ walk' = [walk EXCEPT ![w] = [at |-> "fallback", minutes |-> walk[w].minutes]]
  /\ UNCHANGED <<settings, pool, clock, late>>

\* There is nothing: the bundled photos are asked for.
None(w) ==
  /\ Doing(w, "listed") /\ Listing(w) = "none" /\ selection = "source"
  /\ since' = 0 /\ Fails
  /\ walk' = [walk EXCEPT ![w] = [at |-> "fallback", minutes |-> walk[w].minutes]]
  /\ UNCHANGED <<settings, pool, using, clock, late>>

\* ... and stand in, whatever another refresh has found meanwhile.
StandIn(w) ==
  /\ Doing(w, "fallback")
  /\ using' = TRUE /\ pool' = "bundled" /\ Ends(w) /\ Timer
  /\ UNCHANGED <<settings, failed, since, late>>

Refresh(w) ==
  Lists(w) \/ Unavailable(w) \/ Found(w) \/ NoneBundled(w) \/ None(w) \/ StandIn(w)

-----------------------------------------------------------------------------
(* The outside.                                                            *)

SourceChanges ==
  /\ source' \in (Albums \cup {"down"}) \ {source}
  /\ late' = IF source' = "down" THEN 0 ELSE late
  /\ UNCHANGED <<selection, state, clock, walk>>

\* A minute passes: the timer fires on time and no refresh takes too long.
Minute ==
  /\ started => timer < Interval
  /\ \A w \in Walks : walk[w].at # "idle" => walk[w].minutes < WalkTime
  /\ timer' = IF started THEN timer + 1 ELSE 0
  /\ since' = Least(since + 1, RefreshAfter)
  /\ walk' = [w \in Walks |-> IF Doing(w, "idle") THEN NoWalk
                              ELSE [walk[w] EXCEPT !.minutes = @ + 1]]
  /\ late' = IF using /\ source \in Albums THEN late + 1 ELSE 0
  /\ UNCHANGED <<settings, pool, using, failed, started>>

Next ==
  \/ Tick \/ Service
  \/ \E w \in Walks : Refresh(w)
  \/ SourceChanges \/ Minute

\* Time passes, the timer fires, and what a refresh awaits is answered.
Fairness == WF_vars(Tick) /\ WF_vars(Minute) /\ \A w \in Walks : WF_vars(Refresh(w))

Spec == Init /\ [][Next]_vars /\ Fairness

-----------------------------------------------------------------------------
(* Properties.                                                             *)

WalkStates ==
  {NoWalk} \cup [at : {"walking", "fallback"}, minutes : 0..WalkTime]
           \cup [at : {"listed"}, minutes : 0..WalkTime, list : Listings]

TypeOK ==
  /\ source \in Albums \cup {"down"} /\ selection \in {"source", "bundled"}
  /\ pool \in Holdings /\ using \in BOOLEAN /\ failed \in 0..MaxDoublings
  /\ since \in 0..RefreshAfter /\ started \in BOOLEAN /\ timer \in 0..Interval
  /\ walk \in [Walks -> WalkStates] /\ late \in Nat

\* However refreshes overlap, the frame retries by the backoff exactly while
\* the bundled photos stand in: none leaves it showing them and waiting the
\* long interval, or hurrying while it shows the owner's (coordinator.py:193).
UsingMeansStandIn == using <=> pool = "bundled"

\* The bundled photos stand in for a source that has photos again no longer than
\* the longest wait, one interval, and the time that a refresh begun too early
\* and the one that finds the photos take, however often it has failed and
\* however late a failure is applied (coordinator.py:227).
RecoversInTime == late <= RetryMax + Interval + 2 * WalkTime

\* A source that stays as it is comes to be what the pool holds, and the pool
\* stays so, whichever of several refreshes ends last and whatever they listed
\* before (coordinator.py:182).
CatchesUp ==
  \A a \in Albums : <>[](source = a) => <>[](pool = a)
=============================================================================
