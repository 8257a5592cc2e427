----------------------------- MODULE PhotoStore -----------------------------
(***************************************************************************)
(* The prepared photos on Home Assistant's disk                            *)
(* (custom_components/photoframe_bridge/photo_store.py), which every       *)
(* frame's coordinator puts photos in (coordinator.py, async_prepare) and  *)
(* the image view serves to the frames (http_view.py).                     *)
(*                                                                         *)
(* Every call on the store runs on a thread of the executor and nothing    *)
(* guards the directory, so each system call is a step.  A writer that has *)
(* a file open goes on writing to that file whatever has become of its     *)
(* name since.                                                             *)
(***************************************************************************)
EXTENDS Naturals, Sequences, FiniteSets, Functions

CONSTANTS
  Photos,
  Tasks,       \* bound: coordinator tasks that prepare photos at once
  Requests,    \* bound: requests served at once
  MaxEntries,  \* max_entries
  MaxFaults    \* bound: failed writes and kills

ASSUME TasksAssumption == IsFiniteSet(Tasks)
ASSUME BoundsAssumption == MaxEntries \in Nat \ {0} /\ MaxFaults \in Nat

VARIABLES
  used,     \* the files there are, by access time, the oldest first
  half,     \* those that do not hold a whole photo
  task,     \* what each coordinator task is doing
  request,  \* what each request is doing
  purging,  \* the files a purge has still to remove
  raced,    \* history: photos that two tasks have written at once
  gaveUp,   \* history: an eviction has been given up
  faults

diskVars == <<used, half>>
vars == <<used, half, task, request, purging, raced, gaveUp, faults>>

\* A photo's file, under its own name or under the name it is written by.
Files == [photo : Photos, temp : BOOLEAN]
Final(p) == [photo |-> p, temp |-> FALSE]
Temp(p)  == [photo |-> p, temp |-> TRUE]

Exists(f) == f \in Range(used)

\* entries: a temporary file is not one of them.
Entries == {f \in Range(used) : ~f.temp}

\* A task is somewhere in async_prepare and put: it has a photo, and while it
\* writes a file, known by the name that file has by now; then it evicts, with the
\* files it has listed and those it is to remove, in order.
Idle             == [at |-> "idle"]
With(place, p)   == [at |-> place, photo |-> p]
Writing(p, file) == [at |-> "write", photo |-> p, file |-> file]
Listing          == [at |-> "list"]
Sorting(files)   == [at |-> "sort", files |-> files]
Unlinking(list)  == [at |-> "unlink", list |-> list]

Init ==
  /\ used = <<>> /\ half = {}
  /\ task = [t \in Tasks |-> Idle] /\ request = [r \in Requests |-> Idle]
  /\ purging = {} /\ raced = {} /\ gaveUp = FALSE /\ faults = 0

Place(t, place) == task[t].at = place
Goes(t, state)  == task' = [task EXCEPT ![t] = state]
DiskUnchanged   == UNCHANGED diskVars
OthersUnchanged == UNCHANGED <<request, purging, raced, gaveUp, faults>>

\* The files by access time without f, and with f in its place called g.
Without(s, f) ==
  IF f \notin Range(s) THEN s
  ELSE LET i == CHOOSE j \in DOMAIN s : s[j] = f
       IN [j \in 1..(Len(s) - 1) |-> IF j < i THEN s[j] ELSE s[j + 1]]
Renamed(s, f, g) == [i \in 1..Len(s) |-> IF s[i] = f THEN g ELSE s[i]]

\* The ways to go through a set of files from the oldest access on.
ByAccess(files) ==
  {s \in [1..Cardinality(files) -> files] :
     \A i, j \in DOMAIN s : i < j =>
       \E k, l \in DOMAIN used : k < l /\ used[k] = s[i] /\ used[l] = s[j]}

\* The tasks once file f has lost its name.
Unnamed(f) ==
  [t \in Tasks |-> IF Place(t, "write") /\ task[t].file = {f}
                   THEN [task[t] EXCEPT !.file = {}] ELSE task[t]]

-----------------------------------------------------------------------------
(* async_prepare, in a coordinator's task.                                 *)

\* The photo is not there: it is fetched and prepared.
Ask(t, p) ==
  /\ Place(t, "idle") /\ ~Exists(Final(p))
  /\ Goes(t, With("prepare", p))
  /\ DiskUnchanged /\ OthersUnchanged

\* It could not be fetched or prepared.
NotPrepared(t) ==
  /\ Place(t, "prepare") /\ Goes(t, Idle)
  /\ DiskUnchanged /\ OthersUnchanged

Prepare(t, p) == Ask(t, p) \/ NotPrepared(t)

-----------------------------------------------------------------------------
(* put.                                                                    *)

\* Mutant: a photo written under its own name.
OpenFinal(t) ==
  /\ Place(t, "prepare")
  /\ LET f == Final(task[t].photo)
     IN /\ used' = IF Exists(f) THEN used ELSE Append(used, f)
        /\ half' = half \cup {f}
        /\ Goes(t, Writing(task[t].photo, {f}))
  /\ OthersUnchanged

\* write_bytes opens the temporary file, or truncates the one another task is
\* writing or a killed one has left.
Open(t) ==
  /\ Place(t, "prepare")
  /\ LET p == task[t].photo
     IN /\ used' = IF Exists(Temp(p)) THEN used ELSE Append(used, Temp(p))
        /\ half' = half \cup {Temp(p)}
        /\ Goes(t, Writing(p, {Temp(p)}))
        /\ raced' = IF \E u \in Tasks \ {t} : task[u].at \in {"write", "rename"} /\ task[u].photo = p
                    THEN raced \cup {p} ELSE raced
  /\ UNCHANGED <<request, purging, gaveUp, faults>>

\* Mutant: a write that gives up after the first block.
WriteShort(t) ==
  /\ Place(t, "write")
  /\ Goes(t, With("rename", task[t].photo))
  /\ DiskUnchanged /\ OthersUnchanged

\* ... and writes all of the photo, wherever that file is by now.
Write(t) ==
  /\ Place(t, "write")
  /\ half' = half \ task[t].file
  /\ Goes(t, With("rename", task[t].photo))
  /\ UNCHANGED used /\ OthersUnchanged

\* The disk is full, or fails.
WriteFails(t) ==
  /\ Place(t, "write") /\ faults < MaxFaults /\ faults' = faults + 1
  /\ Goes(t, Idle)
  /\ DiskUnchanged /\ UNCHANGED <<request, purging, raced, gaveUp>>

\* Mutant: a rename that leaves the file it should replace.
RenameBeside(t) ==
  /\ Place(t, "rename")
  /\ LET p == task[t].photo
     IN /\ Exists(Temp(p))
        /\ used' = Renamed(used, Temp(p), Final(p))
        /\ half' = half \ {Temp(p)}
        /\ Goes(t, Listing)
  /\ OthersUnchanged

\* os.replace: the file keeps its access time and its writers; the file it
\* replaces has no name any more.
Rename(t) ==
  /\ Place(t, "rename")
  /\ LET p == task[t].photo
     IN /\ Exists(Temp(p))
        /\ used' = Renamed(Without(used, Final(p)), Temp(p), Final(p))
        /\ half' = (half \ {Temp(p), Final(p)}) \cup (IF Temp(p) \in half THEN {Final(p)} ELSE {})
        /\ task' = [u \in Tasks |->
             IF u = t THEN Listing
             ELSE IF Place(u, "write") /\ task[u].file = {Temp(p)}
                  THEN [task[u] EXCEPT !.file = {Final(p)}] ELSE Unnamed(Final(p))[u]]
  /\ OthersUnchanged

\* Another task has renamed the temporary file already: put raises.
RenameRaises(t) ==
  /\ Place(t, "rename") /\ ~Exists(Temp(task[t].photo))
  /\ Goes(t, Idle)
  /\ DiskUnchanged /\ OthersUnchanged

Put(t) == Open(t) \/ Write(t) \/ WriteFails(t) \/ Rename(t) \/ RenameRaises(t)

-----------------------------------------------------------------------------
(* _evict_if_needed, at the end of put.                                    *)

\* How many of n entries are too many.
Excess(n) == IF n > MaxEntries THEN n - MaxEntries ELSE 0

\* Mutant: a put that does not look at how many entries there are.
ListBefore(t) ==
  /\ Place(t, "list") /\ Goes(t, Idle)
  /\ DiskUnchanged /\ OthersUnchanged

List(t) ==
  /\ Place(t, "list")
  /\ IF Excess(Cardinality(Entries)) = 0 THEN Goes(t, Idle) ELSE Goes(t, Sorting(Entries))
  /\ DiskUnchanged /\ OthersUnchanged

\* The access time of each: the first so many by access time are to go.
Sort(t) ==
  /\ Place(t, "sort") /\ task[t].files \subseteq Entries
  /\ \E sorted \in ByAccess(task[t].files) :
       Goes(t, Unlinking(SubSeq(sorted, 1, Excess(Cardinality(task[t].files)))))
  /\ DiskUnchanged /\ OthersUnchanged

\* One of them has been removed since: put raises, with the photo in place.
SortRaises(t) ==
  /\ Place(t, "sort") /\ ~(task[t].files \subseteq Entries)
  /\ Goes(t, Idle) /\ gaveUp' = TRUE
  /\ DiskUnchanged /\ UNCHANGED <<request, purging, raced, faults>>

\* File f is removed; that it is gone already is no error.
Removed(f, states) ==
  /\ used' = Without(used, f) /\ half' = half \ {f}
  /\ task' = states

Unlink(t) ==
  /\ Place(t, "unlink")
  /\ LET f    == Head(task[t].list)
         rest == Tail(task[t].list)
     IN Removed(f, [Unnamed(f) EXCEPT
          ![t] = IF rest = <<>> THEN Idle ELSE Unlinking(rest)])
  /\ OthersUnchanged

Evict(t) == List(t) \/ Sort(t) \/ SortRaises(t) \/ Unlink(t)

-----------------------------------------------------------------------------
(* read, for a request of the image view.                                  *)

\* The photo is there; if it is not, the answer is 404 and nothing changes.
Look(r, p) ==
  /\ request[r].at = "idle" /\ Exists(Final(p))
  /\ request' = [request EXCEPT ![r] = With("touch", p)]
  /\ DiskUnchanged /\ UNCHANGED <<task, purging, raced, gaveUp, faults>>

\* os.utime, which raises if the photo is gone; whatever read_bytes finds next
\* under that name is served.
Touch(r) ==
  /\ request[r].at = "touch" /\ request' = [request EXCEPT ![r] = Idle]
  /\ LET f == Final(request[r].photo)
     IN used' = IF Exists(f) THEN Append(Without(used, f), f) ELSE used
  /\ UNCHANGED <<half, task, purging, raced, gaveUp, faults>>

-----------------------------------------------------------------------------
(* The whole store.                                                        *)

\* The last frame's entry is removed; its tasks are not waited for.
Purge ==
  /\ purging = {} /\ Entries # {} /\ purging' = Entries
  /\ DiskUnchanged /\ UNCHANGED <<task, request, raced, gaveUp, faults>>

PurgeOne ==
  /\ \E f \in purging : purging' = purging \ {f} /\ Removed(f, Unnamed(f))
  /\ UNCHANGED <<request, raced, gaveUp, faults>>

\* Home Assistant is killed, and starts again.
Kill ==
  /\ faults < MaxFaults /\ faults' = faults + 1
  /\ task' = [t \in Tasks |-> Idle] /\ request' = [r \in Requests |-> Idle]
  /\ purging' = {}
  /\ DiskUnchanged /\ UNCHANGED <<raced, gaveUp>>

Next ==
  \/ \E t \in Tasks : (\E p \in Photos : Prepare(t, p)) \/ Put(t) \/ Evict(t)
  \/ \E r \in Requests : (\E p \in Photos : Look(r, p)) \/ Touch(r)
  \/ Purge \/ PurgeOne \/ Kill

Spec == Init /\ [][Next]_vars

-----------------------------------------------------------------------------
(* Properties.                                                             *)

TaskStates ==
  {Idle} \cup [at : {"prepare", "rename"}, photo : Photos]
         \cup [at : {"write"}, photo : Photos, file : {{}} \cup {{f} : f \in Files}]
         \cup {Listing} \cup [at : {"sort"}, files : SUBSET Files]
         \cup [at : {"unlink"}, list : Seq(Files) \ {<<>>}]
RequestStates == {Idle} \cup [at : {"touch"}, photo : Photos]

TypeOK ==
  /\ used \in Seq(Files) /\ IsInjective(used) /\ half \subseteq Range(used)
  /\ task \in [Tasks -> TaskStates] /\ request \in [Requests -> RequestStates]
  /\ purging \subseteq Files /\ raced \subseteq Photos /\ gaveUp \in BOOLEAN /\ faults \in 0..MaxFaults

\* Half a photo is never served under a photo's name, whatever is killed or
\* fails, unless two tasks were writing that photo at once (photo_store.py:104).
WholeUnlessRaced == \A p \in Photos : Final(p) \in half => p \in raced

\* What two tasks have raced to write is half written only until the later of
\* them has written it, when no write fails and Home Assistant lives: the file
\* that one task renames is the one that the other is still writing.
HalfIsBeingWritten ==
  faults = 0 => \A p \in Photos : Final(p) \in half =>
                  \E t \in Tasks : Place(t, "write") /\ Final(p) \in task[t].file

\* However puts, evictions, reads and purges overlap, the store is over its budget
\* by no more than one photo for each task yet to evict, as long as no eviction
\* has been given up (photo_store.py:140).
Evicting == {t \in Tasks : task[t].at \in {"list", "sort", "unlink"}}
WithinBudget ==
  faults = 0 /\ ~gaveUp => Cardinality(Entries) <= MaxEntries + Cardinality(Evicting)
=============================================================================
