-------------------------- MODULE PhotoStoreProofs --------------------------
(***************************************************************************)
(* However puts, evictions, reads and purges overlap, fail and are cut     *)
(* off: what is served is whole, and the store keeps within its budget as  *)
(* long as no eviction is given up.  For any photos, any number of tasks   *)
(* and of requests, and any budget.                                        *)
(***************************************************************************)
EXTENDS PhotoStore, FunctionTheorems, FiniteSetTheorems, SequenceTheorems, TLAPS

-----------------------------------------------------------------------------
(* The inductive invariant.                                                *)

Finals == {f \in Files : ~f.temp}
Putting(t, p) == task[t].at \in {"write", "rename"} /\ task[t].photo = p

\* What is to be removed are photos under their own names.
FinalsGo ==
  /\ \A t \in Tasks : /\ Place(t, "sort") => task[t].files \subseteq Finals
                      /\ Place(t, "unlink") => Range(task[t].list) \subseteq Finals
  /\ purging \subseteq Finals

\* What is sorted is too much.
TooMany ==
  \A t \in Tasks : Place(t, "sort") =>
    IsFiniteSet(task[t].files) /\ Cardinality(task[t].files) > MaxEntries

\* A photo that was never raced for has one task that puts it, which writes to
\* the temporary file and has written it before it renames it.
Unraced ==
  \A p \in Photos \ raced :
    /\ \A t, u \in Tasks : Putting(t, p) /\ Putting(u, p) => t = u
    /\ \A t \in Tasks : Putting(t, p) =>
         IF Place(t, "write") THEN task[t].file = {Temp(p)} ELSE Temp(p) \notin half
    /\ Final(p) \notin half

\* Half a file is being written, until something fails.
BeingWritten ==
  faults = 0 => \A f \in half : \E t \in Tasks : Place(t, "write") /\ task[t].file = {f}

\* Since[t] are the tasks, at work still, that have put a photo in place after t
\* listed the files: no more than these stand between t and the budget.  Those
\* that came after one of them came after t.
Removing == {t \in Tasks : task[t].at \in {"sort", "unlink"}}
Counts(Since) ==
  /\ Since \in [Tasks -> SUBSET Tasks]
  /\ \A t \in Tasks : Since[t] \subseteq Evicting \ {t}
  /\ \A t, u \in Removing : u \in Since[t] => Since[u] \subseteq Since[t]
  /\ \A t \in Tasks : Place(t, "sort") =>
       Cardinality(Entries) <= Cardinality(task[t].files) + Cardinality(Since[t])
  /\ \A t \in Tasks : Place(t, "unlink") =>
       Cardinality(Entries \ Range(task[t].list)) <= MaxEntries + Cardinality(Since[t])
  /\ Cardinality(Entries) <= MaxEntries + Cardinality(Evicting)
Counted == faults = 0 /\ ~gaveUp => \E Since \in [Tasks -> SUBSET Tasks] : Counts(Since)

IInv == TypeOK /\ FinalsGo /\ TooMany /\ Unraced /\ BeingWritten /\ Counted

-----------------------------------------------------------------------------
(* The files by access time.                                               *)

LEMMA FilesAre ==
  /\ \A p \in Photos : /\ Final(p) \in Files /\ Temp(p) \in Files /\ Final(p) \in Finals
                       /\ Temp(p) \notin Finals
                       /\ \A q \in Photos : /\ Final(p) = Final(q) => p = q
                                            /\ Temp(p) = Temp(q) => p = q
  /\ \A f \in Finals : \E p \in Photos : f = Final(p)
  /\ \A f \in Files : f \in Finals \/ \E p \in Photos : f = Temp(p)
PROOF
<1>1. \A p \in Photos : /\ Final(p) \in Files /\ Temp(p) \in Files /\ Final(p) \in Finals
                        /\ Temp(p) \notin Finals
                        /\ \A q \in Photos : /\ Final(p) = Final(q) => p = q
                                             /\ Temp(p) = Temp(q) => p = q
  BY DEF Final, Temp, Files, Finals
<1>2. ASSUME NEW f \in Files PROVE f = [photo |-> f.photo, temp |-> f.temp]
  BY DEF Files
<1>3. \A f \in Files : f.photo \in Photos /\ f.temp \in BOOLEAN
  BY DEF Files
<1> QED  BY <1>1, <1>2, <1>3 DEF Finals, Final, Temp

LEMMA InRange ==
  ASSUME NEW s \in Seq(Files)
  PROVE  /\ Range(s) \subseteq Files
         /\ \A i \in 1..Len(s) : s[i] \in Range(s)
         /\ \A f \in Range(s) : \E i \in 1..Len(s) : s[i] = f
BY DEF Range

\* A file taken out: the others are there, in their order.
LEMMA WithoutIs ==
  ASSUME NEW s \in Seq(Files), IsInjective(s), NEW f
  PROVE  /\ Without(s, f) \in Seq(Files) /\ IsInjective(Without(s, f))
         /\ Range(Without(s, f)) = Range(s) \ {f}
PROOF
<1>1. CASE f \notin Range(s)
  BY <1>1 DEF Without
<1>2. CASE f \in Range(s)
  <2> DEFINE n == Len(s)
             i == CHOOSE j \in DOMAIN s : s[j] = f
             w == [j \in 1..(n - 1) |-> IF j < i THEN s[j] ELSE s[j + 1]]
  <2>1. n \in Nat /\ DOMAIN s = 1..n /\ s \in [1..n -> Files]
    OBVIOUS
  <2>2. i \in 1..n /\ s[i] = f
    BY <1>2, <2>1, InRange
  <2>3. Without(s, f) = w
    BY <1>2 DEF Without
  <2> HIDE DEF i, n
  <2>4. \A j \in 1..(n - 1) : j \in 1..n /\ j + 1 \in 1..n
    BY <2>1
  <2>5. w \in [1..(n - 1) -> Files] /\ n - 1 \in Nat
    BY <2>1, <2>2, <2>4
  <2>6. w \in Seq(Files) /\ Len(w) = n - 1 /\ DOMAIN w = 1..(n - 1)
    BY <2>5
  <2>7. \A a, b \in 1..n : s[a] = s[b] => a = b
    BY <2>1 DEF IsInjective
  <2>8. ASSUME NEW a \in 1..(n - 1), NEW b \in 1..(n - 1), w[a] = w[b]
        PROVE  a = b
    <3>1. w[a] = s[IF a < i THEN a ELSE a + 1] /\ w[b] = s[IF b < i THEN b ELSE b + 1]
      OBVIOUS
    <3>2. (IF a < i THEN a ELSE a + 1) = (IF b < i THEN b ELSE b + 1)
      BY <2>4, <2>7, <2>8, <3>1
    <3> QED  BY <2>1, <2>2, <3>2
  <2>9. ASSUME NEW a \in 1..(n - 1)
        PROVE  w[a] \in Range(s) /\ w[a] # f
    <3>1. w[a] = s[IF a < i THEN a ELSE a + 1]
      OBVIOUS
    <3>2. (IF a < i THEN a ELSE a + 1) \in 1..n /\ (IF a < i THEN a ELSE a + 1) # i
      BY <2>1, <2>2, <2>4
    <3> QED  BY <2>1, <2>2, <2>7, <3>1, <3>2, InRange DEF n
  <2>10. ASSUME NEW g \in Range(s), g # f
         PROVE  g \in Range(w)
    <3>1. PICK a \in 1..n : s[a] = g
      BY InRange DEF n
    <3>2. a # i
      BY <2>2, <2>10, <3>1
    <3>3. CASE a < i
      <4>1. a \in 1..(n - 1) /\ w[a] = g
        BY <2>1, <2>2, <3>1, <3>3
      <4> QED  BY <4>1, <2>6 DEF Range
    <3>4. CASE a > i
      <4>1. a - 1 \in 1..(n - 1) /\ ~(a - 1 < i) /\ (a - 1) + 1 = a
        BY <2>1, <2>2, <3>1, <3>4
      <4>2. w[a - 1] = g
        BY <4>1, <3>1
      <4> QED  BY <4>1, <4>2, <2>6 DEF Range
    <3> QED  BY <2>1, <2>2, <3>2, <3>3, <3>4
  <2>11. Range(w) = Range(s) \ {f}
    <3>1. \A g \in Range(w) : \E a \in 1..(n - 1) : g = w[a]
      BY <2>6 DEF Range
    <3> QED  BY <3>1, <2>9, <2>10
  <2> HIDE DEF w
  <2> QED  BY <2>3, <2>6, <2>8, <2>11 DEF IsInjective
<1> QED  BY <1>1, <1>2

\* A file that is there given a new name.
LEMMA RenamedIs ==
  ASSUME NEW s \in Seq(Files), IsInjective(s), NEW f \in Range(s), NEW g \in Files \ Range(s)
  PROVE  /\ Renamed(s, f, g) \in Seq(Files) /\ IsInjective(Renamed(s, f, g))
         /\ Range(Renamed(s, f, g)) = (Range(s) \ {f}) \cup {g}
PROOF
<1> DEFINE n == Len(s)
           w == Renamed(s, f, g)
<1>1. n \in Nat /\ DOMAIN s = 1..n /\ \A i \in 1..n : s[i] \in Files /\ s[i] \in Range(s)
  BY InRange
<1>2. w = [i \in 1..n |-> IF s[i] = f THEN g ELSE s[i]]
  BY DEF Renamed
<1> HIDE DEF w, n
<1>3. w \in [1..n -> Files] /\ DOMAIN w = 1..n
  BY <1>1, <1>2
<1>4. w \in Seq(Files)
  BY <1>1, <1>3
<1>5. IsInjective(w)
  BY <1>1, <1>2, <1>3 DEF IsInjective
<1>6. PICK k \in 1..n : s[k] = f
  BY InRange DEF n
<1>7. Range(w) = {w[i] : i \in 1..n} /\ Range(s) = {s[i] : i \in 1..n}
  BY <1>1, <1>3 DEF Range
<1>8. \A i \in 1..n : w[i] = IF s[i] = f THEN g ELSE s[i]
  BY <1>2
<1>9. Range(w) = (Range(s) \ {f}) \cup {g}
  BY <1>6, <1>7, <1>8
<1> QED  BY <1>4, <1>5, <1>9 DEF w

\* A file added at the end.
LEMMA AppendIs ==
  ASSUME NEW s \in Seq(Files), IsInjective(s), NEW f \in Files \ Range(s)
  PROVE  /\ Append(s, f) \in Seq(Files) /\ IsInjective(Append(s, f))
         /\ Range(Append(s, f)) = Range(s) \cup {f}
PROOF
<1> DEFINE n == Len(s)
           w == Append(s, f)
<1>1. n \in Nat /\ DOMAIN s = 1..n /\ \A i \in 1..n : s[i] \in Range(s)
  BY InRange
<1>2. w \in Seq(Files) /\ Len(w) = n + 1 /\ w[n + 1] = f /\ \A i \in 1..n : w[i] = s[i]
  OBVIOUS
<1>3. DOMAIN w = 1..(n + 1)
  BY <1>2
<1>4. \A i \in 1..(n + 1) : i \in 1..n \/ i = n + 1
  BY <1>1
<1>5. 1..n \subseteq 1..(n + 1) /\ n + 1 \in 1..(n + 1)
  BY <1>1
<1> HIDE DEF w, n
<1>6. IsInjective(w)
  BY <1>1, <1>2, <1>3, <1>4 DEF IsInjective
<1>7. Range(w) = {w[i] : i \in 1..(n + 1)} /\ Range(s) = {s[i] : i \in 1..n}
  BY <1>1, <1>3 DEF Range
<1>8. Range(w) = Range(s) \cup {f}
  BY <1>2, <1>4, <1>5, <1>7
<1> QED  BY <1>2, <1>6, <1>8 DEF w

-----------------------------------------------------------------------------
(* What a task is doing, and what the disk is after a step.                *)

Ats == {"idle", "prepare", "write", "rename", "list", "sort", "unlink"}

LEMMA StatesAre ==
  /\ Idle \in TaskStates /\ Listing \in TaskStates
  /\ \A p \in Photos : With("prepare", p) \in TaskStates /\ With("rename", p) \in TaskStates
  /\ \A p \in Photos : Writing(p, {}) \in TaskStates
  /\ \A p \in Photos, f \in Files : Writing(p, {f}) \in TaskStates
  /\ \A files \in SUBSET Files : Sorting(files) \in TaskStates
  /\ \A list \in Seq(Files) : list # <<>> => Unlinking(list) \in TaskStates
PROOF
<1>1. \A f \in Files : {f} \in {{}} \cup {{g} : g \in Files}
  OBVIOUS
<1>2. {} \in {{}} \cup {{g} : g \in Files}
  OBVIOUS
<1>3. \A p \in Photos, x \in {{}} \cup {{g} : g \in Files} : Writing(p, x) \in TaskStates
  BY DEF Writing, TaskStates
<1>4. \A list \in Seq(Files) : list # <<>> => Unlinking(list) \in TaskStates
  BY DEF Unlinking, TaskStates
<1>5. \A files \in SUBSET Files : Sorting(files) \in TaskStates
  BY DEF Sorting, TaskStates
<1>6. /\ Idle \in TaskStates /\ Listing \in TaskStates
      /\ \A p \in Photos : With("prepare", p) \in TaskStates /\ With("rename", p) \in TaskStates
  BY DEF Idle, Listing, With, TaskStates
<1> QED  BY <1>1, <1>2, <1>3, <1>4, <1>5, <1>6

LEMMA StateIs ==
  ASSUME TypeOK, NEW t \in Tasks
  PROVE  /\ task[t] \in TaskStates /\ task[t].at \in Ats
         /\ task[t].at = "idle" => task[t] = Idle
         /\ task[t].at \in {"prepare", "write", "rename"} => task[t].photo \in Photos
         /\ task[t].at = "write" =>
              /\ task[t] = Writing(task[t].photo, task[t].file)
              /\ task[t].file = {} \/ \E f \in Files : task[t].file = {f}
         /\ task[t].at = "sort" =>
              task[t] = Sorting(task[t].files) /\ task[t].files \subseteq Files
         /\ task[t].at = "unlink" => task[t].list \in Seq(Files) /\ task[t].list # <<>>
PROOF
<1>1. task[t] \in TaskStates
  BY DEF TypeOK
<1>2. ASSUME NEW s \in [at : {"write"}, photo : Photos, file : {{}} \cup {{f} : f \in Files}]
      PROVE  /\ s.at = "write" /\ s.photo \in Photos /\ s = Writing(s.photo, s.file)
             /\ s.file = {} \/ \E f \in Files : s.file = {f}
  BY DEF Writing
<1>3. ASSUME NEW s \in [at : {"unlink"}, list : Seq(Files) \ {<<>>}]
      PROVE  s.at = "unlink" /\ s.list \in Seq(Files) /\ s.list # <<>>
  OBVIOUS
<1>4. ASSUME NEW s \in [at : {"sort"}, files : SUBSET Files]
      PROVE  s.at = "sort" /\ s = Sorting(s.files) /\ s.files \subseteq Files
  BY DEF Sorting
<1>5. ASSUME NEW s \in [at : {"prepare", "rename"}, photo : Photos]
      PROVE  s.at \in {"prepare", "rename"} /\ s.photo \in Photos
  OBVIOUS
<1>6. Idle.at = "idle" /\ Listing.at = "list"
  BY DEF Idle, Listing
<1> QED  BY <1>1, <1>2, <1>3, <1>4, <1>5, <1>6 DEF TaskStates, Ats

LEMMA UnnamedIs ==
  ASSUME TypeOK, NEW f
  PROVE  /\ Unnamed(f) \in [Tasks -> TaskStates]
         /\ \A t \in Tasks :
              /\ Unnamed(f)[t].at = task[t].at
              /\ ~Place(t, "write") => Unnamed(f)[t] = task[t]
              /\ Place(t, "write") =>
                   Unnamed(f)[t] = Writing(task[t].photo, task[t].file \ {f})
PROOF
<1>1. ASSUME NEW t \in Tasks
      PROVE  /\ Unnamed(f)[t] \in TaskStates
             /\ Unnamed(f)[t].at = task[t].at
             /\ ~Place(t, "write") => Unnamed(f)[t] = task[t]
             /\ Place(t, "write") =>
                  Unnamed(f)[t] = Writing(task[t].photo, task[t].file \ {f})
  <2>1. Unnamed(f)[t] = IF Place(t, "write") /\ task[t].file = {f}
                        THEN [task[t] EXCEPT !.file = {}] ELSE task[t]
    BY DEF Unnamed
  <2>2. CASE ~Place(t, "write")
    BY <2>1, <2>2, StateIs
  <2>3. CASE Place(t, "write") /\ task[t].file = {f}
    <3>1. task[t] = Writing(task[t].photo, task[t].file)
      BY <2>3, StateIs DEF Place
    <3>2. [Writing(task[t].photo, task[t].file) EXCEPT !.file = {}] = Writing(task[t].photo, {})
      BY DEF Writing
    <3>3. Unnamed(f)[t] = Writing(task[t].photo, {}) /\ task[t].file \ {f} = {}
      BY <2>1, <2>3, <3>1, <3>2
    <3>4. Writing(task[t].photo, {}).at = "write"
      BY DEF Writing
    <3> QED  BY <2>3, <3>3, <3>4, StateIs, StatesAre DEF Place
  <2>4. CASE Place(t, "write") /\ task[t].file # {f}
    <3>1. Unnamed(f)[t] = task[t] /\ task[t] = Writing(task[t].photo, task[t].file)
      BY <2>1, <2>4, StateIs DEF Place
    <3>2. task[t].file \ {f} = task[t].file
      BY <2>4, StateIs DEF Place
    <3> QED  BY <2>4, <3>1, <3>2, StateIs
  <2> QED  BY <2>2, <2>3, <2>4
<1> QED  BY <1>1 DEF Unnamed

LEMMA OpenIs ==
  ASSUME TypeOK, NEW t \in Tasks, Open(t)
  PROVE  /\ used' \in Seq(Files) /\ IsInjective(used')
         /\ Range(used') = Range(used) \cup {Temp(task[t].photo)}
         /\ task[t].photo \in Photos
PROOF
<1>1. used \in Seq(Files) /\ IsInjective(used)
  BY DEF TypeOK
<1>2. task[t].photo \in Photos /\ Temp(task[t].photo) \in Files
  BY StateIs, FilesAre DEF Open, Place
<1>3. used' = IF Temp(task[t].photo) \in Range(used) THEN used
              ELSE Append(used, Temp(task[t].photo))
  BY DEF Open, Exists
<1> QED  BY <1>1, <1>2, <1>3, AppendIs

LEMMA RenameIs ==
  ASSUME TypeOK, NEW t \in Tasks, Rename(t), NEW p, p = task[t].photo
  PROVE  /\ used' \in Seq(Files) /\ IsInjective(used')
         /\ Range(used') = (Range(used) \ {Temp(p)}) \cup {Final(p)}
         /\ p \in Photos /\ Temp(p) \in Range(used)
PROOF
<1>1. used \in Seq(Files) /\ IsInjective(used)
  BY DEF TypeOK
<1>2. /\ p \in Photos /\ Temp(p) \in Files /\ Final(p) \in Files /\ Temp(p) # Final(p)
      /\ Temp(p) \in Range(used)
  BY StateIs, FilesAre DEF Rename, Place, Exists
<1> DEFINE s == Without(used, Final(p))
<1>3. s \in Seq(Files) /\ IsInjective(s) /\ Range(s) = Range(used) \ {Final(p)}
  BY <1>1, WithoutIs
<1>4. used' = Renamed(s, Temp(p), Final(p))
  BY DEF Rename
<1> HIDE DEF s
<1>5. Temp(p) \in Range(s) /\ Final(p) \in Files \ Range(s)
  BY <1>2, <1>3
<1>6. used' \in Seq(Files) /\ IsInjective(used') /\ Range(used') = (Range(s) \ {Temp(p)}) \cup {Final(p)}
  BY <1>3, <1>4, <1>5, RenamedIs
<1> QED  BY <1>2, <1>3, <1>6

LEMMA RemovedIs ==
  ASSUME TypeOK, NEW f, NEW states, Removed(f, states)
  PROVE  /\ used' \in Seq(Files) /\ IsInjective(used')
         /\ Range(used') = Range(used) \ {f}
         /\ half' = half \ {f} /\ task' = states
BY WithoutIs DEF TypeOK, Removed

LEMMA TouchIs ==
  ASSUME TypeOK, NEW r \in Requests, Touch(r)
  PROVE  /\ used' \in Seq(Files) /\ IsInjective(used') /\ Range(used') = Range(used)
PROOF
<1> DEFINE f == Final(request[r].photo)
           s == Without(used, f)
<1>1. used \in Seq(Files) /\ IsInjective(used)
  BY DEF TypeOK
<1>2. used' = IF f \in Range(used) THEN Append(s, f) ELSE used
  BY DEF Touch, Exists
<1>3. s \in Seq(Files) /\ IsInjective(s) /\ Range(s) = Range(used) \ {f}
  BY <1>1, WithoutIs
<1>4. Range(used) \subseteq Files
  BY <1>1, InRange
<1> HIDE DEF s, f
<1>5. CASE f \in Range(used)
  <2>1. f \in Files \ Range(s)
    BY <1>3, <1>4, <1>5
  <2>2. Append(s, f) \in Seq(Files) /\ IsInjective(Append(s, f)) /\ Range(Append(s, f)) = Range(s) \cup {f}
    BY <1>3, <2>1, AppendIs
  <2> QED  BY <1>2, <1>3, <1>5, <2>2
<1> QED  BY <1>1, <1>2, <1>5

-----------------------------------------------------------------------------
(* Types.                                                                  *)

Works(t) ==
  \/ \E p \in Photos : Ask(t, p)
  \/ NotPrepared(t) \/ Open(t) \/ Write(t) \/ WriteFails(t) \/ Rename(t) \/ RenameRaises(t)
  \/ List(t) \/ Sort(t) \/ SortRaises(t) \/ Unlink(t)

\* Each step is a task's, a request's or the whole store's.
LEMMA Steps ==
  ASSUME [Next]_vars
  PROVE  \/ \E t \in Tasks : Works(t)
         \/ \E r \in Requests : (\E p \in Photos : Look(r, p)) \/ Touch(r)
         \/ Purge \/ PurgeOne \/ Kill \/ UNCHANGED vars
BY DEF Next, Prepare, Put, Evict, Works

\* What ByAccess goes through: each file once.
LEMMA ByAccessIs ==
  ASSUME TypeOK, NEW files \in SUBSET Files, NEW s \in ByAccess(files), IsFiniteSet(files)
  PROVE  s \in Seq(files) /\ IsInjective(s) /\ Len(s) = Cardinality(files)
PROOF
<1> DEFINE n == Cardinality(files)
<1>1. n \in Nat
  BY FS_CardinalityType
<1>2. /\ s \in [1..n -> files]
      /\ \A i, j \in DOMAIN s : i < j =>
           \E k, l \in DOMAIN used : k < l /\ used[k] = s[i] /\ used[l] = s[j]
  BY DEF ByAccess
<1>3. \A k, l \in DOMAIN used : k < l => used[k] # used[l]
  <2>1. \A k, l \in DOMAIN used : used[k] = used[l] => k = l
    BY DEF TypeOK, IsInjective
  <2>2. DOMAIN used \subseteq Nat
    BY DEF TypeOK
  <2> QED  BY <2>1, <2>2
<1> HIDE DEF n
<1>4. \A i, j \in 1..n : i < j => s[i] # s[j]
  BY <1>2, <1>3
<1>5. \A i, j \in 1..n : s[i] = s[j] => i = j
  BY <1>1, <1>4
<1>6. s \in Seq(files) /\ Len(s) = n /\ DOMAIN s = 1..n
  BY <1>1, <1>2
<1> QED  BY <1>5, <1>6 DEF IsInjective, n

LEMMA FilesAreFinite ==
  TypeOK => IsFiniteSet(Range(used)) /\ IsFiniteSet(Entries)
PROOF
<1> SUFFICES ASSUME TypeOK PROVE IsFiniteSet(Range(used)) /\ IsFiniteSet(Entries)
  OBVIOUS
<1>1. used \in [1..Len(used) -> Files] /\ Len(used) \in Nat
  BY DEF TypeOK
<1>2. used \in Surjection(1..Len(used), Range(used))
  BY <1>1, Fun_RangeProperties
<1>3. IsFiniteSet(Range(used))
  BY <1>1, <1>2, FS_Interval, FS_Surjection
<1>4. Entries \in SUBSET Range(used)
  BY DEF Entries
<1> QED  BY <1>3, <1>4, FS_Subset

LEMMA GoesIs ==
  ASSUME TypeOK, NEW t \in Tasks, NEW s, Goes(t, s)
  PROVE  /\ s \in TaskStates => task' \in [Tasks -> TaskStates]
         /\ task'[t] = s
         /\ \A u \in Tasks : u # t => task'[u] = task[u]
BY DEF TypeOK, Goes

\* The eviction is to remove what is too much, each file once.
LEMMA SortIs ==
  ASSUME TypeOK, TooMany, NEW t \in Tasks, Sort(t)
  PROVE  \E list \in Seq(task[t].files) :
           /\ Goes(t, Unlinking(list)) /\ list # <<>> /\ list \in Seq(Files)
           /\ IsInjective(list) /\ Len(list) = Cardinality(task[t].files) - MaxEntries
PROOF
<1> DEFINE files == task[t].files
           n == Cardinality(files)
<1>1. files \in SUBSET Files /\ IsFiniteSet(files) /\ n > MaxEntries
  BY StateIs DEF TooMany, Sort, Place
<1>2. n \in Nat /\ MaxEntries \in Nat
  BY <1>1, FS_CardinalityType, BoundsAssumption
<1>3. PICK s \in ByAccess(files) : Goes(t, Unlinking(SubSeq(s, 1, Excess(n))))
  BY DEF Sort
<1>4. s \in Seq(files) /\ IsInjective(s) /\ Len(s) = n
  BY <1>1, ByAccessIs
<1> HIDE DEF files, n
<1>5. Excess(n) = n - MaxEntries /\ Excess(n) \in 1..n
  BY <1>1, <1>2, BoundsAssumption DEF Excess
<1> DEFINE list == SubSeq(s, 1, Excess(n))
<1>6. list \in Seq(files) /\ Len(list) = Excess(n) /\ \A i \in 1..Excess(n) : list[i] = s[i]
  BY <1>4, <1>5
<1> HIDE DEF list
<1>7. DOMAIN list = 1..Excess(n) /\ 1..Excess(n) \subseteq 1..n /\ DOMAIN s = 1..n
  BY <1>2, <1>4, <1>5, <1>6
<1>8. IsInjective(list)
  BY <1>4, <1>6, <1>7 DEF IsInjective
<1>9. list # <<>> /\ list \in Seq(Files)
  BY <1>1, <1>5, <1>6
<1>10. Goes(t, Unlinking(list)) /\ Len(list) = n - MaxEntries
  BY <1>3, <1>5, <1>6 DEF list
<1> QED  BY <1>6, <1>8, <1>9, <1>10 DEF files, n

LEMMA FilesTyped ==
  ASSUME TypeOK
  PROVE  used \in Seq(Files) /\ IsInjective(used) /\ half \subseteq Range(used)
BY DEF TypeOK

LEMMA UnlinkStates ==
  ASSUME TypeOK, NEW t \in Tasks, Unlink(t),
         NEW f, f = Head(task[t].list), NEW rest, rest = Tail(task[t].list)
  PROVE  /\ Removed(f, [Unnamed(f) EXCEPT ![t] = IF rest = <<>> THEN Idle ELSE Unlinking(rest)])
         /\ rest \in Seq(Files) /\ f \in Files /\ Range(task[t].list) = {f} \cup Range(rest)
         /\ task'[t] = IF rest = <<>> THEN Idle ELSE Unlinking(rest)
         /\ \A u \in Tasks : u # t => task'[u] = Unnamed(f)[u]
         /\ task' \in [Tasks -> TaskStates]
PROOF
<1> DEFINE list == task[t].list
           states == [Unnamed(f) EXCEPT ![t] = IF rest = <<>> THEN Idle ELSE Unlinking(rest)]
<1>1. list \in Seq(Files) /\ list # <<>>
  BY StateIs DEF Unlink, Place
<1>2. Removed(f, states)
  BY DEF Unlink
<1>3. rest \in Seq(Files) /\ f \in Files
  BY <1>1
<1>4. Range(list) = {f} \cup Range(rest)
  <2>1. /\ f = list[1] /\ Len(list) \in Nat \ {0} /\ Len(rest) = Len(list) - 1
        /\ \A i \in 1..Len(rest) : rest[i] = list[i + 1]
    BY <1>1
  <2>2. DOMAIN list = 1..Len(list) /\ DOMAIN rest = 1..Len(rest)
    BY <1>1, <1>3
  <2> HIDE DEF list
  <2> DEFINE m == Len(list)
             n == Len(rest)
  <2>3. m \in Nat \ {0} /\ n = m - 1
    BY <2>1
  <2>4. Range(list) = {list[i] : i \in 1..m} /\ Range(rest) = {rest[i] : i \in 1..n}
    BY <2>2 DEF Range
  <2> HIDE DEF m, n
  <2>5. 1 \in 1..m /\ \A i \in 1..n : i + 1 \in 1..m
    BY <2>3
  <2>6. \A i \in 1..m : i = 1 \/ (i - 1 \in 1..n /\ (i - 1) + 1 = i)
    BY <2>3
  <2>7. \A i \in 1..n : rest[i] = list[i + 1]
    BY <2>1 DEF n
  <2>8. ASSUME NEW i \in 1..m PROVE list[i] = f \/ list[i] \in Range(rest)
    <3>1. CASE i = 1
      BY <3>1, <2>1
    <3>2. CASE i - 1 \in 1..n /\ (i - 1) + 1 = i
      BY <3>2, <2>4, <2>7
    <3> QED  BY <3>1, <3>2, <2>6
  <2>9. Range(rest) \subseteq Range(list) /\ f \in Range(list)
    BY <2>1, <2>4, <2>5, <2>7
  <2> QED  BY <2>4, <2>8, <2>9
<1>5. Unnamed(f) \in [Tasks -> TaskStates]
  BY UnnamedIs
<1>6. (IF rest = <<>> THEN Idle ELSE Unlinking(rest)) \in TaskStates
  BY <1>3, StatesAre
<1>7. task' = states
  BY <1>2 DEF Removed
<1> QED  BY <1>2, <1>3, <1>4, <1>5, <1>6, <1>7

LEMMA TypeStep == TypeOK /\ TooMany /\ [Next]_vars => TypeOK'
PROOF
<1> SUFFICES ASSUME TypeOK, TooMany, [Next]_vars PROVE TypeOK'
  OBVIOUS
<1> DEFINE FilesOK == used \in Seq(Files) /\ IsInjective(used) /\ half \subseteq Range(used)
           TasksOK == task \in [Tasks -> TaskStates]
           RequestsOK == request \in [Requests -> RequestStates]
<1>1. (FilesOK /\ TasksOK) /\ (UNCHANGED diskVars => FilesOK')
  BY DEF TypeOK, diskVars
<1>2. ASSUME FilesOK', TasksOK', OthersUnchanged PROVE TypeOK'
  BY <1>2 DEF TypeOK, OthersUnchanged
<1>3. ASSUME NEW t \in Tasks, NEW p \in Photos, Ask(t, p) PROVE TypeOK'
  BY <1>1, <1>2, <1>3, GoesIs, StatesAre DEF Ask, DiskUnchanged
<1>4. ASSUME NEW t \in Tasks, NotPrepared(t) PROVE TypeOK'
  BY <1>1, <1>2, <1>4, GoesIs, StatesAre DEF NotPrepared, DiskUnchanged
<1>5. ASSUME NEW t \in Tasks, Open(t) PROVE TypeOK'
  <2> DEFINE p == task[t].photo
  <2>1. Temp(p) \in Files /\ p \in Photos
    BY <1>5, OpenIs, FilesAre
  <2>2. Goes(t, Writing(p, {Temp(p)})) /\ half' = half \cup {Temp(p)} /\ raced' \subseteq raced \cup {p}
    BY <1>5 DEF Open
  <2>3. FilesOK'
    BY <1>1, <1>5, <2>2, OpenIs
  <2>4. TasksOK'
    BY <2>1, <2>2, GoesIs, StatesAre
  <2> QED  BY <1>5, <2>1, <2>2, <2>3, <2>4 DEF TypeOK, Open
<1>6. ASSUME NEW t \in Tasks, Write(t) PROVE TypeOK'
  <2>1. FilesOK'
    BY <1>1, <1>6 DEF Write
  <2>2. With("rename", task[t].photo) \in TaskStates
    BY <1>6, StateIs, StatesAre DEF Write, Place
  <2> QED  BY <1>2, <1>6, <2>1, <2>2, GoesIs DEF Write
<1>7. ASSUME NEW t \in Tasks, WriteFails(t) PROVE TypeOK'
  <2>1. FilesOK' /\ TasksOK'
    BY <1>1, <1>7, GoesIs, StatesAre DEF WriteFails, DiskUnchanged
  <2>2. faults' \in 0..MaxFaults
    BY <1>7, BoundsAssumption DEF WriteFails, TypeOK
  <2> QED  BY <1>7, <2>1, <2>2 DEF WriteFails, TypeOK
<1>8. ASSUME NEW t \in Tasks, Rename(t) PROVE TypeOK'
  <2> DEFINE p == task[t].photo
  <2>1. /\ used' \in Seq(Files) /\ IsInjective(used') /\ p \in Photos
        /\ Range(used') = (Range(used) \ {Temp(p)}) \cup {Final(p)}
    BY <1>8, RenameIs
  <2>2. half' = (half \ {Temp(p), Final(p)}) \cup (IF Temp(p) \in half THEN {Final(p)} ELSE {})
    BY <1>8 DEF Rename
  <2>3. FilesOK'
    BY <1>1, <2>1, <2>2
  <2>4. task' = [u \in Tasks |->
             IF u = t THEN Listing
             ELSE IF Place(u, "write") /\ task[u].file = {Temp(p)}
                  THEN [task[u] EXCEPT !.file = {Final(p)}] ELSE Unnamed(Final(p))[u]]
    BY <1>8 DEF Rename
  <2>5. ASSUME NEW u \in Tasks, Place(u, "write")
        PROVE  [task[u] EXCEPT !.file = {Final(p)}] \in TaskStates
    <3>1. task[u] = Writing(task[u].photo, task[u].file) /\ task[u].photo \in Photos
      BY <2>5, StateIs DEF Place
    <3>2. [Writing(task[u].photo, task[u].file) EXCEPT !.file = {Final(p)}] = Writing(task[u].photo, {Final(p)})
      BY DEF Writing
    <3>3. [task[u] EXCEPT !.file = {Final(p)}] = Writing(task[u].photo, {Final(p)})
      BY <3>1, <3>2
    <3> QED  BY <2>1, <3>1, <3>3, StatesAre, FilesAre
  <2>6. TasksOK'
    BY <2>4, <2>5, StatesAre, UnnamedIs
  <2> QED  BY <1>2, <1>8, <2>3, <2>6 DEF Rename
<1>9. ASSUME NEW t \in Tasks, RenameRaises(t) PROVE TypeOK'
  BY <1>1, <1>2, <1>9, GoesIs, StatesAre DEF RenameRaises, DiskUnchanged
<1>10. ASSUME NEW t \in Tasks, List(t) PROVE TypeOK'
  <2>1. Entries \in SUBSET Files
    BY <1>1, InRange DEF Entries
  <2>2. TasksOK'
    BY <1>10, <2>1, GoesIs, StatesAre DEF List
  <2> QED  BY <1>1, <1>2, <1>10, <2>2 DEF List, DiskUnchanged
<1>11. ASSUME NEW t \in Tasks, Sort(t) PROVE TypeOK'
  <2>1. TasksOK'
    BY <1>11, SortIs, GoesIs, StatesAre
  <2> QED  BY <1>1, <1>2, <1>11, <2>1 DEF Sort, DiskUnchanged
<1>12. ASSUME NEW t \in Tasks, SortRaises(t) PROVE TypeOK'
  <2>1. FilesOK' /\ TasksOK'
    BY <1>1, <1>12, GoesIs, StatesAre DEF SortRaises, DiskUnchanged
  <2> QED  BY <1>12, <2>1 DEF SortRaises, TypeOK
<1>13. ASSUME NEW t \in Tasks, Unlink(t) PROVE TypeOK'
  <2> DEFINE f == Head(task[t].list)
             rest == Tail(task[t].list)
             states == [Unnamed(f) EXCEPT ![t] = IF rest = <<>> THEN Idle ELSE Unlinking(rest)]
  <2>1. Removed(f, states) /\ TasksOK'
    BY <1>13, UnlinkStates
  <2> HIDE DEF f, states
  <2>2. FilesOK'
    BY <1>1, <2>1, RemovedIs
  <2> QED  BY <1>2, <1>13, <2>1, <2>2 DEF Unlink
<1>14. ASSUME NEW r \in Requests, NEW p \in Photos, Look(r, p) PROVE TypeOK'
  <2>1. With("touch", p) \in RequestStates
    BY DEF With, RequestStates
  <2> QED  BY <1>1, <1>14, <2>1 DEF TypeOK, Look, DiskUnchanged
<1>15. ASSUME NEW r \in Requests, Touch(r) PROVE TypeOK'
  <2>1. FilesOK'
    BY <1>1, <1>15, TouchIs DEF Touch
  <2>2. RequestsOK'
    BY <1>15 DEF Touch, TypeOK, RequestStates
  <2> QED  BY <1>15, <2>1, <2>2 DEF TypeOK, Touch
<1>16. CASE Purge
  <2>1. Entries \subseteq Files
    BY <1>1, InRange DEF Entries
  <2> QED  BY <1>1, <1>16, <2>1 DEF TypeOK, Purge, DiskUnchanged
<1>17. CASE PurgeOne
  <2>1. PICK f \in purging : purging' = purging \ {f} /\ Removed(f, Unnamed(f))
    BY <1>17 DEF PurgeOne
  <2>2. FilesOK' /\ TasksOK'
    BY <1>1, <2>1, RemovedIs, UnnamedIs
  <2> QED  BY <1>17, <2>1, <2>2 DEF TypeOK, PurgeOne
<1>18. CASE Kill
  <2>1. TasksOK' /\ RequestsOK'
    BY <1>18, StatesAre DEF Kill, RequestStates
  <2>2. faults' \in 0..MaxFaults
    BY <1>18, BoundsAssumption DEF Kill, TypeOK
  <2> QED  BY <1>1, <1>18, <2>1, <2>2 DEF TypeOK, Kill, DiskUnchanged
<1>19. CASE UNCHANGED vars
  BY <1>19 DEF TypeOK, vars
<1>20. ASSUME NEW t \in Tasks, Works(t) PROVE TypeOK'
  BY <1>20, <1>3, <1>4, <1>5, <1>6, <1>7, <1>8, <1>9, <1>10, <1>11, <1>12, <1>13 DEF Works
<1> QED  BY <1>14, <1>15, <1>16, <1>17, <1>18, <1>19, <1>20, Steps

-----------------------------------------------------------------------------
(* What is to go.                                                          *)

LEMMA Parts ==
  /\ Idle.at = "idle" /\ Listing.at = "list"
  /\ \A x, p : With(x, p).at = x /\ With(x, p).photo = p
  /\ \A p, x : Writing(p, x).at = "write" /\ Writing(p, x).photo = p /\ Writing(p, x).file = x
  /\ \A x : Sorting(x).at = "sort" /\ Sorting(x).files = x
  /\ \A x : Unlinking(x).at = "unlink" /\ Unlinking(x).list = x
BY DEF Idle, Listing, With, Writing, Sorting, Unlinking

LEMMA RenameStates ==
  ASSUME TypeOK, NEW t \in Tasks, Rename(t), NEW p, p = task[t].photo
  PROVE  /\ task'[t] = Listing
         /\ \A u \in Tasks : u # t =>
              /\ task'[u].at = task[u].at
              /\ ~Place(u, "write") => task'[u] = task[u]
              /\ Place(u, "write") =>
                   task'[u] = Writing(task[u].photo,
                                      IF task[u].file = {Temp(p)} THEN {Final(p)}
                                      ELSE task[u].file \ {Final(p)})
PROOF
<1>1. task' = [u \in Tasks |->
           IF u = t THEN Listing
           ELSE IF Place(u, "write") /\ task[u].file = {Temp(p)}
                THEN [task[u] EXCEPT !.file = {Final(p)}] ELSE Unnamed(Final(p))[u]]
  BY DEF Rename
<1>2. ASSUME NEW u \in Tasks, u # t, Place(u, "write"), task[u].file = {Temp(p)}
      PROVE  task'[u] = Writing(task[u].photo, {Final(p)})
  <2>1. task'[u] = [task[u] EXCEPT !.file = {Final(p)}]
    BY <1>1, <1>2
  <2>2. task[u] = Writing(task[u].photo, task[u].file)
    BY <1>2, StateIs DEF Place
  <2>3. [Writing(task[u].photo, task[u].file) EXCEPT !.file = {Final(p)}] = Writing(task[u].photo, {Final(p)})
    BY DEF Writing
  <2> QED  BY <2>1, <2>2, <2>3
<1>3. ASSUME NEW u \in Tasks, u # t, ~(Place(u, "write") /\ task[u].file = {Temp(p)})
      PROVE  task'[u] = Unnamed(Final(p))[u]
  BY <1>1, <1>3
<1>4. task'[t] = Listing
  BY <1>1
<1>5. ASSUME NEW u \in Tasks, u # t, ~(Place(u, "write") /\ task[u].file = {Temp(p)})
      PROVE  /\ task'[u].at = task[u].at
             /\ ~Place(u, "write") => task'[u] = task[u]
             /\ Place(u, "write") => task'[u] = Writing(task[u].photo, task[u].file \ {Final(p)})
  BY <1>3, <1>5, UnnamedIs
<1>6. \A u \in Tasks : u # t /\ Place(u, "write") /\ task[u].file = {Temp(p)} =>
        task'[u].at = task[u].at
  BY <1>2, Parts DEF Place
<1> QED  BY <1>2, <1>4, <1>5, <1>6

\* A step that leaves the other tasks as they were, but for the files they
\* write, sends no task to sort or to unlink: it leaves what is to go as it was.
LEMMA GoesOn ==
  ASSUME FinalsGo, TooMany, purging' \subseteq purging,
         \A t \in Tasks : task'[t] = task[t] \/ task'[t].at \notin {"sort", "unlink"}
  PROVE  FinalsGo' /\ TooMany'
PROOF
<1>1. ASSUME NEW t \in Tasks, task'[t] = task[t]
      PROVE  /\ Place(t, "sort")' => /\ task'[t].files \subseteq Finals /\ IsFiniteSet(task'[t].files)
                                     /\ Cardinality(task'[t].files) > MaxEntries
             /\ Place(t, "unlink")' => Range(task'[t].list) \subseteq Finals
  BY <1>1 DEF FinalsGo, TooMany, Place
<1>2. ASSUME NEW t \in Tasks, task'[t].at \notin {"sort", "unlink"}
      PROVE  ~Place(t, "sort")' /\ ~Place(t, "unlink")'
  BY <1>2 DEF Place
<1>3. Finals' = Finals
  BY DEF Finals, Files
<1> QED  BY <1>1, <1>2, <1>3 DEF FinalsGo, TooMany

\* ... as does one that sends one task on to files that are to go.
LEMMA GoesOnWith ==
  ASSUME FinalsGo, TooMany, purging' \subseteq purging, NEW t \in Tasks,
         \A u \in Tasks : u # t => task'[u] = task[u] \/ task'[u].at \notin {"sort", "unlink"},
         \/ /\ task'[t].at = "sort" /\ task'[t].files \subseteq Finals /\ IsFiniteSet(task'[t].files)
            /\ Cardinality(task'[t].files) > MaxEntries
         \/ task'[t].at = "unlink" /\ Range(task'[t].list) \subseteq Finals
  PROVE  FinalsGo' /\ TooMany'
PROOF
<1>1. ASSUME NEW u \in Tasks, u # t, task'[u] = task[u]
      PROVE  /\ Place(u, "sort")' => /\ task'[u].files \subseteq Finals /\ IsFiniteSet(task'[u].files)
                                     /\ Cardinality(task'[u].files) > MaxEntries
             /\ Place(u, "unlink")' => Range(task'[u].list) \subseteq Finals
  BY <1>1 DEF FinalsGo, TooMany, Place
<1>2. ASSUME NEW u \in Tasks, task'[u].at \notin {"sort", "unlink"}
      PROVE  ~Place(u, "sort")' /\ ~Place(u, "unlink")'
  BY <1>2 DEF Place
<1>3. /\ Place(t, "sort")' => /\ task'[t].files \subseteq Finals /\ IsFiniteSet(task'[t].files)
                              /\ Cardinality(task'[t].files) > MaxEntries
      /\ Place(t, "unlink")' => Range(task'[t].list) \subseteq Finals
  BY DEF Place
<1>4. Finals' = Finals
  BY DEF Finals, Files
<1> QED  BY <1>1, <1>2, <1>3, <1>4 DEF FinalsGo, TooMany

LEMMA GoStep == TypeOK /\ FinalsGo /\ TooMany /\ [Next]_vars => FinalsGo' /\ TooMany'
PROOF
<1> SUFFICES ASSUME TypeOK, FinalsGo, TooMany, [Next]_vars PROVE FinalsGo' /\ TooMany'
  OBVIOUS
<1>1. ASSUME NEW t \in Tasks, NEW s, Goes(t, s), s.at \notin {"sort", "unlink"}, UNCHANGED purging
      PROVE  FinalsGo' /\ TooMany'
  BY <1>1, GoesIs, GoesOn
<1>2. Entries \subseteq Finals
  BY FilesTyped, InRange DEF Entries, Finals
<1>3. ASSUME NEW t \in Tasks, Rename(t) PROVE FinalsGo' /\ TooMany'
  <2>1. \A u \in Tasks : task'[u] = task[u] \/ task'[u].at \notin {"sort", "unlink"}
    BY <1>3, RenameStates, Parts DEF Place
  <2> QED  BY <1>3, <2>1, GoesOn DEF Rename, OthersUnchanged
<1>4. ASSUME NEW t \in Tasks, List(t) PROVE FinalsGo' /\ TooMany'
  <2>1. IsFiniteSet(Entries) /\ Cardinality(Entries) \in Nat
    BY FilesAreFinite, FS_CardinalityType
  <2>2. Goes(t, Idle) \/ (Goes(t, Sorting(Entries)) /\ Cardinality(Entries) > MaxEntries)
    BY <1>4, <2>1, BoundsAssumption DEF List, Excess
  <2>3. UNCHANGED purging
    BY <1>4 DEF List, OthersUnchanged
  <2>4. CASE Goes(t, Idle)
    BY <1>1, <2>3, <2>4, Parts
  <2>5. CASE Goes(t, Sorting(Entries)) /\ Cardinality(Entries) > MaxEntries
    <3>1. task'[t].at = "sort" /\ task'[t].files = Entries /\ \A u \in Tasks : u # t => task'[u] = task[u]
      BY <2>5, GoesIs, Parts
    <3> QED  BY <1>2, <2>1, <2>3, <2>5, <3>1, GoesOnWith
  <2> QED  BY <2>2, <2>4, <2>5
<1>5. ASSUME NEW t \in Tasks, Sort(t) PROVE FinalsGo' /\ TooMany'
  <2>1. PICK list \in Seq(task[t].files) : Goes(t, Unlinking(list))
    BY <1>5, SortIs
  <2>2. task[t].files \subseteq Finals
    BY <1>5 DEF FinalsGo, Sort
  <2>3. Range(list) \subseteq Finals
    BY <2>2 DEF Range
  <2>4. task'[t].at = "unlink" /\ task'[t].list = list /\ \A u \in Tasks : u # t => task'[u] = task[u]
    BY <2>1, GoesIs, Parts
  <2> QED  BY <1>5, <2>3, <2>4, GoesOnWith DEF Sort, OthersUnchanged
<1>6. ASSUME NEW t \in Tasks, Unlink(t) PROVE FinalsGo' /\ TooMany'
  <2> DEFINE f == Head(task[t].list)
             rest == Tail(task[t].list)
  <2>1. /\ task'[t] = IF rest = <<>> THEN Idle ELSE Unlinking(rest)
        /\ \A u \in Tasks : u # t => task'[u] = Unnamed(f)[u]
        /\ Range(task[t].list) = {f} \cup Range(rest)
    BY <1>6, UnlinkStates
  <2> HIDE DEF f
  <2>2. \A u \in Tasks : u # t => task'[u] = task[u] \/ task'[u].at \notin {"sort", "unlink"}
    <3>1. \A u \in Tasks : /\ Unnamed(f)[u] = task[u] \/ task[u].at = "write"
                           /\ Unnamed(f)[u].at = task[u].at
      BY UnnamedIs DEF Place
    <3>2. \A u \in Tasks : u # t => task'[u] = Unnamed(f)[u]
      BY <2>1
    <3> QED  BY <3>1, <3>2
  <2>3. Range(rest) \subseteq Finals
    BY <1>6, <2>1 DEF FinalsGo, Unlink
  <2> HIDE DEF rest
  <2>4. UNCHANGED purging
    BY <1>6 DEF Unlink, OthersUnchanged
  <2>5. CASE rest = <<>>
    BY <2>1, <2>2, <2>4, <2>5, GoesOn, Parts
  <2>6. CASE rest # <<>>
    <3>1. task'[t].at = "unlink" /\ task'[t].list = rest
      BY <2>1, <2>6, Parts
    <3> QED  BY <2>2, <2>3, <2>4, <3>1, GoesOnWith
  <2> QED  BY <2>5, <2>6
<1>7. CASE PurgeOne
  <2>1. PICK f \in purging : purging' = purging \ {f} /\ Removed(f, Unnamed(f))
    BY <1>7 DEF PurgeOne
  <2>2. \A u \in Tasks : task'[u] = task[u] \/ task'[u].at \notin {"sort", "unlink"}
    BY <2>1, UnnamedIs DEF Removed, Place
  <2> QED  BY <2>1, <2>2, GoesOn
<1>8. CASE Purge
  BY <1>2, <1>8 DEF Purge, FinalsGo, TooMany, Place, Finals, Files
<1>9. CASE Kill
  <2>1. \A u \in Tasks : task'[u].at = "idle"
    BY <1>9, Parts DEF Kill
  <2> QED  BY <1>9, <2>1, GoesOn DEF Kill
<1>10. ASSUME NEW t \in Tasks, Works(t) PROVE FinalsGo' /\ TooMany'
  <2>1. ASSUME NEW p \in Photos, Ask(t, p) PROVE FinalsGo' /\ TooMany'
    BY <1>1, <2>1, Parts DEF Ask, OthersUnchanged
  <2>2. CASE NotPrepared(t) \/ RenameRaises(t)
    BY <1>1, <2>2, Parts DEF NotPrepared, RenameRaises, OthersUnchanged
  <2>3. CASE Open(t)
    BY <1>1, <2>3, Parts DEF Open
  <2>4. CASE Write(t)
    BY <1>1, <2>4, Parts DEF Write, OthersUnchanged
  <2>5. CASE WriteFails(t) \/ SortRaises(t)
    BY <1>1, <2>5, Parts DEF WriteFails, SortRaises
  <2> QED  BY <1>3, <1>4, <1>5, <1>6, <1>10, <2>1, <2>2, <2>3, <2>4, <2>5 DEF Works
<1>11. ASSUME NEW r \in Requests, (\E p \in Photos : Look(r, p)) \/ Touch(r) PROVE FinalsGo' /\ TooMany'
  BY <1>11, GoesOn DEF Look, Touch
<1>12. CASE UNCHANGED vars
  BY <1>12, GoesOn DEF vars
<1> QED  BY <1>7, <1>8, <1>9, <1>10, <1>11, <1>12, Steps

-----------------------------------------------------------------------------
(* What is half written.                                                   *)

\* A step that half writes nothing and sets nothing to put: a task that still
\* puts a photo does so as before, to the temporary file if that is what it wrote.
LEMMA UnracedKeeps ==
  ASSUME Unraced, half' \subseteq half, raced' = raced,
         \A t \in Tasks : task'[t].at \in {"write", "rename"} =>
           /\ task'[t].at = task[t].at /\ task'[t].photo = task[t].photo
           /\ task[t].file = {Temp(task[t].photo)} => task'[t].file = task[t].file
  PROVE  Unraced'
PROOF
<1> SUFFICES ASSUME NEW p \in Photos \ raced
             PROVE  /\ \A t, u \in Tasks : Putting(t, p)' /\ Putting(u, p)' => t = u
                    /\ \A t \in Tasks : Putting(t, p)' =>
                         IF Place(t, "write")' THEN task'[t].file = {Temp(p)} ELSE Temp(p) \notin half'
                    /\ Final(p) \notin half'
  BY DEF Unraced, Temp, Final
<1>1. \A t \in Tasks : Putting(t, p)' => Putting(t, p) /\ task'[t].at = task[t].at
  BY DEF Putting
<1>2. /\ \A t, u \in Tasks : Putting(t, p) /\ Putting(u, p) => t = u
      /\ \A t \in Tasks : Putting(t, p) =>
           IF Place(t, "write") THEN task[t].file = {Temp(p)} ELSE Temp(p) \notin half
      /\ Final(p) \notin half
  BY DEF Unraced
<1>3. ASSUME NEW t \in Tasks, Putting(t, p)', Place(t, "write")'
      PROVE  task'[t].file = {Temp(p)}
  <2>1. Putting(t, p) /\ Place(t, "write")
    BY <1>1, <1>3 DEF Place
  <2>2. task[t].file = {Temp(task[t].photo)}
    BY <1>2, <2>1 DEF Putting
  <2> QED  BY <1>3, <2>1, <2>2 DEF Putting
<1>4. ASSUME NEW t \in Tasks, Putting(t, p)', ~Place(t, "write")'
      PROVE  Temp(p) \notin half'
  BY <1>1, <1>2, <1>4 DEF Place
<1> QED  BY <1>1, <1>2, <1>3, <1>4

\* To be removed is a photo under its own name: its writers, and no other, lose it.
LEMMA RemovedStates ==
  ASSUME TypeOK, NEW f \in Finals, NEW t \in Tasks, task'[t] = Unnamed(f)[t]
  PROVE  task'[t].at \in {"write", "rename"} =>
           /\ task'[t].at = task[t].at /\ task'[t].photo = task[t].photo
           /\ task[t].file = {Temp(task[t].photo)} => task'[t].file = task[t].file
PROOF
<1>1. CASE Place(t, "write")
  <2>1. task'[t] = Writing(task[t].photo, task[t].file \ {f})
    BY <1>1, UnnamedIs
  <2>2. task[t].photo \in Photos /\ Temp(task[t].photo) # f
    BY <1>1, StateIs, FilesAre DEF Place
  <2>3. task[t].file = {Temp(task[t].photo)} => task[t].file \ {f} = task[t].file
    BY <2>2
  <2>4. /\ task'[t].at = "write" /\ task'[t].photo = task[t].photo
        /\ task'[t].file = task[t].file \ {f}
    BY <2>1, Parts
  <2>5. task[t].at = "write"
    BY <1>1 DEF Place
  <2> QED  BY <2>3, <2>4, <2>5
<1> QED  BY <1>1, UnnamedIs

LEMMA UnracedOpen == ASSUME TypeOK, Unraced, NEW t \in Tasks, Open(t) PROVE Unraced'
PROOF
<1> DEFINE p == task[t].photo
<1>1. p \in Photos
  BY OpenIs
<1>2. /\ half' = half \cup {Temp(p)} /\ Goes(t, Writing(p, {Temp(p)})) /\ raced \subseteq raced'
      /\ p \notin raced' => \A u \in Tasks \ {t} : ~Putting(u, p)
  BY DEF Open, Putting
<1>3. /\ task'[t].at = "write" /\ task'[t].photo = p /\ task'[t].file = {Temp(p)}
      /\ \A u \in Tasks : u # t => task'[u] = task[u]
  BY <1>2, GoesIs, Parts
<1> SUFFICES ASSUME NEW q \in Photos, q \notin raced'
             PROVE  /\ \A u, v \in Tasks : Putting(u, q)' /\ Putting(v, q)' => u = v
                    /\ \A u \in Tasks : Putting(u, q)' =>
                         IF Place(u, "write")' THEN task'[u].file = {Temp(q)} ELSE Temp(q) \notin half'
                    /\ Final(q) \notin half'
  BY DEF Unraced, Temp, Final
<1> HIDE DEF p
<1>4. /\ \A u, v \in Tasks : Putting(u, q) /\ Putting(v, q) => u = v
      /\ \A u \in Tasks : Putting(u, q) =>
           IF Place(u, "write") THEN task[u].file = {Temp(q)} ELSE Temp(q) \notin half
      /\ Final(q) \notin half
  BY <1>2 DEF Unraced
<1>5. \A u \in Tasks : u # t => (Putting(u, q)' <=> Putting(u, q)) /\ (Place(u, "write")' <=> Place(u, "write"))
  BY <1>3 DEF Putting, Place
<1>6. Final(q) \notin half'
  BY <1>1, <1>2, <1>4, FilesAre
<1>7. CASE q = p
  BY <1>2, <1>3, <1>5, <1>6, <1>7 DEF Putting, Place
<1>8. CASE q # p
  <2>1. ~Putting(t, q)' /\ Temp(q) # Temp(p)
    BY <1>1, <1>3, <1>8, FilesAre DEF Putting
  <2> QED  BY <1>2, <1>3, <1>4, <1>5, <1>6, <2>1
<1> QED  BY <1>7, <1>8

LEMMA UnracedWrite == ASSUME TypeOK, Unraced, NEW t \in Tasks, Write(t) PROVE Unraced'
PROOF
<1> DEFINE p == task[t].photo
<1>1. /\ half' = half \ task[t].file /\ Goes(t, With("rename", p)) /\ raced' = raced
      /\ Place(t, "write")
  BY DEF Write, OthersUnchanged
<1>2. /\ task'[t].at = "rename" /\ task'[t].photo = p
      /\ \A u \in Tasks : u # t => task'[u] = task[u]
  BY <1>1, GoesIs, Parts
<1> SUFFICES ASSUME NEW q \in Photos \ raced
             PROVE  /\ \A u, v \in Tasks : Putting(u, q)' /\ Putting(v, q)' => u = v
                    /\ \A u \in Tasks : Putting(u, q)' =>
                         IF Place(u, "write")' THEN task'[u].file = {Temp(q)} ELSE Temp(q) \notin half'
                    /\ Final(q) \notin half'
  BY <1>1 DEF Unraced, Temp, Final
<1>3. /\ \A u, v \in Tasks : Putting(u, q) /\ Putting(v, q) => u = v
      /\ \A u \in Tasks : Putting(u, q) =>
           IF Place(u, "write") THEN task[u].file = {Temp(q)} ELSE Temp(q) \notin half
      /\ Final(q) \notin half
  BY DEF Unraced
<1>4. \A u \in Tasks : Putting(u, q)' <=> Putting(u, q)
  BY <1>1, <1>2 DEF Putting, Place
<1>5. \A u \in Tasks : u # t => (Place(u, "write")' <=> Place(u, "write"))
  BY <1>2 DEF Place
<1>6. Putting(t, q) => Temp(q) \notin half'
  BY <1>1, <1>3
<1>7. ~Place(t, "write")'
  BY <1>2 DEF Place
<1> QED  BY <1>1, <1>2, <1>3, <1>4, <1>5, <1>6, <1>7

LEMMA UnracedRename == ASSUME TypeOK, Unraced, NEW t \in Tasks, Rename(t) PROVE Unraced'
PROOF
<1> DEFINE p == task[t].photo
<1>1. p \in Photos /\ Putting(t, p) /\ ~Place(t, "write")
  BY RenameIs DEF Rename, Place, Putting
<1>2. /\ raced' = raced
      /\ half' = (half \ {Temp(p), Final(p)}) \cup (IF Temp(p) \in half THEN {Final(p)} ELSE {})
  BY DEF Rename, OthersUnchanged
<1>3. /\ task'[t] = Listing
      /\ \A u \in Tasks : u # t =>
           /\ task'[u].at = task[u].at
           /\ ~Place(u, "write") => task'[u] = task[u]
           /\ Place(u, "write") =>
                task'[u] = Writing(task[u].photo,
                                   IF task[u].file = {Temp(p)} THEN {Final(p)}
                                   ELSE task[u].file \ {Final(p)})
  BY RenameStates
<1> SUFFICES ASSUME NEW q \in Photos \ raced
             PROVE  /\ \A u, v \in Tasks : Putting(u, q)' /\ Putting(v, q)' => u = v
                    /\ \A u \in Tasks : Putting(u, q)' =>
                         IF Place(u, "write")' THEN task'[u].file = {Temp(q)} ELSE Temp(q) \notin half'
                    /\ Final(q) \notin half'
  BY <1>2 DEF Unraced, Temp, Final
<1> HIDE DEF p
<1>4. /\ \A u, v \in Tasks : Putting(u, q) /\ Putting(v, q) => u = v
      /\ \A u \in Tasks : Putting(u, q) =>
           IF Place(u, "write") THEN task[u].file = {Temp(q)} ELSE Temp(q) \notin half
      /\ Final(q) \notin half
  BY DEF Unraced
<1>5. ~Putting(t, q)'
  BY <1>3, Parts DEF Putting
<1>6. ASSUME NEW u \in Tasks, Putting(u, q)'
      PROVE  /\ u # t /\ Putting(u, q) /\ task'[u].at = task[u].at
             /\ Place(u, "write") => task'[u] = Writing(q, IF task[u].file = {Temp(p)} THEN {Final(p)}
                                                           ELSE task[u].file \ {Final(p)})
  <2>1. u # t /\ task'[u].at = task[u].at /\ task'[u].at \in {"write", "rename"} /\ task'[u].photo = q
    BY <1>3, <1>5, <1>6 DEF Putting
  <2>2. CASE Place(u, "write")
    <3>1. task'[u] = Writing(task[u].photo, IF task[u].file = {Temp(p)} THEN {Final(p)}
                                             ELSE task[u].file \ {Final(p)})
      BY <1>3, <2>1, <2>2
    <3>2. task[u].photo = q
      BY <2>1, <3>1, Parts
    <3> QED  BY <2>1, <3>1, <3>2 DEF Putting
  <2>3. CASE ~Place(u, "write")
    BY <1>3, <2>1, <2>3 DEF Putting
  <2> QED  BY <2>2, <2>3
<1>7. CASE q = p
  <2>1. Temp(p) \notin half
    BY <1>1, <1>4, <1>7
  <2>2. \A u \in Tasks : ~Putting(u, q)'
    BY <1>1, <1>4, <1>6, <1>7
  <2> QED  BY <1>2, <1>4, <1>7, <2>1, <2>2
<1>8. CASE q # p
  <2>1. Temp(q) # Temp(p) /\ Final(q) # Final(p) /\ Temp(q) # Final(p)
    BY <1>1, <1>8, FilesAre
  <2>2. Final(q) \notin half' /\ (Temp(q) \notin half => Temp(q) \notin half')
    BY <1>2, <1>4, <2>1
  <2>3. ASSUME NEW u \in Tasks, Putting(u, q)', Place(u, "write")'
        PROVE  task'[u].file = {Temp(q)}
    <3>1. Place(u, "write") /\ Putting(u, q)
      BY <1>6, <2>3 DEF Place
    <3>2. task[u].file = {Temp(q)}
      BY <1>4, <3>1
    <3>3. task'[u] = Writing(q, {Temp(q)} \ {Final(p)})
      BY <1>6, <2>1, <2>3, <3>1, <3>2
    <3> QED  BY <2>1, <3>3, Parts
  <2>4. ASSUME NEW u \in Tasks, Putting(u, q)', ~Place(u, "write")'
        PROVE  Temp(q) \notin half'
    BY <1>4, <1>6, <2>2, <2>4 DEF Place
  <2> QED  BY <1>4, <1>6, <2>2, <2>3, <2>4
<1> QED  BY <1>7, <1>8

LEMMA UnracedStep == TypeOK /\ FinalsGo /\ Unraced /\ [Next]_vars => Unraced'
PROOF
<1> SUFFICES ASSUME TypeOK, FinalsGo, Unraced, [Next]_vars PROVE Unraced'
  OBVIOUS
<1>1. ASSUME NEW t \in Tasks, NEW s, Goes(t, s), s.at \notin {"write", "rename"},
             half' = half, raced' = raced
      PROVE  Unraced'
  BY <1>1, GoesIs, UnracedKeeps
<1>2. ASSUME NEW t \in Tasks, Unlink(t) PROVE Unraced'
  <2> DEFINE f == Head(task[t].list)
             rest == Tail(task[t].list)
             states == [Unnamed(f) EXCEPT ![t] = IF rest = <<>> THEN Idle ELSE Unlinking(rest)]
  <2>a. /\ Removed(f, states) /\ Range(task[t].list) = {f} \cup Range(rest)
        /\ task'[t] = IF rest = <<>> THEN Idle ELSE Unlinking(rest)
        /\ \A u \in Tasks : u # t => task'[u] = Unnamed(f)[u]
    BY <1>2, UnlinkStates
  <2>1. /\ Removed(f, states) /\ f \in Range(task[t].list)
        /\ task'[t].at \notin {"write", "rename"}
        /\ \A u \in Tasks : u # t => task'[u] = Unnamed(f)[u]
    BY <2>a, Parts
  <2>2. f \in Finals /\ raced' = raced
    BY <1>2, <2>1 DEF FinalsGo, Unlink, OthersUnchanged
  <2> HIDE DEF f, states, rest
  <2>3. half' \subseteq half
    BY <2>1 DEF Removed
  <2> QED  BY <2>1, <2>2, <2>3, RemovedStates, UnracedKeeps
<1>3. CASE PurgeOne
  <2>1. PICK f \in purging : Removed(f, Unnamed(f))
    BY <1>3 DEF PurgeOne
  <2>2. f \in Finals /\ raced' = raced
    BY <1>3 DEF FinalsGo, PurgeOne
  <2>3. half' \subseteq half /\ \A u \in Tasks : task'[u] = Unnamed(f)[u]
    BY <2>1 DEF Removed
  <2> QED  BY <2>2, <2>3, RemovedStates, UnracedKeeps
<1>4. CASE Kill
  <2>1. \A u \in Tasks : task'[u].at = "idle"
    BY <1>4, Parts DEF Kill
  <2> QED  BY <1>4, <2>1, UnracedKeeps DEF Kill, DiskUnchanged, diskVars
<1>5. ASSUME NEW t \in Tasks, Works(t) PROVE Unraced'
  <2>1. ASSUME NEW p \in Photos, Ask(t, p) PROVE Unraced'
    BY <1>1, <2>1, Parts DEF Ask, OthersUnchanged, DiskUnchanged, diskVars
  <2>2. CASE NotPrepared(t) \/ RenameRaises(t)
    BY <1>1, <2>2, Parts DEF NotPrepared, RenameRaises, OthersUnchanged, DiskUnchanged, diskVars
  <2>3. CASE WriteFails(t) \/ SortRaises(t)
    BY <1>1, <2>3, Parts DEF WriteFails, SortRaises, DiskUnchanged, diskVars
  <2>4. CASE List(t)
    BY <1>1, <2>4, Parts DEF List, OthersUnchanged, DiskUnchanged, diskVars
  <2>5. CASE Sort(t)
    BY <1>1, <2>5, Parts DEF Sort, OthersUnchanged, DiskUnchanged, diskVars
  <2> QED  BY <1>2, <1>5, <2>1, <2>2, <2>3, <2>4, <2>5, UnracedOpen, UnracedWrite, UnracedRename DEF Works
<1>6. ASSUME NEW r \in Requests, (\E p \in Photos : Look(r, p)) \/ Touch(r) PROVE Unraced'
  BY <1>6, UnracedKeeps DEF Look, Touch, DiskUnchanged, diskVars
<1>7. CASE Purge
  BY <1>7, UnracedKeeps DEF Purge, DiskUnchanged, diskVars
<1>8. CASE UNCHANGED vars
  BY <1>8, UnracedKeeps DEF vars
<1> QED  BY <1>3, <1>4, <1>5, <1>6, <1>7, <1>8, Steps

\* A step that half writes nothing and stops no one who writes one of the files
\* that are still half written.
LEMMA WrittenKeeps ==
  ASSUME BeingWritten, half' \subseteq half, faults' = 0 => faults = 0,
         \A t \in Tasks : \A f \in half' :
           Place(t, "write") /\ task[t].file = {f} => Place(t, "write")' /\ task'[t].file = {f}
  PROVE  BeingWritten'
BY DEF BeingWritten

LEMMA WrittenStep == TypeOK /\ BeingWritten /\ [Next]_vars => BeingWritten'
PROOF
<1> SUFFICES ASSUME TypeOK, BeingWritten, [Next]_vars PROVE BeingWritten'
  OBVIOUS
<1>1. ASSUME NEW t \in Tasks, NEW s, Goes(t, s), ~Place(t, "write"), half' = half, faults' = faults
      PROVE  BeingWritten'
  <2>1. \A u \in Tasks : Place(u, "write") => task'[u] = task[u]
    BY <1>1, GoesIs DEF Place
  <2> QED  BY <1>1, <2>1, WrittenKeeps DEF Place
<1>2. ASSUME NEW f, half' = half \ {f}, faults' = faults,
             \A t \in Tasks : Place(t, "write") => task'[t] = Unnamed(f)[t]
      PROVE  BeingWritten'
  <2>1. ASSUME NEW t \in Tasks, NEW g \in half', Place(t, "write"), task[t].file = {g}
        PROVE  Place(t, "write")' /\ task'[t].file = {g}
    <3>1. task'[t] = Writing(task[t].photo, task[t].file \ {f})
      BY <1>2, <2>1, UnnamedIs
    <3>2. task[t].file \ {f} = {g}
      BY <1>2, <2>1
    <3>3. task'[t].at = "write" /\ task'[t].file = {g}
      BY <3>1, <3>2, Parts
    <3> QED  BY <3>3 DEF Place
  <2> QED  BY <1>2, <2>1, WrittenKeeps
<1>3. ASSUME NEW t \in Tasks, Open(t) PROVE BeingWritten'
  <2> DEFINE f == Temp(task[t].photo)
  <2>1. /\ half' = half \cup {f} /\ faults' = faults /\ ~Place(t, "write")
        /\ Goes(t, Writing(task[t].photo, {f}))
    BY <1>3 DEF Open, Place
  <2>2. /\ task'[t].at = "write" /\ task'[t].file = {f}
        /\ \A u \in Tasks : Place(u, "write") => task'[u] = task[u]
    BY <2>1, GoesIs, Parts DEF Place
  <2> HIDE DEF f
  <2> QED  BY <2>1, <2>2 DEF BeingWritten, Place
<1>4. ASSUME NEW t \in Tasks, Write(t) PROVE BeingWritten'
  <2>1. /\ half' = half \ task[t].file /\ faults' = faults
        /\ Goes(t, With("rename", task[t].photo))
    BY <1>4 DEF Write, OthersUnchanged
  <2>2. ASSUME NEW u \in Tasks, NEW g \in half', Place(u, "write"), task[u].file = {g}
        PROVE  Place(u, "write")' /\ task'[u].file = {g}
    <3>1. u # t
      BY <2>1, <2>2
    <3>2. task'[u] = task[u]
      BY <2>1, <3>1, GoesIs
    <3> QED  BY <2>2, <3>2 DEF Place
  <2> QED  BY <2>1, <2>2, WrittenKeeps
<1>5. ASSUME NEW t \in Tasks, Rename(t) PROVE BeingWritten'
  <2> DEFINE p == task[t].photo
  <2>1. /\ half' = (half \ {Temp(p), Final(p)}) \cup (IF Temp(p) \in half THEN {Final(p)} ELSE {})
        /\ faults' = faults /\ ~Place(t, "write")
    BY <1>5 DEF Rename, OthersUnchanged, Place
  <2>2. \A u \in Tasks : u # t /\ Place(u, "write") =>
          task'[u] = Writing(task[u].photo,
                             IF task[u].file = {Temp(p)} THEN {Final(p)} ELSE task[u].file \ {Final(p)})
    BY <1>5, RenameStates
  <2> HIDE DEF p
  <2>3. ASSUME NEW g \in half', faults' = 0
        PROVE  \E u \in Tasks : Place(u, "write")' /\ task'[u].file = {g}
    <3>1. CASE g = Final(p) /\ Temp(p) \in half
      <4>1. PICK u \in Tasks : Place(u, "write") /\ task[u].file = {Temp(p)}
        BY <2>1, <2>3, <3>1 DEF BeingWritten
      <4>2. task'[u] = Writing(task[u].photo, {Final(p)})
        BY <2>1, <2>2, <4>1
      <4>3. task'[u].at = "write" /\ task'[u].file = {g}
        BY <3>1, <4>2, Parts
      <4> QED  BY <4>3 DEF Place
    <3>2. CASE g \in half \ {Temp(p), Final(p)}
      <4>1. PICK u \in Tasks : Place(u, "write") /\ task[u].file = {g}
        BY <2>1, <2>3, <3>2 DEF BeingWritten
      <4>2. {g} # {Temp(p)} /\ {g} \ {Final(p)} = {g}
        BY <3>2
      <4>3. task'[u] = Writing(task[u].photo, {g})
        BY <2>1, <2>2, <4>1, <4>2
      <4>4. task'[u].at = "write" /\ task'[u].file = {g}
        BY <4>3, Parts
      <4> QED  BY <4>4 DEF Place
    <3> QED  BY <2>1, <3>1, <3>2
  <2> QED  BY <2>3 DEF BeingWritten
<1>6. ASSUME NEW t \in Tasks, Unlink(t) PROVE BeingWritten'
  <2> DEFINE f == Head(task[t].list)
             rest == Tail(task[t].list)
             states == [Unnamed(f) EXCEPT ![t] = IF rest = <<>> THEN Idle ELSE Unlinking(rest)]
  <2>1. Removed(f, states) /\ \A u \in Tasks : u # t => task'[u] = Unnamed(f)[u]
    BY <1>6, UnlinkStates
  <2>2. ~Place(t, "write") /\ faults' = faults
    BY <1>6 DEF Unlink, Place, OthersUnchanged
  <2> HIDE DEF f, states
  <2>3. half' = half \ {f}
    BY <2>1 DEF Removed
  <2> QED  BY <1>2, <2>1, <2>2, <2>3 DEF Place
<1>7. CASE PurgeOne
  <2>1. PICK f \in purging : Removed(f, Unnamed(f))
    BY <1>7 DEF PurgeOne
  <2>2. half' = half \ {f} /\ task' = Unnamed(f) /\ faults' = faults
    BY <1>7, <2>1 DEF Removed, PurgeOne
  <2> QED  BY <1>2, <2>2
<1>8. ASSUME faults' = faults + 1 PROVE BeingWritten'
  BY <1>8 DEF BeingWritten, TypeOK
<1>9. ASSUME NEW t \in Tasks, Works(t) PROVE BeingWritten'
  <2>1. ASSUME NEW p \in Photos, Ask(t, p) PROVE BeingWritten'
    BY <1>1, <2>1 DEF Ask, Place, OthersUnchanged, DiskUnchanged, diskVars
  <2>2. CASE NotPrepared(t) \/ RenameRaises(t)
    BY <1>1, <2>2 DEF NotPrepared, RenameRaises, Place, OthersUnchanged, DiskUnchanged, diskVars
  <2>3. CASE SortRaises(t)
    BY <1>1, <2>3 DEF SortRaises, Place, DiskUnchanged, diskVars
  <2>4. CASE List(t)
    BY <1>1, <2>4 DEF List, Place, OthersUnchanged, DiskUnchanged, diskVars
  <2>5. CASE Sort(t)
    BY <1>1, <2>5 DEF Sort, Place, OthersUnchanged, DiskUnchanged, diskVars
  <2>6. CASE WriteFails(t)
    BY <1>8, <2>6 DEF WriteFails
  <2> QED  BY <1>3, <1>4, <1>5, <1>6, <1>9, <2>1, <2>2, <2>3, <2>4, <2>5, <2>6 DEF Works
<1>10. ASSUME NEW r \in Requests, (\E p \in Photos : Look(r, p)) \/ Touch(r) PROVE BeingWritten'
  BY <1>10, WrittenKeeps DEF Look, Touch, DiskUnchanged, diskVars, Place
<1>11. CASE Purge
  BY <1>11, WrittenKeeps DEF Purge, DiskUnchanged, diskVars, Place
<1>12. CASE Kill
  BY <1>8, <1>12 DEF Kill
<1>13. CASE UNCHANGED vars
  BY <1>13, WrittenKeeps DEF vars, Place
<1> QED  BY <1>7, <1>9, <1>10, <1>11, <1>12, <1>13, Steps

-----------------------------------------------------------------------------
(* How many there are.                                                     *)

LEMMA Fewer ==
  ASSUME NEW S, IsFiniteSet(S), NEW T, T \subseteq S
  PROVE  /\ IsFiniteSet(T) /\ Cardinality(T) \in Nat /\ Cardinality(S) \in Nat
         /\ Cardinality(T) <= Cardinality(S)
BY FS_Subset, FS_CardinalityType

LEMMA OneMore ==
  ASSUME NEW S, IsFiniteSet(S), NEW x, NEW T, T \subseteq S \cup {x}
  PROVE  Cardinality(T) \in Nat /\ Cardinality(T) <= Cardinality(S) + 1
PROOF
<1>1. /\ IsFiniteSet(S \cup {x}) /\ Cardinality(S) \in Nat
      /\ Cardinality(S \cup {x}) = IF x \in S THEN Cardinality(S) ELSE Cardinality(S) + 1
  BY FS_AddElement, FS_CardinalityType
<1>2. Cardinality(T) \in Nat /\ Cardinality(T) <= Cardinality(S \cup {x})
  BY <1>1, Fewer
<1> QED  BY <1>1, <1>2

\* A list of files has as many as it is long, if it has each once.
LEMMA AsLong ==
  ASSUME NEW S, NEW list \in Seq(S), IsInjective(list)
  PROVE  IsFiniteSet(Range(list)) /\ Cardinality(Range(list)) = Len(list)
PROOF
<1> DEFINE n == Len(list)
<1>1. n \in Nat /\ list \in [1..n -> S] /\ DOMAIN list = 1..n
  OBVIOUS
<1>2. list \in Surjection(1..n, Range(list)) /\ list \in [1..n -> Range(list)]
  BY <1>1, Fun_RangeProperties, Fun_SurjectionProperties
<1>3. list \in Injection(1..n, Range(list))
  BY <1>1, <1>2, Fun_IsInj DEF IsInjective
<1>4. IsFiniteSet(1..n) /\ Cardinality(1..n) = n
  BY <1>1, FS_Interval
<1> QED  BY <1>2, <1>3, <1>4, FS_Surjection

LEMMA SinceIs ==
  ASSUME NEW Since, Counts(Since)
  PROVE  /\ \A x \in Tasks : /\ IsFiniteSet(Since[x]) /\ Cardinality(Since[x]) \in Nat
                             /\ Since[x] \subseteq Evicting \ {x} /\ Since[x] \subseteq Tasks
         /\ IsFiniteSet(Evicting) /\ Cardinality(Evicting) \in Nat
         /\ Evicting \subseteq Tasks /\ Removing \subseteq Evicting
PROOF
<1>1. IsFiniteSet(Tasks) /\ Evicting \subseteq Tasks /\ Removing \subseteq Evicting
  BY TasksAssumption DEF Evicting, Removing
<1>2. \A x \in Tasks : Since[x] \subseteq Evicting \ {x} /\ Since[x] \subseteq Tasks
  BY DEF Counts
<1> QED  BY <1>1, <1>2, Fewer

\* A step that puts nothing in place and leaves who evicts, and of what is to go
\* no more than there was.
LEMMA CountsKeep ==
  ASSUME TypeOK, TooMany, NEW Since, Counts(Since), Entries' \subseteq Entries,
         Evicting' = Evicting, Removing' = Removing,
         \A t \in Tasks : task'[t].at = "sort" => task'[t] = task[t],
         \A t \in Tasks : task'[t].at = "unlink" =>
           \/ task'[t] = task[t]
           \/ Cardinality(Entries' \ Range(task'[t].list)) <= MaxEntries + Cardinality(Since[t])
  PROVE  Counts(Since)'
PROOF
<1>1. /\ IsFiniteSet(Entries) /\ Cardinality(Entries') <= Cardinality(Entries)
      /\ Cardinality(Entries) \in Nat /\ Cardinality(Entries') \in Nat
      /\ MaxEntries \in Nat
  BY FilesAreFinite, Fewer, BoundsAssumption
<1>2. /\ \A x \in Tasks : /\ Cardinality(Since[x]) \in Nat /\ Since[x] \subseteq Evicting \ {x}
      /\ Cardinality(Evicting) \in Nat
  BY SinceIs
<1>3. ASSUME NEW t \in Tasks, Place(t, "sort")'
      PROVE  Cardinality(Entries') <= Cardinality(task'[t].files) + Cardinality(Since[t])
  <2>1. task'[t] = task[t] /\ Place(t, "sort")
    BY <1>3 DEF Place
  <2>2. Cardinality(Entries) <= Cardinality(task[t].files) + Cardinality(Since[t])
    BY <2>1 DEF Counts
  <2>3. Cardinality(task[t].files) \in Nat
    BY <2>1, FS_CardinalityType DEF TooMany
  <2> QED  BY <1>1, <1>2, <2>1, <2>2, <2>3
<1>4. ASSUME NEW t \in Tasks, Place(t, "unlink")'
      PROVE  Cardinality(Entries' \ Range(task'[t].list)) <= MaxEntries + Cardinality(Since[t])
  <2>1. CASE task'[t] = task[t]
    <3>1. Cardinality(Entries \ Range(task[t].list)) <= MaxEntries + Cardinality(Since[t])
      BY <1>4, <2>1 DEF Counts, Place
    <3>2. IsFiniteSet(Entries \ Range(task[t].list))
      BY <1>1, Fewer
    <3>3. Entries' \ Range(task[t].list) \subseteq Entries \ Range(task[t].list)
      OBVIOUS
    <3>4. /\ Cardinality(Entries' \ Range(task[t].list)) <= Cardinality(Entries \ Range(task[t].list))
          /\ Cardinality(Entries' \ Range(task[t].list)) \in Nat
          /\ Cardinality(Entries \ Range(task[t].list)) \in Nat
      BY <3>2, <3>3, Fewer
    <3> QED  BY <1>1, <1>2, <2>1, <3>1, <3>4
  <2> QED  BY <1>4, <2>1 DEF Place
<1>5. Cardinality(Entries') <= MaxEntries + Cardinality(Evicting')
  <2>1. Cardinality(Entries) <= MaxEntries + Cardinality(Evicting)
    BY DEF Counts
  <2> QED  BY <1>1, <1>2, <2>1
<1>6. \A t, u \in Removing' : u \in Since[t] => Since[u] \subseteq Since[t]
  BY DEF Counts
<1>7. Since \in [Tasks -> SUBSET Tasks]
  BY DEF Counts
<1> QED  BY <1>2, <1>3, <1>4, <1>5, <1>6, <1>7 DEF Counts

\* A task has done with its eviction: what has been put in place since, by M, is
\* what it leaves over the budget.
LEMMA CountsFinish ==
  ASSUME TypeOK, TooMany, NEW Since, Counts(Since), NEW t \in Evicting, NEW M,
         Entries' \subseteq Entries,
         Evicting' = Evicting \ {t}, Removing' = Removing \ {t},
         \A x \in Tasks : task'[x].at \in {"sort", "unlink"} => task'[x] = task[x],
         M \subseteq Evicting \ {t},
         Cardinality(Entries') <= MaxEntries + Cardinality(M),
         \A x \in Removing : t \in Since[x] => M \subseteq Since[x] \ {t},
         NEW Now, Now = [x \in Tasks |-> Since[x] \ {t}]
  PROVE  Counts(Now)'
PROOF
<1>1. /\ IsFiniteSet(Entries) /\ Cardinality(Entries') <= Cardinality(Entries)
      /\ Cardinality(Entries) \in Nat /\ Cardinality(Entries') \in Nat
      /\ MaxEntries \in Nat
  BY FilesAreFinite, Fewer, BoundsAssumption
<1>2. /\ \A x \in Tasks : /\ IsFiniteSet(Since[x]) /\ Cardinality(Since[x]) \in Nat
                          /\ Since[x] \subseteq Evicting \ {x} /\ Since[x] \subseteq Tasks
      /\ IsFiniteSet(Evicting) /\ Cardinality(Evicting) \in Nat
      /\ Evicting \subseteq Tasks /\ Removing \subseteq Evicting
  BY SinceIs
<1>3. \A x \in Tasks : Now[x] = Since[x] \ {t}
  OBVIOUS
<1>4. \A x \in Tasks : /\ IsFiniteSet(Now[x]) /\ Cardinality(Now[x]) \in Nat
                       /\ t \notin Since[x] => Now[x] = Since[x]
  BY <1>2, <1>3, Fewer
<1>5. ASSUME NEW x \in Removing, t \in Since[x]
      PROVE  Cardinality(Entries') <= MaxEntries + Cardinality(Now[x])
  <2>1. x \in Tasks /\ M \subseteq Now[x]
    BY <1>2, <1>3, <1>5
  <2>2. IsFiniteSet(Now[x])
    BY <1>4, <2>1
  <2>3. Cardinality(M) \in Nat /\ Cardinality(Now[x]) \in Nat /\ Cardinality(M) <= Cardinality(Now[x])
    BY <2>1, <2>2, Fewer
  <2> QED  BY <1>1, <2>3
<1>6. ASSUME NEW x \in Tasks, Place(x, "sort")'
      PROVE  Cardinality(Entries') <= Cardinality(task'[x].files) + Cardinality(Now[x])
  <2>1. task'[x] = task[x] /\ Place(x, "sort") /\ x \in Removing
    BY <1>6 DEF Place, Removing
  <2>2. Cardinality(task[x].files) \in Nat /\ Cardinality(task[x].files) > MaxEntries
    BY <2>1, FS_CardinalityType DEF TooMany
  <2>3. Cardinality(Now[x]) \in Nat
    BY <1>4
  <2>4. CASE t \in Since[x]
    <3>1. Cardinality(Entries') <= MaxEntries + Cardinality(Now[x])
      BY <1>5, <2>1, <2>4
    <3> QED  BY <1>1, <2>1, <2>2, <2>3, <3>1
  <2>5. CASE t \notin Since[x]
    <3>1. Cardinality(Entries) <= Cardinality(task[x].files) + Cardinality(Now[x])
      BY <1>4, <2>1, <2>5 DEF Counts
    <3> QED  BY <1>1, <2>1, <2>2, <2>3, <3>1
  <2> QED  BY <2>4, <2>5
<1>7. ASSUME NEW x \in Tasks, Place(x, "unlink")'
      PROVE  Cardinality(Entries' \ Range(task'[x].list)) <= MaxEntries + Cardinality(Now[x])
  <2> DEFINE R == Range(task[x].list)
  <2>1. task'[x] = task[x] /\ Place(x, "unlink") /\ x \in Removing
    BY <1>7 DEF Place, Removing
  <2>2. Range(task'[x].list) = R
    BY <2>1
  <2>3. Cardinality(Entries \ R) <= MaxEntries + Cardinality(Since[x])
    BY <2>1 DEF Counts
  <2> HIDE DEF R
  <2>4. IsFiniteSet(Entries') /\ IsFiniteSet(Entries \ R)
    BY <1>1, Fewer
  <2>5. /\ Cardinality(Entries' \ R) \in Nat
        /\ Cardinality(Entries' \ R) <= Cardinality(Entries')
    BY <2>4, Fewer
  <2>6. Cardinality(Entries' \ R) <= Cardinality(Entries \ R) /\ Cardinality(Entries \ R) \in Nat
    <3>1. Entries' \ R \subseteq Entries \ R
      OBVIOUS
    <3> QED  BY <2>4, <3>1, Fewer
  <2>7. Cardinality(Now[x]) \in Nat
    BY <1>4
  <2>8. CASE t \in Since[x]
    <3>1. Cardinality(Entries') <= MaxEntries + Cardinality(Now[x])
      BY <1>5, <2>1, <2>8
    <3> QED  BY <1>1, <2>2, <2>5, <2>7, <3>1
  <2>9. CASE t \notin Since[x]
    <3>1. Now[x] = Since[x]
      BY <1>4, <2>9
    <3>2. Cardinality(Entries \ R) <= MaxEntries + Cardinality(Now[x])
      BY <2>3, <3>1
    <3>3. Cardinality(Entries' \ R) <= MaxEntries + Cardinality(Now[x])
      BY <1>1, <2>5, <2>6, <2>7, <3>2
    <3> QED  BY <2>2, <3>3
  <2> QED  BY <2>8, <2>9
<1>8. Cardinality(Entries') <= MaxEntries + Cardinality(Evicting')
  <2>1. IsFiniteSet(Evicting') /\ M \subseteq Evicting'
    BY <1>2, Fewer
  <2>2. Cardinality(M) \in Nat /\ Cardinality(M) <= Cardinality(Evicting') /\ Cardinality(Evicting') \in Nat
    BY <2>1, Fewer
  <2> QED  BY <1>1, <2>2
<1>9. \A x, y \in Removing' : y \in Now[x] => Now[y] \subseteq Now[x]
  <2>1. \A x, y \in Removing : y \in Since[x] => Since[y] \subseteq Since[x]
    BY DEF Counts
  <2>2. Removing' \subseteq Tasks
    BY <1>2
  <2> QED  BY <1>3, <2>1, <2>2
<1>10. \A x \in Tasks : Now[x] \subseteq Evicting' \ {x}
  BY <1>2, <1>3
<1>11. Now \in [Tasks -> SUBSET Tasks]
  BY <1>2
<1> QED  BY <1>6, <1>7, <1>8, <1>9, <1>10, <1>11 DEF Counts

\* One photo more is in place, and its task is yet to evict.
LEMMA CountsRename ==
  ASSUME TypeOK, TooMany, NEW Since, Counts(Since), NEW t \in Tasks, NEW f,
         Entries' \subseteq Entries \cup {f}, t \notin Evicting,
         Evicting' = Evicting \cup {t}, Removing' = Removing,
         \A x \in Tasks : task'[x].at \in {"sort", "unlink"} => task'[x] = task[x],
         NEW Now, Now = [x \in Tasks |-> IF x = t THEN {} ELSE Since[x] \cup {t}]
  PROVE  Counts(Now)'
PROOF
<1>1. /\ IsFiniteSet(Entries) /\ Cardinality(Entries') <= Cardinality(Entries) + 1
      /\ Cardinality(Entries) \in Nat /\ Cardinality(Entries') \in Nat
      /\ MaxEntries \in Nat
  BY FilesAreFinite, FS_CardinalityType, OneMore, BoundsAssumption
<1>2. /\ \A x \in Tasks : /\ IsFiniteSet(Since[x]) /\ Cardinality(Since[x]) \in Nat
                          /\ Since[x] \subseteq Evicting \ {x} /\ Since[x] \subseteq Tasks
      /\ IsFiniteSet(Evicting) /\ Cardinality(Evicting) \in Nat
      /\ Evicting \subseteq Tasks /\ Removing \subseteq Evicting
  BY SinceIs
<1>3. ASSUME NEW x \in Tasks, x # t
      PROVE  Now[x] = Since[x] \cup {t} /\ Cardinality(Now[x]) = Cardinality(Since[x]) + 1
  BY <1>2, <1>3, FS_AddElement
<1>4. ASSUME NEW x \in Tasks, Place(x, "sort")'
      PROVE  Cardinality(Entries') <= Cardinality(task'[x].files) + Cardinality(Now[x])
  <2>1. task'[x] = task[x] /\ Place(x, "sort") /\ x \in Evicting
    BY <1>4 DEF Place, Evicting
  <2>2. Cardinality(task[x].files) \in Nat
    BY <2>1, FS_CardinalityType DEF TooMany
  <2>3. Cardinality(Entries) <= Cardinality(task[x].files) + Cardinality(Since[x])
    BY <2>1 DEF Counts
  <2>4. Cardinality(Now[x]) = Cardinality(Since[x]) + 1
    BY <1>3, <2>1
  <2> QED  BY <1>1, <1>2, <2>1, <2>2, <2>3, <2>4
<1>5. ASSUME NEW x \in Tasks, Place(x, "unlink")'
      PROVE  Cardinality(Entries' \ Range(task'[x].list)) <= MaxEntries + Cardinality(Now[x])
  <2> DEFINE R == Range(task[x].list)
  <2>1. task'[x] = task[x] /\ Place(x, "unlink") /\ x \in Evicting
    BY <1>5 DEF Place, Evicting
  <2>2. Range(task'[x].list) = R
    BY <2>1
  <2>3. Cardinality(Entries \ R) <= MaxEntries + Cardinality(Since[x])
    BY <2>1 DEF Counts
  <2>4. Cardinality(Now[x]) = Cardinality(Since[x]) + 1
    BY <1>3, <2>1
  <2> HIDE DEF R
  <2>5. IsFiniteSet(Entries \ R) /\ Cardinality(Entries \ R) \in Nat
    BY <1>1, Fewer
  <2>6. Entries' \ R \subseteq (Entries \ R) \cup {f}
    OBVIOUS
  <2>7. /\ Cardinality(Entries' \ R) \in Nat
        /\ Cardinality(Entries' \ R) <= Cardinality(Entries \ R) + 1
    BY <2>5, <2>6, OneMore
  <2> QED  BY <1>1, <1>2, <2>2, <2>3, <2>4, <2>5, <2>7
<1>6. Cardinality(Entries') <= MaxEntries + Cardinality(Evicting')
  <2>1. Cardinality(Evicting') = Cardinality(Evicting) + 1
    BY <1>2, FS_AddElement
  <2>2. Cardinality(Entries) <= MaxEntries + Cardinality(Evicting)
    BY DEF Counts
  <2> QED  BY <1>1, <1>2, <2>1, <2>2
<1>7. \A x, y \in Removing' : y \in Now[x] => Now[y] \subseteq Now[x]
  <2>1. \A x, y \in Removing : y \in Since[x] => Since[y] \subseteq Since[x]
    BY DEF Counts
  <2>2. Removing' \subseteq Tasks /\ t \notin Removing'
    BY <1>2
  <2>3. \A x \in Removing' : x # t /\ Now[x] = Since[x] \cup {t}
    BY <1>3, <2>2
  <2> QED  BY <2>1, <2>2, <2>3
<1>8. \A x \in Tasks : Now[x] \subseteq Evicting' \ {x}
  BY <1>2, <1>3
<1>9. Now \in [Tasks -> SUBSET Tasks]
  BY <1>2
<1> QED  BY <1>4, <1>5, <1>6, <1>7, <1>8, <1>9 DEF Counts

\* A task has listed what there is: none has been put in place since.
LEMMA CountsList ==
  ASSUME TypeOK, TooMany, NEW Since, Counts(Since), NEW t \in Evicting, Entries' = Entries,
         task'[t] = Sorting(Entries),
         \A x \in Tasks : x # t => task'[x] = task[x],
         NEW Now, Now = [Since EXCEPT ![t] = {}]
  PROVE  Counts(Now)'
PROOF
<1>1. /\ \A x \in Tasks : /\ IsFiniteSet(Since[x]) /\ Cardinality(Since[x]) \in Nat
                          /\ Since[x] \subseteq Evicting \ {x} /\ Since[x] \subseteq Tasks
      /\ Evicting \subseteq Tasks /\ Removing \subseteq Evicting
  BY SinceIs
<1>2. Evicting' = Evicting /\ Removing' = Removing \cup {t}
  BY <1>1, Parts DEF Evicting, Removing
<1>3. Now \in [Tasks -> SUBSET Tasks] /\ Now[t] = {} /\ \A x \in Tasks : x # t => Now[x] = Since[x]
  BY <1>1 DEF Counts
<1>4. ASSUME NEW x \in Tasks, Place(x, "sort")'
      PROVE  Cardinality(Entries') <= Cardinality(task'[x].files) + Cardinality(Now[x])
  <2>1. CASE x = t
    <3>1. task'[x].files = Entries
      BY <2>1, Parts
    <3>2. Cardinality(Entries) \in Nat /\ Cardinality(Now[x]) = 0
      BY <1>3, <2>1, FilesAreFinite, FS_CardinalityType, FS_EmptySet
    <3> QED  BY <3>1, <3>2
  <2>2. CASE x # t
    BY <1>3, <1>4, <2>2 DEF Counts, Place
  <2> QED  BY <2>1, <2>2
<1>5. ASSUME NEW x \in Tasks, Place(x, "unlink")'
      PROVE  Cardinality(Entries' \ Range(task'[x].list)) <= MaxEntries + Cardinality(Now[x])
  <2>1. x # t
    BY <1>5, Parts DEF Place
  <2> QED  BY <1>3, <1>5, <2>1 DEF Counts, Place
<1>6. \A x, y \in Removing' : y \in Now[x] => Now[y] \subseteq Now[x]
  <2>1. \A x, y \in Removing : y \in Since[x] => Since[y] \subseteq Since[x]
    BY DEF Counts
  <2> QED  BY <1>1, <1>2, <1>3, <2>1
<1>7. \A x \in Tasks : Now[x] \subseteq Evicting' \ {x}
  BY <1>1, <1>2, <1>3
<1>8. Cardinality(Entries') <= MaxEntries + Cardinality(Evicting')
  BY <1>2 DEF Counts
<1> QED  BY <1>3, <1>4, <1>5, <1>6, <1>7, <1>8 DEF Counts

\* A task has what it is to remove: all that was too much of what it had listed.
LEMMA CountsSort ==
  ASSUME TypeOK, TooMany, NEW Since, Counts(Since), NEW t \in Tasks, Sort(t)
  PROVE  Counts(Since)'
PROOF
<1> DEFINE files == task[t].files
<1>1. Place(t, "sort") /\ files \subseteq Entries /\ Entries' = Entries
  BY DEF Sort, DiskUnchanged, diskVars, Entries
<1>2. PICK list \in Seq(files) :
        /\ Goes(t, Unlinking(list)) /\ IsInjective(list)
        /\ Len(list) = Cardinality(files) - MaxEntries
  BY SortIs
<1>3. /\ task'[t].at = "unlink" /\ task'[t].list = list
      /\ \A x \in Tasks : x # t => task'[x] = task[x]
  BY <1>2, GoesIs, Parts
<1>4. Evicting' = Evicting /\ Removing' = Removing
  BY <1>1, <1>3 DEF Evicting, Removing, Place
<1>5. Cardinality(Entries \ Range(list)) <= MaxEntries + Cardinality(Since[t])
  <2>1. IsFiniteSet(Entries) /\ Cardinality(Entries) \in Nat
    BY FilesAreFinite, FS_CardinalityType
  <2>2. Cardinality(files) \in Nat /\ Cardinality(Since[t]) \in Nat /\ MaxEntries \in Nat
    BY <1>1, FS_CardinalityType, SinceIs, BoundsAssumption DEF TooMany
  <2>3. Cardinality(Range(list)) = Cardinality(files) - MaxEntries
    BY <1>2, AsLong
  <2>4. Entries \cap Range(list) = Range(list)
    BY <1>1 DEF Range
  <2>5. Cardinality(Entries \ Range(list)) = Cardinality(Entries) - Cardinality(Range(list))
    BY <2>1, <2>4, FS_Difference
  <2>6. Cardinality(Entries) <= Cardinality(files) + Cardinality(Since[t])
    BY <1>1 DEF Counts
  <2> QED  BY <2>1, <2>2, <2>3, <2>5, <2>6
<1> HIDE DEF files
<1>6. ASSUME NEW x \in Tasks, task'[x].at = "unlink"
      PROVE  \/ task'[x] = task[x]
             \/ Cardinality(Entries' \ Range(task'[x].list)) <= MaxEntries + Cardinality(Since[x])
  BY <1>1, <1>3, <1>5
<1>7. \A x \in Tasks : task'[x].at = "sort" => task'[x] = task[x]
  BY <1>3
<1>8. Entries' \subseteq Entries
  BY <1>1
<1> QED  BY <1>4, <1>6, <1>7, <1>8, CountsKeep

\* One file less: the task goes on with the rest, or has done.
LEMMA CountsUnlink ==
  ASSUME TypeOK, TooMany, NEW Since, Counts(Since), NEW t \in Tasks, Unlink(t)
  PROVE  \E Now \in [Tasks -> SUBSET Tasks] : Counts(Now)'
PROOF
<1> DEFINE f == Head(task[t].list)
           rest == Tail(task[t].list)
           states == [Unnamed(f) EXCEPT ![t] = IF rest = <<>> THEN Idle ELSE Unlinking(rest)]
<1>1. /\ Removed(f, states) /\ Range(task[t].list) = {f} \cup Range(rest)
      /\ task'[t] = IF rest = <<>> THEN Idle ELSE Unlinking(rest)
      /\ \A u \in Tasks : u # t => task'[u] = Unnamed(f)[u]
  BY UnlinkStates
<1>2. Place(t, "unlink")
  BY DEF Unlink
<1> HIDE DEF f, rest, states
<1>3. Range(used') = Range(used) \ {f}
  BY <1>1, RemovedIs
<1>4. Entries' = Entries \ {f}
  BY <1>3 DEF Entries
<1>5. \A u \in Tasks : u # t => /\ task'[u].at = task[u].at
                                /\ task[u].at # "write" => task'[u] = task[u]
  <2>1. \A u \in Tasks : /\ Unnamed(f)[u].at = task[u].at
                         /\ task[u].at # "write" => Unnamed(f)[u] = task[u]
    BY UnnamedIs DEF Place
  <2>2. \A u \in Tasks : u # t => task'[u] = Unnamed(f)[u]
    BY <1>1
  <2> QED  BY <2>1, <2>2
<1>6. /\ Cardinality(Entries \ Range(task[t].list)) <= MaxEntries + Cardinality(Since[t])
      /\ Entries' \ Range(rest) = Entries \ Range(task[t].list)
  BY <1>1, <1>2, <1>4 DEF Counts
<1>7. CASE rest # <<>>
  <2>1. task'[t].at = "unlink" /\ task'[t].list = rest
    BY <1>1, <1>7, Parts
  <2>2. Evicting' = Evicting /\ Removing' = Removing
    BY <1>2, <1>5, <2>1 DEF Evicting, Removing, Place
  <2>3. \A x \in Tasks : task'[x].at = "unlink" =>
          \/ task'[x] = task[x]
          \/ Cardinality(Entries' \ Range(task'[x].list)) <= MaxEntries + Cardinality(Since[x])
    BY <1>5, <1>6, <2>1
  <2>4. \A x \in Tasks : task'[x].at = "sort" => task'[x] = task[x]
    BY <1>5, <2>1
  <2>5. Counts(Since)'
    BY <1>4, <2>2, <2>3, <2>4, CountsKeep
  <2> QED  BY <2>5 DEF Counts
<1>8. CASE rest = <<>>
  <2>1. task'[t].at = "idle" /\ Range(rest) = {}
    BY <1>1, <1>8, Parts DEF Range
  <2>2. /\ t \in Evicting /\ Evicting' = Evicting \ {t} /\ Removing' = Removing \ {t}
        /\ t \in Removing
    BY <1>2, <1>5, <2>1 DEF Evicting, Removing, Place
  <2>3. \A x \in Tasks : task'[x].at \in {"sort", "unlink"} => task'[x] = task[x]
    BY <1>5, <2>1
  <2>4. Cardinality(Entries') <= MaxEntries + Cardinality(Since[t])
    <3>1. Entries' = Entries' \ Range(rest)
      BY <2>1
    <3> QED  BY <1>6, <3>1
  <2>5. /\ Since[t] \subseteq Evicting \ {t}
        /\ \A x \in Removing : t \in Since[x] => Since[t] \subseteq Since[x] \ {t}
    BY <2>2, SinceIs DEF Counts
  <2>6. PICK Now : Now = [x \in Tasks |-> Since[x] \ {t}]
    OBVIOUS
  <2>7. Entries' \subseteq Entries
    BY <1>4
  <2>8. Counts(Now)'
    BY <2>2, <2>3, <2>4, <2>5, <2>6, <2>7, CountsFinish
  <2> QED  BY <2>8 DEF Counts
<1> QED  BY <1>7, <1>8

\* A step of a task that neither puts in place nor evicts, before and after.
LEMMA CountsGoes ==
  ASSUME TypeOK, TooMany, NEW Since, Counts(Since), NEW t \in Tasks, NEW s, Goes(t, s),
         task[t].at \notin {"list", "sort", "unlink"}, s.at \notin {"list", "sort", "unlink"},
         Entries' \subseteq Entries
  PROVE  Counts(Since)'
PROOF
<1>1. task'[t] = s /\ \A x \in Tasks : x # t => task'[x] = task[x]
  BY GoesIs
<1>2. Evicting' = Evicting /\ Removing' = Removing
  BY <1>1 DEF Evicting, Removing
<1>3. \A x \in Tasks : task'[x].at \in {"sort", "unlink"} => task'[x] = task[x]
  BY <1>1
<1> QED  BY <1>2, <1>3, CountsKeep

LEMMA CountedStep == TypeOK /\ TooMany /\ Counted /\ [Next]_vars => Counted'
PROOF
<1> SUFFICES ASSUME TypeOK, TooMany, Counted, [Next]_vars, faults' = 0, ~gaveUp'
             PROVE  \E Now \in [Tasks -> SUBSET Tasks] : Counts(Now)'
  BY DEF Counted
<1> DEFINE Goal == \E Now \in [Tasks -> SUBSET Tasks] : Counts(Now)'
<1>1. ASSUME NEW Now, Counts(Now)' PROVE Goal
  BY <1>1 DEF Counts
<1> HIDE DEF Goal
<1>2. ASSUME faults' = faults, gaveUp' = gaveUp
      PROVE  \E Since \in [Tasks -> SUBSET Tasks] : Counts(Since)
  BY <1>2 DEF Counted
<1>3. ASSUME faults' = faults + 1 PROVE FALSE
  BY <1>3 DEF TypeOK
<1>4. ASSUME UNCHANGED diskVars PROVE Entries' = Entries
  BY <1>4 DEF Entries, diskVars
<1>5. ASSUME NEW t \in Tasks, NEW s, Goes(t, s), faults' = faults, gaveUp' = gaveUp,
             task[t].at \notin {"list", "sort", "unlink"}, s.at \notin {"list", "sort", "unlink"},
             Entries' \subseteq Entries
      PROVE  Goal
  BY <1>1, <1>2, <1>5, CountsGoes
<1>6. ASSUME NEW t \in Tasks, Open(t) PROVE Goal
  <2>1. task[t].photo \in Photos /\ Range(used') = Range(used) \cup {Temp(task[t].photo)}
    BY <1>6, OpenIs
  <2>2. Temp(task[t].photo).temp
    BY DEF Temp
  <2>3. Entries' \subseteq Entries
    BY <2>1, <2>2 DEF Entries
  <2>4. /\ task[t].at = "prepare" /\ faults' = faults /\ gaveUp' = gaveUp
        /\ Goes(t, Writing(task[t].photo, {Temp(task[t].photo)}))
    BY <1>6 DEF Open, Place
  <2> QED  BY <1>5, <2>3, <2>4, Parts
<1>7. ASSUME NEW t \in Tasks, Rename(t) PROVE Goal
  <2> DEFINE p == task[t].photo
  <2>1. Range(used') = (Range(used) \ {Temp(p)}) \cup {Final(p)}
    BY <1>7, RenameIs
  <2>2. /\ task'[t] = Listing
        /\ \A x \in Tasks : x # t => /\ task'[x].at = task[x].at
                                     /\ task[x].at # "write" => task'[x] = task[x]
    BY <1>7, RenameStates DEF Place
  <2>3. task[t].at = "rename" /\ faults' = faults /\ gaveUp' = gaveUp
    BY <1>7 DEF Rename, Place, OthersUnchanged
  <2> HIDE DEF p
  <2>4. Entries' \subseteq Entries \cup {Final(p)}
    BY <2>1 DEF Entries
  <2>5. task'[t].at = "list"
    BY <2>2, Parts
  <2>6. t \notin Evicting /\ Evicting' = Evicting \cup {t} /\ Removing' = Removing
    BY <2>2, <2>3, <2>5 DEF Evicting, Removing
  <2>7. \A x \in Tasks : task'[x].at \in {"sort", "unlink"} => task'[x] = task[x]
    BY <2>2, <2>5
  <2>8. PICK Since : Counts(Since)
    BY <1>2, <2>3
  <2>9. PICK Now : Now = [x \in Tasks |-> IF x = t THEN {} ELSE Since[x] \cup {t}]
    OBVIOUS
  <2>10. Counts(Now)'
    BY <2>4, <2>6, <2>7, <2>8, <2>9, CountsRename
  <2> QED  BY <1>1, <2>10
<1>8. ASSUME NEW t \in Tasks, List(t) PROVE Goal
  <2>1. task[t].at = "list" /\ faults' = faults /\ gaveUp' = gaveUp /\ Entries' = Entries
    BY <1>4, <1>8 DEF List, Place, OthersUnchanged, DiskUnchanged
  <2>2. t \in Evicting
    BY <2>1 DEF Evicting
  <2>3. PICK Since : Counts(Since)
    BY <1>2, <2>1
  <2>4. CASE Goes(t, Sorting(Entries))
    <3>1. task'[t] = Sorting(Entries) /\ \A x \in Tasks : x # t => task'[x] = task[x]
      BY <2>4, GoesIs
    <3>2. PICK Now : Now = [Since EXCEPT ![t] = {}]
      OBVIOUS
    <3>3. Counts(Now)'
      BY <2>1, <2>2, <2>3, <3>1, <3>2, CountsList
    <3> QED  BY <1>1, <3>3
  <2>5. CASE Goes(t, Idle) /\ Excess(Cardinality(Entries)) = 0
    <3>1. task'[t].at = "idle" /\ \A x \in Tasks : x # t => task'[x] = task[x]
      BY <2>5, GoesIs, Parts
    <3>2. Evicting' = Evicting \ {t} /\ Removing' = Removing \ {t}
      BY <2>1, <3>1 DEF Evicting, Removing
    <3>3. \A x \in Tasks : task'[x].at \in {"sort", "unlink"} => task'[x] = task[x]
      BY <3>1
    <3>4. Cardinality(Entries) \in Nat /\ MaxEntries \in Nat /\ Cardinality({}) = 0
      BY FilesAreFinite, FS_CardinalityType, BoundsAssumption, FS_EmptySet
    <3>5. Cardinality(Entries') <= MaxEntries + Cardinality({})
      BY <2>1, <2>5, <3>4 DEF Excess
    <3>6. PICK Now : Now = [x \in Tasks |-> Since[x] \ {t}]
      OBVIOUS
    <3>7. Counts(Now)'
      BY <2>1, <2>2, <2>3, <3>2, <3>3, <3>5, <3>6, CountsFinish
    <3> QED  BY <1>1, <3>7
  <2> QED  BY <1>8, <2>4, <2>5 DEF List
<1>9. ASSUME NEW t \in Tasks, Sort(t) PROVE Goal
  BY <1>1, <1>2, <1>9, CountsSort DEF Sort, OthersUnchanged
<1>10. ASSUME NEW t \in Tasks, Unlink(t) PROVE Goal
  BY <1>2, <1>10, CountsUnlink DEF Unlink, OthersUnchanged, Goal
<1>11. ASSUME PurgeOne PROVE Goal
  <2>1. PICK f : Removed(f, Unnamed(f))
    BY <1>11 DEF PurgeOne
  <2>2. Range(used') = Range(used) \ {f} /\ task' = Unnamed(f)
    BY <2>1, RemovedIs
  <2>3. Entries' \subseteq Entries
    BY <2>2 DEF Entries
  <2>4. \A x \in Tasks : /\ task'[x].at = task[x].at
                         /\ task[x].at # "write" => task'[x] = task[x]
    BY <2>2, UnnamedIs DEF Place
  <2>5. Evicting' = Evicting /\ Removing' = Removing
    BY <2>4 DEF Evicting, Removing
  <2>6. \A x \in Tasks : task'[x].at \in {"sort", "unlink"} => task'[x] = task[x]
    BY <2>4
  <2>7. PICK Since : Counts(Since)
    BY <1>2, <1>11 DEF PurgeOne
  <2>8. Counts(Since)'
    BY <2>3, <2>5, <2>6, <2>7, CountsKeep
  <2> QED  BY <1>1, <2>8
<1>12. ASSUME UNCHANGED <<task, faults, gaveUp>>, Entries' \subseteq Entries PROVE Goal
  <2>1. PICK Since : Counts(Since)
    BY <1>2, <1>12
  <2>2. Evicting' = Evicting /\ Removing' = Removing
    BY <1>12 DEF Evicting, Removing
  <2>3. Counts(Since)'
    BY <1>12, <2>1, <2>2, CountsKeep
  <2> QED  BY <1>1, <2>3
<1>13. ASSUME NEW r \in Requests, (\E p \in Photos : Look(r, p)) \/ Touch(r) PROVE Goal
  <2>1. Range(used') = Range(used) /\ UNCHANGED <<task, faults, gaveUp>>
    BY <1>13, TouchIs DEF Look, Touch, DiskUnchanged, diskVars
  <2> QED  BY <1>12, <2>1 DEF Entries
<1>14. ASSUME Purge PROVE Goal
  BY <1>4, <1>12, <1>14 DEF Purge, DiskUnchanged
<1>15. ASSUME Kill PROVE Goal
  BY <1>3, <1>15 DEF Kill
<1>16. ASSUME UNCHANGED vars PROVE Goal
  BY <1>12, <1>16 DEF vars, Entries
<1>17. ASSUME NEW t \in Tasks, Works(t) PROVE Goal
  <2>1. ASSUME NEW p \in Photos, Ask(t, p) PROVE Goal
    BY <1>4, <1>5, <2>1, Parts DEF Ask, Place, OthersUnchanged, DiskUnchanged
  <2>2. CASE NotPrepared(t) \/ RenameRaises(t)
    BY <1>4, <1>5, <2>2, Parts DEF NotPrepared, RenameRaises, Place, OthersUnchanged, DiskUnchanged
  <2>3. CASE Write(t)
    <3>1. Entries' = Entries
      BY <2>3 DEF Write, Entries
    <3>2. /\ task[t].at = "write" /\ faults' = faults /\ gaveUp' = gaveUp
          /\ Goes(t, With("rename", task[t].photo))
      BY <2>3 DEF Write, Place, OthersUnchanged
    <3> QED  BY <1>5, <3>1, <3>2, Parts
  <2>4. CASE WriteFails(t)
    BY <1>3, <2>4 DEF WriteFails
  <2>5. CASE SortRaises(t)
    BY <2>5 DEF SortRaises
  <2> QED  BY <1>6, <1>7, <1>8, <1>9, <1>10, <1>17, <2>1, <2>2, <2>3, <2>4, <2>5 DEF Works
<1>18. Goal
  BY <1>11, <1>13, <1>14, <1>15, <1>16, <1>17, Steps
<1> QED  BY <1>18 DEF Goal

-----------------------------------------------------------------------------
(* The invariant, and what it implies.                                     *)

LEMMA Initially == Init => IInv
PROOF
<1> SUFFICES ASSUME Init PROVE IInv
  OBVIOUS
<1>1. /\ used = <<>> /\ half = {} /\ purging = {} /\ raced = {} /\ gaveUp = FALSE /\ faults = 0
      /\ task \in [Tasks -> TaskStates] /\ request \in [Requests -> RequestStates]
      /\ \A t \in Tasks : task[t].at = "idle"
  BY StatesAre, Parts DEF Init, RequestStates
<1>2. TypeOK
  <2>1. used \in Seq(Files) /\ IsInjective(used)
    BY <1>1 DEF IsInjective
  <2>2. faults \in 0..MaxFaults
    BY <1>1, BoundsAssumption
  <2>3. half \subseteq Range(used) /\ purging \subseteq Files /\ raced \subseteq Photos /\ gaveUp \in BOOLEAN
    BY <1>1
  <2> QED  BY <1>1, <2>1, <2>2, <2>3 DEF TypeOK
<1>3. FinalsGo /\ TooMany /\ Unraced /\ BeingWritten
  BY <1>1 DEF FinalsGo, TooMany, Unraced, BeingWritten, Place, Putting
<1>4. Counted
  <2>1. PICK Since : Since = [t \in Tasks |-> {}]
    OBVIOUS
  <2>2. Since \in [Tasks -> SUBSET Tasks] /\ \A t \in Tasks : Since[t] = {}
    BY <2>1
  <2>3. Evicting = {} /\ Removing = {} /\ Entries = {}
    BY <1>1 DEF Evicting, Removing, Entries, Range
  <2>4. Counts(Since)
    BY <1>1, <2>2, <2>3, FS_EmptySet, BoundsAssumption DEF Counts, Place
  <2> QED  BY <2>2, <2>4 DEF Counted
<1> QED  BY <1>2, <1>3, <1>4 DEF IInv

LEMMA Inductive == IInv /\ [Next]_vars => IInv'
BY TypeStep, GoStep, UnracedStep, WrittenStep, CountedStep DEF IInv

LEMMA Invariant == Spec => []IInv
PROOF
<1>1. Init => IInv
  BY Initially
<1>2. IInv /\ [Next]_vars => IInv'
  BY Inductive
<1> QED  BY <1>1, <1>2, PTL DEF Spec

\* The files there are, each once by its last access, and what the tasks, the
\* requests and a purge are about, are of their kinds in every state.
THEOREM TypeCorrect == Spec => []TypeOK
PROOF
<1>1. IInv => TypeOK
  BY DEF IInv
<1> QED  BY <1>1, Invariant, PTL

\* What is served is whole (photo_store.py:104, :115), whatever is killed or
\* fails, but for a photo that two tasks were writing at once.
THEOREM ServedWhole == Spec => []WholeUnlessRaced
PROOF
<1>1. IInv => WholeUnlessRaced
  BY DEF IInv, Unraced, WholeUnlessRaced
<1> QED  BY <1>1, Invariant, PTL

\* ... and that one is half written only as long as one of them writes to it,
\* when nothing fails (photo_store.py:114).
THEOREM HalfIsOnItsWay == Spec => []HalfIsBeingWritten
PROOF
<1>1. IInv => HalfIsBeingWritten
  BY DEF IInv, BeingWritten, HalfIsBeingWritten
<1> QED  BY <1>1, Invariant, PTL

\* The store exceeds its budget by the tasks that are yet to evict at most
\* (photo_store.py:140), when nothing fails and no eviction is given up.
THEOREM StoreIsBounded == Spec => []WithinBudget
PROOF
<1>1. IInv => WithinBudget
  BY DEF IInv, Counted, Counts, WithinBudget
<1> QED  BY <1>1, Invariant, PTL
=============================================================================
