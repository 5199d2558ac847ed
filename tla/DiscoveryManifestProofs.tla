---------------------- MODULE DiscoveryManifestProofs ----------------------
(***************************************************************************)
(* Proofs about StateDirectory and DiscoveryManifest: a save that returned *)
(* survives every power loss, and the manifest always names what the       *)
(* broker retains.  For any depth of missing directories, any topics and   *)
(* any number of failing calls, kills and power losses.                    *)
(***************************************************************************)
EXTENDS DiscoveryManifest, FiniteSetTheorems, TLAPS

-----------------------------------------------------------------------------
(* Directories *)

DirSteps == {"mark", "markSync", "make", "madeSync", "move", "moveSync",
             "innerSync", "unmark"}

\* Directory d is there for good.
Durable(d) == FALSE \notin may[<<"dir", d>>]

DiskType ==
  /\ now \in [Entries -> BOOLEAN]
  /\ may \in [Entries -> SUBSET BOOLEAN]
  /\ dir \in 0 .. Depth
  /\ step \in Steps \cup {"none", "saved", "failed"}

\* What is visible may also survive, and lies in directories that are there.
Rooted ==
  \A e \in Entries : now[e] \in may[e] /\ (now[e] => There(now, Holder(e)))

\* A directory that may vanish is marked outside, and is the deepest.
Marked ==
  \A d \in Dirs : now[<<"dir", d>>] /\ ~Durable(d) =>
    /\ now[<<"outer", d>>] /\ ~now[<<"inner", d>>]
    /\ \A f \in Dirs : f > d => ~now[<<"dir", f>>]

\* How far the creation of directory dir has come.
Creating ==
  /\ step \in DirSteps =>
       /\ dir \in Dirs
       /\ There(now, dir - 1)
       /\ \A d \in Dirs : d < dir => Durable(d)
       /\ \A d \in Dirs : d > dir => ~now[<<"dir", d>>]
  /\ step \in {"markSync", "make", "madeSync"} =>
       now[<<"outer", dir>>] /\ ~now[<<"inner", dir>>]
  /\ step \in {"madeSync", "move", "moveSync", "innerSync", "unmark"} =>
       now[<<"dir", dir>>]
  /\ step \in {"move", "moveSync", "innerSync", "unmark"} => Durable(dir)
  /\ step \in {"write", "replace", "fileSync"} => \A d \in Dirs : Durable(d)

Tree == DiskType /\ Rooted /\ Marked /\ Creating

\* Entries are told apart by their kind and directory.
LEMMA EntryFacts ==
  /\ \A d \in Dirs : /\ <<"dir", d>> \in Entries /\ Holder(<<"dir", d>>) = d - 1
                     /\ <<"outer", d>> \in Entries /\ Holder(<<"outer", d>>) = d - 1
                     /\ <<"inner", d>> \in Entries /\ Holder(<<"inner", d>>) = d
  /\ \A e \in Entries : \E d \in Dirs : e \in {<<"dir", d>>, <<"outer", d>>, <<"inner", d>>}
  /\ \A e \in Entries : Holder(e) \in 0 .. Depth
BY DepthAssumption DEF Entries, Dirs, Holder

\* A synced directory's entries are as they are seen, the others as before.
LEMMA Synced ==
  ASSUME DiskType, NEW d \in 0 .. Depth, Fsync(d)
  PROVE  /\ may' \in [Entries -> SUBSET BOOLEAN]
         /\ now' = now
         /\ \A e \in Entries : Holder(e) = d => may'[e] = {now[e]}
         /\ \A e \in Entries : Holder(e) # d => may'[e] = may[e]
BY DEF Fsync, DiskType

LEMMA SyncedTree ==
  ASSUME DiskType, Rooted, Marked, NEW d \in 0 .. Depth, Fsync(d)
  PROVE  /\ Rooted' /\ Marked'
         /\ \A f \in Dirs : Durable(f) => Durable(f)' \/ ~now[<<"dir", f>>]
         /\ \A f \in Dirs : f = d + 1 /\ now[<<"dir", f>>] => Durable(f)'
<1>1. /\ now' = now
      /\ \A e \in Entries : Holder(e) = d => may'[e] = {now[e]}
      /\ \A e \in Entries : Holder(e) # d => may'[e] = may[e]
  BY Synced
<1>2. Rooted'
  BY <1>1 DEF Rooted, There
<1>3. \A f \in Dirs : may'[<<"dir", f>>] \in {may[<<"dir", f>>], {now[<<"dir", f>>]}}
  BY <1>1, EntryFacts
<1>4. Marked'
  BY <1>1, <1>3, Zenon DEF Marked, Durable
<1>5. \A f \in Dirs : Durable(f) => Durable(f)' \/ ~now[<<"dir", f>>]
  BY <1>3 DEF Durable
<1>6. \A f \in Dirs : f = d + 1 /\ now[<<"dir", f>>] => Durable(f)'
  <2> SUFFICES ASSUME NEW f \in Dirs, f = d + 1, now[<<"dir", f>>]
               PROVE  Durable(f)'
    OBVIOUS
  <2>1. may'[<<"dir", f>>] = {now[<<"dir", f>>]}
    <3>1. <<"dir", f>> \in Entries /\ Holder(<<"dir", f>>) = d
      BY EntryFacts, f - 1 = d DEF Dirs
    <3> QED
      BY <1>1, <3>1
  <2>2. now[<<"dir", f>>] = TRUE
    BY EntryFacts DEF DiskType
  <2> QED
    BY <2>1, <2>2 DEF Durable
<1> QED
  BY <1>2, <1>4, <1>5, <1>6

\* A directory is there when it and those above it are.
LEMMA Ladder ==
  ASSUME NEW p
  PROVE  /\ There(p, 0)
         /\ \A d \in Dirs : d - 1 \in 0 .. Depth
         /\ \A d \in Dirs : There(p, d) <=> There(p, d - 1) /\ p[<<"dir", d>>]
         /\ \A d \in 0 .. Depth : \A f \in Dirs :
              There(p, d) /\ f <= d => p[<<"dir", f>>]
         /\ \A d, f \in 0 .. Depth : There(p, d) /\ f <= d => There(p, f)
         /\ \A d \in 0 .. Depth : (\A f \in Dirs : f <= d => p[<<"dir", f>>]) => There(p, d)
BY DepthAssumption DEF There, Dirs

\* Numbers of directories.
LEMMA DirNumbers ==
  /\ Depth \in Nat /\ 0 \in 0 .. Depth
  /\ \A d \in Dirs : d \in Nat /\ d > 0 /\ d <= Depth /\ d - 1 \in 0 .. Depth
                     /\ d \in 0 .. Depth
  /\ \A d \in 0 .. Depth : d \in Nat /\ (d # 0 => d \in Dirs)
                           /\ (d < Depth => d + 1 \in Dirs)
BY DepthAssumption DEF Dirs

\* An entry is made or taken away.
LEMMA PutEntry ==
  ASSUME DiskType, NEW e \in Entries, NEW v \in BOOLEAN, Put(e, v)
  PROVE  /\ now' \in [Entries -> BOOLEAN] /\ may' \in [Entries -> SUBSET BOOLEAN]
         /\ now'[e] = v /\ may'[e] = may[e] \cup {v}
         /\ \A f \in Entries : f # e => now'[f] = now[f] /\ may'[f] = may[f]
BY DEF Put, DiskType

LEMMA TreeEnsure == ASSUME Tree, Ensure PROVE Tree'
<1> USE DEF Tree, disk
<1>1. PICK deepest \in 0 .. Depth :
        /\ There(now, deepest)
        /\ deepest < Depth => ~There(now, deepest + 1)
        /\ LET first == IF deepest > 0 /\ Pending(deepest) THEN deepest
                                                           ELSE deepest + 1
           IN  /\ Call("ensure", IF first > Depth THEN "write" ELSE "mark")
               /\ dir' = IF first > Depth THEN dir ELSE first
               /\ UNCHANGED disk
  BY DEF Ensure
<1>2. UNCHANGED disk /\ step' \in {"write", "mark"}
  BY <1>1 DEF Call
<1>3. Rooted' /\ Marked'
  BY <1>2 DEF Rooted, Marked, There, Durable
<1>4. DiskType'
  <2>1. dir' = dir \/ (dir' <= Depth /\ dir' \in {deepest, deepest + 1} /\ dir' # 0)
    <3>1. \A first : (dir' = IF first > Depth THEN dir ELSE first) =>
            dir' = dir \/ (dir' = first /\ ~(first > Depth))
      OBVIOUS
    <3> QED
      BY <1>1, DirNumbers
  <2>2. dir' \in 0 .. Depth
    BY <2>1, DirNumbers DEF DiskType
  <2> QED
    BY <1>2, <2>2 DEF DiskType, Steps
<1>5. \A d \in Dirs : d <= deepest => now[<<"dir", d>>]
  BY <1>1, Ladder
<1>6. \A d \in Dirs : d > deepest => ~now[<<"dir", d>>]
  <2> SUFFICES ASSUME NEW d \in Dirs, d > deepest, now[<<"dir", d>>] PROVE FALSE
    OBVIOUS
  <2>1. There(now, d - 1)
    BY EntryFacts DEF Rooted
  <2>2. There(now, d)
    BY <2>1, Ladder
  <2>3. deepest < Depth /\ deepest + 1 <= d /\ deepest + 1 \in 0 .. Depth
    BY DirNumbers
  <2>4. There(now, deepest + 1)
    BY <2>2, <2>3, DirNumbers, Ladder
  <2> QED
    BY <1>1, <2>3, <2>4
<1>7. \A d \in Dirs : d < deepest => Durable(d)
  <2> SUFFICES ASSUME NEW d \in Dirs, d < deepest, ~Durable(d) PROVE FALSE
    OBVIOUS
  <2>1. deepest \in Dirs /\ deepest > d
    BY DirNumbers
  <2>2. now[<<"dir", d>>] /\ now[<<"dir", deepest>>]
    BY <1>5, <2>1, DirNumbers
  <2> QED
    BY <2>1, <2>2 DEF Marked
<1>8. deepest \in Dirs /\ ~Pending(deepest) => Durable(deepest)
  <2> SUFFICES ASSUME deepest \in Dirs, ~Pending(deepest) PROVE Durable(deepest)
    OBVIOUS
  <2>1. now[<<"dir", deepest>>]
    BY <1>5, DirNumbers
  <2> QED
    BY <2>1 DEF Marked, Pending
<1>9. CASE deepest \in Dirs /\ Pending(deepest)
  <2>1. step' = "mark" /\ dir' = deepest
    BY <1>1, <1>9, DirNumbers DEF Call
  <2>2. There(now, deepest - 1)
    BY <1>1, <1>9, DirNumbers, Ladder
  <2>3. Creating'
    BY <1>2, <1>6, <1>7, <1>9, <2>1, <2>2 DEF Creating, DirSteps, Durable, There
  <2> QED
    BY <1>3, <1>4, <2>3
<1>10. CASE ~(deepest \in Dirs /\ Pending(deepest))
  <2>1. \A d \in Dirs : d <= deepest => Durable(d)
    BY <1>7, <1>8, <1>10 DEF Dirs
  <2>2. CASE deepest = Depth
    <3>1. step' = "write"
      BY <1>1, <1>10, <2>2 DEF Call, Dirs
    <3>2. \A d \in Dirs : Durable(d)
      BY <2>1, <2>2 DEF Dirs
    <3>3. Creating'
      BY <1>2, <3>1, <3>2 DEF Creating, DirSteps, Durable
    <3> QED
      BY <1>3, <1>4, <3>3
  <2>3. CASE deepest < Depth
    <3>1. step' = "mark" /\ dir' = deepest + 1 /\ deepest + 1 \in Dirs
      BY <1>1, <1>10, <2>3, DirNumbers DEF Call
    <3>2. Creating'
      <4>1. There(now, dir' - 1)
        BY <1>1, <3>1
      <4>2. \A d \in Dirs : /\ d < dir' => Durable(d)
                            /\ d > dir' => ~now[<<"dir", d>>]
        <5> SUFFICES ASSUME NEW d \in Dirs
                     PROVE  /\ d < dir' => Durable(d)
                            /\ d > dir' => ~now[<<"dir", d>>]
          OBVIOUS
        <5>1. d \in Nat /\ deepest \in Nat
          BY DirNumbers
        <5> QED
          BY <1>6, <2>1, <3>1, <5>1
      <4> QED
        BY <1>2, <3>1, <4>1, <4>2 DEF Creating, DirSteps, Durable, There, disk
    <3> QED
      BY <1>3, <1>4, <3>2
  <2> QED
    BY <2>2, <2>3, DirNumbers
<1> QED
  BY <1>9, <1>10

LEMMA TreeMark == ASSUME Tree, Mark PROVE Tree'
<1> USE DEF Tree
<1>1. step = "mark" /\ dir \in Dirs /\ dir' = dir
  BY DEF Mark, Creating, DirSteps
<1>2. CASE now[<<"inner", dir>>]
  <2>1. UNCHANGED disk /\ step' = IF now[<<"outer", dir>>] THEN "failed" ELSE "moveSync"
    BY <1>2 DEF Mark, Call
  <2>2. now[<<"dir", dir>>]
    <3>1. There(now, dir)
      BY <1>1, <1>2, EntryFacts DEF Rooted
    <3> QED
      BY <1>1, <3>1, Ladder
  <2>3. Durable(dir)
    BY <1>1, <1>2, <2>2 DEF Marked
  <2>4. DiskType' /\ Rooted' /\ Marked'
    BY <1>1, <2>1 DEF DiskType, Rooted, Marked, Durable, There, disk, Steps
  <2>5. Creating'
    BY <1>1, <2>1, <2>2, <2>3 DEF Creating, DirSteps, Durable, There, disk
  <2> QED
    BY <2>4, <2>5
<1>3. CASE ~now[<<"inner", dir>>]
  <2>1. Put(<<"outer", dir>>, TRUE) /\ step' = "markSync"
    BY <1>3 DEF Mark, Call
  <2>2. /\ now' \in [Entries -> BOOLEAN] /\ may' \in [Entries -> SUBSET BOOLEAN]
        /\ now'[<<"outer", dir>>] = TRUE
        /\ may'[<<"outer", dir>>] = may[<<"outer", dir>>] \cup {TRUE}
        /\ \A f \in Entries : f # <<"outer", dir>> => now'[f] = now[f] /\ may'[f] = may[f]
    BY <1>1, <2>1, PutEntry, EntryFacts
  <2>3. /\ \A d \in Dirs : now'[<<"dir", d>>] = now[<<"dir", d>>]
        /\ \A d \in Dirs : now'[<<"inner", d>>] = now[<<"inner", d>>]
        /\ \A d \in Dirs : now[<<"outer", d>>] => now'[<<"outer", d>>]
        /\ \A d \in Dirs : Durable(d)' <=> Durable(d)
    BY <1>1, <2>2, EntryFacts DEF Durable
  <2>4. DiskType'
    BY <1>1, <2>1, <2>2 DEF DiskType, Steps
  <2>5. \A d \in 0 .. Depth : There(now', d) <=> There(now, d)
    BY <2>3, DirNumbers, Ladder
  <2>6. Rooted'
    <3> SUFFICES ASSUME NEW e \in Entries
                 PROVE  now'[e] \in may'[e] /\ (now'[e] => There(now', Holder(e)))
      BY DEF Rooted
    <3>0. Holder(e) \in 0 .. Depth
      BY EntryFacts
    <3>1. CASE e = <<"outer", dir>>
      <4>1. There(now, dir - 1) /\ dir - 1 \in 0 .. Depth
        BY <1>1, DirNumbers DEF Creating, DirSteps
      <4> QED
        BY <1>1, <2>2, <2>5, <3>1, <4>1, EntryFacts
    <3>2. CASE e # <<"outer", dir>>
      BY <2>2, <2>5, <3>0, <3>2 DEF Rooted
    <3> QED
      BY <3>1, <3>2
  <2>7. Marked'
    BY <2>3 DEF Marked
  <2>8. Creating'
    <3>1. There(now', dir - 1)
      BY <1>1, <2>5, DirNumbers DEF Creating, DirSteps
    <3> QED
      BY <1>1, <1>3, <2>1, <2>2, <2>3, <3>1 DEF Creating, DirSteps
  <2> QED
    BY <2>4, <2>6, <2>7, <2>8
<1> QED
  BY <1>2, <1>3

LEMMA RootedPut ==
  ASSUME DiskType, Rooted, NEW e \in Entries, NEW v \in BOOLEAN, Put(e, v),
         v => There(now, Holder(e)),
         \A d \in Dirs : e = <<"dir", d>> => v
  PROVE  Rooted'
<1>1. /\ now'[e] = v /\ may'[e] = may[e] \cup {v}
      /\ \A f \in Entries : f # e => now'[f] = now[f] /\ may'[f] = may[f]
  BY PutEntry
<1>2. \A d \in Dirs : now[<<"dir", d>>] => now'[<<"dir", d>>]
  BY <1>1, EntryFacts
<1>3. \A d \in 0 .. Depth : There(now, d) => There(now', d)
  BY <1>2, DirNumbers, Ladder
<1> SUFFICES ASSUME NEW f \in Entries
             PROVE  now'[f] \in may'[f] /\ (now'[f] => There(now', Holder(f)))
  BY DEF Rooted
<1>4. CASE f = e
  BY <1>1, <1>3, <1>4, EntryFacts
<1>5. CASE f # e
  BY <1>1, <1>3, <1>5, EntryFacts DEF Rooted
<1> QED
  BY <1>4, <1>5

LEMMA TreeSyncParent == ASSUME Tree, SyncParent PROVE Tree'
<1> USE DEF Tree
<1>1. /\ step \in {"markSync", "madeSync", "moveSync"}
      /\ step' = CASE step = "markSync" -> "make"
                   [] step = "madeSync" -> "move"
                   [] step = "moveSync" -> "innerSync"
      /\ dir' = dir /\ Fsync(dir - 1)
  BY DEF SyncParent, Call
<1>2. dir \in Dirs /\ dir - 1 \in 0 .. Depth
  BY <1>1, DirNumbers DEF Creating, DirSteps
<1>3. /\ now' = now /\ may' \in [Entries -> SUBSET BOOLEAN]
      /\ Rooted' /\ Marked'
      /\ \A f \in Dirs : Durable(f) => Durable(f)' \/ ~now[<<"dir", f>>]
      /\ now[<<"dir", dir>>] => Durable(dir)'
  <2>1. dir = (dir - 1) + 1
    BY <1>2, DirNumbers
  <2> QED
    BY <1>1, <1>2, <2>1, Synced, SyncedTree
<1>4. DiskType'
  BY <1>1, <1>3 DEF DiskType, Steps
<1>5. \A d \in Dirs : d < dir => Durable(d)'
  <2> SUFFICES ASSUME NEW d \in Dirs, d < dir PROVE Durable(d)'
    OBVIOUS
  <2>1. There(now, dir - 1) /\ Durable(d)
    BY <1>1 DEF Creating, DirSteps
  <2>2. d <= dir - 1
    BY <1>2, DirNumbers
  <2>3. now[<<"dir", d>>]
    BY <1>2, <2>1, <2>2, Ladder
  <2> QED
    BY <1>3, <2>1, <2>3
<1>6. Creating'
  BY <1>1, <1>2, <1>3, <1>5 DEF Creating, DirSteps
<1> QED
  BY <1>3, <1>4, <1>6

LEMMA TreeMake == ASSUME Tree, Make PROVE Tree'
<1> USE DEF Tree
<1>1. step = "make" /\ step' = "madeSync" /\ dir' = dir /\ Put(<<"dir", dir>>, TRUE)
  BY DEF Make, Call
<1>2. dir \in Dirs /\ There(now, dir - 1)
  BY <1>1 DEF Creating, DirSteps
<1>3. /\ now' \in [Entries -> BOOLEAN] /\ may' \in [Entries -> SUBSET BOOLEAN]
      /\ now'[<<"dir", dir>>] = TRUE
      /\ may'[<<"dir", dir>>] = may[<<"dir", dir>>] \cup {TRUE}
      /\ \A f \in Entries : f # <<"dir", dir>> => now'[f] = now[f] /\ may'[f] = may[f]
  BY <1>1, <1>2, PutEntry, EntryFacts
<1>4. /\ \A d \in Dirs : now'[<<"outer", d>>] = now[<<"outer", d>>]
      /\ \A d \in Dirs : now'[<<"inner", d>>] = now[<<"inner", d>>]
      /\ \A d \in Dirs : d # dir => now'[<<"dir", d>>] = now[<<"dir", d>>]
      /\ \A d \in Dirs : Durable(d)' <=> Durable(d)
  BY <1>2, <1>3, EntryFacts DEF Durable
<1>5. DiskType'
  BY <1>1, <1>3 DEF DiskType, Steps
<1>6. Rooted'
  BY <1>1, <1>2, RootedPut, EntryFacts
<1>7. now[<<"outer", dir>>] /\ ~now[<<"inner", dir>>]
      /\ \A d \in Dirs : d > dir => ~now[<<"dir", d>>]
  BY <1>1 DEF Creating, DirSteps
<1>8. Marked'
  <2> SUFFICES ASSUME NEW d \in Dirs, now'[<<"dir", d>>], ~Durable(d)'
               PROVE  /\ now'[<<"outer", d>>] /\ ~now'[<<"inner", d>>]
                      /\ \A f \in Dirs : f > d => ~now'[<<"dir", f>>]
    BY DEF Marked
  <2>1. CASE d = dir
    BY <1>2, <1>4, <1>7, <2>1, DirNumbers
  <2>2. CASE d # dir
    <3>1. ~(d < dir)
      BY <1>1, <1>4 DEF Creating, DirSteps
    <3>2. d > dir
      BY <1>2, <2>2, <3>1, DirNumbers
    <3> QED
      BY <1>4, <1>7, <2>2, <3>2
  <2> QED
    BY <2>1, <2>2
<1>9. There(now', dir - 1)
  <2>1. \A f \in Dirs : f <= dir - 1 => now'[<<"dir", f>>]
    <3> SUFFICES ASSUME NEW f \in Dirs, f <= dir - 1 PROVE now'[<<"dir", f>>]
      OBVIOUS
    <3>1. f # dir /\ dir - 1 \in 0 .. Depth
      BY <1>2, DirNumbers
    <3>2. now[<<"dir", f>>]
      BY <1>2, <3>1, Ladder
    <3> QED
      BY <1>4, <3>1, <3>2
  <2> QED
    BY <1>2, <2>1, DirNumbers, Ladder
<1>10. \A d \in Dirs : d > dir => ~now'[<<"dir", d>>]
  BY <1>2, <1>4, <1>7, DirNumbers
<1>11. \A d \in Dirs : d < dir => Durable(d)'
  BY <1>1, <1>4 DEF Creating, DirSteps
<1>12. Creating'
  BY <1>1, <1>2, <1>3, <1>4, <1>7, <1>9, <1>10, <1>11 DEF Creating, DirSteps
<1> QED
  BY <1>5, <1>6, <1>8, <1>12

\* The marker of a directory that is there for good may go.
LEMMA TreeUnmarked ==
  ASSUME Tree, NEW d \in Dirs, Durable(d),
         now' \in [Entries -> BOOLEAN], may' \in [Entries -> SUBSET BOOLEAN],
         \A f \in Dirs : /\ now'[<<"dir", f>>] = now[<<"dir", f>>]
                         /\ may'[<<"dir", f>>] = may[<<"dir", f>>]
                         /\ f # d => /\ now'[<<"outer", f>>] = now[<<"outer", f>>]
                                     /\ now'[<<"inner", f>>] = now[<<"inner", f>>]
  PROVE  /\ Marked'
         /\ \A f \in Dirs : Durable(f)' <=> Durable(f)
         /\ \A f \in 0 .. Depth : There(now', f) <=> There(now, f)
<1>1. \A f \in Dirs : Durable(f)' <=> Durable(f)
  BY DEF Durable
<1>2. \A f \in 0 .. Depth : There(now', f) <=> There(now, f)
  <2> SUFFICES ASSUME NEW f \in 0 .. Depth
               PROVE  There(now', f) <=> There(now, f)
    OBVIOUS
  <2>1. There(now, f) <=> \A g \in Dirs : g <= f => now[<<"dir", g>>]
    BY Ladder
  <2>2. There(now', f) <=> \A g \in Dirs : g <= f => now'[<<"dir", g>>]
    BY Ladder
  <2> QED
    BY <2>1, <2>2
<1>3. Marked'
  BY <1>1 DEF Marked, Tree
<1> QED
  BY <1>1, <1>2, <1>3

LEMMA TreeMove == ASSUME Tree, Move PROVE Tree'
<1> USE DEF Tree
<1>1. /\ step = "move" /\ dir' = dir /\ dir \in Dirs
      /\ now[<<"dir", dir>>] /\ Durable(dir) /\ There(now, dir - 1)
  BY DEF Move, Creating, DirSteps
<1>2. CASE now[<<"inner", dir>>]
  <2>1. step' = "failed" /\ now' = now /\ may' = may
    BY <1>2 DEF Move, Call
  <2> QED
    BY <1>1, <2>1 DEF DiskType, Rooted, Marked, Creating, Durable, There, Steps, DirSteps
<1>3. CASE ~now[<<"inner", dir>>]
  <2>1. step' = "moveSync" /\ MoveMarker(dir)
    BY <1>3 DEF Move, Call
  <2>a. /\ <<"outer", dir>> \in Entries /\ <<"inner", dir>> \in Entries
        /\ <<"outer", dir>> # <<"inner", dir>>
    BY <1>1, EntryFacts
  <2>2. /\ now' \in [Entries -> BOOLEAN] /\ may' \in [Entries -> SUBSET BOOLEAN]
        /\ now'[<<"outer", dir>>] = FALSE /\ now'[<<"inner", dir>>] = TRUE
        /\ may'[<<"outer", dir>>] = may[<<"outer", dir>>] \cup {FALSE}
        /\ may'[<<"inner", dir>>] = may[<<"inner", dir>>] \cup {TRUE}
        /\ \A f \in Entries : f \notin {<<"outer", dir>>, <<"inner", dir>>} =>
             now'[f] = now[f] /\ may'[f] = may[f]
    BY <2>1, <2>a DEF MoveMarker, DiskType
  <2>3. \A f \in Dirs : /\ now'[<<"dir", f>>] = now[<<"dir", f>>]
                        /\ may'[<<"dir", f>>] = may[<<"dir", f>>]
                        /\ f # dir => /\ now'[<<"outer", f>>] = now[<<"outer", f>>]
                                      /\ now'[<<"inner", f>>] = now[<<"inner", f>>]
    BY <2>2, EntryFacts
  <2>4. /\ Marked'
        /\ \A f \in Dirs : Durable(f)' <=> Durable(f)
        /\ \A f \in 0 .. Depth : There(now', f) <=> There(now, f)
    BY <1>1, <2>2, <2>3, TreeUnmarked
  <2>5. DiskType'
    BY <1>1, <2>1, <2>2 DEF DiskType, Steps
  <2>6. There(now', dir) /\ There(now', dir - 1)
    BY <1>1, <2>4, DirNumbers, Ladder
  <2>7. Rooted'
    <3> SUFFICES ASSUME NEW f \in Entries
                 PROVE  now'[f] \in may'[f] /\ (now'[f] => There(now', Holder(f)))
      BY DEF Rooted
    <3>1. CASE f = <<"outer", dir>>
      BY <2>2, <3>1
    <3>2. CASE f = <<"inner", dir>>
      BY <1>1, <2>2, <2>6, <3>2, EntryFacts
    <3>3. CASE f \notin {<<"outer", dir>>, <<"inner", dir>>}
      BY <2>2, <2>4, <3>3, EntryFacts DEF Rooted
    <3> QED
      BY <3>1, <3>2, <3>3
  <2>8. Creating'
    BY <1>1, <2>1, <2>3, <2>4, <2>6 DEF Creating, DirSteps
  <2> QED
    BY <2>4, <2>5, <2>7, <2>8
<1> QED
  BY <1>2, <1>3

LEMMA TreeSyncInner == ASSUME Tree, SyncInner PROVE Tree'
<1> USE DEF Tree
<1>1. /\ step = "innerSync" /\ step' = "unmark" /\ dir' = dir /\ Fsync(dir)
      /\ dir \in Dirs /\ dir \in 0 .. Depth
      /\ now[<<"dir", dir>>] /\ Durable(dir) /\ There(now, dir - 1)
  BY DirNumbers DEF SyncInner, Call, Creating, DirSteps
<1>2. /\ now' = now /\ may' \in [Entries -> SUBSET BOOLEAN]
      /\ Rooted' /\ Marked'
      /\ \A f \in Dirs : Durable(f) => Durable(f)' \/ ~now[<<"dir", f>>]
  BY <1>1, Synced, SyncedTree
<1>3. DiskType'
  BY <1>1, <1>2 DEF DiskType, Steps
<1>4. \A d \in Dirs : d < dir => Durable(d)'
  <2> SUFFICES ASSUME NEW d \in Dirs, d < dir PROVE Durable(d)'
    OBVIOUS
  <2>1. There(now, dir - 1) /\ Durable(d)
    BY <1>1 DEF Creating, DirSteps
  <2>2. d <= dir - 1 /\ dir - 1 \in 0 .. Depth
    BY <1>1, DirNumbers
  <2>3. now[<<"dir", d>>]
    BY <2>1, <2>2, Ladder
  <2> QED
    BY <1>2, <2>1, <2>3
<1>5. Creating'
  BY <1>1, <1>2, <1>4 DEF Creating, DirSteps
<1> QED
  BY <1>2, <1>3, <1>5

LEMMA TreeUnmark == ASSUME Tree, Unmark PROVE Tree'
<1> USE DEF Tree
<1>1. /\ step = "unmark" /\ dir \in Dirs /\ Put(<<"inner", dir>>, FALSE)
      /\ step' = IF dir = Depth THEN "write" ELSE "mark"
      /\ dir' = IF dir = Depth THEN dir ELSE dir + 1
      /\ now[<<"dir", dir>>] /\ Durable(dir) /\ There(now, dir - 1)
      /\ \A d \in Dirs : d < dir => Durable(d)
      /\ \A d \in Dirs : d > dir => ~now[<<"dir", d>>]
  BY DEF Unmark, Call, Creating, DirSteps
<1>2. /\ now' \in [Entries -> BOOLEAN] /\ may' \in [Entries -> SUBSET BOOLEAN]
      /\ \A f \in Entries : f # <<"inner", dir>> => now'[f] = now[f] /\ may'[f] = may[f]
  BY <1>1, PutEntry, EntryFacts
<1>3. \A f \in Dirs : /\ now'[<<"dir", f>>] = now[<<"dir", f>>]
                      /\ may'[<<"dir", f>>] = may[<<"dir", f>>]
                      /\ f # dir => /\ now'[<<"outer", f>>] = now[<<"outer", f>>]
                                    /\ now'[<<"inner", f>>] = now[<<"inner", f>>]
  BY <1>1, <1>2, EntryFacts
<1>4. /\ Marked'
      /\ \A f \in Dirs : Durable(f)' <=> Durable(f)
      /\ \A f \in 0 .. Depth : There(now', f) <=> There(now, f)
  BY <1>1, <1>2, <1>3, TreeUnmarked
<1>5. dir' \in 0 .. Depth
  BY <1>1, DirNumbers
<1>6. DiskType'
  BY <1>1, <1>2, <1>5 DEF DiskType, Steps
<1>7. Rooted'
  BY <1>1, RootedPut, EntryFacts
<1>8. \A d \in Dirs : d <= dir => Durable(d)
  BY <1>1, DirNumbers
<1>9. CASE dir = Depth
  <2>1. step' = "write"
    BY <1>1, <1>9
  <2>2. \A d \in Dirs : Durable(d)'
    BY <1>4, <1>8, <1>9, DirNumbers
  <2>3. Creating'
    BY <2>1, <2>2 DEF Creating, DirSteps
  <2> QED
    BY <1>4, <1>6, <1>7, <2>3
<1>10. CASE dir # Depth
  <2>1. step' = "mark" /\ dir' = dir + 1 /\ dir' \in Dirs /\ dir' - 1 = dir
    BY <1>1, <1>10, DirNumbers
  <2>2. There(now', dir' - 1)
    BY <1>1, <1>4, <2>1, DirNumbers, Ladder
  <2>3. \A d \in Dirs : d < dir' => Durable(d)'
    BY <1>1, <1>4, <1>8, <2>1, DirNumbers
  <2>4. \A d \in Dirs : d > dir' => ~now'[<<"dir", d>>]
    <3> SUFFICES ASSUME NEW d \in Dirs, d > dir' PROVE ~now'[<<"dir", d>>]
      OBVIOUS
    <3>1. d > dir
      BY <1>1, <2>1, DirNumbers
    <3> QED
      BY <1>1, <1>3, <3>1
  <2>5. Creating'
    BY <2>1, <2>2, <2>3, <2>4 DEF Creating, DirSteps
  <2> QED
    BY <1>4, <1>6, <1>7, <2>5
<1> QED
  BY <1>9, <1>10

\* Steps that leave the directories as they are.
LEMMA TreeKept ==
  ASSUME Tree, UNCHANGED <<now, may, dir>>,
         \/ step' \in {"none", "saved", "failed", "ensure"}
         \/ step \in {"write", "replace"} /\ step' \in {"replace", "fileSync"}
  PROVE  Tree'
<1>1. DiskType' /\ Rooted' /\ Marked'
  BY DEF Tree, DiskType, Rooted, Marked, Durable, There, Steps
<1>2. Creating'
  BY DEF Tree, Creating, Durable, DirSteps
<1> QED
  BY <1>1, <1>2 DEF Tree

LEMMA TreeSyncFile == ASSUME Tree, SyncFile PROVE Tree'
<1>1. step' = "saved" /\ dir' = dir /\ Fsync(Depth) /\ Depth \in 0 .. Depth
  BY DirNumbers DEF SyncFile
<1>2. /\ now' = now /\ may' \in [Entries -> SUBSET BOOLEAN] /\ Rooted' /\ Marked'
  BY <1>1, Synced, SyncedTree DEF Tree
<1>3. DiskType' /\ Creating'
  BY <1>1, <1>2 DEF Tree, DiskType, Creating, DirSteps
<1> QED
  BY <1>2, <1>3 DEF Tree

LEMMA TreeSaving == ASSUME Tree, Saving PROVE Tree'
<1>1. CASE Write
  BY <1>1, TreeKept DEF Write, Call, disk
<1>2. CASE Replace
  BY <1>2, TreeKept DEF Replace, Call
<1> QED
  BY <1>1, <1>2, TreeEnsure, TreeMark, TreeSyncParent, TreeMake, TreeMove,
     TreeSyncInner, TreeUnmark, TreeSyncFile DEF Saving

LEMMA TreePowerLoss ==
  ASSUME Tree, LosePower, step' = "none", dir' = dir PROVE Tree'
<1>1. PICK p \in [Entries -> BOOLEAN] :
        /\ \A e \in Entries : p[e] \in may[e]
        /\ now' = Remains(p)
        /\ may' = [e \in Entries |-> {now'[e]}]
  BY DEF LosePower
<1>2. /\ now' \in [Entries -> BOOLEAN] /\ may' \in [Entries -> SUBSET BOOLEAN]
      /\ \A e \in Entries : now'[e] = (p[e] /\ There(p, Holder(e))) /\ may'[e] = {now'[e]}
  BY <1>1 DEF Remains
<1>3. \A d \in 0 .. Depth : There(p, d) => There(now', d)
  <2> SUFFICES ASSUME NEW d \in 0 .. Depth, There(p, d) PROVE There(now', d)
    OBVIOUS
  <2>1. \A f \in Dirs : f <= d => now'[<<"dir", f>>]
    <3> SUFFICES ASSUME NEW f \in Dirs, f <= d PROVE now'[<<"dir", f>>]
      OBVIOUS
    <3>1. f - 1 <= d /\ f - 1 \in 0 .. Depth
      BY DirNumbers
    <3>2. p[<<"dir", f>>] /\ There(p, f - 1)
      BY <3>1, Ladder
    <3> QED
      BY <1>2, <3>2, EntryFacts
  <2> QED
    BY <2>1, Ladder
<1>4. Rooted'
  BY <1>2, <1>3, EntryFacts DEF Rooted
<1>5. Marked'
  <2> SUFFICES ASSUME NEW d \in Dirs, now'[<<"dir", d>>], FALSE \in may'[<<"dir", d>>]
               PROVE  FALSE
    BY DEF Marked, Durable
  <2>1. may'[<<"dir", d>>] = {now'[<<"dir", d>>]} /\ now'[<<"dir", d>>] = TRUE
    BY <1>2, EntryFacts
  <2> QED
    BY <2>1
<1>6. DiskType' /\ Creating'
  BY <1>2 DEF Tree, DiskType, Creating, DirSteps
<1> QED
  BY <1>4, <1>5, <1>6 DEF Tree

-----------------------------------------------------------------------------
(* Contents of the file *)

Contents ==
  /\ file \in files /\ files \subseteq kept
  /\ \A d \in Dirs : ~Durable(d) => Missing \in kept
  /\ step \in Steps => new \in kept
  /\ step = "fileSync" => file = new
  /\ step = "saved" => kept = {new}

\* What is there for good stays.
LEMMA StaysDurable ==
  ASSUME Tree, Saving, NEW d \in Dirs, Durable(d) PROVE Durable(d)'
<1> USE DEF Tree
<1>1. now[<<"dir", d>>]
  <2>1. now[<<"dir", d>>] \in may[<<"dir", d>>] /\ now[<<"dir", d>>] \in BOOLEAN
    BY EntryFacts DEF Rooted, DiskType
  <2> QED
    BY <2>1 DEF Durable
<1>2. CASE Ensure \/ Write \/ Replace
  BY <1>2 DEF Ensure, Write, Replace, disk, Durable
<1>3. ASSUME NEW f \in 0 .. Depth, Fsync(f) PROVE Durable(d)'
  BY <1>1, <1>3, SyncedTree
<1>4. CASE SyncParent
  <2>1. dir - 1 \in 0 .. Depth /\ Fsync(dir - 1)
    BY <1>4, DirNumbers DEF SyncParent, Call, Creating, DirSteps
  <2> QED
    BY <1>3, <2>1
<1>5. CASE SyncInner \/ SyncFile
  <2>1. Fsync(dir) \/ Fsync(Depth)
    BY <1>5 DEF SyncInner, SyncFile
  <2> QED
    BY <1>3, <2>1, DirNumbers DEF DiskType
<1>6. ASSUME NEW e \in Entries, NEW v \in BOOLEAN, Put(e, v),
             \A f \in Dirs : e = <<"dir", f>> => v
      PROVE  Durable(d)'
  <2>1. CASE e = <<"dir", d>>
    BY <1>6, <2>1, PutEntry DEF Durable
  <2>2. CASE e # <<"dir", d>>
    BY <1>6, <2>2, PutEntry, EntryFacts DEF Durable
  <2> QED
    BY <2>1, <2>2
<1>7. CASE Mark \/ Make \/ Unmark
  <2>1. dir \in Dirs
    BY <1>7 DEF Mark, Make, Unmark, Call, Creating, DirSteps
  <2>2. \/ UNCHANGED may
        \/ Put(<<"outer", dir>>, TRUE) \/ Put(<<"dir", dir>>, TRUE)
        \/ Put(<<"inner", dir>>, FALSE)
    BY <1>7 DEF Mark, Make, Unmark, disk
  <2>3. CASE UNCHANGED may
    BY <2>3 DEF Durable
  <2>4. CASE Put(<<"outer", dir>>, TRUE)
    BY <1>6, <2>1, <2>4, EntryFacts
  <2>5. CASE Put(<<"dir", dir>>, TRUE)
    BY <1>6, <2>1, <2>5, EntryFacts
  <2>6. CASE Put(<<"inner", dir>>, FALSE)
    BY <1>6, <2>1, <2>6, EntryFacts
  <2> QED
    BY <2>2, <2>3, <2>4, <2>5, <2>6
<1>8. CASE Move
  <2>1. dir \in Dirs
    BY <1>8 DEF Move, Creating, DirSteps
  <2>2. may'[<<"dir", d>>] = may[<<"dir", d>>]
    BY <1>8, <2>1, EntryFacts DEF Move, MoveMarker, DiskType
  <2> QED
    BY <2>2 DEF Durable
<1> QED
  BY <1>2, <1>4, <1>5, <1>7, <1>8 DEF Saving

LEMMA ContentsSaving == ASSUME Tree, Contents, Saving PROVE Contents'
<1>1. \A d \in Dirs : ~Durable(d)' => ~Durable(d)
  BY StaysDurable
<1>2. CASE Ensure \/ Mark \/ Make \/ Move \/ Unmark \/ Write
  <2>1. /\ step \in Steps /\ step' \in Steps \cup {"failed"}
        /\ step' \notin {"fileSync", "saved"}
        /\ UNCHANGED <<file, files, new, kept>>
    BY <1>2 DEF Ensure, Mark, Make, Move, Unmark, Write, Put, MoveMarker, Call,
       disk, Steps
  <2> QED
    BY <1>1, <2>1 DEF Contents
<1>3. CASE SyncParent \/ SyncInner
  <2>1. /\ step \in Steps /\ step' \in Steps \ {"fileSync"}
        /\ files' \in {files, {file}} /\ UNCHANGED <<file, new, kept>>
    BY <1>3 DEF SyncParent, SyncInner, Call, Fsync, Steps
  <2> QED
    BY <1>1, <2>1 DEF Contents, Steps
<1>4. CASE Replace
  <2>1. /\ step \in Steps /\ step' = "fileSync" /\ file' = new
        /\ files' = files \cup {new} /\ UNCHANGED <<new, kept>>
    BY <1>4 DEF Replace, Call, Written, Steps
  <2> QED
    BY <1>1, <2>1 DEF Contents
<1>5. CASE SyncFile
  <2>1. /\ step = "fileSync" /\ step' = "saved" /\ file' = file
        /\ files' = {file} /\ new' = new /\ kept' = {new}
    BY <1>5 DEF SyncFile, Fsync
  <2>2. \A d \in Dirs : Durable(d)'
    BY <1>1, <2>1 DEF Tree, Creating
  <2> QED
    BY <2>1, <2>2 DEF Contents, Steps
<1> QED
  BY <1>2, <1>3, <1>4, <1>5 DEF Saving

LEMMA ContentsSurvive == Contents => SavedSurvives
BY DEF Contents, SavedSurvives, Surviving, Durable

LEMMA ContentsPowerLoss ==
  ASSUME Tree, Contents, LosePower, step' = "none", kept' = kept PROVE Contents'
<1>1. PICK p \in [Entries -> BOOLEAN] :
        /\ \A e \in Entries : p[e] \in may[e]
        /\ now' = Remains(p)
        /\ may' = [e \in Entries |-> {now'[e]}]
        /\ file' \in IF There(p, Depth) THEN files ELSE {Missing}
        /\ files' = {file'}
  BY DEF LosePower
<1>a. ASSUME NEW d \in Dirs, Durable(d) PROVE p[<<"dir", d>>]
  <2>1. p[<<"dir", d>>] \in may[<<"dir", d>>] /\ p[<<"dir", d>>] \in BOOLEAN
    BY <1>1, EntryFacts
  <2> QED
    BY <1>a, <2>1 DEF Durable
<1>2. ~There(p, Depth) => \E d \in Dirs : ~Durable(d)
  <2> SUFFICES ASSUME \A d \in Dirs : Durable(d) PROVE There(p, Depth)
    OBVIOUS
  <2>1. \A d \in Dirs : p[<<"dir", d>>]
    BY <1>a
  <2> QED
    BY <2>1, DirNumbers, Ladder
<1>3. file' \in kept
  BY <1>1, <1>2 DEF Contents
<1>4. \A d \in Dirs : ~Durable(d)' => Missing \in kept'
  <2> SUFFICES ASSUME NEW d \in Dirs, \A f \in Dirs : Durable(f) PROVE Durable(d)'
    BY DEF Contents
  <2>1. \A f \in Dirs : p[<<"dir", f>>]
    BY <1>a
  <2>2. There(p, d - 1)
    BY <2>1, DirNumbers, Ladder
  <2>3. now'[<<"dir", d>>] = TRUE
    BY <1>1, <2>1, <2>2, EntryFacts DEF Remains
  <2>4. may'[<<"dir", d>>] = {TRUE}
    BY <1>1, <2>3, EntryFacts
  <2> QED
    BY <2>4 DEF Durable
<1> QED
  BY <1>1, <1>3, <1>4 DEF Contents, Steps

-----------------------------------------------------------------------------
(* The bridge's steps, as the directories see them *)

LEMMA FileSteps ==
  ASSUME [Next]_vars
  PROVE  \/ UNCHANGED <<disk, save, kept>>
         \/ \E contents : StartSave(contents)
         \/ UNCHANGED disk /\ SaveGone
         \/ LosePower /\ SaveGone
         \/ Saving
         \/ CallFails
<1> USE DEF dirVars
<1>1. CASE Bridge
  BY <1>1 DEF Bridge, Start, Announce, Saved, Publish, Cleaned, Shown, Dropped,
     SaveFailed, TooMany, TimesOut, Exit, Gone, SaveCall
<1>2. CASE Again \/ Deliver \/ Kill \/ PowerLoss \/ UNCHANGED vars
  BY <1>2 DEF Again, Deliver, Kill, PowerLoss, Gone, vars
<1> QED
  BY <1>1, <1>2 DEF Next

LEMMA FilesStep ==
  ASSUME Tree, Contents, [Next]_vars PROVE Tree' /\ Contents'
<1>1. CASE UNCHANGED <<disk, save, kept>>
  <2>1. Tree'
    BY <1>1 DEF disk, save, Tree, DiskType, Rooted, Marked, Creating, Durable, There
  <2>2. Contents'
    BY <1>1 DEF disk, save, Contents, Durable
  <2> QED
    BY <2>1, <2>2
<1>2. ASSUME NEW contents, StartSave(contents) PROVE Tree' /\ Contents'
  <2>1. /\ step' = "ensure" /\ new' = contents /\ kept' = kept \cup {contents}
        /\ UNCHANGED <<disk, dir>>
    BY <1>2 DEF StartSave
  <2>2. Tree'
    BY <2>1, TreeKept DEF disk
  <2>3. Contents'
    BY <2>1 DEF Contents, Durable, disk
  <2> QED
    BY <2>2, <2>3
<1>3. CASE (UNCHANGED disk /\ SaveGone) \/ CallFails
  <2>1. step' \in {"none", "failed"} /\ UNCHANGED <<disk, dir, new, kept>>
    BY <1>3 DEF SaveGone, CallFails
  <2>2. Tree'
    BY <2>1, TreeKept DEF disk
  <2>3. Contents'
    BY <2>1 DEF Contents, Durable, disk, Steps
  <2> QED
    BY <2>2, <2>3
<1>4. CASE LosePower /\ SaveGone
  BY <1>4, TreePowerLoss, ContentsPowerLoss DEF SaveGone
<1>5. CASE Saving
  BY <1>5, TreeSaving, ContentsSaving
<1> QED
  BY <1>1, <1>2, <1>3, <1>4, <1>5, FileSteps

LEMMA FilesInit == Init => Tree /\ Contents
<1> SUFFICES ASSUME Init PROVE Tree /\ Contents
  OBVIOUS
<1>1. PICK n \in 0 .. Depth :
        now = [e \in Entries |-> e[1] = "dir" /\ e[2] <= n]
  BY DEF Init, DirInit
<1>2. /\ \A d \in Dirs : now[<<"dir", d>>] <=> d <= n
      /\ \A d \in Dirs : ~now[<<"outer", d>>] /\ ~now[<<"inner", d>>]
      /\ now \in [Entries -> BOOLEAN]
      /\ may = [e \in Entries |-> {now[e]}]
      /\ dir = 0 /\ step = "none"
  <2>1. \A e \in Entries : now[e] <=> (e[1] = "dir" /\ e[2] <= n)
    BY <1>1
  <2>2. /\ \A d \in Dirs : now[<<"dir", d>>] <=> d <= n
        /\ \A d \in Dirs : ~now[<<"outer", d>>] /\ ~now[<<"inner", d>>]
    <3> SUFFICES ASSUME NEW d \in Dirs
                 PROVE  /\ now[<<"dir", d>>] <=> d <= n
                        /\ ~now[<<"outer", d>>] /\ ~now[<<"inner", d>>]
      OBVIOUS
    <3>1. /\ <<"dir", d>> \in Entries /\ <<"outer", d>> \in Entries
          /\ <<"inner", d>> \in Entries
      BY EntryFacts
    <3>2. now[<<"dir", d>>] <=> d <= n
      BY <2>1, <3>1
    <3>3. ~now[<<"outer", d>>]
      BY <2>1, <3>1
    <3>4. ~now[<<"inner", d>>]
      BY <2>1, <3>1
    <3> QED
      BY <3>2, <3>3, <3>4
  <2>3. now \in [Entries -> BOOLEAN]
    BY <1>1
  <2> QED
    BY <2>2, <2>3 DEF Init, DirInit
<1>3. DiskType /\ Creating
  BY <1>2, DirNumbers DEF DiskType, Creating, DirSteps
<1>4. Rooted
  <2> SUFFICES ASSUME NEW e \in Entries, now[e] PROVE There(now, Holder(e))
    BY <1>2 DEF Rooted
  <2>1. PICK d \in Dirs : e \in {<<"dir", d>>, <<"outer", d>>, <<"inner", d>>}
    BY EntryFacts
  <2>2. e = <<"dir", d>> /\ d <= n
    BY <1>2, <2>1
  <2>3. \A f \in Dirs : f <= d - 1 => now[<<"dir", f>>]
    BY <1>2, <2>2, DirNumbers
  <2>4. Holder(e) = d - 1 /\ d - 1 \in 0 .. Depth
    BY <2>2, DirNumbers, EntryFacts
  <2> QED
    BY <2>3, <2>4, Ladder
<1>5. \A d \in Dirs : now[<<"dir", d>>] => Durable(d)
  <2> SUFFICES ASSUME NEW d \in Dirs, now[<<"dir", d>>] PROVE Durable(d)
    OBVIOUS
  <2>1. may[<<"dir", d>>] = {now[<<"dir", d>>]} /\ now[<<"dir", d>>] = TRUE
    BY <1>2, EntryFacts
  <2> QED
    BY <2>1 DEF Durable
<1>6. Marked
  BY <1>5 DEF Marked
<1>7. Contents
  BY <1>2 DEF Init, DirInit, Contents, Steps
<1> QED
  BY <1>3, <1>4, <1>6, <1>7 DEF Tree

LEMMA FilesInvariant == Spec => [](Tree /\ Contents)
BY FilesInit, FilesStep, PTL DEF Spec

\* A save that returned survives every power loss, however many earlier ones
\* were interrupted in the middle of making the directories above the file.
THEOREM SavesSurvive == Spec => []SavedSurvives
BY FilesInvariant, ContentsSurvive, PTL

-----------------------------------------------------------------------------
(* The manifest and the broker *)

\* The topic has a message on its way; one that shows it.
OnTheWay(t) == \E i \in 1 .. Len(outbox) : outbox[i].topic = t
Bringing(t) == \E i \in 1 .. Len(outbox) : outbox[i].topic = t /\ outbox[i].on

\* What the broker shows or is about to.
Live == shown \cup {outbox[i].topic : i \in {j \in 1 .. Len(outbox) : outbox[j].on}}

Data ==
  /\ new \in Manifests
  /\ left \in 0 .. MaxTroubles
  /\ pc \in {"off", "due", "saving", "clean", "show", "finish", "dropping",
             "idle", "dying"}
  /\ mem \in SUBSET Topics /\ Cardinality(mem) <= MaxOwned
  /\ cur \in SUBSET Topics
  /\ todo \in SUBSET Topics
  /\ lost \in BOOLEAN
  /\ shown \in SUBSET Topics
  /\ outbox \in Seq(Messages)
  /\ Len(outbox) + Cardinality(todo) <= Cardinality(Topics)

\* Whatever a process may find in the file fits and names what is live.
Covering ==
  \A contents \in kept :
    /\ contents = Missing \/ (contents \in SUBSET Topics /\ Cardinality(contents) <= MaxOwned)
    /\ \A t \in Live : t \in Owns(contents)

\* How far the publication of discovery has come.
Course ==
  /\ pc \notin {"saving", "dropping"} => step = "none"
  /\ pc \notin {"off", "dying"} => cur \in Wanted /\ \A t \in Live : t \in mem
  /\ pc \in {"off", "due", "saving", "dropping", "idle"} => outbox = <<>>
  /\ pc = "saving" => new = mem \cup cur
  /\ pc = "dropping" => new = cur /\ shown = cur
  /\ pc \in {"clean", "show", "idle"} => kept = {mem} /\ cur \subseteq mem
  /\ pc = "clean" => /\ \A i \in 1 .. Len(outbox) : ~outbox[i].on
                     /\ \/ lost
                        \/ \A t \in shown : t \in cur \/ t \in todo \/ OnTheWay(t)
  /\ pc = "show" => /\ shown \subseteq cur
                    /\ \A i \in 1 .. Len(outbox) :
                         outbox[i].on <=> outbox[i].topic \in cur
                    /\ \/ lost
                       \/ \A t \in cur : t \in shown \/ t \in todo \/ OnTheWay(t)
  /\ pc = "idle" => shown = cur
  /\ pc # "finish"

Manifest == Data /\ Covering /\ Course

LEMMA LiveTopic ==
  /\ \A t : t \in Live <=> t \in shown \/ Bringing(t)
  /\ \A t : t \in Live' <=> t \in shown' \/ Bringing(t)'
BY DEF Live, Bringing

LEMMA CoveringOwns == Covering /\ Contents => OwnershipSurvives
<1> SUFFICES ASSUME Covering, Contents, NEW contents \in Surviving
             PROVE  /\ contents # Torn
                    /\ Live \subseteq Owns(contents)
  BY DEF OwnershipSurvives, Live
<1>1. contents \in kept
  BY ContentsSurvive DEF SavedSurvives
<1> QED
  BY <1>1, TopicsAssumption, ReadsAssumption DEF Covering

LEMMA NoTopics == IsFiniteSet({}) /\ Cardinality({}) = 0
BY FS_EmptySet

LEMMA TopicSets ==
  \A ts \in SUBSET Topics : /\ IsFiniteSet(ts) /\ Cardinality(ts) \in Nat
                            /\ Cardinality(ts) <= Cardinality(Topics)
BY TopicsAssumption, FS_Subset, FS_CardinalityType

LEMMA NoMail ==
  /\ <<>> \in Seq(Messages) /\ Len(<<>>) = 0
  /\ 0 + Cardinality({}) <= Cardinality(Topics)
  /\ {} \in SUBSET Topics /\ Cardinality({}) <= MaxOwned
<1>1. Cardinality(Topics) \in Nat
  BY TopicSets
<1> QED
  BY <1>1, NoTopics, OwnedAssumption

LEMMA ManifestInit == Init => Manifest
<1> SUFFICES ASSUME Init PROVE Manifest
  OBVIOUS
<1>1. Data
  <2>1. left \in 0 .. MaxTroubles
    BY TroublesAssumption DEF Init, DirInit
  <2>2. /\ mem = {} /\ cur = {} /\ todo = {} /\ shown = {} /\ outbox = <<>>
        /\ lost = FALSE /\ pc = "off" /\ new = Missing
    BY DEF Init, DirInit
  <2>3. Len(outbox) + Cardinality(todo) <= Cardinality(Topics)
    BY <2>2, NoMail
  <2> QED
    BY <2>1, <2>2, <2>3, NoMail DEF Data, Manifests
<1>2. \A t : t \notin Live
  BY LiveTopic DEF Init, Bringing
<1>3. Covering
  BY <1>2 DEF Init, DirInit, Covering
<1>4. Course
  BY <1>2 DEF Init, DirInit, Course
<1> QED
  BY <1>1, <1>3, <1>4 DEF Manifest

\* Nothing is on its way, and what is shown stays.
LEMMA LiveGone ==
  ASSUME shown' = shown, outbox' = outbox \/ outbox' = <<>>
  PROVE  \A t : t \in Live' => t \in Live
<1>1. CASE outbox' = outbox
  BY <1>1 DEF Live
<1>2. CASE outbox' = <<>>
  BY <1>2 DEF Live
<1> QED
  BY <1>1, <1>2

\* Covering is kept by what adds nothing to either side.
LEMMA CoveringKept ==
  ASSUME Covering, kept' = kept, \A t : t \in Live' => t \in Live
  PROVE  Covering'
BY DEF Covering

LEMMA ManifestGone ==
  ASSUME Manifest, Gone, Trouble \/ left' = left
  PROVE  Manifest'
<1>1. /\ pc' = "off" /\ mem' = {} /\ todo' = {} /\ lost' = FALSE /\ cur' = {}
      /\ outbox' = <<>> /\ shown' = shown /\ step' = "none" /\ kept' = kept /\ new' = new
  BY DEF Gone, SaveGone
<1>2. \A t : t \in Live' => t \in Live
  BY <1>1, LiveGone
<1>3. Covering'
  BY <1>1, <1>2, CoveringKept DEF Manifest
<1>4. Course'
  BY <1>1 DEF Course
<1>5. left' \in 0 .. MaxTroubles
  BY TroublesAssumption DEF Manifest, Data, Trouble
<1>6. Data'
  <2>1. outbox' \in Seq(Messages) /\ Len(outbox') = 0
    BY <1>1
  <2> QED
    BY <1>1, <1>5, <2>1, NoMail DEF Manifest, Data
<1> QED
  BY <1>3, <1>4, <1>6 DEF Manifest

LEMMA ManifestStart == ASSUME Manifest, Contents, Start PROVE Manifest'
<1>1. /\ pc = "off" /\ file # Torn /\ mem' = Owns(file) /\ cur' \in Wanted /\ pc' = "due"
      /\ UNCHANGED <<dirVars, todo, lost, shown, outbox>> /\ outbox = <<>>
      /\ kept' = kept /\ step' = step /\ step = "none" /\ new' = new /\ left' = left
  BY DEF Start, Loaded, broker, dirVars, save, Manifest, Course
<1>2. file \in kept
  BY DEF Contents
<1>3. /\ mem' \in SUBSET Topics /\ Cardinality(mem') <= MaxOwned
      /\ \A t \in Live : t \in mem'
  BY <1>1, <1>2, NoTopics, OwnedAssumption DEF Manifest, Covering, Owns
<1>4. \A t : t \in Live' <=> t \in Live
  BY <1>1 DEF Live
<1>5. Covering'
  BY <1>1, <1>4, CoveringKept DEF Manifest
<1>6. Course'
  BY <1>1, <1>3, <1>4 DEF Course
<1>7. Data'
  BY <1>1, <1>3 DEF Manifest, Data, Wanted
<1> QED
  BY <1>5, <1>6, <1>7 DEF Manifest

LEMMA ManifestAgain == ASSUME Manifest, Again PROVE Manifest'
<1>1. /\ pc = "idle" /\ cur' \in Wanted /\ pc' = "due"
      /\ UNCHANGED <<mem, todo, lost, shown, outbox, kept, step, new, left>>
  BY DEF Again, broker, dirVars, save
<1>4. \A t : t \in Live' <=> t \in Live
  BY <1>1 DEF Live
<1>5. Covering'
  BY <1>1, <1>4, CoveringKept DEF Manifest
<1>6. Course'
  BY <1>1, <1>4 DEF Course, Manifest
<1>7. Data'
  BY <1>1 DEF Manifest, Data, Wanted
<1> QED
  BY <1>5, <1>6, <1>7 DEF Manifest

LEMMA ManifestAnnounce == ASSUME Manifest, Announce PROVE Manifest'
<1>1. /\ pc = "due" /\ pc' = "saving" /\ step' = "ensure" /\ new' = mem \cup cur
      /\ kept' = kept \cup {mem \cup cur} /\ Cardinality(mem \cup cur) <= MaxOwned
      /\ UNCHANGED <<mem, cur, todo, lost, shown, outbox, left>>
  BY DEF Announce, StartSave, Owned, Fits, broker
<1>2. /\ mem \cup cur \in SUBSET Topics
      /\ \A t \in Live : t \in mem
  BY <1>1 DEF Manifest, Data, Course
<1>3. mem \cup cur # Missing
  BY <1>2, TopicsAssumption
<1>4. \A t : t \in Live' <=> t \in Live
  BY <1>1 DEF Live
<1>5. Covering'
  BY <1>1, <1>2, <1>3, <1>4 DEF Manifest, Covering, Owns
<1>6. Course'
  BY <1>1, <1>4 DEF Course, Manifest
<1>7. Data'
  BY <1>1, <1>2 DEF Manifest, Data, Manifests
<1> QED
  BY <1>5, <1>6, <1>7 DEF Manifest

LEMMA ManifestSaved == ASSUME Manifest, Contents, Saved PROVE Manifest'
<1>1. /\ pc = "saving" /\ step = "saved" /\ mem' = new /\ todo' = new \ cur
      /\ pc' = "clean" /\ step' = "none"
      /\ UNCHANGED <<cur, lost, shown, outbox, kept, left, new>>
  BY DEF Saved, SaveGone, Stale, broker
<1>2. /\ kept = {new} /\ new = mem \cup cur /\ outbox = <<>>
  BY <1>1 DEF Contents, Manifest, Course
<1>3. /\ new \in SUBSET Topics
      /\ \A t \in Live : t \in mem
  BY <1>1, <1>2 DEF Manifest, Data, Course
<1>a. new # Missing /\ Cardinality(new) <= MaxOwned
  BY <1>2, <1>3, TopicsAssumption DEF Manifest, Covering
<1>4. \A t : t \in Live' <=> t \in Live
  BY <1>1 DEF Live
<1>5. Covering'
  BY <1>1, <1>4, CoveringKept DEF Manifest
<1>6. Course'
  <2>1. \A t \in shown : t \in new
    BY <1>2, <1>3, LiveTopic
  <2>2. \A i \in 1 .. Len(outbox') : ~outbox'[i].on
    BY <1>1, <1>2
  <2>3. \A t \in shown' : t \in cur' \/ t \in todo' \/ OnTheWay(t)'
    BY <1>1, <2>1
  <2>4. cur' \in Wanted /\ \A t \in Live' : t \in mem'
    BY <1>1, <1>2, <1>3, <1>4 DEF Manifest, Course
  <2>5. kept' = {mem'} /\ cur' \subseteq mem'
    BY <1>1, <1>2
  <2> QED
    BY <1>1, <2>2, <2>3, <2>4, <2>5 DEF Course
<1>7. Data'
  <2>1. todo' \in SUBSET Topics /\ Len(outbox') = 0
    BY <1>1, <1>2, <1>3
  <2>2. Len(outbox') + Cardinality(todo') <= Cardinality(Topics)
    BY <2>1, TopicSets
  <2> QED
    BY <1>1, <1>3, <1>a, <2>1, <2>2 DEF Manifest, Data
<1> QED
  BY <1>5, <1>6, <1>7 DEF Manifest

LEMMA AppendElements ==
  ASSUME NEW S, NEW s \in Seq(S), NEW x \in S
  PROVE  /\ Append(s, x) \in Seq(S)
         /\ Len(s) \in Nat /\ Len(Append(s, x)) = Len(s) + 1
         /\ Append(s, x)[Len(s) + 1] = x
         /\ \A i \in 1 .. Len(s) : Append(s, x)[i] = s[i]
BY SMT

LEMMA TailElements ==
  ASSUME NEW S, NEW s \in Seq(S), s # <<>>
  PROVE  /\ Tail(s) \in Seq(S) /\ Head(s) \in S
         /\ Len(s) \in Nat /\ Len(s) > 0 /\ Len(Tail(s)) = Len(s) - 1
         /\ Head(s) = s[1]
         /\ \A i \in 1 .. Len(Tail(s)) : i + 1 \in 1 .. Len(s) /\ Tail(s)[i] = s[i + 1]
         /\ \A i \in 1 .. Len(s) : i # 1 => i - 1 \in 1 .. Len(Tail(s))
                                           /\ Tail(s)[i - 1] = s[i]
BY SMT

\* A message more brings its topic and no other.
LEMMA MailSent ==
  ASSUME outbox \in Seq(Messages), NEW t \in Topics, NEW v \in BOOLEAN,
         outbox' = Append(outbox, [topic |-> t, on |-> v])
  PROVE  /\ outbox' \in Seq(Messages) /\ Len(outbox') = Len(outbox) + 1
         /\ \A u : OnTheWay(u)' <=> OnTheWay(u) \/ u = t
         /\ \A u : Bringing(u)' <=> Bringing(u) \/ (v /\ u = t)
         /\ \A P \in SUBSET Topics :
              (\A i \in 1 .. Len(outbox) : outbox[i].on <=> outbox[i].topic \in P)
              /\ (v <=> t \in P) =>
              \A i \in 1 .. Len(outbox') : outbox'[i].on <=> outbox'[i].topic \in P
<1> DEFINE m == [topic |-> t, on |-> v]
<1>1. m \in Messages /\ m.topic = t /\ m.on = v
  BY DEF Messages
<1>2. /\ outbox' \in Seq(Messages) /\ Len(outbox') = Len(outbox) + 1 /\ Len(outbox) \in Nat
      /\ outbox'[Len(outbox) + 1] = m
      /\ \A i \in 1 .. Len(outbox) : outbox'[i] = outbox[i]
  BY <1>1, AppendElements
<1> HIDE DEF m
<1>3. \A i : i \in 1 .. Len(outbox') <=> i \in 1 .. Len(outbox) \/ i = Len(outbox) + 1
  BY <1>2
<1>4. \A u : OnTheWay(u)' <=> OnTheWay(u) \/ u = t
  BY <1>1, <1>2, <1>3 DEF OnTheWay
<1>5. \A u : Bringing(u)' <=> Bringing(u) \/ (v /\ u = t)
  BY <1>1, <1>2, <1>3 DEF Bringing
<1> QED
  BY <1>1, <1>2, <1>3, <1>4, <1>5

\* A message less: the rest is still there.
LEMMA MailRead ==
  ASSUME outbox \in Seq(Messages), outbox # <<>>, outbox' = Tail(outbox)
  PROVE  /\ outbox' \in Seq(Messages) /\ Len(outbox') = Len(outbox) - 1
         /\ Head(outbox) \in Messages
         /\ 1 \in 1 .. Len(outbox) /\ Head(outbox) = outbox[1]
         /\ \A u : OnTheWay(u) => OnTheWay(u)' \/ u = Head(outbox).topic
         /\ \A u : Bringing(u)' => Bringing(u)
         /\ Head(outbox).on => Bringing(Head(outbox).topic)
         /\ \A i \in 1 .. Len(outbox') : \E j \in 1 .. Len(outbox) : outbox'[i] = outbox[j]
<1>1. /\ outbox' \in Seq(Messages) /\ Head(outbox) \in Messages
      /\ Len(outbox) \in Nat /\ Len(outbox) > 0 /\ Len(outbox') = Len(outbox) - 1
      /\ Head(outbox) = outbox[1]
      /\ \A i \in 1 .. Len(outbox') : i + 1 \in 1 .. Len(outbox) /\ outbox'[i] = outbox[i + 1]
      /\ \A i \in 1 .. Len(outbox) : i # 1 => i - 1 \in 1 .. Len(outbox')
                                             /\ outbox'[i - 1] = outbox[i]
  BY TailElements
<1>2. 1 \in 1 .. Len(outbox)
  BY <1>1
<1>3. \A u : OnTheWay(u) => OnTheWay(u)' \/ u = Head(outbox).topic
  BY <1>1 DEF OnTheWay
<1>4. \A u : Bringing(u)' => Bringing(u)
  BY <1>1 DEF Bringing
<1>5. Head(outbox).on => Bringing(Head(outbox).topic)
  BY <1>1, <1>2 DEF Bringing
<1> QED
  BY <1>1, <1>2, <1>3, <1>4, <1>5

LEMMA ManifestPublish == ASSUME Manifest, Publish PROVE Manifest'
<1>1. PICK t \in todo :
        /\ todo' = todo \ {t}
        /\ \/ /\ outbox' = Append(outbox, [topic |-> t, on |-> pc = "show" /\ t \in cur])
              /\ UNCHANGED <<lost, left>>
           \/ Trouble /\ lost' = TRUE /\ UNCHANGED outbox
  BY DEF Publish
<1>2. /\ pc \in {"clean", "show"}
      /\ UNCHANGED <<step, new, kept, pc, mem, cur, shown>>
      /\ t \in Topics /\ todo' \in SUBSET Topics
  BY <1>1 DEF Publish, save, Manifest, Data
<1>3. /\ kept = {mem} /\ cur \subseteq mem /\ mem \in SUBSET Topics /\ mem # Missing
      /\ cur \in Wanted /\ \A u \in Live : u \in mem
  BY <1>2, TopicsAssumption DEF Manifest, Data, Course
<1>4. Cardinality(todo') = Cardinality(todo) - 1 /\ Cardinality(todo) \in Nat
  BY <1>1, TopicSets, FS_RemoveElement DEF Manifest, Data
<1>5. outbox \in Seq(Messages) /\ Len(outbox) \in Nat /\ Cardinality(Topics) \in Nat
  BY TopicSets DEF Manifest, Data
<1>6. CASE /\ outbox' = Append(outbox, [topic |-> t, on |-> pc = "show" /\ t \in cur])
           /\ UNCHANGED <<lost, left>>
  <2>0. (pc = "show" /\ t \in cur) \in BOOLEAN
    OBVIOUS
  <2>1. /\ outbox' \in Seq(Messages) /\ Len(outbox') = Len(outbox) + 1
        /\ \A u : OnTheWay(u)' <=> OnTheWay(u) \/ u = t
        /\ \A u : Bringing(u)' <=> Bringing(u) \/ ((pc = "show" /\ t \in cur) /\ u = t)
        /\ \A P \in SUBSET Topics :
             (\A i \in 1 .. Len(outbox) : outbox[i].on <=> outbox[i].topic \in P)
             /\ ((pc = "show" /\ t \in cur) <=> t \in P) =>
             \A i \in 1 .. Len(outbox') : outbox'[i].on <=> outbox'[i].topic \in P
    BY <1>2, <1>5, <1>6, <2>0, MailSent
  <2>2. \A u : u \in Live' => u \in Live \/ (u = t /\ t \in cur)
    BY <1>2, <2>1, LiveTopic
  <2>3. Covering'
    BY <1>2, <1>3, <2>2 DEF Manifest, Covering, Owns
  <2>4. pc = "clean" => \A i \in 1 .. Len(outbox') : ~outbox'[i].on
    <3>1. pc = "clean" => \A u : ~Bringing(u)
      BY DEF Manifest, Course, Bringing
    <3>2. pc = "clean" => \A u : ~Bringing(u)'
      BY <2>1, <3>1
    <3> QED
      BY <3>2 DEF Bringing
  <2>5. pc = "clean" => lost' \/ \A u \in shown' : u \in cur' \/ u \in todo' \/ OnTheWay(u)'
    BY <1>1, <1>2, <1>6, <2>1 DEF Manifest, Course
  <2>6. pc = "show" => /\ shown \subseteq cur
                       /\ \A i \in 1 .. Len(outbox') : outbox'[i].on <=> outbox'[i].topic \in cur
    <3>1. pc = "show" => shown \subseteq cur
            /\ \A i \in 1 .. Len(outbox) : outbox[i].on <=> outbox[i].topic \in cur
      BY DEF Manifest, Course
    <3>2. cur \in SUBSET Topics
      BY DEF Manifest, Data
    <3> QED
      BY <2>1, <3>1, <3>2
  <2>7. pc = "show" => lost' \/ \A u \in cur' : u \in shown' \/ u \in todo' \/ OnTheWay(u)'
    BY <1>1, <1>2, <1>6, <2>1 DEF Manifest, Course
  <2>8. Course'
    <3>1. \A u \in Live' : u \in mem'
      BY <1>2, <1>3, <2>2
    <3>2. step' = "none"
      BY <1>2 DEF Manifest, Course
    <3> QED
      BY <1>2, <1>3, <2>4, <2>5, <2>6, <2>7, <3>1, <3>2 DEF Course
  <2>9. Data'
    <3>1. Len(outbox') + Cardinality(todo') <= Cardinality(Topics)
      BY <1>4, <1>5, <2>1 DEF Manifest, Data
    <3> QED
      BY <1>2, <1>6, <2>1, <3>1 DEF Manifest, Data
  <2> QED
    BY <2>3, <2>8, <2>9 DEF Manifest
<1>7. CASE Trouble /\ lost' = TRUE /\ UNCHANGED outbox
  <2>1. \A u : u \in Live' <=> u \in Live
    BY <1>2, <1>7 DEF Live
  <2>2. Covering'
    BY <1>2, <2>1, CoveringKept DEF Manifest
  <2>3. Course'
    BY <1>2, <1>3, <1>7, <2>1 DEF Manifest, Course
  <2>4. Data'
    <3>1. Len(outbox') + Cardinality(todo') <= Cardinality(Topics)
      BY <1>4, <1>5, <1>7 DEF Manifest, Data
    <3>2. left' \in 0 .. MaxTroubles
      BY <1>7, TroublesAssumption DEF Manifest, Data, Trouble
    <3> QED
      BY <1>2, <1>7, <3>1, <3>2 DEF Manifest, Data
  <2> QED
    BY <2>2, <2>3, <2>4 DEF Manifest
<1> QED
  BY <1>1, <1>6, <1>7

LEMMA ManifestCleaned == ASSUME Manifest, Cleaned PROVE Manifest'
<1>1. PICK meters \in SUBSET (Topics \ cur) : todo' = cur \cup meters
  BY DEF Cleaned
<1>2. /\ pc = "clean" /\ todo = {} /\ outbox = <<>> /\ ~lost /\ pc' = "show"
      /\ UNCHANGED <<step, new, kept, left, mem, cur, lost, shown, outbox>>
  BY DEF Cleaned, Acknowledged, dirVars, save, broker
<1>3. /\ kept = {mem} /\ cur \subseteq mem /\ cur \in Wanted /\ \A u \in Live : u \in mem
      /\ step = "none" /\ shown \subseteq cur
  BY <1>2 DEF Manifest, Course, OnTheWay
<1>4. \A u : u \in Live' <=> u \in Live
  BY <1>2 DEF Live
<1>5. Covering'
  BY <1>2, <1>4, CoveringKept DEF Manifest
<1>6. Course'
  BY <1>1, <1>2, <1>3, <1>4 DEF Course
<1>7. Data'
  <2>1. todo' \in SUBSET Topics /\ Len(outbox') = 0
    BY <1>1, <1>2 DEF Manifest, Data
  <2>2. Len(outbox') + Cardinality(todo') <= Cardinality(Topics)
    BY <2>1, TopicSets
  <2> QED
    BY <1>2, <2>1, <2>2 DEF Manifest, Data
<1> QED
  BY <1>5, <1>6, <1>7 DEF Manifest

LEMMA ManifestShown == ASSUME Manifest, Shown PROVE Manifest'
<1>1. /\ pc = "show" /\ todo = {} /\ outbox = <<>> /\ ~lost
      /\ UNCHANGED <<mem, cur, todo, lost, shown, outbox>>
  BY DEF Shown, Acknowledged, broker
<1>2. /\ kept = {mem} /\ cur \subseteq mem /\ cur \in Wanted /\ \A u \in Live : u \in mem
      /\ step = "none" /\ shown = cur
  <2>1. shown \subseteq cur /\ \A u \in cur : u \in shown
    BY <1>1 DEF Manifest, Course, OnTheWay
  <2> QED
    BY <1>1, <2>1 DEF Manifest, Course
<1>3. \A u : u \in Live' <=> u \in shown
  BY <1>1 DEF Live
<1>4. \A u : u \in Live' => u \in Live
  BY <1>1, LiveGone
<1>5. CASE cur = mem
  <2>1. pc' = "idle" /\ UNCHANGED <<step, new, kept, left>>
    BY <1>5 DEF Shown, dirVars, save
  <2>2. Covering'
    BY <1>4, <2>1, CoveringKept DEF Manifest
  <2>3. Course'
    BY <1>1, <1>2, <1>3, <1>5, <2>1 DEF Course
  <2>4. Data'
    BY <1>1, <2>1 DEF Manifest, Data
  <2> QED
    BY <2>2, <2>3, <2>4 DEF Manifest
<1>6. CASE cur # mem
  <2>1. /\ pc' = "dropping" /\ step' = "ensure" /\ new' = cur
        /\ kept' = kept \cup {cur} /\ left' = left
    BY <1>6 DEF Shown, StartSave
  <2>2. cur \in SUBSET Topics /\ Cardinality(cur) <= MaxOwned /\ cur # Missing
    BY <1>2, TopicsAssumption DEF Wanted
  <2>3. Covering'
    BY <1>2, <1>3, <1>4, <2>1, <2>2 DEF Manifest, Covering, Owns
  <2>4. Course'
    BY <1>1, <1>2, <1>3, <1>4, <2>1 DEF Course
  <2>5. Data'
    BY <1>1, <2>1, <2>2 DEF Manifest, Data, Manifests
  <2> QED
    BY <2>3, <2>4, <2>5 DEF Manifest
<1> QED
  BY <1>5, <1>6

LEMMA ManifestDropped == ASSUME Manifest, Contents, Dropped PROVE Manifest'
<1>1. /\ pc = "dropping" /\ step = "saved" /\ mem' = cur /\ pc' = "idle" /\ step' = "none"
      /\ UNCHANGED <<new, kept, left, cur, todo, lost, shown, outbox>>
  BY DEF Dropped, SaveGone, broker
<1>2. /\ kept = {new} /\ new = cur /\ shown = cur /\ outbox = <<>> /\ cur \in Wanted
  BY <1>1 DEF Contents, Manifest, Course
<1>3. \A u : u \in Live' <=> u \in shown
  BY <1>1, <1>2 DEF Live
<1>4. \A u : u \in Live' => u \in Live
  BY <1>1, LiveGone
<1>5. Covering'
  BY <1>1, <1>4, CoveringKept DEF Manifest
<1>6. Course'
  BY <1>1, <1>2, <1>3 DEF Course
<1>7. Data'
  BY <1>1, <1>2 DEF Manifest, Data, Wanted
<1> QED
  BY <1>5, <1>6, <1>7 DEF Manifest

LEMMA ManifestStops ==
  ASSUME Manifest, SaveFailed \/ TooMany \/ TimesOut PROVE Manifest'
<1>1. /\ pc' \in {"due", "dying"} /\ (pc' = "due" => pc \in {"saving", "dropping"})
      /\ step' = "none"
      /\ left' \in 0 .. MaxTroubles
      /\ UNCHANGED <<new, kept, mem, cur, todo, lost, shown, outbox>>
  BY TroublesAssumption DEF SaveFailed, TooMany, TimesOut, SaveGone, dirVars, save,
     broker, Trouble, Manifest, Data, Course
<1>2. \A u : u \in Live' <=> u \in Live
  BY <1>1 DEF Live
<1>3. Covering'
  BY <1>1, <1>2, CoveringKept DEF Manifest
<1>4. Course'
  BY <1>1, <1>2 DEF Manifest, Course
<1>5. Data'
  BY <1>1 DEF Manifest, Data
<1> QED
  BY <1>3, <1>4, <1>5 DEF Manifest

LEMMA ManifestSaveCall == ASSUME Tree, Manifest, Contents, SaveCall PROVE Manifest'
<1>1. /\ step \in Steps /\ step' # "none" /\ new' = new
      /\ kept' = kept \/ kept' = {new}
      /\ left' = left \/ Trouble
      /\ UNCHANGED <<pc, mem, cur, todo, lost, shown, outbox>>
  BY DEF SaveCall, Saving, CallFails, Ensure, Mark, SyncParent, Make, Move, SyncInner,
     Unmark, Write, Replace, SyncFile, Call, Steps, process, broker
<1>2. pc \in {"saving", "dropping"}
  BY <1>1 DEF Manifest, Course, Steps
<1>3. \A u : u \in Live' <=> u \in Live
  BY <1>1 DEF Live
<1>4. Covering'
  BY <1>1, <1>3 DEF Manifest, Covering, Contents
<1>5. Course'
  BY <1>1, <1>2, <1>3 DEF Manifest, Course
<1>6. left' \in 0 .. MaxTroubles
  BY <1>1, TroublesAssumption DEF Manifest, Data, Trouble
<1>7. Data'
  BY <1>1, <1>6 DEF Manifest, Data
<1> QED
  BY <1>4, <1>5, <1>7 DEF Manifest

LEMMA ManifestDeliver == ASSUME Manifest, Deliver PROVE Manifest'
<1> DEFINE m == Head(outbox)
<1>1. /\ outbox # <<>> /\ outbox' = Tail(outbox)
      /\ shown' = IF m.on THEN shown \cup {m.topic} ELSE shown \ {m.topic}
      /\ UNCHANGED <<step, new, kept, left, pc, mem, cur, todo, lost>>
      /\ outbox \in Seq(Messages)
  BY DEF Deliver, dirVars, save, process, Manifest, Data
<1>2. /\ outbox' \in Seq(Messages) /\ Len(outbox') = Len(outbox) - 1
      /\ m \in Messages
      /\ 1 \in 1 .. Len(outbox) /\ m = outbox[1]
      /\ \A u : OnTheWay(u) => OnTheWay(u)' \/ u = m.topic
      /\ \A u : Bringing(u)' => Bringing(u)
      /\ m.on => Bringing(m.topic)
      /\ \A i \in 1 .. Len(outbox') : \E j \in 1 .. Len(outbox) : outbox'[i] = outbox[j]
  BY <1>1, MailRead
<1> HIDE DEF m
<1>3. \A u : u \in Live' => u \in Live
  <2>1. \A u : u \in shown' => u \in shown \/ Bringing(u)
    BY <1>1, <1>2
  <2> QED
    BY <1>2, <2>1, LiveTopic
<1>4. Covering'
  BY <1>1, <1>3, CoveringKept DEF Manifest
<1>5. pc \in {"clean", "show", "dying"} /\ step = "none"
  BY <1>1 DEF Manifest, Course, Data
<1>6. ASSUME pc = "clean"
      PROVE  /\ \A i \in 1 .. Len(outbox') : ~outbox'[i].on
             /\ lost' \/ \A u \in shown' : u \in cur' \/ u \in todo' \/ OnTheWay(u)'
  <2>1. ~m.on /\ \A i \in 1 .. Len(outbox) : ~outbox[i].on
    BY <1>2, <1>6 DEF Manifest, Course
  <2>2. lost \/ \A u \in shown : u \in cur \/ u \in todo \/ OnTheWay(u)
    BY <1>6 DEF Manifest, Course
  <2>3. shown' = shown \ {m.topic}
    BY <1>1, <2>1
  <2> QED
    BY <1>1, <1>2, <2>1, <2>2, <2>3
<1>7. ASSUME pc = "show"
      PROVE  /\ shown' \subseteq cur
             /\ \A i \in 1 .. Len(outbox') : outbox'[i].on <=> outbox'[i].topic \in cur
             /\ lost' \/ \A u \in cur' : u \in shown' \/ u \in todo' \/ OnTheWay(u)'
  <2>1. /\ shown \subseteq cur
        /\ \A i \in 1 .. Len(outbox) : outbox[i].on <=> outbox[i].topic \in cur
        /\ lost \/ \A u \in cur : u \in shown \/ u \in todo \/ OnTheWay(u)
    BY <1>7 DEF Manifest, Course
  <2>2. m.on <=> m.topic \in cur
    BY <1>2, <2>1
  <2>3. shown' \subseteq cur
    BY <1>1, <2>1, <2>2
  <2>4. \A i \in 1 .. Len(outbox') : outbox'[i].on <=> outbox'[i].topic \in cur
    BY <1>2, <2>1
  <2>5. \A u \in cur : u \in shown \/ u = m.topic => u \in shown'
    BY <1>1, <2>2
  <2>6. lost' \/ \A u \in cur' : u \in shown' \/ u \in todo' \/ OnTheWay(u)'
    BY <1>1, <1>2, <2>1, <2>5
  <2> QED
    BY <2>3, <2>4, <2>6
<1>8. Course'
  <2>1. pc # "dying" => /\ cur \in Wanted /\ \A u \in Live : u \in mem
                        /\ kept = {mem} /\ cur \subseteq mem
    BY <1>5 DEF Manifest, Course
  <2> QED
    BY <1>1, <1>3, <1>5, <1>6, <1>7, <2>1 DEF Course
<1>9. Data'
  <2>1. Len(outbox') + Cardinality(todo') <= Cardinality(Topics)
    <3>1. Cardinality(todo) \in Nat /\ Len(outbox) \in Nat /\ Cardinality(Topics) \in Nat
      BY <1>1, TopicSets DEF Manifest, Data
    <3> QED
      BY <1>1, <1>2, <3>1 DEF Manifest, Data
  <2>2. shown' \in SUBSET Topics
    <3>1. m.topic \in Topics
      BY <1>2 DEF Messages
    <3> QED
      BY <1>1, <3>1 DEF Manifest, Data
  <2> QED
    BY <1>1, <1>2, <2>1, <2>2 DEF Manifest, Data
<1> QED
  BY <1>4, <1>8, <1>9 DEF Manifest

LEMMA ManifestStep ==
  ASSUME Tree, Contents, Manifest, [Next]_vars PROVE Manifest'
<1>1. CASE Exit
  BY <1>1, ManifestGone DEF Exit
<1>2. CASE Kill
  BY <1>2, ManifestGone DEF Kill
<1>3. CASE PowerLoss
  BY <1>3, ManifestGone DEF PowerLoss
<1>4. CASE UNCHANGED vars
  <2>1. UNCHANGED <<step, new, kept, left, pc, mem, cur, todo, lost, shown, outbox>>
    BY <1>4 DEF vars, dirVars, save, process, broker
  <2>2. \A u : u \in Live' <=> u \in Live
    BY <2>1 DEF Live
  <2> QED
    BY <2>1, <2>2 DEF Manifest, Data, Covering, Course, OnTheWay
<1> QED
  BY <1>1, <1>2, <1>3, <1>4, ManifestStart, ManifestAgain, ManifestAnnounce,
     ManifestSaved, ManifestPublish, ManifestCleaned, ManifestShown, ManifestDropped,
     ManifestStops, ManifestSaveCall, ManifestDeliver DEF Next, Bridge

LEMMA ManifestInvariant == Spec => []Manifest
BY FilesInvariant, ManifestInit, ManifestStep, PTL DEF Spec

\* Every variable stays in its range: the manifest never names more topics than
\* fit, and the queue never holds more than one message for each.
THEOREM TypeCorrect == Spec => []TypeOK
<1>1. Tree /\ Contents /\ Manifest => TypeOK
  <2> SUFFICES ASSUME Tree, Contents, Manifest PROVE TypeOK
    OBVIOUS
  <2>1. kept \subseteq Manifests
    BY DEF Manifest, Covering, Manifests
  <2>2. DirTypeOK(Manifests)
    BY <2>1 DEF DirTypeOK, Tree, DiskType, Contents, Manifest, Data
  <2>3. Len(outbox) <= Cardinality(Topics)
    <3>1. Cardinality(todo) \in Nat /\ Cardinality(Topics) \in Nat /\ Len(outbox) \in Nat
      BY TopicSets DEF Manifest, Data
    <3> QED
      BY <3>1 DEF Manifest, Data
  <2> QED
    BY <2>2, <2>3 DEF TypeOK, Manifest, Data
<1> QED
  BY <1>1, FilesInvariant, ManifestInvariant, PTL

\* Whatever crashes, the manifest a later process finds names every record the
\* broker retains or is about to: interrupted cleanup remains recoverable.
THEOREM OwnershipIsKept == Spec => []OwnershipSurvives
BY FilesInvariant, ManifestInvariant, CoveringOwns, PTL DEF Manifest

\* Once discovery is published, the broker shows what is wanted and nothing of
\* an earlier configuration or device.
THEOREM CurrentIsShown == Spec => []OnlyCurrentShown
<1>1. Manifest => OnlyCurrentShown
  BY DEF Manifest, Course, OnlyCurrentShown
<1> QED
  BY <1>1, ManifestInvariant, PTL

-----------------------------------------------------------------------------
(* The state file as a register *)

\* A system call of a save rules contents out, if it does anything to them.
LEMMA CallSettles ==
  ASSUME Tree, Contents, Saving, ~Replace, ~SyncFile
  PROVE  File!Settle \/ File!Fail
<1>1. Surviving' \subseteq Surviving
  <2>1. files' \subseteq files
    BY DEF Saving, Ensure, Mark, SyncParent, Make, Move, SyncInner, Unmark,
       Write, Fsync, Put, MoveMarker, disk, Contents
  <2>2. \A d \in Dirs : ~Durable(d)' => ~Durable(d)
    BY StaysDurable
  <2> QED
    BY <2>1, <2>2 DEF Surviving, Durable
<1>2. file' = file /\ file \in files'
  BY DEF Saving, Ensure, Mark, SyncParent, Make, Move, SyncInner, Unmark,
     Write, Fsync, Put, MoveMarker, disk, Contents
<1>3. Progress = "saving" /\ Progress' \in {"saving", "failed"} /\ new' = new
  BY DEF Saving, Ensure, Mark, SyncParent, Make, Move, SyncInner, Unmark,
     Write, Call, Progress, Steps
<1>4. CASE Progress' = "saving"
  BY <1>1, <1>2, <1>3, <1>4 DEF File!Settle, Surviving
<1>5. CASE Progress' = "failed"
  <2>1. UNCHANGED <<may, file, files>>
    BY <1>5 DEF Saving, Ensure, Mark, SyncParent, Make, Move, SyncInner,
       Unmark, Write, Call, Progress, Steps, disk
  <2> QED
    BY <1>3, <1>5, <2>1 DEF File!Fail, Surviving
<1> QED
  BY <1>3, <1>4, <1>5

\* A file that takes the old one's place adds to what may be found.
LEMMA ReplaceTakes == ASSUME Replace PROVE File!Take
<1>1. /\ step = "replace" /\ step' = "fileSync" /\ file' = new
      /\ files' = files \cup {new} /\ UNCHANGED <<may, new>>
  BY DEF Replace, Call, Written
<1>2. Surviving' = Surviving \cup {new}
  BY <1>1 DEF Surviving
<1> QED
  BY <1>1, <1>2 DEF File!Take, Progress, Steps

\* The last fsync leaves nothing else.
LEMMA SaveReturns == ASSUME Tree, Contents, SyncFile PROVE File!Return
<1>1. /\ step = "fileSync" /\ step' = "saved" /\ file = new
      /\ files' = {file} /\ UNCHANGED <<file, new>>
  BY DEF SyncFile, Fsync, Contents
<1>2. \A d \in Dirs : Durable(d)'
  BY <1>1, StaysDurable DEF Tree, Creating, Saving
<1>3. Surviving' = files'
  BY <1>2 DEF Surviving, Durable
<1> QED
  BY <1>1, <1>3 DEF File!Return, Progress, Steps

\* A power loss leaves one of the contents it may leave, for good.
LEMMA PowerLossSettles ==
  ASSUME Tree, Contents, LosePower, SaveGone PROVE File!PowerLoss
<1>1. PICK p \in [Entries -> BOOLEAN] :
        /\ \A e \in Entries : p[e] \in may[e]
        /\ now' = Remains(p)
        /\ may' = [e \in Entries |-> {now'[e]}]
        /\ file' \in IF There(p, Depth) THEN files ELSE {Missing}
        /\ files' = {file'}
  BY DEF LosePower
<1>2. ASSUME NEW d \in Dirs
      PROVE  /\ ~p[<<"dir", d>>] => ~Durable(d)
             /\ ~Durable(d)' => ~There(p, d)
  <2>1. p[<<"dir", d>>] \in may[<<"dir", d>>] /\ p[<<"dir", d>>] \in BOOLEAN
    BY <1>1, EntryFacts
  <2>2. /\ may'[<<"dir", d>>] = {now'[<<"dir", d>>]}
        /\ now'[<<"dir", d>>] = (p[<<"dir", d>>] /\ There(p, d - 1))
    BY <1>1, EntryFacts DEF Remains
  <2>3. There(p, d) <=> There(p, d - 1) /\ p[<<"dir", d>>]
    BY Ladder
  <2> QED
    BY <2>1, <2>2, <2>3 DEF Durable
<1>3. file' \in Surviving
  <2>1. CASE There(p, Depth)
    BY <1>1, <2>1 DEF Surviving
  <2>2. CASE ~There(p, Depth)
    <3>1. PICK d \in Dirs : ~p[<<"dir", d>>]
      BY <2>2 DEF There, Dirs
    <3>2. ~Durable(d)
      BY <1>2, <3>1
    <3> QED
      BY <1>1, <2>2, <3>2 DEF Surviving, Durable
  <2> QED
    BY <2>1, <2>2
<1>4. Surviving' = {file'}
  <2>1. ASSUME NEW d \in Dirs, ~Durable(d)' PROVE file' = Missing
    <3>1. ~There(p, d)
      BY <1>2, <2>1
    <3>2. ~There(p, Depth)
      BY <3>1, DirNumbers, Ladder
    <3> QED
      BY <1>1, <3>2
  <2> QED
    BY <1>1, <2>1 DEF Surviving, Durable
<1>5. Progress' = "none" /\ new' = new
  BY DEF SaveGone, Progress, Steps
<1> QED
  BY <1>3, <1>4, <1>5 DEF File!PowerLoss

\* The bridge saves topics, and only when no save is under way.
LEMMA SaveBegins ==
  ASSUME Manifest, Announce \/ Shown
  PROVE  File!Begin \/ UNCHANGED File!vars
<1>1. CASE UNCHANGED dirVars
  BY <1>1 DEF dirVars, disk, save, File!vars, Surviving, Progress
<1>2. ASSUME NEW contents, StartSave(contents), contents \in SUBSET Topics,
             step = "none"
      PROVE  File!Begin
  BY <1>2 DEF StartSave, File!Begin, Surviving, Progress, Steps, disk
<1>3. step = "none" /\ mem \cup cur \in SUBSET Topics /\ cur \in SUBSET Topics
  BY DEF Manifest, Data, Course, Announce, Shown
<1> QED
  BY <1>1, <1>2, <1>3 DEF Announce, Shown, Owned

\* What every other step does to the file.
LEMMA OtherSteps ==
  ASSUME [Next]_vars, ~Announce, ~Shown
  PROVE  \/ UNCHANGED <<disk, save>>
         \/ UNCHANGED disk /\ SaveGone
         \/ LosePower /\ SaveGone
         \/ Saving
         \/ CallFails
<1> USE DEF dirVars
<1>1. CASE Bridge
  BY <1>1 DEF Bridge, Start, Saved, Publish, Cleaned, Dropped, SaveFailed,
     TooMany, TimesOut, Exit, Gone, SaveCall
<1>2. CASE Again \/ Deliver \/ Kill \/ PowerLoss \/ UNCHANGED vars
  BY <1>2 DEF Again, Deliver, Kill, PowerLoss, Gone, vars
<1> QED
  BY <1>1, <1>2 DEF Next

LEMMA FileStep ==
  ASSUME Tree, Contents, Manifest, [Next]_vars
  PROVE  [File!Next]_File!vars
<1> USE DEF File!Next
<1>1. CASE Announce \/ Shown
  BY <1>1, SaveBegins
<1>2. CASE UNCHANGED <<disk, save>>
  BY <1>2 DEF disk, save, File!vars, Surviving, Progress
<1>3. CASE UNCHANGED disk /\ SaveGone
  BY <1>3 DEF disk, SaveGone, File!Leave, Surviving, Progress, Steps
<1>4. CASE LosePower /\ SaveGone
  BY <1>4, PowerLossSettles
<1>5. CASE Saving
  BY <1>5, CallSettles, ReplaceTakes, SaveReturns
<1>6. CASE CallFails
  BY <1>6 DEF CallFails, disk, File!Fail, Surviving, Progress, Steps
<1> QED
  BY <1>1, <1>2, <1>3, <1>4, <1>5, <1>6, OtherSteps

\* To the bridge its state file is a register that only a save changes, and
\* that a crash leaves as it was saved last or is being saved: what a save or a
\* crash has ruled out is never found again.
THEOREM FileIsDurable == Spec => KeepsFile
<1>1. Init => File!Init
  <2> SUFFICES ASSUME Init PROVE File!Init
    OBVIOUS
  <2>1. file = Missing /\ files = {Missing} /\ step = "none" /\ new = Missing
    BY DEF Init, DirInit
  <2>2. Surviving = {Missing}
    BY <2>1 DEF Surviving
  <2> QED
    BY <2>1, <2>2 DEF File!Init, Progress, Steps
<1>2. Tree /\ Contents /\ Manifest /\ [Next]_vars => [File!Next]_File!vars
  BY FileStep
<1> QED
  BY <1>1, <1>2, FilesInvariant, ManifestInvariant, PTL DEF Spec, KeepsFile,
     File!Spec

=============================================================================
