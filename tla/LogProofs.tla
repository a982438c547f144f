----------------------------- MODULE LogProofs -----------------------------
(***************************************************************************)
(* The output of an attempt for every size limit, number of generations,   *)
(* amount of output and rotation policy: first the files, then what a call *)
(* of Lines and what a follower makes of them.                             *)
(***************************************************************************)
EXTENDS LogStream, FiniteSetTheorems, SequenceTheorems, WellFoundedInduction, TLAPS

----------------------------------------------------------------------------
(* The files.                                                              *)

Oldest == CHOOSE n \in Rotations : \A m \in Rotations : m <= n

(* The files the writer has created, in the order of their identities.     *)
Made == 1..writer.file

Spans == [from : Nat, to : Int, inode : Nat]

WriterPCs == {"none", "create", "idle", "write", "shift", "closed"}
Writers ==
  [pc : WriterPCs, file : Files \cup {NoFile}, written : Nat, total : Nat, pending : Nat,
   gen : Int, capped : BOOLEAN, dropped : BOOLEAN]

Attempts == {"waiting", "starting", "running", "left", "retrying", "over"}

FileTypes ==
  /\ maxFiles \in Rotations
  /\ dir \in [Generations -> Files \cup {NoFile}] /\ data \in [Files -> Spans]
  /\ old \in SUBSET Files /\ open \in BOOLEAN /\ writer \in Writers
  /\ purge \in [pc : {"idle", "remove"}, path : Generations]
  /\ attempt \in Attempts /\ purged \in BOOLEAN

(* What each point of the writer implies.                                  *)
WriterInv ==
  /\ attempt = "waiting" <=> writer.pc \in {"none", "create"}
  /\ Writing <=> writer.pc \in {"idle", "write", "shift"}
  /\ writer.file = NoFile <=> attempt = "waiting"
  /\ open <=> writer.pc \in {"create", "idle", "write", "shift"}
  /\ attempt = "waiting" =>
       /\ writer.total = 0 /\ writer.written = 0 /\ writer.pending = 0 /\ ~writer.capped
       /\ ~purged /\ purge.pc = "idle"
  /\ ~writer.capped => Produced <= MaxBytes
  /\ writer.written <= Limit
  /\ writer.pc \in {"write", "shift"} => writer.pending >= 1 /\ ~writer.capped
  /\ writer.pc = "shift" => writer.written = Limit /\ ~Capping /\ writer.gen \in -1..(maxFiles - 1)
  /\ Capping => writer.file \in {NoFile, 1}
  /\ writer.capped => Capping /\ writer.total = Limit + Marker

(* What the file being written holds beyond what was counted.              *)
Extra == IF writer.capped THEN Marker ELSE 0

(* The files follow each other, and hold all that was stored.              *)
DataInv ==
  /\ \A f \in Files : f > writer.file => data[f].from = 0 /\ data[f].to = -1
  /\ \A f \in Made :
        /\ f <= data[f].from /\ data[f].to <= writer.total /\ data[f].from <= data[f].to + 1
        /\ f # writer.file => data[f].to <= data[f].from + Limit - 1
  /\ \A f, g \in Made : f < g => data[f].to < data[g].from
  /\ writer.file # NoFile =>
       /\ data[writer.file].to = writer.total
       /\ data[writer.file].to = data[writer.file].from + writer.written - 1 + Extra
       /\ data[1].from = 1
  /\ \A b \in 1..writer.total : \E f \in Made : data[f].from <= b /\ b <= data[f].to

(* An older path names an older file; a gap moves down as files move up.   *)
DirInv ==
  /\ \A g \in Generations : dir[g] <= writer.file /\ (g > maxFiles => dir[g] = NoFile)
  /\ \A g, h \in Generations : g < h /\ dir[g] # NoFile /\ dir[h] # NoFile => dir[h] < dir[g]
  /\ dir[0] \in {NoFile, writer.file}
  /\ writer.pc = "shift" => dir[writer.gen + 1] = NoFile
  /\ LiveFileKept
  /\ attempt # "waiting" /\ writer.pc # "shift" /\ ~purged => dir[0] = writer.file
  /\ purge.pc = "remove" /\ purge.path = 0 => ~open

(* Until something is dropped or removed, every file has its path.         *)
Nth(g) == IF g < writer.file THEN writer.file - g ELSE NoFile

WholeInv ==
  ~writer.dropped /\ ~purged =>
    /\ writer.pc = "shift" =>
         /\ writer.file <= maxFiles
         /\ \A g \in Generations : /\ g <= writer.gen => dir[g] = Nth(g)
                                   /\ g > writer.gen + 1 => dir[g] = Nth(g - 1)
    /\ writer.pc # "shift" =>
         /\ writer.file <= maxFiles + 1
         /\ \A g \in Generations : dir[g] = Nth(g)

Sound == FileTypes /\ WriterInv /\ DataInv /\ DirInv /\ WholeInv

(* What is assumed of the bounds, as the provers need it.                  *)
LEMMA Bounds ==
  /\ MaxBytes \in Nat /\ Limit \in Nat
  /\ Oldest \in Rotations /\ Oldest \in Nat /\ \A m \in Rotations : m \in Nat /\ m <= Oldest
  /\ Generations = 0..Oldest /\ Files = 1..(MaxBytes + 1)
<1>1. PICK n \in Rotations : \A m \in Rotations : m <= n
  BY LogAssumption
<1>2. Oldest \in Rotations /\ \A m \in Rotations : m <= Oldest
  BY <1>1 DEF Oldest
<1>3. QED
  BY <1>2, LogAssumption DEF Generations, Files, Oldest

(* The fields of the writer, and the values of the tables, one by one.     *)
LEMMA Fields ==
  ASSUME FileTypes
  PROVE  /\ writer.pc \in WriterPCs /\ writer.file \in Nat /\ writer.file <= MaxBytes + 1
         /\ writer.written \in Nat /\ writer.total \in Nat /\ writer.pending \in Nat
         /\ writer.gen \in Int /\ writer.capped \in BOOLEAN /\ writer.dropped \in BOOLEAN
         /\ Extra \in Nat
         /\ maxFiles \in Nat /\ maxFiles <= Oldest /\ maxFiles \in Generations
         /\ \A g \in Generations : dir[g] \in Nat /\ g \in Nat
         /\ \A f \in Files : f \in Nat /\ data[f].from \in Nat /\ data[f].to \in Int
         /\ purge.path \in Nat /\ purge.path \in Generations
         /\ 0 \in Generations
<1>1. /\ writer.pc \in WriterPCs /\ writer.file \in Files \cup {0}
      /\ writer.written \in Nat /\ writer.total \in Nat /\ writer.pending \in Nat
      /\ writer.gen \in Int /\ writer.capped \in BOOLEAN /\ writer.dropped \in BOOLEAN
  BY DEF FileTypes, Writers, NoFile
<1>7. Extra \in Nat
  BY DEF Extra, Marker
<1>2. maxFiles \in Nat /\ maxFiles <= Oldest /\ maxFiles \in Generations /\ 0 \in Generations
  BY Bounds DEF FileTypes
<1>3. \A g \in Generations : dir[g] \in Nat /\ g \in Nat
  BY Bounds DEF FileTypes, NoFile
<1>4. \A f \in Files : f \in Nat /\ data[f].from \in Nat /\ data[f].to \in Int
  BY Bounds DEF FileTypes, Spans
<1>5. purge.path \in Nat /\ purge.path \in Generations
  BY Bounds DEF FileTypes
<1>6. QED
  BY <1>1, <1>2, <1>3, <1>4, <1>5, <1>7, Bounds

(* The next file is the one after the last.                                *)
LEMMA FreshIs ==
  ASSUME FileTypes, DataInv, writer.file <= MaxBytes
  PROVE  Fresh = writer.file + 1 /\ Fresh \in Files
<1>1. /\ writer.file \in Nat /\ writer.file + 1 \in Files
      /\ \A f \in Files : f \in Nat /\ data[f].from \in Nat
  BY Fields, Bounds
<1>2. \A f \in Files : data[f].from = 0 <=> f > writer.file
  BY <1>1, Bounds DEF DataInv, Made
<1>3. \A f \in Files :
        (data[f].from = 0 /\ \A g \in Files : g < f => data[g].from # 0) <=> f = writer.file + 1
  BY <1>1, <1>2
<1>4. QED
  BY <1>1, <1>3 DEF Fresh

----------------------------------------------------------------------------
(* Steps that leave the files alone.                                       *)

LEMMA DataStays ==
  ASSUME DataInv, UNCHANGED data, writer'.file = writer.file, writer'.total = writer.total,
         writer'.written = writer.written, writer'.capped = writer.capped
  PROVE  DataInv'
BY DEF DataInv, Made, Extra

(* The writer moves between points that are not in the middle of a shift.  *)
LEMMA PathsStay ==
  ASSUME FileTypes, DirInv, WholeInv, UNCHANGED <<maxFiles, dir, purged>>,
         writer'.file = writer.file, writer'.dropped = writer.dropped, writer'.gen = writer.gen,
         writer'.pc = "shift" <=> writer.pc = "shift",
         attempt' = "waiting" <=> attempt = "waiting",
         Writing' => Writing,
         purge'.pc = "remove" /\ purge'.path = 0 => ~open'
  PROVE  DirInv' /\ WholeInv'
<1>1. DirInv'
  BY DEF DirInv, LiveFileKept
<1>2. WholeInv'
  BY DEF WholeInv, Nth
<1>3. QED
  BY <1>1, <1>2

LEMMA WriterStepSound ==
  ASSUME Sound, MarkOpen \/ (\E n \in 1..MaxBytes : Write(n)) \/ Register \/ Close \/ Settle \/ MoveOn
  PROVE  Sound'
<1>1. FileTypes /\ WriterInv /\ DataInv /\ DirInv /\ WholeInv
  BY DEF Sound
<1>2. UNCHANGED <<maxFiles, dir, data, purge, purged>> /\ old' \in SUBSET old
  BY DEF MarkOpen, Write, Register, Close, Settle, MoveOn
<1>3. /\ writer' \in Writers
      /\ writer'.file = writer.file /\ writer'.dropped = writer.dropped /\ writer'.gen = writer.gen
      /\ writer'.total = writer.total /\ writer'.written = writer.written
      /\ writer'.capped = writer.capped
      /\ open' \in BOOLEAN /\ attempt' \in Attempts
      /\ WriterInv'
      /\ writer'.pc = "shift" <=> writer.pc = "shift"
      /\ attempt' = "waiting" <=> attempt = "waiting"
      /\ Writing' => Writing
  <2>1. CASE MarkOpen
    <3>1. /\ writer' = [writer EXCEPT !.pc = "create"] /\ open' = TRUE /\ attempt' = attempt
          /\ attempt = "waiting" /\ writer.pc = "none"
      BY <2>1 DEF MarkOpen
    <3>2. /\ writer' \in Writers /\ writer'.pc = "create"
          /\ writer'.file = writer.file /\ writer'.dropped = writer.dropped
          /\ writer'.gen = writer.gen /\ writer'.total = writer.total
          /\ writer'.written = writer.written /\ writer'.pending = writer.pending
          /\ writer'.capped = writer.capped
      BY <1>1, <3>1 DEF FileTypes, Writers, WriterPCs
    <3>3. WriterInv'
      BY <1>1, <1>2, <3>1, <3>2 DEF WriterInv, Produced, Writing, Capping
    <3>4. QED
      BY <1>1, <3>1, <3>2, <3>3 DEF FileTypes, Attempts, Writing
  <2>2. CASE \E n \in 1..MaxBytes : Write(n)
    <3>1. PICK n \in 1..MaxBytes : Write(n)
      BY <2>2
    <3>2. /\ writer.pc = "idle" /\ Writing /\ Produced + n <= MaxBytes
          /\ writer' = IF writer.capped THEN writer
                       ELSE [writer EXCEPT !.pc = "write", !.pending = n]
          /\ UNCHANGED <<open, attempt>>
      BY <3>1 DEF Write
    <3>3. n \in Nat /\ n >= 1
      BY Bounds
    <3>4. /\ writer' \in Writers /\ writer'.pc \in {"idle", "write"}
          /\ writer'.file = writer.file /\ writer'.dropped = writer.dropped
          /\ writer'.gen = writer.gen /\ writer'.total = writer.total
          /\ writer'.written = writer.written /\ writer'.capped = writer.capped
          /\ \/ writer' = writer /\ writer.capped
             \/ writer'.pending = n /\ writer'.pc = "write" /\ ~writer.capped
      BY <1>1, <3>2, <3>3 DEF FileTypes, Writers, WriterPCs
    <3>5. WriterInv'
      <4>1. ~writer'.capped => Produced' <= MaxBytes
        BY SMTT(30), <1>1, <3>2, <3>3, <3>4, Fields, Bounds DEF WriterInv, Produced
      <4>2. Writing' = Writing
        BY <3>2 DEF Writing
      <4>3. QED
        BY <1>1, <1>2, <3>2, <3>3, <3>4, <4>1, <4>2, Fields DEF WriterInv, Capping
    <3>6. QED
      BY <1>1, <3>2, <3>4, <3>5 DEF FileTypes, Writing
  <2>3. CASE Register
    <3>1. /\ attempt = "starting" /\ attempt' = "running" /\ UNCHANGED <<writer, open>>
      BY <2>3 DEF Register
    <3>2. /\ writer' = writer /\ open' = open /\ Writing /\ Writing'
      BY <3>1 DEF Writing
    <3>3. WriterInv'
      BY <1>1, <1>2, <3>1, <3>2 DEF WriterInv, Produced, Capping
    <3>4. QED
      BY <1>1, <3>1, <3>2, <3>3 DEF FileTypes, Attempts
  <2>4. CASE Close
    <3>1. /\ writer.pc = "idle" /\ Writing /\ open' = FALSE /\ attempt' = "left"
          /\ writer' = [writer EXCEPT !.pc = "closed"]
      BY <2>4 DEF Close
    <3>2. /\ writer' \in Writers /\ writer'.pc = "closed"
          /\ writer'.file = writer.file /\ writer'.dropped = writer.dropped
          /\ writer'.gen = writer.gen /\ writer'.total = writer.total
          /\ writer'.written = writer.written /\ writer'.pending = writer.pending
          /\ writer'.capped = writer.capped
      BY <1>1, <3>1 DEF FileTypes, Writers, WriterPCs
    <3>3. ~Writing' /\ attempt # "waiting" /\ attempt' # "waiting"
      BY <3>1 DEF Writing
    <3>4. WriterInv'
      BY <1>1, <1>2, <3>1, <3>2, <3>3 DEF WriterInv, Produced, Capping
    <3>5. QED
      BY <3>1, <3>2, <3>3, <3>4 DEF Attempts
  <2>5. CASE Settle \/ MoveOn
    <3>1. /\ attempt \in {"left", "retrying"} /\ attempt' \in {"retrying", "over"}
          /\ UNCHANGED <<writer, open>>
      BY <2>5 DEF Settle, MoveOn
    <3>2. ~Writing /\ ~Writing' /\ attempt # "waiting" /\ attempt' # "waiting"
      BY <3>1 DEF Writing
    <3>3. WriterInv'
      BY <1>1, <1>2, <3>1, <3>2 DEF WriterInv, Produced, Capping
    <3>4. QED
      BY <1>1, <3>1, <3>2, <3>3 DEF FileTypes, Attempts
  <2>6. QED
    BY <2>1, <2>2, <2>3, <2>4, <2>5
<1>4. FileTypes'
  BY <1>1, <1>2, <1>3 DEF FileTypes
<1>5. DataInv'
  BY <1>1, <1>2, <1>3, DataStays
<1>6. purge'.pc = "remove" /\ purge'.path = 0 => ~open'
  BY <1>1, <1>2 DEF DirInv, MarkOpen, Write, Register, Close, Settle, MoveOn, WriterInv
<1>7. DirInv' /\ WholeInv'
  BY <1>1, <1>2, <1>3, <1>6, PathsStay
<1>8. QED
  BY <1>3, <1>4, <1>5, <1>7 DEF Sound

(* Retention looks, and time passes.                                       *)
LEMMA LookSound ==
  ASSUME Sound, PurgeLook \/ \E f \in Files : Age(f)
  PROVE  Sound'
<1>1. FileTypes /\ WriterInv /\ DataInv /\ DirInv /\ WholeInv
  BY DEF Sound
<1>2. UNCHANGED <<maxFiles, dir, data, open, writer, attempt, purged>>
  BY DEF PurgeLook, Age
<1>3. /\ old' \in SUBSET Files
      /\ purge' \in [pc : {"idle", "remove"}, path : Generations]
      /\ purge'.pc = "remove" => \/ purge' = purge
                                 \/ dir[purge'.path] # NoFile /\ ~(purge'.path = 0 /\ open)
  <2>1. CASE PurgeLook
    <3>1. Cardinality(Generations) = Oldest + 1
      <4>1. 0 \in Int /\ Oldest \in Int /\ 0 <= Oldest
        BY Bounds
      <4>2. Cardinality(0..Oldest) = Oldest - 0 + 1
        BY <4>1, FS_Interval
      <4>3. QED
        BY <4>2, Bounds
    <3>2. (purge.path + 1) % Cardinality(Generations) \in Generations
      BY <1>1, <3>1, Fields, Bounds
    <3> DEFINE next == (purge.path + 1) % Cardinality(Generations)
    <3> HIDE DEF next
    <3>3. /\ old' = old /\ purge.pc = "idle"
          /\ \/ /\ purge' = [purge EXCEPT !.pc = "remove"]
                /\ dir[purge.path] # NoFile /\ ~(purge.path = 0 /\ open)
             \/ purge' = [purge EXCEPT !.path = next]
      BY <2>1 DEF PurgeLook, next
    <3>4. next \in Generations
      BY <3>2 DEF next
    <3>5. QED
      BY <1>1, <3>3, <3>4 DEF FileTypes
  <2>2. CASE \E f \in Files : Age(f)
    BY <1>1, <2>2 DEF Age, FileTypes
  <2>3. QED
    BY <2>1, <2>2
<1>4. FileTypes'
  BY <1>1, <1>2, <1>3 DEF FileTypes
<1>5. WriterInv'
  <2>1. attempt = "waiting" => purge'.pc = "idle"
    <3>1. SUFFICES ASSUME attempt = "waiting", purge'.pc = "remove"
                   PROVE  FALSE
      BY <1>3
    <3>2. writer.file = 0 /\ purge.pc = "idle"
      BY <1>1, <3>1 DEF WriterInv, NoFile
    <3>3. purge'.path \in Generations /\ dir[purge'.path] # NoFile
      BY <1>3, <3>1, <3>2
    <3>4. dir[purge'.path] <= 0 /\ dir[purge'.path] \in Nat
      BY <1>1, <3>2, <3>3, Fields DEF DirInv
    <3>5. QED
      BY <3>3, <3>4 DEF NoFile
  <2>2. QED
    BY <1>1, <1>2, <2>1 DEF WriterInv, Produced, Capping, Writing
<1>6. DataInv'
  BY <1>1, <1>2, DataStays
<1>7. DirInv' /\ WholeInv'
  <2>1. purge'.pc = "remove" /\ purge'.path = 0 => ~open'
    BY <1>1, <1>2, <1>3 DEF DirInv
  <2>2. QED
    BY <1>1, <1>2, <2>1, PathsStay DEF Writing
<1>8. QED
  BY <1>4, <1>5, <1>6, <1>7 DEF Sound

(* Retention removes what the path names by then; it is never the file     *)
(* that is being written.                                                  *)
LEMMA RemoveSound ==
  ASSUME Sound, PurgeRemove
  PROVE  Sound'
<1>1. FileTypes /\ WriterInv /\ DataInv /\ DirInv /\ WholeInv
  BY DEF Sound
<1> DEFINE p == purge.path
<1>2. /\ UNCHANGED <<maxFiles, data, old, open, writer, attempt>>
      /\ purge.pc = "remove" /\ p \in Generations /\ p \in Nat
      /\ dir' = [dir EXCEPT ![p] = NoFile]
      /\ purged' = (purged \/ dir[p] # NoFile)
      /\ p = 0 => ~open
      /\ attempt # "waiting"
  BY <1>1, Fields DEF PurgeRemove, DirInv, WriterInv
<1>3. /\ purge' \in [pc : {"idle", "remove"}, path : Generations] /\ purge'.pc = "idle"
  <2>1. Cardinality(Generations) = Oldest + 1
    <3>1. 0 \in Int /\ Oldest \in Int /\ 0 <= Oldest
      BY Bounds
    <3>2. Cardinality(0..Oldest) = Oldest - 0 + 1
      BY <3>1, FS_Interval
    <3>3. QED
      BY <3>2, Bounds
  <2>2. (purge.path + 1) % Cardinality(Generations) \in Generations
    BY <1>1, <2>1, Fields, Bounds
  <2> DEFINE next == (purge.path + 1) % Cardinality(Generations)
  <2> HIDE DEF next
  <2>3. purge' = NoPurge \/ purge' = [pc |-> "idle", path |-> next]
    BY DEF PurgeRemove, next
  <2>4. next \in Generations /\ 0 \in Generations
    BY <1>1, <2>2, Fields DEF next
  <2>5. QED
    BY <2>3, <2>4 DEF NoPurge
<1>4. /\ dir' \in [Generations -> Files \cup {NoFile}]
      /\ \A g \in Generations : dir'[g] = IF g = p THEN NoFile ELSE dir[g]
  BY <1>1, <1>2 DEF FileTypes
<1> HIDE DEF p
<1>5. FileTypes'
  BY <1>1, <1>2, <1>3, <1>4 DEF FileTypes
<1>6. WriterInv'
  BY <1>1, <1>2, <1>3 DEF WriterInv, Produced, Capping, Writing
<1>7. DataInv'
  BY <1>1, <1>2, DataStays
<1>8. DirInv'
  <2>1. \A g \in Generations : dir[g] \in Nat /\ g \in Nat
    BY <1>1, Fields
  <2>2. writer.pc = "shift" => writer.gen + 1 \in Generations
    BY SMTT(30), <1>1, Fields, Bounds DEF WriterInv
  <2>3. 0 \in Generations /\ writer.file \in Nat
    BY <1>1, Fields
  <2>4. \A g \in Generations : dir'[g] <= writer.file /\ (g > maxFiles => dir'[g] = NoFile)
    BY <1>1, <1>4, <2>1, <2>3 DEF DirInv, NoFile
  <2>5. \A g, h \in Generations :
           g < h /\ dir'[g] # NoFile /\ dir'[h] # NoFile => dir'[h] < dir'[g]
    BY <1>1, <1>4 DEF DirInv
  <2>6. /\ dir'[0] \in {NoFile, writer.file}
        /\ writer.pc = "shift" => dir'[writer.gen + 1] = NoFile
    BY <1>1, <1>4, <2>2, <2>3 DEF DirInv
  <2>7. LiveFileKept'
    BY <1>1, <1>2, <1>4, <2>3 DEF DirInv, LiveFileKept, WriterInv, Writing
  <2>8. attempt # "waiting" /\ writer.pc # "shift" /\ ~purged' => dir'[0] = writer.file
    BY <1>1, <1>2, <1>4, <2>3 DEF DirInv
  <2>9. QED
    BY <1>2, <1>3, <2>4, <2>5, <2>6, <2>7, <2>8 DEF DirInv
<1>9. WholeInv'
  <2>1. ~purged' => ~purged /\ \A g \in Generations : dir'[g] = dir[g]
    BY <1>2, <1>4
  <2>2. QED
    BY <1>1, <1>2, <2>1 DEF WholeInv, Nth
<1>10. QED
  BY <1>5, <1>6, <1>7, <1>8, <1>9 DEF Sound

----------------------------------------------------------------------------
(* Steps of the writer that move files or bytes.                           *)

(* The file being written grows, by what is counted or by the marker.      *)
LEMMA DataGrows ==
  ASSUME FileTypes, DataInv, writer.file # NoFile, NEW size \in Nat \ {0},
         data' = [data EXCEPT ![writer.file].to = @ + size],
         writer'.file = writer.file, writer'.total = writer.total + size,
         writer'.written \in Nat, writer'.capped \in BOOLEAN,
         writer'.written + Extra' = writer.written + Extra + size
  PROVE  /\ data' \in [Files -> Spans]
         /\ \A f \in Files :
              /\ data'[f].from = data[f].from /\ data'[f].inode = data[f].inode
              /\ data'[f].to = IF f = writer.file THEN data[f].to + size ELSE data[f].to
         /\ DataInv'
<1> DEFINE f0 == writer.file
<1>1. /\ writer.written \in Nat /\ Limit \in Nat /\ Extra \in Nat /\ Extra' \in Nat
      /\ writer.total \in Nat /\ f0 \in Nat /\ f0 >= 1 /\ f0 \in Files /\ f0 \in Made
  <2>1. Extra' \in Nat
    BY DEF Extra, Marker
  <2>2. /\ writer.written \in Nat /\ Extra \in Nat /\ writer.total \in Nat
        /\ writer.file \in Nat /\ writer.file <= MaxBytes + 1
    BY Fields
  <2>3. /\ Limit \in Nat /\ MaxBytes \in Nat /\ Files = 1..(MaxBytes + 1)
    BY Bounds
  <2>4. f0 >= 1
    BY <2>2 DEF NoFile
  <2>5. QED
    BY <2>1, <2>2, <2>3, <2>4 DEF Made
<1> HIDE DEF f0
<1>2. /\ data' \in [Files -> Spans]
      /\ \A f \in Files :
           /\ data'[f].from = data[f].from /\ data'[f].inode = data[f].inode
           /\ data'[f].to = IF f = f0 THEN data[f].to + size ELSE data[f].to
  <2>1. data \in [Files -> Spans] /\ data[f0].to \in Int
    BY <1>1, Fields DEF FileTypes
  <2>2. data'[f0] = [data[f0] EXCEPT !.to = data[f0].to + size]
    BY <1>1, <2>1 DEF f0
  <2>3. \A f \in Files : f # f0 => data'[f] = data[f]
    BY <2>1 DEF f0
  <2>4. data[f0].to + size \in Int /\ data[f0] \in Spans
    BY <1>1, <2>1
  <2>5. /\ data'[f0] \in Spans /\ data'[f0].from = data[f0].from
        /\ data'[f0].inode = data[f0].inode /\ data'[f0].to = data[f0].to + size
    BY <2>2, <2>4 DEF Spans
  <2>6. data' \in [Files -> Spans]
    BY <2>1, <2>3, <2>5
  <2>7. ASSUME NEW f \in Files
        PROVE  /\ data'[f].from = data[f].from /\ data'[f].inode = data[f].inode
               /\ data'[f].to = IF f = f0 THEN data[f].to + size ELSE data[f].to
    <3>1. CASE f = f0
      BY <2>5, <3>1
    <3>2. CASE f # f0
      <4>1. data'[f] = data[f]
        BY <2>3, <3>2
      <4>2. /\ data'[f].from = data[f].from /\ data'[f].inode = data[f].inode
            /\ data'[f].to = data[f].to
        BY ONLY <4>1
      <4>3. QED
        BY <3>2, <4>2
    <3>3. QED
      BY <3>1, <3>2
  <2>8. QED
    BY <2>6, <2>7
<1>3. \A f \in Made : f \in Files /\ f \in Nat /\ f <= f0
  <2>1. f0 <= MaxBytes + 1
    BY Fields DEF f0
  <2>2. Made = 1..f0
    BY DEF Made, f0
  <2>3. QED
    BY <1>1, <2>1, <2>2, Bounds
<1>4. \A f \in Files : data[f].from \in Nat /\ data[f].to \in Int /\ f \in Nat
  BY Fields
<1>5. Made' = Made /\ writer'.file = f0
  BY DEF Made, f0
<1>6. \A f \in Files : f > writer'.file => data'[f].from = 0 /\ data'[f].to = -1
  BY <1>1, <1>2, <1>4, <1>5 DEF DataInv, f0
<1>7. /\ data[f0].to = writer.total /\ data[f0].to = data[f0].from + writer.written - 1 + Extra
      /\ data[1].from = 1
  BY <1>1 DEF DataInv, f0
<1>8. ASSUME NEW f \in Made
      PROVE  /\ f <= data'[f].from /\ data'[f].to <= writer'.total
             /\ data'[f].from <= data'[f].to + 1
             /\ f # writer'.file => data'[f].to <= data'[f].from + Limit - 1
  <2>1. /\ f <= data[f].from /\ data[f].to <= writer.total /\ data[f].from <= data[f].to + 1
        /\ f # f0 => data[f].to <= data[f].from + Limit - 1
    BY DEF DataInv, f0
  <2>2. QED
    BY <1>1, <1>2, <1>3, <1>4, <1>5, <1>7, <2>1
<1>9. \A f, g \in Made : f < g => data'[f].to < data'[g].from
  BY <1>1, <1>2, <1>3 DEF DataInv
<1>10. /\ data'[f0].to = writer'.total
       /\ data'[f0].to = data'[f0].from + writer'.written - 1 + Extra'
       /\ data'[1].from = 1
  <2>1. 1 \in Files /\ f0 \in Files
    BY <1>1, Bounds
  <2>2. /\ data'[1].from = data[1].from /\ data'[f0].from = data[f0].from
        /\ data'[f0].to = data[f0].to + size
    BY <1>2, <2>1
  <2>3. data[f0].from \in Nat /\ data[f0].to \in Int
    BY <1>4, <2>1
  <2>4. QED
    BY <1>1, <1>7, <2>2, <2>3
<1>11. ASSUME NEW b \in 1..writer'.total
       PROVE  \E f \in Made : data'[f].from <= b /\ b <= data'[f].to
  <2>1. CASE b <= writer.total
    <3>1. b \in 1..writer.total
      BY <1>1, <2>1
    <3>2. PICK f \in Made : data[f].from <= b /\ b <= data[f].to
      BY <3>1 DEF DataInv
    <3>3. data'[f].from <= b /\ b <= data'[f].to
      BY <1>2, <1>3, <1>4, <3>1, <3>2
    <3>4. QED
      BY <3>3
  <2>2. CASE ~(b <= writer.total)
    <3>1. data[f0].from <= writer.total + 1 /\ data'[f0].from = data[f0].from
          /\ data'[f0].to = writer.total + size
      BY <1>1, <1>2, <1>7 DEF DataInv
    <3>2. b \in Nat /\ b <= writer.total + size /\ b >= writer.total + 1
      BY <1>1, <2>2
    <3>3. data[f0].from \in Nat
      BY <1>1, <1>4
    <3>4. data'[f0].from <= b /\ b <= data'[f0].to
      BY <1>1, <3>1, <3>2, <3>3
    <3>5. QED
      BY <1>1, <3>4
  <2>3. QED
    BY <2>1, <2>2
<1>12. DataInv'
  BY <1>5, <1>6, <1>8, <1>9, <1>10, <1>11 DEF DataInv
<1>13. QED
  BY <1>2, <1>12 DEF f0

LEMMA ChunkSound ==
  ASSUME Sound, WriteChunk
  PROVE  Sound'
<1>1. FileTypes /\ WriterInv /\ DataInv /\ DirInv /\ WholeInv
  BY DEF Sound
<1> DEFINE room == Limit - writer.written
           size == IF writer.pending < room THEN writer.pending ELSE room
<1>2. /\ UNCHANGED <<maxFiles, dir, open, purge, attempt, purged>>
      /\ writer.pc = "write" /\ writer.written < Limit
      /\ data' = [data EXCEPT ![writer.file].to = @ + size]
      /\ old' = old \ {writer.file}
      /\ writer' = [writer EXCEPT !.written = @ + size, !.total = @ + size, !.pending = @ - size,
                         !.pc = IF writer.pending = size THEN "idle" ELSE "write"]
  BY DEF WriteChunk
<1>3. /\ writer.pending \in Nat /\ writer.pending >= 1 /\ writer.written \in Nat /\ Limit \in Nat
      /\ writer.total \in Nat /\ Writing /\ writer.file # NoFile /\ ~writer.capped
      /\ attempt # "waiting" /\ MaxBytes \in Nat
  BY <1>1, <1>2, Fields, Bounds DEF WriterInv
<1>4. size \in Nat \ {0} /\ size <= writer.pending /\ size <= Limit - writer.written
  BY <1>2, <1>3
<1> HIDE DEF size, room
<1>5. /\ writer' \in Writers /\ writer'.file = writer.file
      /\ writer'.written = writer.written + size
      /\ writer'.total = writer.total + size /\ writer'.pending = writer.pending - size
      /\ writer'.pc = IF writer.pending = size THEN "idle" ELSE "write"
      /\ writer'.gen = writer.gen /\ writer'.dropped = writer.dropped
      /\ writer'.capped = writer.capped
  <2> DEFINE written == writer.written + size
             total == writer.total + size
             pending == writer.pending - size
             pc == IF writer.pending = size THEN "idle" ELSE "write"
  <2>1. written \in Nat /\ total \in Nat /\ pending \in Nat /\ pc \in WriterPCs
    BY <1>3, <1>4 DEF WriterPCs
  <2>2. writer' = [writer EXCEPT !.written = written, !.total = total, !.pending = pending,
                                 !.pc = pc]
    BY <1>2
  <2> HIDE DEF written, total, pending, pc
  <2>3. /\ writer' \in Writers /\ writer'.file = writer.file /\ writer'.written = written
        /\ writer'.total = total /\ writer'.pending = pending /\ writer'.pc = pc
        /\ writer'.gen = writer.gen /\ writer'.dropped = writer.dropped
        /\ writer'.capped = writer.capped
    BY <1>1, <2>1, <2>2 DEF FileTypes, Writers
  <2>4. QED
    BY <2>3 DEF written, total, pending, pc
<1>6. /\ writer'.written \in Nat /\ writer'.capped \in BOOLEAN
      /\ writer'.written + Extra' = writer.written + Extra + size
  <2>1. Extra = 0 /\ Extra' = 0
    BY <1>3, <1>5 DEF Extra
  <2>2. writer'.capped \in BOOLEAN
    BY <1>5 DEF Writers
  <2>3. QED
    BY <1>3, <1>4, <1>5, <2>1, <2>2
<1>7. data' \in [Files -> Spans] /\ DataInv'
  <2>1. FileTypes /\ DataInv /\ writer.file # NoFile /\ size \in Nat \ {0}
    BY <1>1, <1>3, <1>4
  <2>2. /\ data' = [data EXCEPT ![writer.file].to = @ + size]
        /\ writer'.file = writer.file /\ writer'.total = writer.total + size
    BY <1>2, <1>5
  <2>3. QED
    BY <1>6, <2>1, <2>2, DataGrows
<1>8. FileTypes'
  BY <1>1, <1>2, <1>5, <1>7 DEF FileTypes
<1>9. WriterInv'
  <2>1. Produced' <= MaxBytes
    BY <1>1, <1>3, <1>4, <1>5 DEF WriterInv, Produced
  <2>2. Writing' = Writing /\ Capping' = Capping
    BY <1>2 DEF Writing, Capping
  <2>3. QED
    BY <1>1, <1>2, <1>3, <1>4, <1>5, <2>1, <2>2 DEF WriterInv
<1>10. purge'.pc = "remove" /\ purge'.path = 0 => ~open'
  BY <1>1, <1>2 DEF DirInv
<1>11. DirInv' /\ WholeInv'
  BY <1>1, <1>2, <1>5, <1>10, PathsStay DEF Writing
<1>12. QED
  BY <1>7, <1>8, <1>9, <1>11 DEF Sound

(* The marker goes into the only file there is, past its limit.            *)
LEMMA MarkSound ==
  ASSUME Sound, MarkCapped
  PROVE  Sound'
<1>1. FileTypes /\ WriterInv /\ DataInv /\ DirInv /\ WholeInv
  BY DEF Sound
<1>2. /\ UNCHANGED <<maxFiles, dir, open, purge, attempt, purged>>
      /\ writer.pc = "write" /\ writer.written >= Limit /\ Capping
      /\ data' = [data EXCEPT ![writer.file].to = @ + Marker]
      /\ old' = old \ {writer.file}
      /\ writer' = [writer EXCEPT !.capped = TRUE, !.total = @ + Marker, !.pending = 0,
                                  !.pc = "idle"]
  BY DEF MarkCapped
<1>3. /\ writer.written = Limit /\ writer.total = Limit /\ writer.total \in Nat
      /\ Writing /\ writer.file = 1 /\ writer.file # NoFile /\ ~writer.capped
      /\ attempt # "waiting"
  <2>1. /\ writer.file = 1 /\ ~writer.capped /\ Writing /\ writer.written = Limit
        /\ attempt # "waiting"
    BY <1>1, <1>2, Fields, Bounds DEF WriterInv
  <2>2. data[1].to = writer.total /\ data[1].to = data[1].from + writer.written - 1 + Extra
        /\ data[1].from = 1
    BY <1>1, <2>1 DEF DataInv, NoFile
  <2>3. Extra = 0 /\ Limit \in Nat /\ writer.total \in Nat
    BY <1>1, <2>1, Fields, Bounds DEF Extra
  <2>4. QED
    BY <2>1, <2>2, <2>3 DEF NoFile
<1>4. /\ writer' \in Writers /\ writer'.file = writer.file /\ writer'.written = writer.written
      /\ writer'.total = writer.total + Marker /\ writer'.pending = 0 /\ writer'.pc = "idle"
      /\ writer'.gen = writer.gen /\ writer'.dropped = writer.dropped /\ writer'.capped
  <2> DEFINE total == writer.total + Marker
  <2>1. total \in Nat
    BY <1>3 DEF Marker
  <2>2. writer' = [writer EXCEPT !.capped = TRUE, !.total = total, !.pending = 0, !.pc = "idle"]
    BY <1>2
  <2> HIDE DEF total
  <2>3. /\ writer' \in Writers /\ writer'.file = writer.file
        /\ writer'.written = writer.written
        /\ writer'.total = total /\ writer'.pending = 0 /\ writer'.pc = "idle"
        /\ writer'.gen = writer.gen /\ writer'.dropped = writer.dropped /\ writer'.capped
    BY <1>1, <2>1, <2>2 DEF FileTypes, Writers, WriterPCs
  <2>4. QED
    BY <2>3 DEF total
<1>5. /\ Extra = 0 /\ Extra' = Marker /\ writer'.written \in Nat /\ writer'.capped \in BOOLEAN
      /\ Marker \in Nat \ {0} /\ writer.written \in Nat
  BY <1>1, <1>3, <1>4, Fields DEF Extra, Marker, Writers
<1>6. data' \in [Files -> Spans] /\ DataInv'
  <2>1. FileTypes /\ DataInv /\ writer.file # NoFile
    BY <1>1, <1>3
  <2>2. /\ data' = [data EXCEPT ![writer.file].to = @ + Marker]
        /\ writer'.file = writer.file /\ writer'.total = writer.total + Marker
    BY <1>2, <1>4
  <2>3. writer'.written + Extra' = writer.written + Extra + Marker
    BY <1>4, <1>5
  <2>4. QED
    BY <1>5, <2>1, <2>2, <2>3, DataGrows
<1>7. FileTypes'
  BY <1>1, <1>2, <1>4, <1>6 DEF FileTypes
<1>8. WriterInv'
  <2>1. Writing' = Writing /\ Capping' = Capping
    BY <1>2 DEF Writing, Capping
  <2>2. QED
    BY <1>1, <1>2, <1>3, <1>4, <2>1 DEF WriterInv
<1>9. purge'.pc = "remove" /\ purge'.path = 0 => ~open'
  BY <1>1, <1>2 DEF DirInv
<1>10. DirInv' /\ WholeInv'
  BY <1>1, <1>2, <1>4, <1>9, PathsStay DEF Writing
<1>11. QED
  BY <1>6, <1>7, <1>8, <1>10 DEF Sound

(* A new file follows the last one, and begins where the output is.        *)
LEMMA CreateSound ==
  ASSUME FileTypes, DataInv, writer.file <= MaxBytes, writer.file <= writer.total,
         writer.file = 0 => writer.total = 0, ~writer.capped, writer.written <= Limit,
         NEW i \in {Fresh} \cup FreedInodes,
         data' = [data EXCEPT ![Fresh] =
                    [from |-> writer.total + 1, to |-> writer.total, inode |-> i]],
         writer'.file = Fresh, writer'.total = writer.total, writer'.written = 0,
         ~writer'.capped
  PROVE  data' \in [Files -> Spans] /\ DataInv'
<1> DEFINE f0 == writer.file + 1
           new == [from |-> writer.total + 1, to |-> writer.total, inode |-> i]
<1>1. /\ Fresh = f0 /\ f0 \in Files /\ f0 \in Nat /\ writer.file \in Nat
      /\ writer.total \in Nat /\ Limit \in Nat /\ writer.written \in Nat
      /\ Extra = 0 /\ Extra' = 0
  BY FreshIs, Fields, Bounds DEF Extra
<1>2. data \in [Files -> Spans] /\ \A f \in Files : data[f].from \in Nat /\ data[f].to \in Int
  BY Fields DEF FileTypes
<1> HIDE DEF f0
<1>3. new \in Spans /\ new.from = writer.total + 1 /\ new.to = writer.total
  <2>1. i \in Nat
    <3>1. \A f \in Files : data[f].inode \in Nat
      BY <1>2 DEF Spans
    <3>2. QED
      BY <1>1, <3>1 DEF FreedInodes
  <2>2. QED
    BY <1>1, <2>1 DEF Spans
<1>4. data' = [data EXCEPT ![f0] = new]
  BY <1>1
<1> HIDE DEF new
<1>5. /\ data' \in [Files -> Spans] /\ data'[f0] = new
      /\ \A f \in Files : f # f0 => data'[f] = data[f]
  BY <1>1, <1>2, <1>3, <1>4
<1>6. /\ data'[f0].from = writer.total + 1 /\ data'[f0].to = writer.total
      /\ \A f \in Files : f # f0 => data'[f].from = data[f].from /\ data'[f].to = data[f].to
  BY <1>3, <1>5
<1>7. /\ \A f \in Made : f \in Files /\ f # f0 /\ f \in Nat /\ f < f0
      /\ \A f \in Made' : f \in Made \/ f = f0
      /\ \A f \in Made : f \in Made'
      /\ writer'.file = f0 /\ f0 = writer.file + 1
  BY SMTT(30), <1>1, Fields, Bounds DEF Made, f0
<1>8. \A f \in Files : f > writer'.file => data'[f].from = 0 /\ data'[f].to = -1
  BY <1>1, <1>6, <1>7, Bounds DEF DataInv
<1>9. \A f \in Made' : /\ f <= data'[f].from /\ data'[f].to <= writer'.total
                       /\ data'[f].from <= data'[f].to + 1
                       /\ f # writer'.file => data'[f].to <= data'[f].from + Limit - 1
  <2>1. ASSUME NEW f \in Made
        PROVE  /\ f <= data'[f].from /\ data'[f].to <= writer'.total
               /\ data'[f].from <= data'[f].to + 1
               /\ data'[f].to <= data'[f].from + Limit - 1
    <3>1. /\ f <= data[f].from /\ data[f].to <= writer.total
          /\ data[f].from <= data[f].to + 1
          /\ f # writer.file => data[f].to <= data[f].from + Limit - 1
      BY DEF DataInv
    <3>2. f = writer.file => data[f].to = data[f].from + writer.written - 1
      BY <1>1, <1>2, <1>7 DEF DataInv, Made, NoFile
    <3>3. QED
      BY <1>1, <1>2, <1>6, <1>7, <3>1, <3>2
  <2>2. /\ f0 <= data'[f0].from /\ data'[f0].to <= writer'.total
        /\ data'[f0].from <= data'[f0].to + 1
    BY <1>1, <1>6, <1>7
  <2>3. QED
    BY <1>7, <2>1, <2>2
<1>10. ASSUME NEW f \in Made', NEW g \in Made', f < g
       PROVE  data'[f].to < data'[g].from
  <2>1. f \in Made
    BY <1>7, <1>10, <1>1
  <2>2. data'[f].to = data[f].to /\ data[f].to <= writer.total /\ data[f].to \in Int
    BY <1>2, <1>6, <1>7, <2>1 DEF DataInv
  <2>3. CASE g = f0
    BY <1>1, <1>6, <2>2, <2>3
  <2>4. CASE g \in Made
    BY <1>6, <1>7, <1>10, <2>1, <2>2, <2>4 DEF DataInv
  <2>5. QED
    BY <1>7, <2>3, <2>4
<1>11. /\ data'[writer'.file].to = writer'.total
       /\ data'[writer'.file].to = data'[writer'.file].from + writer'.written - 1 + Extra'
  BY <1>1, <1>6, <1>7
<1>12. data'[1].from = 1
  <2>1. CASE writer.file = 0
    BY <1>1, <1>6, <1>7, <2>1
  <2>2. CASE writer.file # 0
    <3>1. 1 \in Made
      BY <1>1, <2>2 DEF Made
    <3>2. data[1].from = 1
      BY <2>2 DEF DataInv, NoFile
    <3>3. QED
      BY <1>6, <1>7, <3>1, <3>2
  <2>3. QED
    BY <2>1, <2>2
<1>13. \A b \in 1..writer'.total : \E f \in Made' : data'[f].from <= b /\ b <= data'[f].to
  BY <1>6, <1>7 DEF DataInv
<1>14. QED
  BY <1>5, <1>8, <1>9, <1>10, <1>11, <1>12, <1>13 DEF DataInv

(* Every file holds something, when the one being written is full.         *)
LEMMA FilesFit ==
  ASSUME FileTypes, DataInv, WriterInv, writer.pc = "shift"
  PROVE  writer.file >= 1 /\ writer.file <= writer.total /\ writer.file <= MaxBytes
<1>1. /\ writer.file \in Nat /\ writer.total \in Nat /\ writer.pending \in Nat
      /\ writer.written \in Nat /\ MaxBytes \in Nat /\ Limit \in Nat
  BY Fields, Bounds
<1>2. writer.file # 0 /\ Limit > 0 /\ writer.written = Limit /\ Extra = 0
      /\ writer.total + writer.pending <= MaxBytes
  BY <1>1 DEF WriterInv, NoFile, Produced, Capping, Extra
<1>3. writer.file \in Made /\ writer.file \in Files
  BY <1>1, <1>2, Fields, Bounds DEF Made
<1>4. data[writer.file].from \in Nat /\ data[writer.file].to \in Int
  BY <1>3, Fields
<1>5. /\ writer.file <= data[writer.file].from
      /\ data[writer.file].to = writer.total
      /\ data[writer.file].to = data[writer.file].from + writer.written - 1 + Extra
  BY <1>2, <1>3 DEF DataInv, NoFile
<1>6. QED
  BY <1>1, <1>2, <1>4, <1>5

LEMMA OpenSound ==
  ASSUME Sound, OpenStream
  PROVE  Sound'
<1>1. FileTypes /\ WriterInv /\ DataInv /\ DirInv /\ WholeInv
  BY DEF Sound
<1>2. /\ writer.pc = "create" /\ UNCHANGED <<maxFiles, old, open, purge, purged>>
      /\ attempt = "waiting" /\ attempt' = "starting" /\ ~writer.capped
      /\ writer.file = 0 /\ writer.total = 0 /\ writer.written = 0 /\ writer.pending = 0
      /\ ~purged /\ purge.pc = "idle"
  BY <1>1 DEF OpenStream, WriterInv, NoFile
<1>3. Fresh = 1 /\ 1 \in Files /\ MaxBytes \in Nat /\ Limit \in Nat
  BY <1>1, <1>2, FreshIs, Bounds
<1>4. /\ writer' \in Writers /\ writer'.pc = "idle" /\ writer'.file = 1 /\ writer'.total = 0
      /\ writer'.written = 0 /\ writer'.pending = 0 /\ writer'.dropped = writer.dropped
      /\ ~writer'.capped
  <2>1. writer' = [writer EXCEPT !.pc = "idle", !.file = 1]
    BY <1>3 DEF OpenStream
  <2>2. QED
    BY <1>1, <1>2, <1>3, <2>1 DEF FileTypes, Writers, WriterPCs
<1>5. data' \in [Files -> Spans] /\ DataInv'
  <2>1. PICK i \in {Fresh} \cup FreedInodes :
               data' = [data EXCEPT ![Fresh] = [from |-> 1, to |-> 1 - 1, inode |-> i]]
    BY Zenon DEF OpenStream, CreateFile
  <2>2. writer.total + 1 = 1 /\ writer.total = 1 - 1
    BY <1>2
  <2>3. data' = [data EXCEPT ![Fresh] = [from |-> writer.total + 1, to |-> writer.total, inode |-> i]]
    BY <2>1, <2>2
  <2>4. /\ writer.file <= MaxBytes /\ writer.file <= writer.total /\ writer.written <= Limit
        /\ writer'.file = Fresh /\ writer'.total = writer.total
    BY <1>2, <1>3, <1>4
  <2>5. QED
    BY <1>1, <1>2, <1>4, <2>3, <2>4, CreateSound
<1>6. /\ dir' \in [Generations -> Files \cup {NoFile}]
      /\ \A g \in Generations : dir'[g] = IF g = 0 THEN 1 ELSE NoFile
  <2>1. dir' = [dir EXCEPT ![0] = 1] /\ dir \in [Generations -> Files \cup {NoFile}]
    BY <1>1, <1>3 DEF OpenStream, CreateFile, FileTypes
  <2>2. \A g \in Generations : dir[g] = NoFile
    BY <1>1, <1>2, Fields DEF DirInv, NoFile
  <2>3. QED
    BY <1>3, <2>1, <2>2
<1>7. FileTypes'
  BY <1>1, <1>2, <1>4, <1>5, <1>6 DEF FileTypes, Attempts
<1>8. WriterInv'
  <2>1. Writing' /\ Capping' = Capping
    BY <1>2 DEF Writing, Capping
  <2>2. QED
    BY <1>1, <1>2, <1>3, <1>4, <2>1 DEF WriterInv, Produced, NoFile
<1>9. 0 \in Generations /\ maxFiles \in Nat /\ \A g \in Generations : g \in Nat
  BY <1>1, Fields
<1>10. DirInv'
  BY <1>1, <1>2, <1>3, <1>4, <1>6, <1>9 DEF DirInv, LiveFileKept, NoFile
<1>11. WholeInv'
  <2>1. \A g \in Generations : g < 1 <=> g = 0
    BY <1>9
  <2>2. \A g \in Generations : dir'[g] = Nth(g)'
    BY <1>4, <1>6, <2>1 DEF Nth
  <2>3. QED
    BY <1>2, <1>4, <1>9, <2>2 DEF WholeInv
<1>12. QED
  BY <1>5, <1>7, <1>8, <1>10, <1>11 DEF Sound

(* A rotation begins: the oldest generation goes.                          *)
LEMMA OldestSound ==
  ASSUME Sound, RemoveOldest
  PROVE  Sound'
<1>1. FileTypes /\ WriterInv /\ DataInv /\ DirInv /\ WholeInv
  BY DEF Sound
<1>2. /\ writer.pc = "write" /\ writer.written >= Limit /\ ~Capping
      /\ maxFiles > 0 /\ Limit > 0
      /\ dir' = [dir EXCEPT ![maxFiles] = NoFile]
      /\ UNCHANGED <<maxFiles, data, old, open, purge, attempt, purged>>
  BY <1>1, Fields, Bounds DEF RemoveOldest, Capping
<1>3. /\ writer' \in Writers /\ writer'.pc = "shift" /\ writer'.gen = maxFiles - 1
      /\ writer'.file = writer.file /\ writer'.total = writer.total
      /\ writer'.written = writer.written /\ writer'.pending = writer.pending
      /\ writer'.capped = writer.capped
      /\ writer'.dropped = (writer.dropped \/ dir[maxFiles] # NoFile)
  <2> DEFINE dropped == writer.dropped \/ dir[maxFiles] # NoFile
  <2>1. maxFiles - 1 \in Int /\ dropped \in BOOLEAN
    BY <1>1, Fields
  <2>2. writer' = [writer EXCEPT !.pc = "shift", !.gen = maxFiles - 1, !.dropped = dropped]
    BY DEF RemoveOldest
  <2> HIDE DEF dropped
  <2>3. /\ writer' \in Writers /\ writer'.pc = "shift" /\ writer'.gen = maxFiles - 1
        /\ writer'.file = writer.file /\ writer'.total = writer.total
        /\ writer'.written = writer.written /\ writer'.pending = writer.pending
        /\ writer'.capped = writer.capped /\ writer'.dropped = dropped
    BY <1>1, <2>1, <2>2 DEF FileTypes, Writers, WriterPCs
  <2>4. QED
    BY <2>3 DEF dropped
<1>4. /\ dir' \in [Generations -> Files \cup {NoFile}]
      /\ \A g \in Generations : dir'[g] = IF g = maxFiles THEN NoFile ELSE dir[g]
  BY <1>1, <1>2 DEF FileTypes
<1>5. /\ maxFiles \in Nat /\ maxFiles \in Generations /\ 0 \in Generations
      /\ \A g \in Generations : g \in Nat /\ dir[g] \in Nat
      /\ writer.file \in Nat /\ writer.written \in Nat /\ Limit \in Nat
      /\ writer.total \in Nat /\ writer.pending \in Nat
  BY <1>1, Fields, Bounds
<1>6. FileTypes'
  BY <1>1, <1>2, <1>3, <1>4 DEF FileTypes
<1>7. WriterInv'
  <2>1. Writing' = Writing /\ Capping' = Capping
    BY <1>2 DEF Writing, Capping
  <2>2. QED
    BY <1>1, <1>2, <1>3, <1>5, <2>1 DEF WriterInv, Produced
<1>8. DataInv'
  BY <1>1, <1>2, <1>3, DataStays
<1>9. DirInv'
  <2>1. writer'.gen + 1 = maxFiles
    BY <1>3, <1>5
  <2>2. \A g \in Generations : dir'[g] <= writer'.file /\ (g > maxFiles => dir'[g] = NoFile)
    BY <1>1, <1>3, <1>4, <1>5 DEF DirInv, NoFile
  <2>3. \A g, h \in Generations :
           g < h /\ dir'[g] # NoFile /\ dir'[h] # NoFile => dir'[h] < dir'[g]
    BY <1>1, <1>4 DEF DirInv
  <2>4. dir'[0] \in {NoFile, writer'.file} /\ dir'[writer'.gen + 1] = NoFile
    BY <1>1, <1>3, <1>4, <1>5, <2>1 DEF DirInv
  <2>5. QED
    BY <1>1, <1>2, <1>3, <2>2, <2>3, <2>4 DEF DirInv, LiveFileKept
<1>10. WholeInv'
  <2>1. SUFFICES ASSUME ~writer'.dropped, ~purged
                 PROVE  /\ writer.file <= maxFiles
                        /\ \A g \in Generations : /\ g <= maxFiles - 1 => dir'[g] = Nth(g)
                                                  /\ g > maxFiles => dir'[g] = Nth(g - 1)
    BY <1>2, <1>3, <1>5 DEF WholeInv, Nth
  <2>2. /\ ~writer.dropped /\ dir[maxFiles] = NoFile /\ writer.file <= maxFiles + 1
        /\ \A g \in Generations : dir[g] = Nth(g)
    BY <1>1, <1>2, <1>3, <2>1 DEF WholeInv
  <2>3. writer.file <= maxFiles
    <3>1. Nth(maxFiles) = 0
      BY <1>5, <2>2 DEF NoFile
    <3>2. QED
      BY <1>5, <3>1 DEF Nth
  <2>4. ASSUME NEW g \in Generations
        PROVE  /\ g <= maxFiles - 1 => dir'[g] = Nth(g)
               /\ g > maxFiles => dir'[g] = Nth(g - 1)
    <3>1. g <= maxFiles - 1 => dir'[g] = Nth(g)
      BY <1>4, <1>5, <2>2
    <3>2. g > maxFiles => dir'[g] = NoFile /\ Nth(g - 1) = NoFile
      BY <1>4, <1>5, <2>2, <2>3 DEF Nth
    <3>3. QED
      BY <3>1, <3>2
  <2>5. QED
    BY <2>3, <2>4
<1>11. QED
  BY <1>6, <1>7, <1>8, <1>9, <1>10 DEF Sound

(* Each generation moves up by one, into the gap above it.                 *)
LEMMA RenameSound ==
  ASSUME Sound, Rename
  PROVE  Sound'
<1>1. FileTypes /\ WriterInv /\ DataInv /\ DirInv /\ WholeInv
  BY DEF Sound
<1> DEFINE k == writer.gen
<1>2. /\ writer.pc = "shift" /\ k >= 0 /\ k \in Int
      /\ writer.file \in Nat /\ maxFiles \in Nat /\ maxFiles <= Oldest
      /\ writer.total \in Nat /\ writer.pending \in Nat
      /\ UNCHANGED <<maxFiles, data, old, open, purge, attempt, purged>>
      /\ writer.written = Limit /\ k <= maxFiles - 1
  BY <1>1, Fields DEF Rename, WriterInv
<1>3. k \in Generations /\ k + 1 \in Generations /\ k \in Nat
  BY <1>2, Bounds
<1>4. \A g \in Generations : g \in Nat /\ dir[g] \in Nat
  BY <1>1, Fields
<1>5. /\ writer' \in Writers /\ writer'.pc = "shift" /\ writer'.gen = k - 1
      /\ writer'.file = writer.file /\ writer'.total = writer.total
      /\ writer'.written = writer.written /\ writer'.pending = writer.pending
      /\ writer'.dropped = writer.dropped /\ writer'.capped = writer.capped
  <2>1. writer' = [writer EXCEPT !.gen = writer.gen - 1]
    BY DEF Rename
  <2>2. QED
    BY <1>1, <1>2, <2>1 DEF FileTypes, Writers, WriterPCs
<1>6. dir[k + 1] = NoFile
  BY <1>1, <1>2 DEF DirInv
<1>7. /\ dir' \in [Generations -> Files \cup {NoFile}]
      /\ \A g \in Generations :
           dir'[g] = IF g = k + 1 THEN dir[k] ELSE IF g = k THEN NoFile ELSE dir[g]
  <2>1. dir \in [Generations -> Files \cup {NoFile}]
    BY <1>1 DEF FileTypes
  <2>2. dir' = IF dir[k] = NoFile THEN dir ELSE [dir EXCEPT ![k + 1] = dir[k], ![k] = NoFile]
    BY DEF Rename
  <2>3. k # k + 1
    BY <1>2
  <2> HIDE DEF k
  <2>4. CASE dir[k] = NoFile
    BY <1>6, <2>1, <2>2, <2>4
  <2>5. CASE dir[k] # NoFile
    <3> DEFINE e == k + 1
    <3>1. e \in Generations /\ e # k /\ dir' = [dir EXCEPT ![e] = dir[k], ![k] = NoFile]
      BY <1>3, <2>2, <2>3, <2>5
    <3> HIDE DEF e
    <3>2. dir' \in [Generations -> Files \cup {NoFile}]
      BY <1>3, <2>1, <3>1
    <3>3. \A g \in Generations :
            dir'[g] = IF g = e THEN dir[k] ELSE IF g = k THEN NoFile ELSE dir[g]
      BY <1>3, <2>1, <3>1
    <3>4. QED
      BY <3>2, <3>3 DEF e
  <2>6. QED
    BY <2>4, <2>5
<1> HIDE DEF k
<1>8. FileTypes'
  BY <1>1, <1>2, <1>5, <1>7 DEF FileTypes
<1>9. WriterInv'
  <2>1. k - 1 \in -1..(maxFiles - 1)
    BY <1>2
  <2>2. Writing' = Writing /\ Capping' = Capping
    BY <1>2 DEF Writing, Capping
  <2>3. QED
    BY <1>1, <1>2, <1>5, <2>1, <2>2 DEF WriterInv, Produced
<1>10. DataInv'
  BY <1>1, <1>2, <1>5, DataStays
<1>11. DirInv'
  <2>1. \A g \in Generations : dir'[g] <= writer.file /\ (g > maxFiles => dir'[g] = NoFile)
    <3>1. TAKE g \in Generations
    <3>2. dir[g] <= writer.file /\ dir[k] <= writer.file /\ (g > maxFiles => dir[g] = NoFile)
      BY <1>1, <1>3 DEF DirInv
    <3>3. g > maxFiles => g # k + 1
      BY <1>2, <1>4
    <3>4. QED
      BY <1>2, <1>7, <3>2, <3>3 DEF NoFile
  <2>2. ASSUME NEW g \in Generations, NEW h \in Generations, g < h,
               dir'[g] # NoFile, dir'[h] # NoFile
        PROVE  dir'[h] < dir'[g]
    <3>1. g \in Nat /\ h \in Nat /\ g # k /\ h # k
      BY <1>3, <1>4, <1>7, <2>2
    <3>2. \A a, b \in Generations : a < b /\ dir[a] # NoFile /\ dir[b] # NoFile => dir[b] < dir[a]
      BY <1>1 DEF DirInv
    <3>3. CASE g = k + 1
      <4>1. dir'[g] = dir[k] /\ dir'[h] = dir[h] /\ k < h
        BY <1>3, <1>7, <2>2, <3>1, <3>3
      <4>2. QED
        BY <1>3, <2>2, <3>2, <4>1
    <3>4. CASE h = k + 1
      <4>1. dir'[h] = dir[k] /\ dir'[g] = dir[g] /\ g < k
        BY <1>3, <1>7, <2>2, <3>1, <3>4
      <4>2. QED
        BY <1>3, <2>2, <3>2, <4>1
    <3>5. CASE g # k + 1 /\ h # k + 1
      <4>1. dir'[h] = dir[h] /\ dir'[g] = dir[g]
        BY <1>7, <3>1, <3>5
      <4>2. QED
        BY <2>2, <3>2, <4>1
    <3>6. QED
      BY <3>3, <3>4, <3>5
  <2>3. 0 \in Generations /\ 0 # k + 1
    BY <1>2, <1>1, Fields
  <2>4. dir'[0] \in {NoFile, writer.file}
    BY <1>1, <1>7, <2>3 DEF DirInv
  <2>5. writer'.gen + 1 = k
    BY <1>2, <1>5
  <2>6. dir'[writer'.gen + 1] = NoFile
    BY <1>2, <1>3, <1>7, <2>5
  <2>7. purge'.pc = "remove" /\ purge'.path = 0 => ~open'
    BY <1>1, <1>2 DEF DirInv
  <2>8. QED
    BY <1>2, <1>5, <2>1, <2>2, <2>4, <2>6, <2>7 DEF DirInv, LiveFileKept
<1>12. WholeInv'
  <2>1. SUFFICES ASSUME ~writer.dropped, ~purged
                 PROVE  /\ writer.file <= maxFiles
                        /\ \A g \in Generations : /\ g <= k - 1 => dir'[g] = Nth(g)
                                                  /\ g > k => dir'[g] = Nth(g - 1)
    <3>1. (k - 1) + 1 = k
      BY <1>2
    <3>2. QED
      BY <1>2, <1>5, <2>1, <3>1 DEF WholeInv, Nth
  <2>2. /\ writer.file <= maxFiles
        /\ \A g \in Generations : /\ g <= k => dir[g] = Nth(g)
                                  /\ g > k + 1 => dir[g] = Nth(g - 1)
    BY <1>1, <1>2, <2>1 DEF WholeInv, k
  <2>3. ASSUME NEW g \in Generations
        PROVE  /\ g <= k - 1 => dir'[g] = Nth(g)
               /\ g > k => dir'[g] = Nth(g - 1)
    <3>1. g \in Nat
      BY <1>4
    <3>2. g <= k - 1 => g # k /\ g # k + 1 /\ g <= k
      BY <1>2, <3>1
    <3>3. g <= k - 1 => dir'[g] = Nth(g)
      BY <1>7, <2>2, <3>2
    <3>4. CASE g = k + 1
      <4>1. g - 1 = k
        BY <1>2, <3>4
      <4>2. k <= k
        BY <1>2
      <4>3. dir'[g] = dir[k] /\ dir[k] = Nth(k)
        BY <1>3, <1>7, <2>2, <3>4, <4>2
      <4>4. QED
        BY <3>3, <4>1, <4>3
    <3>5. CASE g > k + 1
      <4>1. g # k /\ g # k + 1
        BY <1>2, <3>1, <3>5
      <4>2. QED
        BY <1>7, <2>2, <3>3, <3>5, <4>1
    <3>6. g > k => g = k + 1 \/ g > k + 1
      BY <1>2, <3>1
    <3>7. QED
      BY <3>3, <3>4, <3>5, <3>6
  <2>4. QED
    BY <2>2, <2>3
<1>13. QED
  BY <1>8, <1>9, <1>10, <1>11, <1>12 DEF Sound

(* A new live file ends the rotation.                                      *)
LEMMA RotatedSound ==
  ASSUME Sound, Rotated
  PROVE  Sound'
<1>1. FileTypes /\ WriterInv /\ DataInv /\ DirInv /\ WholeInv
  BY DEF Sound
<1> DEFINE f0 == writer.file + 1
<1>2. /\ writer.pc = "shift" /\ writer.gen < 0 /\ writer.gen \in Int
      /\ writer.file \in Nat /\ writer.total \in Nat /\ writer.pending \in Nat
      /\ maxFiles \in Nat /\ maxFiles \in Generations /\ Limit \in Nat
      /\ UNCHANGED <<maxFiles, old, open, purge, attempt, purged>>
      /\ writer.gen = -1 /\ writer.written = Limit /\ ~writer.capped /\ ~Capping
      /\ writer.written \in Nat
  BY <1>1, Fields, Bounds DEF Rotated, WriterInv
<1>3. /\ writer.file >= 1 /\ writer.file <= writer.total /\ writer.file <= MaxBytes
      /\ Fresh = f0 /\ f0 \in Files
  BY <1>1, <1>2, FilesFit, FreshIs
<1> HIDE DEF f0
<1>4. /\ writer' \in Writers /\ writer'.pc = "write" /\ writer'.file = f0
      /\ writer'.total = writer.total /\ writer'.written = 0
      /\ writer'.pending = writer.pending /\ writer'.dropped = writer.dropped
      /\ ~writer'.capped
  <2>1. writer' = [writer EXCEPT !.pc = "write", !.file = f0, !.written = 0]
    BY <1>3 DEF Rotated
  <2>2. QED
    BY <1>1, <1>2, <1>3, <2>1 DEF FileTypes, Writers, WriterPCs
<1>5. data' \in [Files -> Spans] /\ DataInv'
  <2>1. PICK i \in {Fresh} \cup FreedInodes :
               data' = [data EXCEPT ![Fresh] =
                          [from |-> writer.total + 1, to |-> (writer.total + 1) - 1, inode |-> i]]
    BY Zenon DEF Rotated, CreateFile
  <2>2. /\ writer.file = 0 => writer.total = 0
        /\ (writer.total + 1) - 1 = writer.total /\ writer.written <= Limit
        /\ writer'.file = Fresh
    BY <1>2, <1>3, <1>4
  <2>3. data' = [data EXCEPT ![Fresh] = [from |-> writer.total + 1, to |-> writer.total, inode |-> i]]
    BY <2>1, <2>2
  <2>4. QED
    BY <1>1, <1>2, <1>3, <1>4, <2>2, <2>3, CreateSound
<1>6. /\ dir' \in [Generations -> Files \cup {NoFile}]
      /\ \A g \in Generations : dir'[g] = IF g = 0 THEN f0 ELSE dir[g]
  <2>1. dir' = [dir EXCEPT ![0] = f0] /\ dir \in [Generations -> Files \cup {NoFile}]
    BY <1>1, <1>3 DEF Rotated, CreateFile, FileTypes
  <2>2. QED
    BY <1>3, <2>1
<1>7. FileTypes'
  BY <1>1, <1>2, <1>4, <1>5, <1>6 DEF FileTypes
<1>8. f0 # NoFile /\ f0 \in Nat
  BY <1>2 DEF f0, NoFile
<1>9. WriterInv'
  <2>1. Writing' = Writing /\ Capping' = Capping
    BY <1>2 DEF Writing, Capping
  <2>2. QED
    BY <1>1, <1>2, <1>4, <1>8, <2>1 DEF WriterInv, Produced
<1>10. /\ 0 \in Generations /\ \A g \in Generations : g \in Nat /\ dir[g] \in Nat
       /\ \A g \in Generations : dir[g] < f0
  <2>1. 0 \in Generations /\ \A g \in Generations : g \in Nat /\ dir[g] \in Nat
    BY <1>1, Fields
  <2>2. \A g \in Generations : dir[g] <= writer.file
    BY <1>1 DEF DirInv
  <2>3. QED
    BY <1>2, <2>1, <2>2 DEF f0
<1>11. DirInv'
  <2>1. \A g \in Generations : dir'[g] <= f0 /\ (g > maxFiles => dir'[g] = NoFile)
    <3>1. TAKE g \in Generations
    <3>2. dir'[g] <= f0
      BY <1>6, <1>8, <1>10
    <3>3. g > maxFiles => g # 0
      BY <1>2, <1>10
    <3>4. QED
      BY <1>1, <1>6, <3>2, <3>3 DEF DirInv
  <2>2. ASSUME NEW g \in Generations, NEW h \in Generations, g < h,
               dir'[g] # NoFile, dir'[h] # NoFile
        PROVE  dir'[h] < dir'[g]
    <3>1. h # 0 /\ dir'[h] = dir[h]
      BY <1>6, <1>10, <2>2
    <3>2. CASE g = 0
      BY <1>6, <1>10, <3>1, <3>2
    <3>3. CASE g # 0
      BY <1>1, <1>6, <2>2, <3>1, <3>3 DEF DirInv
    <3>4. QED
      BY <3>2, <3>3
  <2>3. dir'[0] = writer'.file
    BY <1>4, <1>6, <1>10
  <2>4. purge'.pc = "remove" /\ purge'.path = 0 => ~open'
    BY <1>1, <1>2 DEF DirInv
  <2>5. LiveFileKept'
    BY <2>3 DEF LiveFileKept
  <2>6. QED
    BY <1>2, <1>4, <2>1, <2>2, <2>3, <2>4, <2>5 DEF DirInv
<1>12. WholeInv'
  <2>1. SUFFICES ASSUME ~writer.dropped, ~purged
                 PROVE  /\ f0 <= maxFiles + 1
                        /\ \A g \in Generations :
                             dir'[g] = IF g < f0 THEN f0 - g ELSE NoFile
    BY <1>2, <1>4 DEF WholeInv, Nth
  <2>2. /\ writer.file <= maxFiles
        /\ \A g \in Generations : g > writer.gen + 1 => dir[g] = Nth(g - 1)
    BY <1>1, <1>2, <2>1 DEF WholeInv
  <2>3. f0 <= maxFiles + 1
    BY <1>2, <2>2 DEF f0
  <2>4. ASSUME NEW g \in Generations
        PROVE  dir'[g] = IF g < f0 THEN f0 - g ELSE NoFile
    <3>1. g \in Nat
      BY <1>10
    <3>2. CASE g = 0
      BY <1>2, <1>3, <1>6, <1>8, <3>2 DEF NoFile
    <3>3. CASE g # 0
      <4>1. g > writer.gen + 1
        BY <1>2, <3>1, <3>3
      <4>2. dir'[g] = Nth(g - 1)
        BY <1>6, <2>2, <3>3, <4>1
      <4>3. QED
        BY <1>2, <3>1, <4>2 DEF Nth, f0
    <3>4. QED
      BY <3>2, <3>3
  <2>5. QED
    BY <2>3, <2>4
<1>13. QED
  BY <1>5, <1>7, <1>9, <1>11, <1>12 DEF Sound

----------------------------------------------------------------------------
(* The files, always.                                                      *)

filesVars == <<maxFiles, dir, data, old, open, writer, purge, attempt, purged>>

LEMMA SoundFirst ==
  ASSUME LogInit
  PROVE  Sound
<1>1. /\ maxFiles \in Rotations /\ maxFiles \in Nat /\ maxFiles \in Generations
      /\ MaxBytes \in Nat /\ Limit \in Nat /\ 0 \in Generations
      /\ \A g \in Generations : g \in Nat
  BY Bounds DEF LogInit
<1>2. /\ \A g \in Generations : dir[g] = NoFile
      /\ \A f \in Files : data[f] = [from |-> 0, to |-> -1, inode |-> 0]
  BY DEF LogInit
<1>3. /\ writer.pc = "none" /\ writer.file = 0 /\ writer.written = 0 /\ writer.total = 0
      /\ writer.pending = 0 /\ attempt = "waiting" /\ ~purged /\ ~open /\ ~writer.capped
      /\ purge.pc = "idle"
  BY DEF LogInit, NoWriter, NoPurge, NoFile
<1>4. FileTypes
  <2>1. writer \in Writers
    BY DEF LogInit, NoWriter, Writers, WriterPCs, NoFile
  <2>2. [from |-> 0, to |-> -1, inode |-> 0] \in Spans
    BY DEF Spans
  <2>3. QED
    BY <1>1, <2>1, <2>2 DEF LogInit, FileTypes, NoPurge, Attempts
<1>5. WriterInv
  BY <1>1, <1>3 DEF WriterInv, Produced, NoFile, Writing
<1>6. DataInv
  <2>1. Made = {}
    BY <1>3 DEF Made
  <2>2. QED
    BY <1>2, <1>3, <2>1 DEF DataInv, NoFile
<1>7. DirInv
  BY <1>1, <1>2, <1>3 DEF DirInv, LiveFileKept, NoFile
<1>8. WholeInv
  <2>1. \A g \in Generations : dir[g] = Nth(g)
    <3>1. TAKE g \in Generations
    <3>2. ~(g < writer.file)
      BY <1>1, <1>3
    <3>3. QED
      BY <1>2, <3>2 DEF Nth
  <2>2. QED
    BY <1>1, <1>3, <2>1 DEF WholeInv
<1>9. QED
  BY <1>4, <1>5, <1>6, <1>7, <1>8 DEF Sound

LEMMA SoundStays ==
  ASSUME Sound, UNCHANGED filesVars
  PROVE  Sound'
<1>1. FileTypes' /\ WriterInv'
  BY DEF Sound, filesVars, FileTypes, WriterInv, Produced, Writing, Capping
<1>2. DataInv' /\ DirInv' /\ WholeInv'
  BY DEF Sound, filesVars, DataInv, Made, Extra, DirInv, LiveFileKept, Writing, WholeInv, Nth
<1>3. QED
  BY <1>1, <1>2 DEF Sound

LEMMA SoundStep ==
  ASSUME Sound, [Next]_vars
  PROVE  Sound'
<1>1. CASE LogNext
  BY <1>1, WriterStepSound, LookSound, RemoveSound, ChunkSound, MarkSound, OpenSound, OldestSound,
     RenameSound, RotatedSound DEF LogNext
<1>2. CASE LinesNext
  <2>1. UNCHANGED filesVars
    BY <1>2 DEF LinesNext, LinesBegin, Stat, ReadFile, LinesReturn, filesVars
  <2>2. QED
    BY <2>1, SoundStays
<1>3. CASE StreamNext
  <2>1. UNCHANGED filesVars
    BY <1>3 DEF StreamNext, Poll, Ask, Wait, CloseStream, Hangup, OpenTail, logVars, filesVars
  <2>2. QED
    BY <2>1, SoundStays
<1>4. CASE UNCHANGED vars
  BY <1>4, SoundStays DEF vars, logVars, filesVars
<1>5. QED
  BY <1>1, <1>2, <1>3, <1>4 DEF Next

LEMMA AlwaysSound == Spec => []Sound
<1>1. Init => Sound
  BY SoundFirst DEF Init
<1>2. Sound /\ [Next]_vars => Sound'
  BY SoundStep
<1>3. QED
  BY <1>1, <1>2, PTL DEF Spec

(* The generations a reader can find: each is a file that was created, and *)
(* an older one holds what was written before.                             *)
LEMMA HeldInOrder ==
  ASSUME Sound
  PROVE  /\ \A g \in Generations : dir[g] # NoFile => dir[g] \in Made /\ dir[g] \in Files
         /\ \A g, h \in Generations :
              g < h /\ dir[g] # NoFile /\ dir[h] # NoFile => data[dir[h]].to < data[dir[g]].from
<1>1. FileTypes /\ WriterInv /\ DataInv /\ DirInv /\ WholeInv
  BY DEF Sound
<1>2. ASSUME NEW g \in Generations, dir[g] # NoFile
      PROVE  dir[g] \in Made /\ dir[g] \in Files
  <2>1. dir[g] \in Nat /\ dir[g] <= writer.file /\ dir[g] # 0 /\ writer.file \in Nat
        /\ writer.file <= MaxBytes + 1
    BY <1>1, <1>2, Fields DEF DirInv, NoFile
  <2>2. QED
    BY <2>1, Bounds DEF Made
<1>3. QED
  BY <1>1, <1>2 DEF DirInv, DataInv

LEMMA SoundIsFilesInv ==
  ASSUME Sound
  PROVE  FilesInv
<1>1. FileTypes /\ WriterInv /\ DataInv /\ DirInv /\ WholeInv
  BY DEF Sound
<1>2. LogTypeOK
  <2>1. ASSUME NEW f \in Files
        PROVE  Size(f) \in 0..(Limit + Excess(f))
    <3>1. f \in Nat /\ data[f].from \in Nat /\ data[f].to \in Int /\ Limit \in Nat
          /\ f >= 1 /\ writer.file \in Nat /\ Excess(f) \in Nat
      BY <1>1, Fields, Bounds DEF Excess, Marker
    <3>2. CASE f > writer.file
      <4>1. data[f].from = 0 /\ data[f].to = -1
        BY <1>1, <3>2 DEF DataInv
      <4>2. QED
        BY <3>1, <4>1 DEF Size
    <3>3. CASE ~(f > writer.file)
      <4>1. f \in Made
        BY <3>1, <3>3 DEF Made
      <4>2. data[f].from <= data[f].to + 1 /\ data[f].to <= data[f].from + Limit - 1 + Excess(f)
        <5>1. CASE f = writer.file
          <6>1. data[f].to = data[f].from + writer.written - 1 + Excess(f)
            BY <1>1, <3>1, <5>1 DEF DataInv, NoFile, Excess, Extra
          <6>2. writer.written \in Nat /\ writer.written <= Limit /\ data[f].from <= data[f].to + 1
            BY <1>1, <4>1, Fields DEF DataInv, WriterInv
          <6>3. QED
            BY <3>1, <6>1, <6>2
        <5>2. CASE f # writer.file
          BY <1>1, <3>1, <4>1, <5>2 DEF DataInv, Excess
        <5>3. QED
          BY <5>1, <5>2
      <4>3. QED
        BY <3>1, <4>2 DEF Size
    <3>4. QED
      BY <3>2, <3>3
  <2>2. ASSUME NEW g \in Generations, NEW h \in Generations, dir[g] = dir[h], dir[g] # NoFile
        PROVE  g = h
    <3>1. g \in Nat /\ h \in Nat /\ dir[g] \in Nat
      BY <1>1, Fields
    <3>2. ~(g < h) /\ ~(h < g)
      <4>1. ~(dir[g] < dir[h]) /\ ~(dir[h] < dir[g])
        BY <2>2, <3>1
      <4>2. QED
        BY <1>1, <2>2, <4>1 DEF DirInv
    <3>3. QED
      BY <3>1, <3>2
  <2>3. QED
    BY <1>1, <2>1, <2>2, Fields DEF LogTypeOK, FileTypes, WriterPCs, Attempts
<1>3. LiveFileKept
  BY <1>1 DEF DirInv
<1>4. StoredInOrder
  BY HeldInOrder DEF StoredInOrder, Held, Visible
<1>5. NothingLostUntold
  <2>1. SUFFICES ASSUME Resting, ~writer.dropped, ~purged
                 PROVE  /\ UNION {data[dir[g]].from..data[dir[g]].to : g \in Held}
                             = 1..writer.total
                        /\ writer.capped <=> writer.total = Limit + Marker /\ Capping
    BY DEF NothingLostUntold
  <2>2. /\ writer.file <= maxFiles + 1 /\ \A g \in Generations : dir[g] = Nth(g)
        /\ writer.file # NoFile
    BY <1>1, <2>1 DEF WholeInv, Resting, WriterInv
  <2>3. /\ writer.file \in Nat /\ maxFiles \in Nat /\ maxFiles <= Oldest
        /\ writer.total \in Nat /\ MaxBytes \in Nat /\ Oldest \in Nat
        /\ Generations = 0..Oldest
    BY <1>1, Fields, Bounds
  <2>4. ASSUME NEW f \in Made
        PROVE  writer.file - f \in Held /\ dir[writer.file - f] = f
    <3>1. f \in Nat /\ f >= 1 /\ f <= writer.file
      BY <2>3 DEF Made
    <3>2. \A g \in 0..(writer.file - f) : g \in Generations /\ g < writer.file /\ g \in Nat
      BY <2>2, <2>3, <3>1
    <3>3. \A g \in 0..(writer.file - f) : dir[g] = writer.file - g /\ dir[g] # NoFile
      BY <2>2, <2>3, <3>2 DEF Nth, NoFile
    <3>4. writer.file - f \in 0..(writer.file - f)
          /\ \A h \in 1..(writer.file - f) : h \in 0..(writer.file - f)
      BY <2>3, <3>1
    <3>5. QED
      BY <2>3, <3>1, <3>2, <3>3, <3>4 DEF Held, Visible
  <2>5. ASSUME NEW b \in 1..writer.total
        PROVE  \E g \in Held : b \in data[dir[g]].from..data[dir[g]].to
    <3>1. PICK f \in Made : data[f].from <= b /\ b <= data[f].to
      BY <1>1 DEF DataInv
    <3>2. f \in Files
      BY <1>1, <2>3, Fields, Bounds DEF Made
    <3>3. data[f].from \in Nat /\ data[f].to \in Int /\ b \in Nat
      BY <1>1, <2>3, <3>2, Fields
    <3>4. b \in data[f].from..data[f].to
      BY <3>1, <3>3
    <3>5. QED
      BY <2>4, <3>4
  <2>6. ASSUME NEW g \in Held, NEW b \in data[dir[g]].from..data[dir[g]].to
        PROVE  b \in 1..writer.total
    <3>1. g \in Generations /\ dir[g] # NoFile
      BY DEF Held, Visible
    <3>2. dir[g] \in Made /\ dir[g] \in Files
      BY <3>1, HeldInOrder
    <3>3. data[dir[g]].from \in Nat /\ data[dir[g]].to \in Int /\ dir[g] >= 1 /\ dir[g] \in Nat
      BY <1>1, <2>3, <3>2, Fields DEF Made
    <3>4. dir[g] <= data[dir[g]].from /\ data[dir[g]].to <= writer.total
      BY <1>1, <3>2 DEF DataInv
    <3>5. QED
      BY <2>3, <3>3, <3>4
  <2>7. ASSUME writer.total = Limit + Marker, Capping, ~writer.capped
        PROVE  FALSE
    <3>1. writer.file = 1 /\ writer.written <= Limit /\ writer.written \in Nat /\ Limit \in Nat
      BY <1>1, <2>2, <2>7, Fields, Bounds DEF WriterInv
    <3>2. /\ data[1].to = writer.total /\ data[1].to = data[1].from + writer.written - 1 + Extra
          /\ data[1].from = 1
      BY <1>1, <2>2, <3>1 DEF DataInv
    <3>3. QED
      BY <2>7, <3>1, <3>2 DEF Extra, Marker
  <2>8. writer.capped => writer.total = Limit + Marker /\ Capping
    BY <1>1 DEF WriterInv
  <2>9. QED
    BY <2>5, <2>6, <2>7, <2>8
<1>6. QED
  BY <1>2, <1>3, <1>4, <1>5 DEF FilesInv

(* For every limit, policy and amount of output: no file outgrows the      *)
(* limit of its stream but by the marker of a truncated one, retention     *)
(* never takes the file being written, the files are in order, and every   *)
(* byte that was stored, the marker included, is in a file a reader finds  *)
(* unless the attempt says that a rotation dropped some, or retention      *)
(* removed some (StreamWriter.Write and roll, Purge).                      *)
THEOREM FilesAreSound == Spec => []FilesInv
<1>1. Sound => FilesInv
  BY SoundIsFilesInv
<1>2. QED
  BY <1>1, AlwaysSound, PTL

----------------------------------------------------------------------------
(* A call of Lines.                                                        *)

Readers ==
  [pc : {"idle", "stat", "read", "done", "failed"}, next : Nat, count : Nat, got : Seq(Spans),
   upto : Nat, overtaken : BOOLEAN]

ReaderTypes ==
  /\ reader \in Readers
  /\ reader.pc = "stat" => reader.next >= 1 /\ reader.next <= Oldest + 1 /\ reader.got = <<>>
  /\ reader.pc \in {"read", "done"} =>
       /\ reader.count \in Generations /\ reader.next <= reader.count + 1
       /\ reader.pc = "read" <=> reader.next <= reader.count

(* How much was read once n generations were, the live one first.          *)
Last(n) == IF n = 0 \/ dir[0] # NoFile THEN n ELSE n - 1

ReadPart(i) ==
  LET g == reader.next - i
  IN  /\ g \in Generations /\ dir[g] # NoFile
      /\ reader.got[i].from = data[dir[g]].from /\ reader.got[i].to <= data[dir[g]].to
      /\ reader.got[i].to >= data[dir[g]].to \/ reader.got[i].to >= reader.upto

(* Until it is overtaken, a reader knows which rotations there are, and    *)
(* what it has read is what they hold, but for what was written since it   *)
(* began.                                                                  *)
ReaderInv ==
  reader.pc # "idle" /\ ~reader.overtaken =>
    /\ writer.pc # "shift" /\ attempt # "waiting" /\ reader.upto <= writer.total
    /\ reader.pc = "stat" => \A g \in 1..(reader.next - 1) : dir[g] # NoFile
    /\ reader.pc \in {"read", "done"} =>
         /\ \A g \in 1..reader.count : dir[g] # NoFile
         /\ reader.count + 1 \in Generations => dir[reader.count + 1] = NoFile
         /\ Len(reader.got) = Last(reader.next)
         /\ \A i \in 1..Len(reader.got) : ReadPart(i)

LEMMA ReaderFields ==
  ASSUME ReaderTypes
  PROVE  /\ reader.pc \in {"idle", "stat", "read", "done", "failed"} /\ reader.next \in Nat
         /\ reader.upto \in Nat
         /\ reader.count \in Nat /\ reader.got \in Seq(Spans) /\ reader.overtaken \in BOOLEAN
         /\ Len(reader.got) \in Nat
BY LenProperties DEF ReaderTypes, Readers

(* Nothing happens to the files of a reader that is not overtaken, but     *)
(* that the live one grows.                                                *)
Grown(f) ==
  /\ data'[f].from = data[f].from /\ data'[f].to \in Int /\ data'[f].to >= data[f].to
  /\ f # writer.file => data'[f].to = data[f].to

LEMMA ReaderKept ==
  ASSUME FileTypes, WriterInv, DataInv, ReaderTypes, ReaderInv, reader' = reader,
         reader.pc # "idle" /\ ~reader.overtaken =>
           /\ dir' = dir /\ writer'.pc # "shift" /\ attempt' # "waiting"
           /\ writer'.total \in Nat /\ writer'.total >= writer.total
           /\ \A f \in Files : Grown(f)
  PROVE  ReaderTypes' /\ ReaderInv'
<1>1. ReaderTypes'
  BY DEF ReaderTypes
<1>2. SUFFICES ASSUME reader.pc # "idle", ~reader.overtaken
               PROVE  ReaderInv'
  BY <1>1 DEF ReaderInv
<1>3. /\ dir' = dir /\ writer'.pc # "shift" /\ attempt' # "waiting"
      /\ \A f \in Files : Grown(f)
      /\ reader.upto \in Nat /\ reader.upto <= writer.total /\ reader'.upto <= writer'.total
      /\ writer.total \in Nat /\ data[writer.file].to = writer.total
  <2>1. /\ dir' = dir /\ writer'.pc # "shift" /\ attempt' # "waiting"
        /\ \A f \in Files : Grown(f)
        /\ writer'.total \in Nat /\ writer'.total >= writer.total
    BY <1>2
  <2>2. reader.upto \in Nat /\ reader.upto <= writer.total /\ writer.total \in Nat
    BY <1>2, ReaderFields, Fields DEF ReaderInv
  <2>3. data[writer.file].to = writer.total
    BY <1>2 DEF ReaderInv, WriterInv, DataInv
  <2>4. QED
    BY <2>1, <2>2, <2>3
<1>4. ASSUME NEW i \in 1..Len(reader.got), ReadPart(i)
      PROVE  ReadPart(i)'
  <2> DEFINE g == reader.next - i
  <2>1. /\ g \in Generations /\ dir[g] # NoFile
        /\ reader.got[i].from = data[dir[g]].from /\ reader.got[i].to <= data[dir[g]].to
        /\ reader.got[i].to >= data[dir[g]].to \/ reader.got[i].to >= reader.upto
    BY <1>4 DEF ReadPart
  <2> DEFINE f == dir[g]
  <2>2. f \in Files /\ f \in Nat /\ data[f].to \in Int
    <3>1. f \in Files
      BY <2>1 DEF FileTypes
    <3>2. QED
      BY <3>1, Fields
  <2>3. reader.got[i].to \in Int
    <3>1. reader.got \in Seq(Spans) /\ i \in 1..Len(reader.got)
      BY ReaderFields
    <3>2. reader.got[i] \in Spans
      BY <3>1, ElementOfSeq
    <3>3. QED
      BY <3>2 DEF Spans
  <2>4. /\ data'[f].from = data[f].from /\ data'[f].to >= data[f].to /\ data'[f].to \in Int
        /\ f # writer.file => data'[f].to = data[f].to
    BY <1>3, <2>2 DEF Grown
  <2> DEFINE to == reader.got[i].to
  <2> HIDE DEF f
  <2>5. reader.got[i].from = data'[f].from /\ to <= data'[f].to
    BY <2>1, <2>2, <2>3, <2>4 DEF f
  <2>6. to >= data'[f].to \/ to >= reader.upto
    <3>1. to >= data[f].to \/ to >= reader.upto
      BY <2>1 DEF f
    <3>2. CASE f = writer.file
      <4>1. data[f].to = writer.total
        BY <1>3, <3>2
      <4>2. QED
        BY <1>3, <2>3, <3>1, <4>1
    <3>3. CASE f # writer.file
      BY <2>4, <3>1, <3>3
    <3>4. QED
      BY <3>2, <3>3
  <2>7. QED
    BY <1>3, <2>1, <2>5, <2>6 DEF ReadPart, f
<1>5. Last(reader.next)' = Last(reader.next)
  BY <1>3 DEF Last
<1>6. QED
  BY <1>2, <1>3, <1>4, <1>5 DEF ReaderInv

(* A file that is moved or removed overtakes every call under way.         *)
LEMMA ReaderOvertaken ==
  ASSUME ReaderTypes, reader' = [reader EXCEPT !.overtaken = reader.pc # "idle"]
  PROVE  ReaderTypes' /\ ReaderInv'
<1> DEFINE busy == reader.pc # "idle"
<1>1. busy \in BOOLEAN /\ reader' = [reader EXCEPT !.overtaken = busy] /\ reader \in Readers
  BY DEF ReaderTypes
<1> HIDE DEF busy
<1>2. /\ reader' \in Readers /\ reader'.pc = reader.pc /\ reader'.next = reader.next
      /\ reader'.count = reader.count /\ reader'.got = reader.got
      /\ reader'.overtaken = busy
  BY <1>1 DEF Readers
<1>3. ReaderTypes'
  BY <1>2 DEF ReaderTypes
<1>4. ReaderInv'
  <2>1. reader'.pc # "idle" => reader'.overtaken
    BY <1>2 DEF busy
  <2>2. QED
    BY <2>1 DEF ReaderInv
<1>5. QED
  BY <1>3, <1>4

LEMMA ChunkGrows ==
  ASSUME Sound, WriteChunk \/ MarkCapped
  PROVE  /\ \A f \in Files : Grown(f) /\ data'[f].inode = data[f].inode
         /\ writer'.total \in Nat /\ writer'.total >= writer.total
<1>1. FileTypes
  BY DEF Sound
<1> DEFINE f0 == writer.file
<1>2. PICK size \in Nat :
        data' = [data EXCEPT ![f0].to = @ + size] /\ writer'.total = writer.total + size
  <2>1. CASE WriteChunk
    <3> DEFINE room == Limit - writer.written
               chunk == IF writer.pending < room THEN writer.pending ELSE room
    <3>1. chunk \in Nat
      BY <1>1, <2>1, Fields, Bounds DEF WriteChunk
    <3>2. /\ data' = [data EXCEPT ![f0].to = @ + chunk]
          /\ writer' = [writer EXCEPT !.written = @ + chunk, !.total = @ + chunk,
                           !.pending = @ - chunk,
                           !.pc = IF writer.pending = chunk THEN "idle" ELSE "write"]
      BY <2>1 DEF WriteChunk
    <3> HIDE DEF room, chunk
    <3>3. writer'.total = writer.total + chunk
      BY <1>1, <3>2 DEF FileTypes, Writers
    <3>4. QED
      BY <3>1, <3>2, <3>3
  <2>2. CASE MarkCapped
    <3>1. /\ data' = [data EXCEPT ![f0].to = @ + Marker] /\ writer'.total = writer.total + Marker
      BY <1>1, <2>2 DEF MarkCapped, FileTypes, Writers
    <3>2. Marker \in Nat
      BY DEF Marker
    <3>3. QED
      BY <3>1, <3>2
  <2>3. QED
    BY <2>1, <2>2
<1>3. data' = [data EXCEPT ![f0].to = @ + size] /\ writer'.total = writer.total + size
  BY <1>2
<1>4. ASSUME NEW f \in Files
      PROVE  /\ data'[f].from = data[f].from /\ data'[f].to \in Int /\ data'[f].to >= data[f].to
             /\ f # f0 => data'[f].to = data[f].to
             /\ data'[f].inode = data[f].inode
  <2>1. data \in [Files -> Spans] /\ data[f].to \in Int
    BY <1>1, Fields DEF FileTypes
  <2>2. CASE f # f0
    <3>1. data'[f] = data[f]
      BY <1>3, <2>1, <2>2
    <3>2. QED
      BY <2>1, <3>1
  <2>3. CASE f = f0
    <3>1. data'[f] = [data[f] EXCEPT !.to = data[f].to + size] /\ data[f] \in Spans
      BY <1>3, <2>1, <2>3
    <3>2. /\ data'[f].from = data[f].from /\ data'[f].to = data[f].to + size
          /\ data'[f].inode = data[f].inode
      BY <3>1 DEF Spans
    <3>3. QED
      BY <2>1, <2>3, <3>2
  <2>4. QED
    BY <2>2, <2>3
<1>5. writer'.total \in Nat /\ writer'.total >= writer.total
  BY <1>1, <1>3, Fields
<1>6. QED
  BY <1>4, <1>5 DEF Grown

LEMMA ReaderOnLog ==
  ASSUME Sound, ReaderTypes, ReaderInv, LogNext
  PROVE  ReaderTypes' /\ ReaderInv'
<1>1. FileTypes /\ WriterInv /\ DataInv /\ DirInv
  BY DEF Sound
<1>2. CASE RemoveOldest \/ Rename \/ Rotated \/ PurgeRemove
  <2>1. reader' = [reader EXCEPT !.overtaken = reader.pc # "idle"]
    BY <1>2 DEF RemoveOldest, Rename, Rotated, PurgeRemove, Overtake
  <2>2. QED
    BY <2>1, ReaderOvertaken
<1>3. CASE MarkOpen \/ OpenStream
  <2>1. attempt = "waiting" /\ reader' = reader
    BY <1>1, <1>3 DEF MarkOpen, OpenStream, WriterInv
  <2>2. reader.pc = "idle" \/ reader.overtaken
    BY <2>1 DEF ReaderInv
  <2>3. QED
    BY <2>1, <2>2 DEF ReaderTypes, ReaderInv
<1>4. CASE WriteChunk \/ MarkCapped
  <2>1. reader' = reader /\ dir' = dir /\ writer'.pc # "shift" /\ attempt' = attempt
        /\ attempt # "waiting"
    BY <1>1, <1>4 DEF WriteChunk, MarkCapped, FileTypes, Writers, WriterInv
  <2>2. /\ \A f \in Files : Grown(f)
        /\ writer'.total \in Nat /\ writer'.total >= writer.total
    BY <1>4, ChunkGrows
  <2>3. QED
    BY <1>1, <2>1, <2>2, ReaderKept
<1>5. CASE (\E n \in 1..MaxBytes : Write(n)) \/ Register \/ Close \/ Settle \/ MoveOn
             \/ PurgeLook \/ \E f \in Files : Age(f)
  <2>1. UNCHANGED <<reader, dir, data>>
    BY <1>5 DEF Write, Register, Close, Settle, MoveOn, PurgeLook, Age
  <2>2. attempt # "waiting" => attempt' # "waiting"
    BY <1>5 DEF Write, Register, Close, Settle, MoveOn, PurgeLook, Age
  <2>3. /\ writer.pc # "shift" => writer'.pc # "shift"
        /\ writer'.total = writer.total
    BY <1>1, <1>5 DEF Write, Register, Close, Settle, MoveOn, PurgeLook, Age, FileTypes, Writers
  <2>4. reader.pc # "idle" /\ ~reader.overtaken => attempt # "waiting" /\ writer.pc # "shift"
    BY DEF ReaderInv
  <2>5. \A f \in Files : Grown(f)
    BY <1>1, <2>1, Fields DEF Grown
  <2>6. writer'.total \in Nat /\ writer'.total >= writer.total
    BY <1>1, <2>3, Fields
  <2>7. QED
    BY <1>1, <2>1, <2>2, <2>3, <2>4, <2>5, <2>6, ReaderKept
<1>6. QED
  BY <1>2, <1>3, <1>4, <1>5 DEF LogNext

LEMMA Prepend ==
  ASSUME NEW S, NEW e \in S, NEW seq \in Seq(S)
  PROVE  /\ <<e>> \o seq \in Seq(S) /\ Len(<<e>> \o seq) = Len(seq) + 1
         /\ (<<e>> \o seq)[1] = e
         /\ \A i \in 2..(Len(seq) + 1) : (<<e>> \o seq)[i] = seq[i - 1]
<1>1. <<e>> \in Seq(S) /\ Len(<<e>>) = 1 /\ <<e>>[1] = e /\ Len(seq) \in Nat
  BY LenProperties
<1>2. /\ <<e>> \o seq \in Seq(S) /\ Len(<<e>> \o seq) = 1 + Len(seq)
      /\ \A i \in 1..(1 + Len(seq)) :
           (<<e>> \o seq)[i] = IF i <= 1 THEN <<e>>[i] ELSE seq[i - 1]
  BY <1>1, ConcatProperties
<1>3. QED
  BY <1>1, <1>2

(* A call begins, and finds out which rotations there are.                 *)
LEMMA BeginKept ==
  ASSUME Sound, ReaderTypes, ReaderInv, LinesBegin \/ Stat \/ LinesReturn
  PROVE  ReaderTypes' /\ ReaderInv'
<1>1. FileTypes /\ UNCHANGED <<dir, data, writer, attempt>>
  BY DEF Sound, LinesBegin, Stat, LinesReturn
<1>2. CASE LinesBegin
  <2> DEFINE total == writer.total
             shifts == writer.pc = "shift"
  <2>1. /\ attempt # "waiting"
        /\ reader' = [pc |-> "stat", next |-> 1, count |-> 0, got |-> <<>>,
                      upto |-> total, overtaken |-> shifts]
    BY <1>2 DEF LinesBegin, NoReader
  <2>2. total \in Nat /\ total <= total /\ total = writer'.total /\ shifts \in BOOLEAN
        /\ (shifts <=> writer'.pc = "shift")
    BY <1>1, Fields
  <2> HIDE DEF total, shifts
  <2>3. ReaderTypes'
    BY <2>1, <2>2, Bounds, EmptySeq DEF ReaderTypes, Readers
  <2>4. 1..(1 - 1) = {}
    OBVIOUS
  <2>5. QED
    BY <1>1, <2>1, <2>2, <2>3, <2>4 DEF ReaderInv
<1>3. CASE LinesReturn
  <2>1. reader' = NoReader
    BY <1>3 DEF LinesReturn
  <2>2. QED
    BY <2>1, EmptySeq DEF NoReader, ReaderTypes, Readers, ReaderInv
<1>4. CASE Stat
  <2>1. /\ reader.pc = "stat" /\ reader.next \in Nat /\ reader.next >= 1
        /\ reader.next <= Oldest + 1 /\ Oldest \in Nat /\ Generations = 0..Oldest
    BY <1>4, ReaderFields, Bounds DEF Stat, ReaderTypes
  <2>2. CASE reader.next \in Generations /\ dir[reader.next] # NoFile
    <3>1. reader' = [reader EXCEPT !.next = reader.next + 1]
      BY <1>4, <2>2 DEF Stat
    <3>2. /\ reader' \in Readers /\ reader'.pc = "stat" /\ reader'.next = reader.next + 1
          /\ reader'.overtaken = reader.overtaken /\ reader'.got = reader.got
          /\ reader'.upto = reader.upto
      BY <2>1, <3>1 DEF ReaderTypes, Readers
    <3>3. ReaderTypes'
      BY <2>1, <2>2, <3>2 DEF ReaderTypes
    <3>4. ~reader.overtaken => \A g \in 1..(reader'.next - 1) : dir[g] # NoFile
      <4>1. \A g \in 1..(reader'.next - 1) : g = reader.next \/ g \in 1..(reader.next - 1)
        BY <2>1, <3>2
      <4>2. QED
        BY <2>1, <2>2, <4>1 DEF ReaderInv
    <3>5. QED
      BY <1>1, <2>1, <3>2, <3>3, <3>4 DEF ReaderInv
  <2>3. CASE ~(reader.next \in Generations /\ dir[reader.next] # NoFile)
    <3> DEFINE count == reader.next - 1
    <3>1. count \in Nat /\ count \in Generations /\ 0 <= count /\ count + 1 = reader.next
      BY <2>1
    <3>2. reader' = [reader EXCEPT !.pc = "read", !.next = 0, !.count = count]
      BY <1>4, <2>3 DEF Stat
    <3> HIDE DEF count
    <3>3. /\ reader' \in Readers /\ reader'.pc = "read" /\ reader'.next = 0
          /\ reader'.count = count /\ reader'.overtaken = reader.overtaken
          /\ reader'.got = reader.got /\ reader'.upto = reader.upto
      BY <3>1, <3>2 DEF ReaderTypes, Readers
    <3>4. ReaderTypes'
      BY <3>1, <3>3 DEF ReaderTypes
    <3>5. QED
      <4>1. SUFFICES ASSUME ~reader.overtaken
                     PROVE  ReaderInv'
        BY <3>3, <3>4 DEF ReaderInv
      <4>2. /\ writer.pc # "shift" /\ attempt # "waiting" /\ reader.upto <= writer.total
            /\ \A g \in 1..(reader.next - 1) : dir[g] # NoFile
        BY <2>1, <4>1 DEF ReaderInv
      <4>3. count + 1 \in Generations => dir[count + 1] = NoFile
        BY <2>3, <3>1
      <4>4. reader'.got = <<>> /\ Len(reader'.got) = 0 /\ 1..Len(reader'.got) = {}
        <5>1. reader'.got = <<>>
          BY <2>1, <3>3 DEF ReaderTypes
        <5>2. QED
          BY <5>1
      <4>5. Last(0)' = 0
        BY DEF Last
      <4>6. QED
        BY <1>1, <3>1, <3>3, <4>2, <4>3, <4>4, <4>5 DEF ReaderInv
  <2>4. QED
    BY <2>2, <2>3
<1>5. QED
  BY <1>2, <1>3, <1>4

(* It reads one generation after the other, from the live one backwards,   *)
(* and puts each before the rest.                                          *)
LEMMA ReadKept ==
  ASSUME Sound, ReaderTypes, ReaderInv, ReadFile, reader'.pc # "failed"
  PROVE  ReaderTypes' /\ ReaderInv'
<1> DEFINE n == reader.next
           f == dir[n]
           got == IF f = NoFile THEN <<>> ELSE <<data[f]>>
           pc == IF n = reader.count THEN "done" ELSE "read"
<1>1. /\ FileTypes /\ UNCHANGED <<dir, data, writer, attempt>>
      /\ reader.pc = "read" /\ n \in Nat /\ reader.count \in Nat /\ reader.got \in Seq(Spans)
      /\ Len(reader.got) \in Nat
      /\ reader.count \in Generations /\ n <= reader.count
  BY ReaderFields DEF Sound, ReadFile, ReaderTypes
<1>2. n \in Generations /\ f \in Files \cup {NoFile}
  <2>1. n \in Generations
    BY <1>1, Bounds
  <2>2. QED
    BY <1>1, <2>1 DEF FileTypes
<1>3. reader' = [reader EXCEPT !.got = got \o reader.got, !.next = n + 1, !.pc = pc]
  <2>1. reader' # [reader EXCEPT !.pc = "failed"]
    BY DEF ReaderTypes, Readers
  <2>2. QED
    BY <2>1 DEF ReadFile
<1>4. got \o reader.got \in Seq(Spans)
  <2>1. CASE f = NoFile
    BY <1>1, <2>1, EmptySeq, ConcatProperties
  <2>2. CASE f # NoFile
    <3>1. data[f] \in Spans
      BY <1>1, <1>2, <2>2 DEF FileTypes
    <3>2. <<data[f]>> \o reader.got \in Seq(Spans)
      BY <1>1, <3>1, Prepend
    <3>3. QED
      BY <2>2, <3>2
  <2>3. QED
    BY <2>1, <2>2
<1> DEFINE all == got \o reader.got
<1>5. all \in Seq(Spans)
  BY <1>4
<1>6. pc \in {"read", "done"} /\ (pc = "read" <=> n + 1 <= reader.count)
  BY <1>1
<1> HIDE DEF all, pc
<1>7. /\ reader' \in Readers /\ reader'.pc = pc /\ reader'.next = n + 1 /\ reader'.got = all
      /\ reader'.count = reader.count /\ reader'.overtaken = reader.overtaken
      /\ reader'.upto = reader.upto
  <2> DEFINE next == n + 1
  <2>1. reader' = [reader EXCEPT !.got = all, !.next = next, !.pc = pc]
    BY <1>3 DEF all
  <2>2. next \in Nat
    BY <1>1
  <2> HIDE DEF next
  <2>3. /\ reader' \in Readers /\ reader'.pc = pc /\ reader'.next = next /\ reader'.got = all
        /\ reader'.count = reader.count /\ reader'.overtaken = reader.overtaken
        /\ reader'.upto = reader.upto
    BY <1>5, <1>6, <2>1, <2>2 DEF ReaderTypes, Readers
  <2>4. QED
    BY <2>3 DEF next
<1>8. ReaderTypes'
  <2>1. n + 1 <= reader.count + 1
    BY <1>1
  <2>2. QED
    BY <1>1, <1>6, <1>7, <2>1 DEF ReaderTypes
<1>9. SUFFICES ASSUME ~reader.overtaken
               PROVE  ReaderInv'
  BY <1>7, <1>8 DEF ReaderInv
<1>10. /\ writer.pc # "shift" /\ attempt # "waiting" /\ reader.upto <= writer.total
       /\ \A g \in 1..reader.count : dir[g] # NoFile
       /\ reader.count + 1 \in Generations => dir[reader.count + 1] = NoFile
       /\ Len(reader.got) = Last(n)
       /\ \A i \in 1..Len(reader.got) : ReadPart(i)
  BY <1>1, <1>9 DEF ReaderInv
<1>11. /\ Len(all) = Last(n + 1)
       /\ \A i \in 1..Len(all) : /\ n + 1 - i \in Generations /\ dir[n + 1 - i] # NoFile
                                 /\ all[i].from = data[dir[n + 1 - i]].from
                                 /\ all[i].to <= data[dir[n + 1 - i]].to
                                 /\ \/ all[i].to >= data[dir[n + 1 - i]].to
                                    \/ all[i].to >= reader.upto
  <2>1. CASE f = NoFile
    <3>1. n = 0
      BY <1>1, <1>10, <2>1
    <3>2. Len(reader.got) = 0 /\ Last(n + 1) = 0
      BY <1>10, <2>1, <3>1 DEF Last
    <3>3. reader.got = <<>>
      BY <1>1, <3>2, EmptySeq
    <3>4. all = <<>>
      BY <2>1, <3>3 DEF all
    <3>5. 1..Len(all) = {}
      BY <3>4
    <3>6. QED
      BY <3>2, <3>4, <3>5
  <2>2. CASE f # NoFile
    <3>1. f \in Files /\ data[f] \in Spans /\ data[f].to \in Int
      <4>1. f \in Files
        BY <1>2, <2>2
      <4>2. QED
        BY <1>1, <4>1, Fields DEF FileTypes
    <3>2. all = <<data[f]>> \o reader.got
      BY <2>2 DEF all
    <3>3. /\ Len(all) = Len(reader.got) + 1 /\ all[1] = data[f]
          /\ \A i \in 2..(Len(reader.got) + 1) : all[i] = reader.got[i - 1]
      BY <1>1, <3>1, <3>2, Prepend
    <3>4. Last(n + 1) = Last(n) + 1
      BY <1>1, <2>2 DEF Last
    <3>5. ASSUME NEW i \in 1..Len(all)
          PROVE  /\ n + 1 - i \in Generations /\ dir[n + 1 - i] # NoFile
                 /\ all[i].from = data[dir[n + 1 - i]].from
                 /\ all[i].to <= data[dir[n + 1 - i]].to
                 /\ \/ all[i].to >= data[dir[n + 1 - i]].to
                    \/ all[i].to >= reader.upto
      <4>1. CASE i = 1
        <5>1. n + 1 - i = n
          BY <1>1, <4>1
        <5>2. /\ all[i] = data[dir[n]] /\ data[dir[n]].to <= data[dir[n]].to
              /\ data[dir[n]].to >= data[dir[n]].to
          BY <3>1, <3>3, <4>1
        <5>3. QED
          BY <1>2, <2>2, <5>1, <5>2
      <4>2. CASE i # 1
        <5>1. i \in 2..(Len(reader.got) + 1) /\ i - 1 \in 1..Len(reader.got)
              /\ n + 1 - i = n - (i - 1)
          <6>1. i \in Nat /\ i >= 1 /\ i <= Len(reader.got) + 1 /\ i # 1
            BY <1>1, <3>3, <4>2
          <6>2. QED
            BY <1>1, <6>1
        <5>2. all[i] = reader.got[i - 1] /\ ReadPart(i - 1)
          BY <1>10, <3>3, <5>1
        <5> DEFINE g == n - (i - 1)
        <5>3. g \in Generations /\ dir[g] # NoFile
              /\ all[i].from = data[dir[g]].from /\ all[i].to <= data[dir[g]].to
              /\ (all[i].to >= data[dir[g]].to \/ all[i].to >= reader.upto)
          BY <5>2 DEF ReadPart
        <5>4. g = n + 1 - i
          BY <5>1
        <5> HIDE DEF g
        <5>5. QED
          BY <5>3, <5>4
      <4>3. QED
        BY <4>1, <4>2
    <3>6. QED
      BY <1>10, <3>3, <3>4, <3>5
  <2>3. QED
    BY <2>1, <2>2
<1>12. (Len(reader.got) = Last(reader.next))'
  BY <1>1, <1>7, <1>11 DEF Last
<1>13. (\A i \in 1..Len(reader.got) : ReadPart(i))'
  <2>1. ASSUME NEW i \in 1..Len(all)
        PROVE  /\ reader'.next - i \in Generations /\ dir'[reader'.next - i] # NoFile
               /\ reader'.got[i].from = data'[dir'[reader'.next - i]].from
               /\ reader'.got[i].to <= data'[dir'[reader'.next - i]].to
               /\ \/ reader'.got[i].to >= data'[dir'[reader'.next - i]].to
                  \/ reader'.got[i].to >= reader'.upto
    <3> DEFINE g == n + 1 - i
               h == reader'.next - i
    <3>1. g = h
      <4>1. i \in Int /\ n \in Nat /\ reader'.next = n + 1
        BY <1>1, <1>7
      <4>2. QED
        BY <4>1
    <3>2. g \in Generations /\ dir[g] # NoFile /\ all[i].from = data[dir[g]].from
          /\ all[i].to <= data[dir[g]].to
          /\ (all[i].to >= data[dir[g]].to \/ all[i].to >= reader.upto)
      BY <1>11
    <3> HIDE DEF g, h
    <3>3. h \in Generations /\ dir'[h] # NoFile /\ reader'.got[i].from = data'[dir'[h]].from
          /\ reader'.got[i].to <= data'[dir'[h]].to
          /\ (reader'.got[i].to >= data'[dir'[h]].to \/ reader'.got[i].to >= reader'.upto)
      BY <1>1, <1>7, <3>1, <3>2
    <3>4. QED
      BY <3>3 DEF h
  <2>2. QED
    BY <1>7, <2>1 DEF ReadPart
<1>14. /\ writer'.pc # "shift" /\ attempt' # "waiting" /\ reader'.pc # "stat"
       /\ reader'.upto <= writer'.total
       /\ \A g \in 1..reader'.count : dir'[g] # NoFile
       /\ reader'.count + 1 \in Generations => dir'[reader'.count + 1] = NoFile
  BY <1>1, <1>6, <1>7, <1>10
<1>15. QED
  BY <1>12, <1>13, <1>14 DEF ReaderInv

LEMMA ReaderComplete ==
  ASSUME Sound, ReaderTypes, ReaderInv
  PROVE  LinesAreComplete
<1>1. SUFFICES ASSUME reader.pc = "done", ~reader.overtaken
               PROVE  /\ \A i, j \in DOMAIN reader.got :
                           i < j => reader.got[i].to < reader.got[j].from
                      /\ ~purged /\ ~writer.dropped =>
                           \A b \in 1..reader.upto :
                             \E i \in DOMAIN reader.got :
                               reader.got[i].from <= b /\ b <= reader.got[i].to
  BY DEF LinesAreComplete
<1> DEFINE n == reader.next
<1>2. /\ reader.got \in Seq(Spans) /\ DOMAIN reader.got = 1..Len(reader.got)
      /\ Len(reader.got) \in Nat /\ n \in Nat /\ reader.count \in Nat
      /\ reader.count \in Generations /\ n = reader.count + 1
  <2>1. reader.got \in Seq(Spans) /\ n \in Nat /\ reader.count \in Nat
        /\ reader.count \in Generations /\ n <= reader.count + 1 /\ ~(n <= reader.count)
    BY <1>1, ReaderFields DEF ReaderTypes
  <2>2. QED
    BY <2>1, LenProperties
<1>3. /\ writer.pc # "shift" /\ attempt # "waiting" /\ reader.upto <= writer.total
      /\ \A g \in 1..reader.count : dir[g] # NoFile
      /\ reader.count + 1 \in Generations => dir[reader.count + 1] = NoFile
      /\ Len(reader.got) = Last(n)
      /\ \A i \in 1..Len(reader.got) : ReadPart(i)
  BY <1>1 DEF ReaderInv
<1>4. FileTypes /\ WriterInv /\ DataInv /\ DirInv /\ WholeInv
  BY DEF Sound
<1>5. ASSUME NEW i \in 1..Len(reader.got)
      PROVE  /\ n - i \in Generations /\ n - i \in Nat /\ dir[n - i] # NoFile
             /\ dir[n - i] \in Files
             /\ reader.got[i].from = data[dir[n - i]].from
             /\ reader.got[i].to <= data[dir[n - i]].to
             /\ \/ reader.got[i].to >= data[dir[n - i]].to
                \/ reader.got[i].to >= reader.upto
             /\ data[dir[n - i]].from \in Nat /\ data[dir[n - i]].to \in Int
             /\ reader.got[i].to \in Int
  <2>1. /\ n - i \in Generations /\ dir[n - i] # NoFile
        /\ reader.got[i].from = data[dir[n - i]].from
        /\ reader.got[i].to <= data[dir[n - i]].to
        /\ reader.got[i].to >= data[dir[n - i]].to \/ reader.got[i].to >= reader.upto
    BY <1>3 DEF ReadPart
  <2> DEFINE g == n - i
  <2>2. g \in Generations /\ dir[g] # NoFile
    BY <2>1
  <2> HIDE DEF g
  <2>3. g \in Nat /\ dir[g] \in Files /\ data[dir[g]].from \in Nat /\ data[dir[g]].to \in Int
    BY <1>4, <2>2, Fields, HeldInOrder
  <2>4. reader.got[i].to \in Int
    <3>1. reader.got[i] \in Spans
      BY <1>2, ElementOfSeq
    <3>2. QED
      BY <3>1 DEF Spans
  <2>5. QED
    BY <2>1, <2>3, <2>4 DEF g
<1>6. ASSUME NEW i \in 1..Len(reader.got), NEW j \in 1..Len(reader.got), i < j
      PROVE  reader.got[i].to < reader.got[j].from
  <2> DEFINE g == n - i
             h == n - j
  <2>1. h < g
    BY <1>2, <1>6
  <2>2. /\ g \in Generations /\ h \in Generations /\ dir[g] # NoFile /\ dir[h] # NoFile
        /\ reader.got[i].to <= data[dir[g]].to /\ reader.got[j].from = data[dir[h]].from
        /\ data[dir[g]].to \in Int /\ data[dir[h]].from \in Nat /\ reader.got[i].to \in Int
    BY <1>5
  <2> HIDE DEF g, h
  <2>3. data[dir[g]].to < data[dir[h]].from
    BY <2>1, <2>2, HeldInOrder
  <2>4. QED
    BY <2>2, <2>3
<1>7. ASSUME ~purged, ~writer.dropped, NEW b \in 1..reader.upto
      PROVE  \E i \in 1..Len(reader.got) : reader.got[i].from <= b /\ b <= reader.got[i].to
  <2>1. /\ writer.file \in Nat /\ maxFiles \in Nat /\ maxFiles <= Oldest /\ Oldest \in Nat
        /\ 0 \in Generations /\ Generations = 0..Oldest /\ writer.file # 0 /\ writer.file # NoFile
    BY <1>3, <1>4, Fields, Bounds DEF WriterInv, NoFile
  <2>2. writer.file <= maxFiles + 1 /\ \A g \in Generations : dir[g] = Nth(g)
    BY <1>3, <1>4, <1>7 DEF WholeInv
  <2>3. writer.file <= reader.count + 1
    <3>1. CASE reader.count + 1 \in Generations
      <4>1. Nth(reader.count + 1) = NoFile
        BY <1>3, <2>2, <3>1
      <4>2. QED
        BY <1>2, <2>1, <4>1 DEF Nth, NoFile
    <3>2. CASE reader.count + 1 \notin Generations
      BY <1>2, <2>1, <2>2, <3>2
    <3>3. QED
      BY <3>1, <3>2
  <2>4. reader.count < writer.file
    <3>1. CASE reader.count = 0
      BY <2>1, <3>1
    <3>2. CASE reader.count # 0
      <4>1. dir[reader.count] # NoFile
        BY <1>2, <1>3, <3>2
      <4>2. Nth(reader.count) # NoFile
        BY <1>2, <2>2, <4>1
      <4>3. QED
        BY <4>2 DEF Nth
    <3>3. QED
      BY <3>1, <3>2
  <2>5. writer.file = reader.count + 1
    BY <1>2, <2>1, <2>3, <2>4
  <2>6. dir[0] = writer.file
    BY <2>1, <2>2 DEF Nth
  <2>7. Len(reader.got) = n /\ n >= 1
    BY <1>2, <1>3, <2>1, <2>6 DEF Last
  <2>8. b \in 1..writer.total /\ b \in Nat /\ b <= reader.upto /\ reader.upto \in Nat
    BY <1>3, <1>4, Fields, ReaderFields
  <2>9. PICK f \in Made : data[f].from <= b /\ b <= data[f].to
    BY <1>4, <2>8 DEF DataInv
  <2>10. f \in Nat /\ f >= 1 /\ f <= writer.file /\ f \in 1..Len(reader.got)
    BY <1>2, <2>1, <2>5, <2>7 DEF Made
  <2>11. dir[n - f] = f
    <3>1. n - f \in Generations /\ n - f < writer.file /\ writer.file - (n - f) = f
      BY <1>2, <1>5, <2>5, <2>10
    <3>2. QED
      BY <2>2, <3>1 DEF Nth
  <2>12. /\ reader.got[f].from = data[f].from
         /\ reader.got[f].to >= data[f].to \/ reader.got[f].to >= reader.upto
         /\ data[f].to \in Int /\ reader.got[f].to \in Int
    BY <1>5, <2>10, <2>11
  <2>13. QED
    BY <2>8, <2>9, <2>10, <2>12
<1>8. QED
  BY <1>2, <1>6, <1>7

----------------------------------------------------------------------------
(* Lines.                                                                  *)

(* A set of numbers that is not empty has a first and a last one.          *)
LEMMA FirstAndLast ==
  ASSUME NEW N \in Nat, NEW S \in SUBSET (0..N), S # {}
  PROVE  /\ \E x \in S : \A y \in S : x <= y
         /\ \E x \in S : \A y \in S : y <= x
<1>1. \A T \in SUBSET Nat : T # {} => \E x \in T : \A y \in T : x <= y
  <2>1. SUFFICES ASSUME NEW T \in SUBSET Nat, T # {}
                 PROVE  \E x \in T : \A y \in T : x <= y
    OBVIOUS
  <2>2. \E x \in T : \A y \in T : ~ (<<y, x>> \in OpToRel(<, Nat))
    BY <2>1, NatLessThanWellFounded, WFMin
  <2>3. PICK x \in T : \A y \in T : ~ (<<y, x>> \in OpToRel(<, Nat))
    BY <2>2
  <2>4. ASSUME NEW y \in T
        PROVE  x <= y
    <3>1. x \in Nat /\ y \in Nat /\ <<y, x>> \in Nat \X Nat
      BY <2>1
    <3>2. ~ (y < x)
      BY <2>3, <3>1 DEF OpToRel
    <3>3. QED
      BY <3>1, <3>2
  <2>5. QED
    BY <2>4
<1>2. \E x \in S : \A y \in S : x <= y
  BY <1>1
<1>3. \E x \in S : \A y \in S : y <= x
  <2> DEFINE T == {N - x : x \in S}
  <2>1. T \in SUBSET Nat /\ T # {}
    <3>1. \A x \in S : N - x \in Nat
      OBVIOUS
    <3>2. QED
      BY <3>1
  <2>2. PICK t \in T : \A u \in T : t <= u
    BY <1>1, <2>1
  <2>3. PICK x \in S : t = N - x
    BY <2>2
  <2>4. \A y \in S : N - x <= N - y
    BY <2>2, <2>3
  <2>5. QED
    BY <2>3, <2>4
<1>4. QED
  BY <1>2, <1>3

(* The members of a finite set of numbers are its first, its second, and   *)
(* so on.                                                                  *)
LEMMA Ranks ==
  ASSUME NEW N \in Nat, NEW E \in SUBSET (1..N)
  PROVE  /\ Cardinality(E) \in Nat /\ (E # {} => Cardinality(E) >= 1)
         /\ \A e \in E : Cardinality({d \in E : d <= e}) \in 1..Cardinality(E)
         /\ \A e, f \in E :
              e < f => Cardinality({d \in E : d <= e}) < Cardinality({d \in E : d <= f})
         /\ \A n \in 1..Cardinality(E) : \E e \in E : Cardinality({d \in E : d <= e}) = n
<1> DEFINE Upto(e) == {d \in E : d <= e}
           rank(e) == Cardinality(Upto(e))
<1>0. \A x \in E : x \in Nat /\ x \in 0..N
  OBVIOUS
<1>1. IsFiniteSet(E) /\ Cardinality(E) \in Nat
  <2>1. \A s \in E : s <= N /\ s \in Nat
    OBVIOUS
  <2>2. IsFiniteSet(E)
    BY <2>1, FS_BoundedSetOfNaturals
  <2>3. QED
    BY <2>2, FS_CardinalityType
<1>2. \A T \in SUBSET E : IsFiniteSet(T) /\ Cardinality(T) \in Nat
                          /\ Cardinality(T) <= Cardinality(E)
  BY <1>1, FS_Subset, FS_CardinalityType
<1>3. \A T \in SUBSET E : T # {} => Cardinality(T) >= 1
  BY <1>2, FS_EmptySet
<1>4. ASSUME NEW e \in E
      PROVE  rank(e) \in 1..Cardinality(E)
  <2>1. Upto(e) \in SUBSET E /\ e \in Upto(e)
    OBVIOUS
  <2>2. rank(e) \in Nat /\ rank(e) <= Cardinality(E) /\ rank(e) >= 1
    BY <1>2, <1>3, <2>1
  <2>3. QED
    BY <1>1, <2>2
<1>5. ASSUME NEW e \in E, NEW f \in E, e < f
      PROVE  rank(e) < rank(f)
  <2>1. Upto(e) \in SUBSET E /\ Upto(f) \in SUBSET E /\ f \notin Upto(e) /\ f \in Upto(f)
    BY <1>5
  <2>2. Upto(e) \cup {f} \subseteq Upto(f)
    <3>1. \A d \in E : d <= e => d <= f
      BY <1>0, <1>5
    <3>2. QED
      BY <2>1, <3>1
  <2> HIDE DEF Upto
  <2>3. Cardinality(Upto(e) \cup {f}) = rank(e) + 1
    BY <1>2, <2>1, FS_AddElement
  <2>4. Cardinality(Upto(e) \cup {f}) <= rank(f)
    BY <1>2, <2>1, <2>2, FS_Subset
  <2>5. QED
    BY <1>2, <2>1, <2>3, <2>4
<1>6. ASSUME NEW n \in 1..Cardinality(E)
      PROVE  \E e \in E : rank(e) = n
  <2> DEFINE G == {e \in E : rank(e) >= n}
  <2>1. G # {}
    <3>1. E # {}
      BY <1>6, FS_EmptySet
    <3>2. E \in SUBSET (0..N)
      OBVIOUS
    <3>3. PICK e \in E : \A y \in E : y <= e
      BY <3>1, <3>2, FirstAndLast
    <3>4. Upto(e) = E
      BY <3>3
    <3>5. rank(e) >= n
      BY <1>1, <1>6, <3>4
    <3>6. QED
      BY <3>5
  <2>2. G \in SUBSET (0..N)
    <3>1. G \in SUBSET E
      OBVIOUS
    <3> HIDE DEF G
    <3>2. QED
      BY <1>0, <3>1
  <2>3. PICK e \in G : \A y \in G : e <= y
    <3> HIDE DEF G
    <3>1. QED
      BY <2>1, <2>2, FirstAndLast
  <2>4. e \in E /\ rank(e) >= n /\ e \in 1..N
    BY <2>3
  <2>5. CASE rank(e) = n
    BY <2>4, <2>5
  <2>6. CASE rank(e) # n
    <3> DEFINE B == {d \in E : d < e}
    <3>1. Upto(e) = B \cup {e} /\ e \notin B /\ B \in SUBSET E
      <4>1. \A d \in E : d <= e <=> d < e \/ d = e
        BY <1>0, <2>4
      <4>2. ~(e < e)
        BY <1>0, <2>4
      <4>3. QED
        BY <2>4, <4>1, <4>2
    <3> HIDE DEF B, Upto
    <3>2. rank(e) = Cardinality(B) + 1
      BY <1>2, <3>1, FS_AddElement
    <3>3. Cardinality(B) >= n /\ Cardinality(B) >= 1
      <4>1. Cardinality(B) \in Nat /\ rank(e) \in Nat /\ n \in Nat /\ n >= 1
        BY <1>1, <1>2, <3>1, <3>2
      <4>2. QED
        BY <2>4, <2>6, <3>2, <4>1
    <3>4. B # {} /\ B \in SUBSET (0..N)
      BY <3>1, <3>3, FS_EmptySet
    <3>5. PICK p \in B : \A y \in B : y <= p
      BY <3>4, FirstAndLast
    <3>6. p \in E /\ p < e /\ Upto(p) = B
      <4>1. p \in E /\ p < e
        BY <3>5 DEF B
      <4>2. \A d \in E : d <= p <=> d < e
        <5>1. \A d \in E : d < e => d <= p
          BY <3>5 DEF B
        <5>2. \A d \in E : d <= p => d < e
          BY <1>0, <2>4, <4>1
        <5>3. QED
          BY <5>1, <5>2
      <4>3. QED
        BY <4>1, <4>2 DEF Upto, B
    <3>7. p \in G
      BY <3>3, <3>6
    <3>8. e <= p /\ p \in Nat
      BY <2>3, <3>6, <3>7
    <3>9. QED
      BY <2>4, <3>6, <3>8
  <2>7. QED
    BY <2>5, <2>6
<1>7. E # {} => Cardinality(E) >= 1
  BY <1>3
<1>8. QED
  BY <1>1, <1>4, <1>5, <1>6, <1>7

LEMMA EndsAre ==
  ASSUME NEW seq \in Seq(Int)
  PROVE  /\ Len(seq) \in Nat /\ Ends(seq) \in SUBSET (1..Len(seq))
         /\ \A k \in 1..Len(seq) : k \in Ends(seq) <=> seq[k] \in LineEnds
         /\ \A k \in 1..Len(seq) : seq[k] \in Int
<1>1. Len(seq) \in Nat /\ DOMAIN seq = 1..Len(seq) /\ seq \in [1..Len(seq) -> Int]
  BY LenProperties
<1>2. QED
  BY <1>1 DEF Ends

LEMMA EndBeforeIs ==
  ASSUME NEW seq \in Seq(Int), NEW k \in 1..(Len(seq) + 1)
  PROVE  /\ EndBefore(seq, k) \in Nat /\ EndBefore(seq, k) < k
         /\ EndBefore(seq, k) = 0 \/ EndBefore(seq, k) \in Ends(seq)
         /\ \A d \in Ends(seq) : d < k => d <= EndBefore(seq, k)
<1> DEFINE S == {e \in Ends(seq) \cup {0} : e < k}
<1>1. Len(seq) \in Nat /\ Ends(seq) \in SUBSET (1..Len(seq)) /\ k \in Nat /\ k >= 1
  BY EndsAre
<1>2. \A x \in Ends(seq) \cup {0} : x \in 0..Len(seq)
  BY <1>1
<1>3. S \in SUBSET (0..Len(seq)) /\ 0 \in S
  <2>1. S \subseteq Ends(seq) \cup {0} /\ 0 < k
    BY <1>1
  <2>2. QED
    BY <1>2, <2>1
<1>4. PICK x \in S : \A y \in S : y <= x
  <2> HIDE DEF S
  <2>1. QED
    BY <1>1, <1>3, FirstAndLast
<1>5. \E e \in Ends(seq) \cup {0} : e < k /\ \A d \in Ends(seq) : d < k => d <= e
  BY <1>4
<1> DEFINE b == EndBefore(seq, k)
<1>6. b \in Ends(seq) \cup {0} /\ b < k /\ \A d \in Ends(seq) : d < k => d <= b
  BY <1>5 DEF EndBefore
<1> HIDE DEF b
<1>7. b \in Nat
  BY <1>1, <1>2, <1>6
<1>8. QED
  BY <1>6, <1>7 DEF b

LEMMA NthEndIs ==
  ASSUME NEW seq \in Seq(Int)
  PROVE  /\ Cardinality(Ends(seq)) \in Nat
         /\ Ends(seq) # {} => Cardinality(Ends(seq)) >= 1
         /\ \A n \in 1..Cardinality(Ends(seq)) : NthEnd(seq, n) \in Ends(seq)
         /\ \A n \in 1..(Cardinality(Ends(seq)) - 1) : NthEnd(seq, n) < NthEnd(seq, n + 1)
         /\ \A e \in Ends(seq) : \E n \in 1..Cardinality(Ends(seq)) : NthEnd(seq, n) = e
<1> DEFINE E == Ends(seq)
           C == Cardinality(E)
           rank(e) == Cardinality({d \in E : d <= e})
<1>1. Len(seq) \in Nat /\ E \in SUBSET (1..Len(seq)) /\ \A e \in E : e \in Nat
  BY EndsAre
<1>2. /\ C \in Nat /\ (E # {} => C >= 1)
      /\ \A e \in E : rank(e) \in 1..C
      /\ \A e, f \in E : e < f => rank(e) < rank(f)
      /\ \A n \in 1..C : \E e \in E : rank(e) = n
  <2> HIDE DEF E
  <2>1. QED
    BY <1>1, Ranks
<1>3. ASSUME NEW n \in 1..C
      PROVE  NthEnd(seq, n) \in E /\ rank(NthEnd(seq, n)) = n
  <2>1. \E e \in E : rank(e) = n
    BY <1>2
  <2>2. NthEnd(seq, n) = CHOOSE e \in E : rank(e) = n
    BY DEF NthEnd
  <2> HIDE DEF E, rank
  <2>3. QED
    BY <2>1, <2>2
<1> HIDE DEF E, C, rank
<1>4. \A e, f \in E : rank(e) = rank(f) => e = f
  <2>1. SUFFICES ASSUME NEW e \in E, NEW f \in E, rank(e) = rank(f)
                 PROVE  e = f
    OBVIOUS
  <2>2. rank(e) \in 1..C /\ ~(e < f) /\ ~(f < e)
    BY <1>2, <2>1
  <2>3. QED
    BY <1>1, <2>2
<1>5. ASSUME NEW n \in 1..(C - 1)
      PROVE  NthEnd(seq, n) < NthEnd(seq, n + 1)
  <2> DEFINE a == NthEnd(seq, n)
             b == NthEnd(seq, n + 1)
  <2>1. n \in 1..C /\ n + 1 \in 1..C /\ n \in Nat
    BY <1>2
  <2>2. a \in E /\ b \in E /\ rank(a) = n /\ rank(b) = n + 1
    BY <1>3, <2>1
  <2> HIDE DEF a, b
  <2>3. ~(b < a)
    <3>1. ~(rank(b) < rank(a))
      BY <2>1, <2>2
    <3>2. QED
      BY <1>2, <2>2, <3>1
  <2>4. a # b
    <3>1. n # n + 1
      BY <2>1
    <3>2. QED
      BY <2>2, <3>1
  <2>5. a < b
    BY <1>1, <2>2, <2>3, <2>4
  <2>6. QED
    BY <2>5 DEF a, b
<1>6. ASSUME NEW e \in E
      PROVE  \E n \in 1..C : NthEnd(seq, n) = e
  <2>1. rank(e) \in 1..C
    BY <1>2
  <2>2. NthEnd(seq, rank(e)) \in E /\ rank(NthEnd(seq, rank(e))) = rank(e)
    BY <1>3, <2>1
  <2>3. QED
    BY <1>4, <2>1, <2>2
<1>7. QED
  BY <1>2, <1>3, <1>5, <1>6 DEF E, C

LEMMA FunctionIsSeq ==
  ASSUME NEW S, NEW n \in Nat, NEW f \in [1..n -> S]
  PROVE  f \in Seq(S) /\ Len(f) = n
<1>1. f \in Seq(S)
  BY SeqDef
<1>2. DOMAIN f = 1..n /\ DOMAIN f = 1..Len(f) /\ Len(f) \in Nat
  BY <1>1, LenProperties
<1>3. Len(f) = n
  <2>1. \A k \in Nat : k \in 1..n <=> k \in 1..Len(f)
    BY <1>2
  <2>2. n \in 1..n \/ n = 0
    OBVIOUS
  <2>3. Len(f) \in 1..Len(f) \/ Len(f) = 0
    BY <1>2
  <2>4. n \in 1..Len(f) \/ n = 0
    BY <1>2, <2>2
  <2>5. Len(f) \in 1..n \/ Len(f) = 0
    BY <1>2, <2>3
  <2>6. n <= Len(f) /\ Len(f) <= n
    BY <1>2, <2>4, <2>5
  <2>7. QED
    BY <1>2, <2>6
<1>4. QED
  BY <1>1, <1>3

(* Consecutive bytes: those after the base-th.                             *)
Run(seq, base) == seq \in Seq(Int) /\ \A k \in 1..Len(seq) : seq[k] = base + k

LEMMA RunPart ==
  ASSUME NEW seq, NEW base \in Int, Run(seq, base), NEW a \in Nat, NEW b \in Nat,
         a <= b, b <= Len(seq)
  PROVE  /\ Run(SubSeq(seq, a + 1, b), base + a) /\ Len(SubSeq(seq, a + 1, b)) = b - a
         /\ \A k \in 1..(b - a) : SubSeq(seq, a + 1, b)[k] = seq[a + k]
<1> DEFINE part == SubSeq(seq, a + 1, b)
           first == a + 1
<1>1. seq \in Seq(Int) /\ Len(seq) \in Nat /\ \A k \in 1..Len(seq) : seq[k] = base + k
  BY EndsAre DEF Run
<1>2. \A i \in first..b : seq[i] \in Int
  BY <1>1
<1>3. first \in Int /\ b \in Int
  OBVIOUS
<1> DEFINE size == b - first + 1
<1>4. /\ part \in Seq(Int) /\ Len(part) = (IF first <= b THEN size ELSE 0)
      /\ \A i \in 1..size : part[i] = seq[first + i - 1]
  <2> HIDE DEF first
  <2>1. QED
    BY <1>2, <1>3, SubSeqProperties DEF first
<1>5. size = b - a /\ Len(part) = b - a
  BY <1>4
<1> HIDE DEF part
<1>6. ASSUME NEW k \in 1..(b - a)
      PROVE  part[k] = seq[a + k] /\ part[k] = base + a + k
  <2>1. k \in 1..size /\ first + k - 1 = a + k /\ a + k \in 1..Len(seq)
    BY <1>1, <1>5
  <2>2. part[k] = seq[a + k] /\ seq[a + k] = base + (a + k)
    BY <1>1, <1>4, <2>1
  <2>3. base + (a + k) = base + a + k
    BY <1>1
  <2>4. QED
    BY <2>2, <2>3
<1>7. QED
  BY <1>4, <1>5, <1>6 DEF Run, part

(* What is left of a read for the next one.                                *)
Keep(seq) == IF TooLong(seq) THEN <<>> ELSE Rest(seq)

(* A line: bytes that follow each other, after the from-th and no further  *)
(* than the to-th.                                                         *)
Line(seq, from, to) ==
  Len(seq) >= 1 /\ \E base \in Int : from <= base /\ Run(seq, base) /\ base + Len(seq) <= to

(* What a read is split into: lines that follow each other, which leave    *)
(* out nothing but a rest without an end of line, shorter than maxLineBytes*)
(* (lineSplitter).                                                         *)
LEMMA SplitIs ==
  ASSUME NEW seq, NEW base \in Int, Run(seq, base)
  PROVE  LET L == splitLines(seq)
             K == Keep(seq)
             done == base + Len(seq) - Len(K)
         IN  /\ L \in Seq(Seq(Int)) /\ Len(K) \in Nat /\ Len(K) <= Len(seq) /\ Len(K) < MaxLine
             /\ Run(K, done) /\ \A k \in 1..Len(K) : K[k] \notin LineEnds
             /\ \A n \in 1..Len(L) : Line(L[n], base, done)
             /\ \A n \in 1..(Len(L) - 1) : L[n][Len(L[n])] < L[n + 1][1]
             /\ \A b \in Int : base < b /\ b <= done =>
                  \E n \in 1..Len(L) : \E k \in 1..Len(L[n]) : L[n][k] = b
<1> DEFINE E == Ends(seq)
           C == Cardinality(E)
           N(n) == NthEnd(seq, n)
           B(n) == EndBefore(seq, N(n))
           e0 == EndBefore(seq, Len(seq) + 1)
           size == Len(seq)
           M == [n \in 1..C |-> SubSeq(seq, B(n) + 1, N(n))]
           R == Rest(seq)
           L == splitLines(seq)
           K == Keep(seq)
           done == base + Len(seq) - Len(K)
<1>1. /\ seq \in Seq(Int) /\ size \in Nat /\ E \in SUBSET (1..size)
      /\ \A k \in 1..size : (k \in E <=> seq[k] \in LineEnds)
      /\ \A k \in 1..size : seq[k] = base + k
      /\ \A e \in E : e \in Nat /\ e >= 1 /\ e <= size
  BY EndsAre DEF Run
<1>2. /\ C \in Nat /\ (E # {} => C >= 1)
      /\ \A n \in 1..C : N(n) \in E
      /\ \A n \in 1..(C - 1) : N(n) < N(n + 1)
      /\ \A e \in E : \E n \in 1..C : N(n) = e
  BY <1>1, NthEndIs
<1>3. /\ e0 \in Nat /\ e0 <= size /\ (e0 = 0 \/ e0 \in E)
      /\ \A d \in E : d <= e0
  <2>1. size + 1 \in 1..(Len(seq) + 1)
    BY <1>1
  <2>2. /\ e0 \in Nat /\ e0 < size + 1 /\ (e0 = 0 \/ e0 \in E)
        /\ \A d \in E : d < size + 1 => d <= e0
    BY <1>1, <2>1, EndBeforeIs
  <2> HIDE DEF e0, E
  <2>3. QED
    BY <1>1, <2>2
<1>4. ASSUME NEW n \in 1..C
      PROVE  /\ B(n) \in Nat /\ B(n) < N(n) /\ N(n) \in Nat /\ N(n) <= size /\ N(n) <= e0
             /\ B(n) = 0 \/ B(n) \in E
             /\ \A d \in E : d < N(n) => d <= B(n)
             /\ Run(M[n], base + B(n)) /\ Len(M[n]) = N(n) - B(n)
             /\ \A k \in 1..(N(n) - B(n)) : M[n][k] = base + B(n) + k
  <2> DEFINE a == B(n)
             b == N(n)
  <2>1. b \in E /\ b \in Nat /\ b >= 1 /\ b <= size /\ b <= e0
    BY <1>1, <1>2, <1>3
  <2>2. b \in 1..(Len(seq) + 1)
    <3> HIDE DEF b
    <3>1. QED
      BY <1>1, <2>1
  <2>3. /\ a \in Nat /\ a < b /\ (a = 0 \/ a \in E)
        /\ \A d \in E : d < b => d <= a
    <3> HIDE DEF b
    <3>1. /\ EndBefore(seq, b) \in Nat /\ EndBefore(seq, b) < b
          /\ (EndBefore(seq, b) = 0 \/ EndBefore(seq, b) \in E)
          /\ \A d \in E : d < b => d <= EndBefore(seq, b)
      BY <1>1, <2>2, EndBeforeIs
    <3>2. a = EndBefore(seq, b)
      BY DEF b
    <3> HIDE DEF a
    <3>3. QED
      BY <3>1, <3>2
  <2>4. M[n] = SubSeq(seq, a + 1, b)
    OBVIOUS
  <2> HIDE DEF a, b
  <2>5. /\ Run(SubSeq(seq, a + 1, b), base + a) /\ Len(SubSeq(seq, a + 1, b)) = b - a
        /\ \A k \in 1..(b - a) : SubSeq(seq, a + 1, b)[k] = seq[a + k]
    <3>1. a <= b
      BY <2>1, <2>3
    <3>2. QED
      BY <2>1, <2>3, <3>1, RunPart
  <2> HIDE DEF M
  <2>6. \A k \in 1..(b - a) : M[n][k] = base + a + k
    BY <2>4, <2>5 DEF Run
  <2>7. /\ a \in Nat /\ a < b /\ b \in Nat /\ b <= size /\ b <= e0
        /\ (a = 0 \/ a \in E)
        /\ \A d \in E : d < b => d <= a
        /\ Run(M[n], base + a) /\ Len(M[n]) = b - a
    BY <2>1, <2>3, <2>4, <2>5
  <2>8. QED
    BY <2>6, <2>7 DEF a, b
<1>5. /\ Run(R, base + e0) /\ Len(R) = size - e0
      /\ \A k \in 1..(size - e0) : R[k] = seq[e0 + k] /\ R[k] = base + e0 + k
  <2>1. R = SubSeq(seq, e0 + 1, size)
    BY DEF Rest
  <2> HIDE DEF e0, size, R
  <2>2. size <= Len(seq)
    BY <1>1 DEF size
  <2>3. /\ Run(SubSeq(seq, e0 + 1, size), base + e0)
        /\ Len(SubSeq(seq, e0 + 1, size)) = size - e0
        /\ \A k \in 1..(size - e0) : SubSeq(seq, e0 + 1, size)[k] = seq[e0 + k]
    BY <1>1, <1>3, <2>2, RunPart
  <2>4. QED
    BY <2>1, <2>3 DEF Run
<1>6. /\ M \in Seq(Seq(Int)) /\ Len(M) = C
  <2>1. M \in [1..C -> Seq(Int)]
    <3>1. \A n \in 1..C : M[n] \in Seq(Int)
      <4> HIDE DEF M, C, N, B
      <4>1. QED
        BY <1>4 DEF Run
    <3>2. QED
      BY <3>1
  <2> HIDE DEF M, C
  <2>2. QED
    BY <1>2, <2>1, FunctionIsSeq
<1>7. L = M \o (IF TooLong(seq) THEN <<R>> ELSE <<>>)
  BY DEF splitLines
<1> HIDE DEF E, C, N, B, e0, M, R, L
<1>8. MaxLine \in Nat /\ MaxLine >= 1
  BY LogAssumption
<1>9. /\ L \in Seq(Seq(Int))
      /\ Len(L) = IF TooLong(seq) THEN C + 1 ELSE C
      /\ \A n \in 1..C : L[n] = M[n]
      /\ TooLong(seq) => L[C + 1] = R
  <2>1. CASE TooLong(seq)
    <3>1. L = M \o <<R>> /\ <<R>> \in Seq(Seq(Int)) /\ Len(<<R>>) = 1 /\ <<R>>[1] = R
      BY <1>5, <1>7, <2>1 DEF Run
    <3>2. /\ M \o <<R>> \in Seq(Seq(Int)) /\ Len(M \o <<R>>) = C + 1
          /\ \A i \in 1..(C + 1) : (M \o <<R>>)[i] = IF i <= C THEN M[i] ELSE <<R>>[i - C]
      BY <1>2, <1>6, <3>1, ConcatProperties
    <3>3. \A n \in 1..C : n \in 1..(C + 1) /\ n <= C
      BY <1>2
    <3>4. C + 1 \in 1..(C + 1) /\ ~(C + 1 <= C) /\ C + 1 - C = 1
      BY <1>2
    <3>5. L[C + 1] = R
      BY <3>1, <3>2, <3>4
    <3>6. QED
      BY <2>1, <3>1, <3>2, <3>3, <3>5
  <2>2. CASE ~TooLong(seq)
    <3>1. L = M
      BY <1>6, <1>7, <2>2, ConcatEmptySeq
    <3>2. QED
      BY <1>6, <2>2, <3>1
  <2>3. QED
    BY <2>1, <2>2
<1>10. /\ TooLong(seq) => K = <<>> /\ Len(K) = 0 /\ done = base + size /\ Len(R) >= 1
       /\ ~TooLong(seq) => K = R /\ done = base + e0 /\ Len(R) < MaxLine
  <2>1. CASE TooLong(seq)
    <3>1. K = <<>> /\ Len(R) >= MaxLine
      BY <2>1 DEF Keep, TooLong, R
    <3>2. Len(K) = 0
      BY <3>1
    <3> HIDE DEF K
    <3>3. QED
      BY <1>1, <1>3, <1>5, <1>8, <2>1, <3>1, <3>2
  <2>2. CASE ~TooLong(seq)
    <3>1. K = R /\ ~(Len(R) >= MaxLine)
      BY <2>2 DEF Keep, TooLong, R
    <3> HIDE DEF K
    <3>2. QED
      BY <1>1, <1>3, <1>5, <1>8, <2>2, <3>1
  <2>3. QED
    BY <2>1, <2>2
<1> HIDE DEF K, done, size
<1>11. /\ Len(K) \in Nat /\ Len(K) <= size /\ Len(K) < MaxLine
       /\ Run(K, done) /\ \A k \in 1..Len(K) : K[k] \notin LineEnds
  <2>1. CASE TooLong(seq)
    <3>1. K = <<>> /\ Len(K) = 0 /\ 1..Len(K) = {}
      BY <1>10, <2>1
    <3>2. K \in Seq(Int)
      BY <3>1, EmptySeq
    <3>3. QED
      BY <1>1, <1>8, <3>1, <3>2 DEF Run
  <2>2. CASE ~TooLong(seq)
    <3>1. ASSUME NEW k \in 1..(size - e0)
          PROVE  R[k] \notin LineEnds
      <4>1. e0 + k \in 1..size /\ ~(e0 + k <= e0)
        BY <1>1, <1>3
      <4>2. e0 + k \notin E
        BY <1>3, <4>1
      <4>3. QED
        BY <1>1, <1>5, <4>1, <4>2
    <3>2. QED
      BY <1>1, <1>3, <1>5, <1>10, <2>2, <3>1
  <2>3. QED
    BY <2>1, <2>2
<1>12. base + e0 <= done /\ done \in Int
  BY <1>1, <1>3, <1>10
<1>13. ASSUME NEW n \in 1..Len(L)
       PROVE  Line(L[n], base, done)
  <2>1. CASE n \in 1..C
    <3>1. /\ L[n] = M[n] /\ Run(M[n], base + B(n)) /\ Len(M[n]) = N(n) - B(n)
          /\ B(n) \in Nat /\ B(n) < N(n) /\ N(n) \in Nat /\ N(n) <= e0
      BY <1>4, <1>9, <2>1
    <3> DEFINE from == B(n)
               to == N(n)
               length == Len(M[n])
    <3>2. base + from \in Int /\ base <= base + from /\ length >= 1
          /\ base + from + length <= done
      <4>1. from \in Nat /\ to \in Nat /\ from < to /\ to <= e0 /\ length = to - from
        BY <3>1
      <4>2. e0 \in Nat /\ base + e0 <= done /\ done \in Int
        BY <1>3, <1>12
      <4> HIDE DEF from, to, length, e0
      <4>3. base + from + length = base + to
        BY <4>1
      <4>4. QED
        BY <4>1, <4>2, <4>3
    <3>3. QED
      BY <3>1, <3>2 DEF Line
  <2>2. CASE n \notin 1..C
    <3>1. TooLong(seq) /\ n = C + 1 /\ L[n] = R
      BY <1>2, <1>9, <2>2
    <3>2. /\ Run(R, base + e0) /\ Len(R) >= 1 /\ base + e0 + Len(R) <= done
          /\ base + e0 \in Int /\ base <= base + e0
      BY <1>1, <1>3, <1>5, <1>10, <3>1
    <3>3. QED
      BY <3>1, <3>2 DEF Line
  <2>3. QED
    BY <2>1, <2>2
<1>14. ASSUME NEW n \in 1..(Len(L) - 1)
       PROVE  L[n][Len(L[n])] < L[n + 1][1]
  <2>1. n \in 1..C /\ n \in Nat
    BY <1>2, <1>9
  <2>2. /\ L[n] = M[n] /\ Len(M[n]) = N(n) - B(n) /\ B(n) \in Nat /\ N(n) \in Nat /\ B(n) < N(n)
        /\ N(n) <= e0 /\ N(n) \in E
        /\ \A k \in 1..(N(n) - B(n)) : M[n][k] = base + B(n) + k
    BY <1>2, <1>4, <1>9, <2>1
  <2>3. L[n][Len(L[n])] = base + N(n)
    <3>1. N(n) - B(n) \in 1..(N(n) - B(n)) /\ base + B(n) + (N(n) - B(n)) = base + N(n)
      BY <2>2
    <3>2. QED
      BY <2>2, <3>1
  <2>4. CASE n + 1 \in 1..C
    <3> DEFINE m == n + 1
    <3>1. n \in 1..(C - 1)
      BY <1>2, <2>1, <2>4
    <3>2. N(n) < N(m)
      BY <1>2, <3>1
    <3>3. m \in 1..C
      BY <2>4
    <3> HIDE DEF m
    <3>4. /\ L[m] = M[m] /\ B(m) \in Nat /\ N(m) \in Nat /\ B(m) < N(m)
          /\ \A d \in E : d < N(m) => d <= B(m)
          /\ \A k \in 1..(N(m) - B(m)) : M[m][k] = base + B(m) + k
      BY <1>4, <1>9, <3>3
    <3>5. 1 \in 1..(N(m) - B(m))
      BY <3>4
    <3>6. L[m][1] = base + B(m) + 1 /\ N(n) <= B(m)
      BY <2>2, <3>2, <3>4, <3>5
    <3>7. L[n][Len(L[n])] < L[m][1]
      BY <2>2, <2>3, <3>4, <3>6
    <3>8. QED
      BY <3>7 DEF m
  <2>5. CASE n + 1 \notin 1..C
    <3>1. TooLong(seq) /\ n + 1 = C + 1
      BY <1>2, <1>9, <2>1, <2>5
    <3>2. L[n + 1] = R
      BY <1>9, <3>1
    <3>3. 1 \in 1..(size - e0)
      BY <1>1, <1>3, <1>5, <1>10, <3>1
    <3>4. R[1] = base + e0 + 1
      BY <1>5, <3>3
    <3>5. QED
      BY <1>3, <2>2, <2>3, <3>2, <3>4
  <2>6. QED
    BY <2>4, <2>5
<1>15. ASSUME NEW b \in Int, base < b, b <= done
       PROVE  \E n \in 1..Len(L) : \E k \in 1..Len(L[n]) : L[n][k] = b
  <2> DEFINE j == b - base
  <2>1. j \in Nat /\ j >= 1 /\ b = base + j /\ j <= size
    BY <1>1, <1>3, <1>10, <1>15
  <2> HIDE DEF j
  <2>2. CASE j <= e0
    <3> DEFINE S == {d \in E : d >= j}
    <3>1. e0 \in S
      BY <1>3, <2>1, <2>2
    <3>2. S \in SUBSET (0..size)
      <4>1. S \subseteq E
        OBVIOUS
      <4>2. \A e \in E : e \in 0..size
        BY <1>1
      <4>3. QED
        BY <4>1, <4>2
    <3>3. PICK e \in S : \A d \in S : e <= d
      <4> HIDE DEF S
      <4>1. QED
        BY <1>1, <3>1, <3>2, FirstAndLast
    <3>4. e \in E /\ e >= j /\ e \in Nat
      BY <1>1, <3>3
    <3>5. PICK n \in 1..C : N(n) = e
      BY <1>2, <3>4
    <3>6. /\ L[n] = M[n] /\ Len(M[n]) = N(n) - B(n) /\ B(n) \in Nat /\ B(n) < N(n)
          /\ (B(n) = 0 \/ B(n) \in E)
          /\ \A k \in 1..(N(n) - B(n)) : M[n][k] = base + B(n) + k
      BY <1>4, <1>9
    <3>7. B(n) < j
      <4>1. CASE B(n) = 0
        BY <2>1, <4>1
      <4>2. CASE B(n) # 0
        <5>1. B(n) \in E
          BY <3>6, <4>2
        <5>2. ~(e <= B(n))
          BY <3>4, <3>5, <3>6
        <5>3. B(n) \notin S
          BY <3>3, <5>2
        <5>4. ~(B(n) >= j)
          BY <5>1, <5>3
        <5>5. QED
          BY <2>1, <3>6, <5>4
      <4>3. QED
        BY <4>1, <4>2
    <3>8. j - B(n) \in 1..(N(n) - B(n)) /\ base + B(n) + (j - B(n)) = b
      BY <2>1, <3>4, <3>5, <3>6, <3>7
    <3>9. L[n][j - B(n)] = b /\ j - B(n) \in 1..Len(L[n])
      BY <3>6, <3>8
    <3>10. n \in 1..Len(L)
      BY <1>2, <1>9
    <3>11. QED
      BY <3>9, <3>10
  <2>3. CASE ~(j <= e0)
    <3>1. TooLong(seq)
      BY <1>1, <1>3, <1>10, <1>15, <2>1, <2>3
    <3>2. L[C + 1] = R /\ C + 1 \in 1..Len(L)
      BY <1>2, <1>9, <3>1
    <3>3. j - e0 \in 1..(size - e0) /\ base + e0 + (j - e0) = b
      BY <1>1, <1>3, <2>1, <2>3
    <3>4. R[j - e0] = b /\ j - e0 \in 1..Len(R)
      BY <1>5, <3>3
    <3>5. QED
      BY <3>2, <3>4
  <2>4. QED
    BY <2>2, <2>3
<1>16. QED
  BY <1>9, <1>11, <1>13, <1>14, <1>15 DEF L, K, done, size

----------------------------------------------------------------------------
(* A follower.                                                             *)

Tails == [offset : Nat, partial : Seq(Int), info : Files \cup {NoFile}]
Streams ==
  [pc : {"none", "poll", "ask", "wait", "drain", "ended", "gone"}, backlog : {"all", "new"},
   whole : BOOLEAN, seen : Nat, fooled : BOOLEAN, cut : BOOLEAN]

TailTypes == tail \in Tails /\ stream \in Streams /\ sent \in Seq(Seq(Int))

(* The byte before the unfinished line.                                    *)
Start(t) == data[t.info].from + t.offset - Len(t.partial) - 1

(* A tail is within its file, and ends with a line that is not finished.   *)
Follows(t) ==
  /\ data[t.info].from + t.offset <= data[t.info].to + 1
  /\ Len(t.partial) <= t.offset /\ Run(t.partial, Start(t))
  /\ \A k \in 1..Len(t.partial) : t.partial[k] \notin LineEnds

InOrder(lines, b) ==
  /\ \A n \in 1..Len(lines) : Line(lines[n], 0, b)
  /\ \A n \in 1..(Len(lines) - 1) : lines[n][Len(lines[n])] < lines[n + 1][1]

(* What was sent came before the unfinished line.                          *)
TailInv ==
  /\ tail.info <= writer.file
  /\ tail.info = NoFile => sent = <<>> /\ tail.partial = <<>>
  /\ tail.info # NoFile => Follows(tail) /\ InOrder(sent, Start(tail))
  /\ stream.pc = "none" => tail = NoTail

(* Whatever the client follows: a stream that was not opened is as at the  *)
(* start, and one that took a file for another one did not see all.        *)
StreamInv ==
  /\ stream \in Streams
  /\ stream.pc = "none" => stream.whole /\ ~stream.cut /\ stream.seen = 0
  /\ ~(stream.whole /\ stream.fooled)

LEMMA TailFields ==
  ASSUME TailTypes
  PROVE  /\ tail.offset \in Nat /\ tail.partial \in Seq(Int) /\ Len(tail.partial) \in Nat
         /\ tail.info \in Files \cup {NoFile} /\ tail.info \in Nat
         /\ stream.whole \in BOOLEAN /\ stream.seen \in Nat
         /\ stream.fooled \in BOOLEAN /\ stream.cut \in BOOLEAN
         /\ Len(sent) \in Nat
BY LenProperties, Bounds DEF TailTypes, Tails, Streams, NoFile

LEMMA LineIs ==
  ASSUME NEW seq, NEW from \in Int, NEW to \in Int, Line(seq, from, to)
  PROVE  /\ seq \in Seq(Int) /\ Len(seq) \in Nat /\ Len(seq) >= 1
         /\ seq[1] \in Int /\ from < seq[1]
         /\ seq[Len(seq)] \in Int /\ seq[Len(seq)] <= to
         /\ \A k \in 1..(Len(seq) - 1) : seq[k + 1] = seq[k] + 1
<1>1. PICK base \in Int : from <= base /\ Run(seq, base) /\ base + Len(seq) <= to
  BY DEF Line
<1>2. /\ seq \in Seq(Int) /\ Len(seq) \in Nat /\ Len(seq) >= 1
      /\ \A k \in 1..Len(seq) : seq[k] = base + k
  BY <1>1, EndsAre DEF Run, Line
<1>3. 1 \in 1..Len(seq) /\ Len(seq) \in 1..Len(seq)
  BY <1>2
<1>4. seq[1] = base + 1 /\ seq[Len(seq)] = base + Len(seq)
  BY <1>2, <1>3
<1>5. ASSUME NEW k \in 1..(Len(seq) - 1)
      PROVE  seq[k + 1] = seq[k] + 1
  <2>1. k \in 1..Len(seq) /\ k + 1 \in 1..Len(seq)
    BY <1>2
  <2>2. seq[k] = base + k /\ seq[k + 1] = base + (k + 1)
    BY <1>2, <2>1
  <2>3. QED
    BY <2>2
<1>6. QED
  BY <1>1, <1>2, <1>4, <1>5

LEMMA LineLater ==
  ASSUME NEW seq, NEW a \in Int, NEW b \in Int, NEW c \in Int, NEW d \in Int,
         Line(seq, a, b), c <= a, b <= d
  PROVE  Line(seq, c, d)
<1>1. PICK base \in Int : a <= base /\ Run(seq, base) /\ base + Len(seq) <= b
  BY DEF Line
<1>2. Len(seq) \in Nat
  BY <1>1, LenProperties DEF Run
<1>3. c <= base /\ base + Len(seq) <= d
  BY <1>1, <1>2
<1>4. QED
  BY <1>1, <1>3 DEF Line

LEMMA InOrderLater ==
  ASSUME NEW lines, NEW a \in Int, NEW b \in Int, a <= b, InOrder(lines, a)
  PROVE  InOrder(lines, b)
BY LineLater DEF InOrder

(* New lines after those that were sent.                                   *)
LEMMA InOrderMore ==
  ASSUME NEW lines \in Seq(Seq(Int)), NEW more \in Seq(Seq(Int)), NEW a \in Nat, NEW b \in Nat,
         a <= b, InOrder(lines, a),
         \A n \in 1..Len(more) : Line(more[n], a, b),
         \A n \in 1..(Len(more) - 1) : more[n][Len(more[n])] < more[n + 1][1]
  PROVE  InOrder(lines \o more, b)
<1> DEFINE all == lines \o more
           N == Len(lines)
<1>1. /\ N \in Nat /\ Len(more) \in Nat /\ Len(all) = N + Len(more)
      /\ \A i \in 1..(N + Len(more)) : all[i] = IF i <= N THEN lines[i] ELSE more[i - N]
  BY LenProperties, ConcatProperties
<1> HIDE DEF all
<1>2. ASSUME NEW n \in 1..Len(all)
      PROVE  Line(all[n], 0, b)
  <2>1. CASE n <= N
    <3>1. n \in 1..N /\ all[n] = lines[n]
      BY <1>1, <2>1
    <3>2. Line(lines[n], 0, a)
      BY <3>1 DEF InOrder, N
    <3>3. QED
      BY <3>1, <3>2, LineLater
  <2>2. CASE ~(n <= N)
    <3> DEFINE i == n - N
    <3>1. i \in 1..Len(more) /\ all[n] = more[i]
      BY <1>1, <2>2
    <3> HIDE DEF i
    <3>2. Line(more[i], a, b) /\ 0 <= a
      BY <3>1
    <3>3. Line(more[i], 0, b)
      BY <3>2, LineLater
    <3>4. QED
      BY <3>1, <3>3
  <2>3. QED
    BY <2>1, <2>2
<1>3. ASSUME NEW n \in 1..(Len(all) - 1)
      PROVE  all[n][Len(all[n])] < all[n + 1][1]
  <2>1. n \in Nat /\ n >= 1 /\ n < N + Len(more) /\ n \in 1..(N + Len(more))
        /\ n + 1 \in 1..(N + Len(more))
    BY <1>1
  <2>2. CASE n < N
    <3>1. all[n] = lines[n] /\ all[n + 1] = lines[n + 1] /\ n \in 1..(N - 1)
      BY <1>1, <2>1, <2>2
    <3>2. QED
      BY <3>1 DEF InOrder, N
  <2>3. CASE n = N
    <3>1. all[n] = lines[n] /\ all[n + 1] = more[1] /\ n \in 1..N /\ 1 \in 1..Len(more)
      <4>1. n + 1 - N = 1 /\ ~(n + 1 <= N) /\ n <= N
        BY <1>1, <2>1, <2>3
      <4>2. all[n + 1] = more[n + 1 - N]
        BY <1>1, <2>1, <4>1
      <4>3. QED
        BY <1>1, <2>1, <2>3, <4>1, <4>2
    <3>2. Line(lines[n], 0, a) /\ Line(more[1], a, b)
      BY <3>1 DEF InOrder, N
    <3> DEFINE left == lines[n]
               new == more[1]
    <3>3. left[Len(left)] \in Int /\ left[Len(left)] <= a
      <4>1. 0 \in Int /\ a \in Int /\ Line(left, 0, a)
        BY <3>2
      <4> HIDE DEF left
      <4>2. QED
        BY <4>1, LineIs
    <3>4. new[1] \in Int /\ a < new[1]
      <4>1. a \in Int /\ b \in Int /\ Line(new, a, b)
        BY <3>2
      <4> HIDE DEF new
      <4>2. QED
        BY <4>1, LineIs
    <3>5. all[n] = left /\ all[n + 1] = new
      BY <3>1
    <3> HIDE DEF left, new
    <3>6. QED
      BY <3>3, <3>4, <3>5
  <2>4. CASE n > N
    <3> DEFINE i == n - N
               j == n + 1 - N
    <3>1. all[n] = more[i] /\ all[n + 1] = more[j]
      BY <1>1, <2>1, <2>4
    <3>2. i \in 1..(Len(more) - 1) /\ j = i + 1
      BY <1>1, <2>1, <2>4
    <3> HIDE DEF i, j
    <3>3. more[i][Len(more[i])] < more[j][1]
      BY <3>2
    <3>4. QED
      BY <3>1, <3>3
  <2>5. QED
    BY <1>1, <2>1, <2>2, <2>3, <2>4
<1>4. QED
  BY <1>2, <1>3 DEF InOrder, all

LEMMA StartIs ==
  ASSUME Sound, NEW t \in Tails, t.info \in Made, Follows(t)
  PROVE  /\ t.info \in Files /\ data[t.info].from \in Nat /\ data[t.info].to \in Int
         /\ t.offset \in Nat /\ t.partial \in Seq(Int) /\ Len(t.partial) \in Nat
         /\ Start(t) \in Nat /\ Start(t) <= data[t.info].to
<1>1. FileTypes /\ DataInv
  BY DEF Sound
<1>2. t.info \in Files /\ t.info \in Nat /\ t.info >= 1
  BY <1>1, Fields, Bounds DEF Made
<1>3. data[t.info].from \in Nat /\ data[t.info].to \in Int
  BY <1>1, <1>2, Fields
<1>4. data[t.info].from >= 1
  BY <1>1, <1>2, <1>3 DEF DataInv
<1>5. t.offset \in Nat /\ t.partial \in Seq(Int) /\ Len(t.partial) \in Nat
  BY LenProperties DEF Tails
<1>6. Start(t) \in Nat /\ Start(t) <= data[t.info].to
  <2> DEFINE from == data[t.info].from
             to == data[t.info].to
             part == Len(t.partial)
             offset == t.offset
             start == Start(t)
  <2>1. start = from + offset - part - 1
    BY DEF Start
  <2>2. from + offset <= to + 1 /\ part <= offset
    BY DEF Follows
  <2>3. from \in Nat /\ from >= 1 /\ to \in Int /\ offset \in Nat /\ part \in Nat
    BY <1>3, <1>4, <1>5
  <2> HIDE DEF from, to, part, offset, start
  <2>4. start \in Nat /\ start <= to
    BY <2>1, <2>2, <2>3
  <2>5. QED
    BY <2>4 DEF start, to
<1>7. QED
  BY <1>2, <1>3, <1>5, <1>6

LEMMA NoTailFollows ==
  ASSUME Sound, NEW f \in Made, NEW offset \in Nat, data[f].from + offset <= data[f].to + 1
  PROVE  LET t == [offset |-> offset, partial |-> <<>>, info |-> f]
         IN  t \in Tails /\ Follows(t)
<1> DEFINE t == [offset |-> offset, partial |-> <<>>, info |-> f]
<1>1. FileTypes /\ f \in Files
  BY Fields, Bounds DEF Sound, Made
<1>2. t.offset = offset /\ t.partial = <<>> /\ t.info = f /\ Len(t.partial) = 0
      /\ 1..Len(t.partial) = {} /\ <<>> \in Seq(Int)
  BY EmptySeq
<1>3. t \in Tails
  BY <1>1, <1>2 DEF Tails
<1> HIDE DEF t
<1>4. Run(t.partial, Start(t))
  BY <1>2 DEF Run
<1>5. Follows(t)
  BY <1>2, <1>4 DEF Follows
<1>6. QED
  BY <1>3, <1>5 DEF t

(* The follower starts over with a file of its own, and what it sent came  *)
(* before, when no other file is taken for the one it follows.             *)
LEMMA RewindIs ==
  ASSUME Sound, TailTypes, TailInv, dir[0] # NoFile,
         tail.info \in {NoFile, dir[0]} \/ ~SameFile(tail.info, dir[0])
  PROVE  LET f == dir[0]
             t == rewindIfRotated(f)
         IN  /\ f = writer.file /\ f \in Made /\ t \in Tails /\ t.info = f
             /\ Follows(t) /\ InOrder(sent, Start(t))
             /\ tail.info = f => t = tail
             /\ tail.info = NoFile /\ tail.offset = 0 => t.offset = 0 /\ t.partial = <<>>
<1> DEFINE f == dir[0]
           t == rewindIfRotated(f)
<1>1. FileTypes /\ DataInv /\ DirInv
  BY DEF Sound
<1>2. f = writer.file /\ f # NoFile /\ f # 0 /\ 0 \in Generations
  BY <1>1, Fields DEF DirInv, NoFile
<1>3. f \in Nat /\ f \in Made /\ f \in Files
  <2>1. f \in Made /\ f \in Files
    BY <1>1, <1>2, HeldInOrder
  <2>2. QED
    BY <1>1, <1>2, <2>1, Fields
<1>4. /\ data[f].from \in Nat /\ data[f].to \in Int
      /\ data[f].from <= data[f].to + 1
  BY <1>1, <1>3, Fields DEF DataInv
<1>5. /\ tail \in Tails /\ tail.offset \in Nat /\ tail.info \in Nat /\ tail.info <= f
      /\ tail.info # 0 => tail.info \in Made
  BY <1>2, <1>3, TailFields DEF TailTypes, TailInv, Made
<1>6. tail = [offset |-> tail.offset, partial |-> tail.partial, info |-> tail.info]
  BY <1>5 DEF Tails
<1> HIDE DEF f
<1>7. sent = <<>> => \A b \in Int : InOrder(sent, b)
  <2>1. sent = <<>> => Len(sent) = 0 /\ 1..Len(sent) = {} /\ 1..(Len(sent) - 1) = {}
    OBVIOUS
  <2>2. QED
    BY <2>1 DEF InOrder
<1> DEFINE other == tail.info # NoFile /\ ~SameFile(tail.info, f)
<1>0. other <=> tail.info \notin {NoFile, f}
  BY DEF SameFile, f
<1>8. CASE ~other /\ Size(f) >= tail.offset
  <2>1. t = [tail EXCEPT !.info = f]
    BY <1>8 DEF rewindIfRotated
  <2>2. CASE tail.info = f
    <3>1. t = tail
      BY <1>6, <2>1, <2>2
    <3>2. f # NoFile
      BY <1>2
    <3>3. Follows(tail) /\ InOrder(sent, Start(tail))
      BY <2>2, <3>2 DEF TailInv
    <3>4. tail.info # NoFile
      BY <2>2, <3>2
    <3> HIDE DEF t
    <3>5. QED
      BY <1>2, <1>3, <1>5, <2>2, <3>1, <3>3, <3>4 DEF f, t
  <2>3. CASE tail.info # f
    <3>1. tail.info = NoFile /\ sent = <<>> /\ tail.partial = <<>>
      BY <1>0, <1>8, <2>3 DEF TailInv
    <3>2. t = [offset |-> tail.offset, partial |-> <<>>, info |-> f]
      BY <1>5, <2>1, <3>1 DEF Tails
    <3>3. data[f].from + tail.offset <= data[f].to + 1
      BY <1>4, <1>5, <1>8 DEF Size
    <3>4. t \in Tails /\ Follows(t)
      BY <1>3, <1>5, <3>2, <3>3, NoTailFollows
    <3>5. t.info = f /\ t.offset = tail.offset /\ t.partial = <<>>
      BY <3>2
    <3> HIDE DEF t
    <3>6. Start(t) \in Int
      BY <1>3, <3>4, <3>5, StartIs
    <3>7. QED
      BY <1>2, <1>3, <1>7, <2>3, <3>1, <3>4, <3>5, <3>6 DEF f, t
  <2>4. QED
    BY <2>2, <2>3
<1>9. CASE ~(~other /\ Size(f) >= tail.offset)
  <2>1. t = [offset |-> 0, partial |-> <<>>, info |-> f]
    BY <1>9 DEF rewindIfRotated
  <2>2. data[f].from + 0 <= data[f].to + 1
    BY <1>4
  <2>3. t \in Tails /\ Follows(t) /\ t.info = f /\ t.offset = 0 /\ t.partial = <<>>
    BY <1>3, <2>1, <2>2, NoTailFollows
  <2>4. Start(t) = data[f].from - 1 /\ Start(t) \in Int
    <3>1. Len(t.partial) = 0
      BY <2>3
    <3> HIDE DEF t
    <3>2. QED
      BY <1>4, <2>3, <3>1 DEF Start
  <2>5. tail.info # f
    <3>1. SUFFICES ASSUME tail.info = f
                   PROVE  FALSE
      OBVIOUS
    <3>2. Follows(tail)
      BY <1>2, <3>1 DEF TailInv, f
    <3>3. Size(f) >= tail.offset
      BY <1>4, <1>5, <3>1, <3>2 DEF Follows, Size
    <3>4. QED
      BY <1>0, <1>9, <3>1, <3>3
  <2>6. InOrder(sent, Start(t))
    <3>1. CASE tail.info = NoFile
      BY <1>7, <2>4, <3>1 DEF TailInv
    <3>2. CASE tail.info # NoFile
      <4>1. Follows(tail) /\ InOrder(sent, Start(tail)) /\ tail.info \in Made
        BY <1>5, <3>2 DEF TailInv, NoFile
      <4>2. /\ Start(tail) \in Nat /\ Start(tail) <= data[tail.info].to
            /\ data[tail.info].to \in Int
        BY <1>5, <4>1, StartIs
      <4>3. tail.info < f
        BY <1>3, <1>5, <2>5
      <4>4. data[tail.info].to < data[f].from
        BY <1>1, <1>3, <4>1, <4>3 DEF DataInv
      <4>5. Start(tail) <= Start(t) /\ Start(tail) \in Int
        BY <1>4, <2>4, <4>2, <4>4
      <4> HIDE DEF t
      <4>6. QED
        BY <2>4, <4>1, <4>5, InOrderLater
    <3>3. QED
      BY <3>1, <3>2
  <2> HIDE DEF t
  <2>7. QED
    BY <1>2, <1>3, <2>3, <2>5, <2>6 DEF f, t
<1>10. QED
  BY <1>8, <1>9

(* One read: at most maxPollBytes of what follows.                         *)
LEMMA ChunkIs ==
  ASSUME Sound, NEW t \in Tails, t.info \in Made, Follows(t)
  PROVE  LET left == data[t.info].to + 1 - data[t.info].from - t.offset
         IN  /\ Run(Chunk(t), (data[t.info].from + t.offset) - 1)
             /\ left \in Nat /\ Len(Chunk(t)) = IF left > MaxPoll THEN MaxPoll ELSE left
<1> DEFINE first == data[t.info].from + t.offset
           last == data[t.info].to
           left == data[t.info].to + 1 - data[t.info].from - t.offset
           to == IF last - first + 1 > MaxPoll THEN first + MaxPoll - 1 ELSE last
<1>1. /\ data[t.info].from \in Nat /\ last \in Int /\ t.offset \in Nat /\ MaxPoll \in Nat
      /\ first <= last + 1
  BY StartIs, StreamAssumption DEF Follows
<1>2. /\ first \in Nat /\ left \in Nat /\ left = last - first + 1
      /\ to - first + 1 = (IF left > MaxPoll THEN MaxPoll ELSE left)
      /\ to - first + 1 \in Nat /\ to \in Int
  BY <1>1
<1>3. Chunk(t) = Bytes(first, to)
  BY DEF Chunk
<1> HIDE DEF first, to, left, last
<1> DEFINE size == to - first + 1
<1>4. Bytes(first, to) = [k \in 1..size |-> first + k - 1]
  BY DEF Bytes
<1>5. Bytes(first, to) \in [1..size -> Int]
  BY <1>2, <1>4
<1>6. Bytes(first, to) \in Seq(Int) /\ Len(Bytes(first, to)) = size
  <2> HIDE DEF size
  <2>1. size \in Nat
    BY <1>2 DEF size
  <2>2. QED
    BY <1>5, <2>1, FunctionIsSeq
<1>7. \A k \in 1..size : Bytes(first, to)[k] = (first - 1) + k
  <2>1. \A k \in 1..size : Bytes(first, to)[k] = first + k - 1
    BY <1>4
  <2>2. \A k \in 1..size : first + k - 1 = (first - 1) + k
    BY <1>2
  <2>3. QED
    BY <2>1, <2>2
<1>8. Run(Bytes(first, to), first - 1)
  BY <1>6, <1>7 DEF Run
<1>9. Run(Chunk(t), first - 1) /\ left \in Nat
      /\ Len(Chunk(t)) = IF left > MaxPoll THEN MaxPoll ELSE left
  <2>1. Len(Chunk(t)) = size
    BY <1>3, <1>6
  <2>2. QED
    BY <1>2, <1>3, <1>8, <2>1
<1>10. QED
  BY <1>9 DEF first, left

LEMMA RunJoin ==
  ASSUME NEW a, NEW b, NEW base \in Int, Run(a, base), Run(b, base + Len(a))
  PROVE  Run(a \o b, base) /\ Len(a \o b) = Len(a) + Len(b)
<1>1. /\ a \in Seq(Int) /\ b \in Seq(Int) /\ Len(a) \in Nat /\ Len(b) \in Nat
      /\ \A k \in 1..Len(a) : a[k] = base + k
      /\ \A k \in 1..Len(b) : b[k] = base + Len(a) + k
  BY LenProperties DEF Run
<1>2. /\ a \o b \in Seq(Int) /\ Len(a \o b) = Len(a) + Len(b)
      /\ \A i \in 1..(Len(a) + Len(b)) : (a \o b)[i] = IF i <= Len(a) THEN a[i] ELSE b[i - Len(a)]
  BY <1>1, ConcatProperties
<1>3. ASSUME NEW i \in 1..(Len(a) + Len(b))
      PROVE  (a \o b)[i] = base + i
  <2>1. CASE i <= Len(a)
    <3>1. i \in 1..Len(a)
      BY <1>1, <2>1
    <3>2. QED
      BY <1>1, <1>2, <2>1, <3>1
  <2>2. CASE ~(i <= Len(a))
    <3>1. i - Len(a) \in 1..Len(b) /\ base + Len(a) + (i - Len(a)) = base + i
      BY <1>1, <2>2
    <3>2. QED
      BY <1>1, <1>2, <2>2, <3>1
  <2>3. QED
    BY <2>1, <2>2
<1>4. QED
  BY <1>2, <1>3 DEF Run

Polled == {"poll", "ask", "wait", "drain", "ended"}

(* The file is the one the client follows, or it follows none.             *)
Known(f) == tail.info \in {NoFile, f}

LEMMA PumpIs ==
  ASSUME dir[0] # NoFile, NEW some, NEW none, Pump(some, none)
  PROVE  LET t == rewindIfRotated(dir[0])
             seq == t.partial \o Chunk(t)
         IN  /\ tail' = [t EXCEPT !.offset = t.offset + Len(Chunk(t)), !.partial = Keep(seq)]
             /\ sent' = sent \o splitLines(seq)
             /\ stream' = [stream EXCEPT !.pc = IF splitLines(seq) = <<>> THEN none ELSE some,
                  !.seen = IF splitLines(seq) = <<>> THEN writer.total ELSE stream.seen,
                  !.fooled = stream.fooled \/ (~Known(t.info) /\ SameFile(tail.info, t.info)),
                  !.whole = stream.whole /\ Known(t.info)
                            /\ (tail.info = NoFile => data[t.info].from = 1)]
<1> DEFINE Polls(t, chunk, seq, lines) ==
             /\ tail' = [t EXCEPT !.offset = t.offset + Len(chunk), !.partial = Keep(seq)]
             /\ sent' = sent \o lines
             /\ stream' = [stream EXCEPT !.pc = IF lines = <<>> THEN none ELSE some,
                  !.seen = IF lines = <<>> THEN writer.total ELSE stream.seen,
                  !.fooled = stream.fooled \/ (~Known(t.info) /\ SameFile(tail.info, t.info)),
                  !.whole = stream.whole /\ Known(t.info)
                            /\ (tail.info = NoFile => data[t.info].from = 1)]
           t0 == rewindIfRotated(dir[0])
<1>1. \E t \in {t0} : \E chunk \in {Chunk(t)} : \E seq \in {t.partial \o chunk} :
        \E lines \in {splitLines(seq)} : Polls(t, chunk, seq, lines)
  BY Zenon DEF Pump, Keep, Known
<1> HIDE DEF Polls, t0
<1>2. Polls(t0, Chunk(t0), t0.partial \o Chunk(t0), splitLines(t0.partial \o Chunk(t0)))
  BY <1>1
<1>3. QED
  BY <1>2 DEF Polls, t0

(* What a poll makes of the stream's own state.                            *)
LEMMA PumpStream ==
  ASSUME stream \in Streams, writer.total \in Nat, NEW some \in Polled, NEW none \in Polled,
         Pump(some, none)
  PROVE  /\ stream' \in Streams /\ stream'.cut = stream.cut /\ stream'.pc \in {some, none}
         /\ stream'.whole => stream.whole
         /\ stream.fooled => stream'.fooled
         /\ stream'.fooled => stream.fooled \/ ~stream'.whole
<1>1. CASE dir[0] = NoFile
  <2>1. stream' = [stream EXCEPT !.pc = none, !.seen = writer.total]
    BY <1>1 DEF Pump
  <2>2. QED
    BY <2>1 DEF Streams, Polled
<1>2. CASE dir[0] # NoFile
  <2> DEFINE t == rewindIfRotated(dir[0])
             lines == splitLines(t.partial \o Chunk(t))
             known == Known(t.info)
             pc == IF lines = <<>> THEN none ELSE some
             seen == IF lines = <<>> THEN writer.total ELSE stream.seen
             fooled == stream.fooled \/ (~known /\ SameFile(tail.info, t.info))
             whole == stream.whole /\ known /\ (tail.info = NoFile => data[t.info].from = 1)
  <2>1. stream' = [stream EXCEPT !.pc = pc, !.seen = seen, !.fooled = fooled, !.whole = whole]
    BY <1>2, PumpIs
  <2>2. stream.fooled \in BOOLEAN /\ stream.whole \in BOOLEAN /\ stream.seen \in Nat
    BY DEF Streams
  <2>3. /\ pc \in {some, none} /\ seen \in Nat /\ fooled \in BOOLEAN /\ whole \in BOOLEAN
        /\ whole => stream.whole /\ known
        /\ stream.fooled => fooled
        /\ fooled => stream.fooled \/ ~known
    BY <2>2
  <2> HIDE DEF t, lines, known, pc, seen, fooled, whole
  <2>4. /\ stream' \in Streams /\ stream'.cut = stream.cut /\ stream'.pc = pc
        /\ stream'.fooled = fooled /\ stream'.whole = whole
    BY <2>1, <2>3 DEF Streams, Polled
  <2>5. QED
    BY <2>3, <2>4
<1>3. QED
  BY <1>1, <1>2

(* What a poll of a file that is there does, when no other file is taken   *)
(* for it: the whole lines of what it reads are sent, and the rest is      *)
(* kept.                                                                   *)
LEMMA PollIs ==
  ASSUME Sound, TailTypes, TailInv, dir[0] # NoFile, NEW some, NEW none, Pump(some, none),
         ~stream'.fooled
  PROVE  LET f == dir[0]
             t == rewindIfRotated(f)
             seq == t.partial \o Chunk(t)
         IN  /\ f = writer.file /\ f \in Made /\ t \in Tails /\ t.info = f
             /\ Follows(t) /\ InOrder(sent, Start(t))
             /\ Run(seq, Start(t)) /\ Len(seq) = Len(t.partial) + Len(Chunk(t))
             /\ tail' \in Tails /\ tail'.info = f
             /\ tail'.offset = t.offset + Len(Chunk(t)) /\ tail'.partial = Keep(seq)
             /\ sent' = sent \o splitLines(seq)
             /\ Len(Keep(seq)) \in Nat /\ Len(Keep(seq)) <= Len(seq) /\ Len(Keep(seq)) < MaxLine
             /\ stream'.pc = (IF splitLines(seq) = <<>> THEN none ELSE some)
             /\ stream'.seen = (IF splitLines(seq) = <<>> THEN writer.total ELSE stream.seen)
             /\ tail.info \in {NoFile, f} \/ ~SameFile(tail.info, f)
<1> DEFINE f == dir[0]
           t == rewindIfRotated(f)
           chunk == Chunk(t)
           seq == t.partial \o chunk
           offset == t.offset + Len(chunk)
           kept == Keep(seq)
           pc == IF splitLines(seq) = <<>> THEN none ELSE some
           seen == IF splitLines(seq) = <<>> THEN writer.total ELSE stream.seen
<1>0. /\ stream'.pc = pc /\ stream'.seen = seen
      /\ tail.info \in {NoFile, f} \/ ~SameFile(tail.info, f)
  <2> DEFINE taken == ~Known(t.info) /\ SameFile(tail.info, t.info)
             fooled == stream.fooled \/ taken
             whole == stream.whole /\ Known(t.info) /\ (tail.info = NoFile => data[t.info].from = 1)
  <2>1. t.info = f
    BY DEF rewindIfRotated, TailTypes, Tails
  <2>2. stream' = [stream EXCEPT !.pc = pc, !.seen = seen, !.fooled = fooled, !.whole = whole]
    BY PumpIs
  <2> HIDE DEF pc, seen, fooled, whole
  <2>3. stream'.pc = pc /\ stream'.seen = seen /\ (stream'.fooled <=> fooled)
    BY <2>2 DEF TailTypes, Streams
  <2>4. ~taken
    BY <2>3 DEF fooled
  <2>5. QED
    BY <2>1, <2>3, <2>4 DEF Known
<1>1. /\ f = writer.file /\ f \in Made /\ t \in Tails /\ t.info = f
      /\ Follows(t) /\ InOrder(sent, Start(t))
  BY <1>0, RewindIs
<1>2. /\ tail' = [t EXCEPT !.offset = t.offset + Len(chunk), !.partial = kept]
      /\ sent' = sent \o splitLines(seq)
  BY PumpIs
<1> HIDE DEF f, t, chunk, seq, kept
<1>3. /\ Run(chunk, (data[t.info].from + t.offset) - 1) /\ Len(chunk) \in Nat
  <2>1. Run(Chunk(t), (data[t.info].from + t.offset) - 1)
    BY <1>1, ChunkIs
  <2>2. QED
    BY <2>1, LenProperties DEF Run, chunk
<1>4. /\ t.offset \in Nat /\ Len(t.partial) \in Nat /\ Start(t) \in Nat
      /\ data[t.info].from \in Nat
  BY <1>1, StartIs
<1>5. Run(seq, Start(t)) /\ Len(seq) = Len(t.partial) + Len(chunk)
  <2>1. Start(t) + Len(t.partial) = (data[t.info].from + t.offset) - 1 /\ Start(t) \in Int
    <3> DEFINE from == data[t.info].from
               part == Len(t.partial)
               start == Start(t)
    <3>1. start = from + t.offset - part - 1
      BY DEF Start
    <3>2. from \in Nat /\ part \in Nat /\ start \in Nat /\ t.offset \in Nat
      BY <1>4
    <3> HIDE DEF from, part, start
    <3>3. start + part = (from + t.offset) - 1 /\ start \in Int
      BY <3>1, <3>2
    <3>4. QED
      BY <3>3 DEF from, part, start
  <2>2. Run(t.partial, Start(t))
    BY <1>1 DEF Follows
  <2>3. QED
    BY <1>3, <2>1, <2>2, RunJoin DEF seq
<1>6. Len(kept) \in Nat /\ Len(kept) <= Len(seq) /\ Len(kept) < MaxLine /\ kept \in Seq(Int)
  <2>1. Start(t) \in Int
    BY <1>4
  <2>2. /\ Len(Keep(seq)) \in Nat /\ Len(Keep(seq)) <= Len(seq) /\ Len(Keep(seq)) < MaxLine
        /\ Run(Keep(seq), Start(t) + Len(seq) - Len(Keep(seq)))
    BY <1>5, <2>1, SplitIs
  <2>3. QED
    BY <2>2 DEF kept, Run
<1>7. offset \in Nat
  BY <1>3, <1>4
<1>8. tail' \in Tails /\ tail'.info = f /\ tail'.offset = offset /\ tail'.partial = kept
  <2>1. tail' = [t EXCEPT !.offset = offset, !.partial = kept]
    BY <1>2
  <2> HIDE DEF offset
  <2>2. QED
    BY <1>1, <1>6, <1>7, <2>1 DEF Tails
<1>9. QED
  BY <1>0, <1>1, <1>2, <1>5, <1>6, <1>8 DEF f, t, chunk, seq, kept

(* A poll keeps what was sent in order.                                    *)
LEMMA PumpKept ==
  ASSUME Sound, TailTypes, TailInv, stream.pc # "none",
         NEW some \in Polled, NEW none \in Polled, Pump(some, none), UNCHANGED logVars,
         ~stream'.fooled
  PROVE  TailTypes' /\ TailInv'
<1>0. FileTypes /\ FileTypes'
  BY DEF Sound, FileTypes, logVars
<1>1. UNCHANGED <<maxFiles, dir, data, writer>> /\ writer.total \in Nat /\ stream \in Streams
  BY <1>0, Fields DEF logVars, TailTypes
<1>2. stream' \in Streams /\ stream'.pc # "none" /\ LineEnds' = LineEnds
  BY <1>1, PumpStream DEF Polled, LineEnds, Capping
<1>3. CASE dir[0] = NoFile
  <2>1. UNCHANGED <<tail, sent>>
    BY <1>3 DEF Pump
  <2>2. TailTypes'
    BY <1>2, <2>1 DEF TailTypes
  <2>3. TailInv'
    BY <1>1, <1>2, <2>1 DEF TailInv, Follows, Start, InOrder
  <2>4. QED
    BY <2>2, <2>3
<1>4. CASE dir[0] # NoFile
  <2> DEFINE f == dir[0]
             t == rewindIfRotated(f)
             seq == t.partial \o Chunk(t)
             lines == splitLines(seq)
             kept == Keep(seq)
  <2>1. /\ f = writer.file /\ f \in Made /\ t \in Tails /\ t.info = f
        /\ Follows(t) /\ InOrder(sent, Start(t))
        /\ Run(seq, Start(t)) /\ Len(seq) = Len(t.partial) + Len(Chunk(t))
        /\ tail' \in Tails /\ tail'.info = f
        /\ tail'.offset = t.offset + Len(Chunk(t)) /\ tail'.partial = kept
        /\ sent' = sent \o lines
        /\ Len(kept) \in Nat /\ Len(kept) <= Len(seq)
    BY <1>4, PollIs
  <2> DEFINE left == data[t.info].to + 1 - data[t.info].from - t.offset
  <2>2. left \in Nat /\ Len(Chunk(t)) = IF left > MaxPoll THEN MaxPoll ELSE left
    BY <2>1, ChunkIs
  <2>3. /\ t.offset \in Nat /\ Len(t.partial) \in Nat /\ Start(t) \in Nat
        /\ data[f].from \in Nat /\ data[f].to \in Int
        /\ Len(t.partial) <= t.offset /\ MaxPoll \in Nat
    <3>1. Len(t.partial) <= t.offset
      BY <2>1 DEF Follows
    <3>2. QED
      BY <2>1, <3>1, StartIs, StreamAssumption
  <2>4. left = data[f].to + 1 - data[f].from - t.offset
    BY <2>1
  <2> DEFINE done == Start(t) + Len(seq) - Len(kept)
  <2>5. /\ lines \in Seq(Seq(Int)) /\ Run(kept, done) /\ \A k \in 1..Len(kept) : kept[k] \notin LineEnds
        /\ \A n \in 1..Len(lines) : Line(lines[n], Start(t), done)
        /\ \A n \in 1..(Len(lines) - 1) : lines[n][Len(lines[n])] < lines[n + 1][1]
    <3> HIDE DEF t, seq
    <3>1. Start(t) \in Int
      BY <2>3
    <3>2. QED
      BY <2>1, <3>1, SplitIs
  <2> DEFINE start == Start(t)
             offset == t.offset
             part == Len(t.partial)
             size == Len(Chunk(t))
  <2>8. f \in Files /\ f # NoFile
    BY <1>0, <1>4, <2>1, Fields, Bounds DEF Made
  <2>9. sent' \in Seq(Seq(Int))
    <3>1. sent \in Seq(Seq(Int))
      BY DEF TailTypes
    <3>2. QED
      BY <2>1, <2>5, <3>1, ConcatProperties
  <2>10. /\ start = data[f].from + offset - part - 1
         /\ Len(seq) = part + size
         /\ tail'.offset = offset + size
    BY <2>1 DEF Start
  <2>11. Start(tail)' = done
    <3>1. Start(tail)' = data[f].from + tail'.offset - Len(kept) - 1
      BY <1>1, <2>1 DEF Start
    <3> HIDE DEF f, t, seq, kept, lines, start, offset, part, size
    <3>2. done = start + Len(seq) - Len(kept)
      BY DEF start
    <3>3. start \in Nat /\ offset \in Nat /\ part \in Nat /\ size \in Nat /\ Len(kept) \in Nat
          /\ data[f].from \in Nat
      BY <2>1, <2>2, <2>3 DEF start, offset, part, size
    <3> HIDE DEF done
    <3>4. QED
      BY <2>10, <3>1, <3>2, <3>3
  <2>12. done \in Nat /\ start <= done
    <3> HIDE DEF f, t, seq, kept, lines, start
    <3>1. done = start + Len(seq) - Len(kept)
      BY DEF start
    <3>2. start \in Nat /\ Len(kept) \in Nat /\ Len(seq) \in Nat /\ Len(kept) <= Len(seq)
      <4>1. Len(seq) \in Nat
        BY <2>1, LenProperties DEF Run
      <4>2. QED
        BY <2>1, <2>3, <4>1 DEF start
    <3> HIDE DEF done
    <3>3. QED
      BY <3>1, <3>2
  <2>13. InOrder(sent', done)
    <3> HIDE DEF f, t, seq, kept, lines, done, start
    <3>1. sent \in Seq(Seq(Int)) /\ start \in Nat
      BY <2>3 DEF TailTypes, start
    <3>2. /\ InOrder(sent, start)
          /\ \A n \in 1..Len(lines) : Line(lines[n], start, done)
      BY <2>1, <2>5 DEF start
    <3>3. InOrder(sent \o lines, done)
      BY <2>5, <2>12, <3>1, <3>2, InOrderMore
    <3>4. QED
      BY <2>1, <3>3
  <2>14. Follows(tail)'
    <3>1. data[f].from + tail'.offset <= data[f].to + 1
      <4> HIDE DEF f, t, seq, kept, lines, done
      <4>1. size \in Nat /\ size <= data[f].to + 1 - data[f].from - offset
        BY <2>2, <2>3, <2>4
      <4> HIDE DEF size, offset
      <4>2. offset \in Nat /\ data[f].from \in Nat /\ data[f].to \in Int
        BY <2>3 DEF offset
      <4>3. QED
        BY <2>10, <4>1, <4>2
    <3>2. Len(kept) <= tail'.offset
      <4> HIDE DEF f, t, seq, kept, lines, done
      <4>1. size \in Nat /\ part \in Nat /\ offset \in Nat /\ part <= offset /\ Len(kept) \in Nat
            /\ Len(kept) <= Len(seq)
        BY <2>1, <2>2, <2>3
      <4> HIDE DEF size, offset, part
      <4>2. QED
        BY <2>10, <4>1
    <3> HIDE DEF f, t, seq, kept, lines, done
    <3>3. Run(tail'.partial, Start(tail)') /\ \A k \in 1..Len(tail'.partial) : tail'.partial[k] \notin LineEnds'
      BY <1>2, <2>1, <2>5, <2>11
    <3>4. QED
      BY <1>1, <2>1, <3>1, <3>2, <3>3 DEF Follows
  <2> HIDE DEF t, seq, kept, lines, done
  <2>15. TailTypes'
    BY <1>2, <2>1, <2>9 DEF TailTypes
  <2>16. TailInv'
    <3>1. tail'.info <= writer'.file
      <4>1. writer.file \in Nat /\ tail'.info = writer.file /\ writer' = writer
        BY <1>0, <1>1, <2>1, Fields
      <4>2. QED
        BY <4>1
    <3>2. InOrder(sent', Start(tail)')
      BY <2>11, <2>13
    <3>3. stream'.pc # "none" /\ tail'.info # NoFile
      BY <1>2, <2>1, <2>8
    <3>4. QED
      BY <2>14, <3>1, <3>2, <3>3 DEF TailInv, InOrder
  <2>17. QED
    BY <2>15, <2>16
<1>5. QED
  BY <1>3, <1>4

(* Files only grow, and are only added.                                    *)
LEMMA FilesGrow ==
  ASSUME Sound, LogNext
  PROVE  /\ writer'.file >= writer.file /\ writer'.total >= writer.total
         /\ \A f \in Made : data'[f].from = data[f].from /\ data'[f].to >= data[f].to
         /\ maxFiles' = maxFiles
<1>1. FileTypes /\ DataInv /\ WriterInv
  BY DEF Sound
<1>2. /\ writer.file \in Nat /\ writer.total \in Nat /\ writer.written \in Nat
      /\ writer.pending \in Nat
      /\ \A f \in Made : f \in Files /\ f <= writer.file /\ data[f].to \in Int
  BY <1>1, Fields, Bounds DEF Made
<1>3. maxFiles' = maxFiles
  BY DEF LogNext, MarkOpen, OpenStream, Register, WriteChunk, MarkCapped, RemoveOldest, Rename,
     Rotated, Close, Settle, MoveOn, PurgeLook, PurgeRemove, Write, Age
<1>4. CASE WriteChunk \/ MarkCapped
  <2>1. /\ \A f \in Files : data'[f].from = data[f].from /\ data'[f].to >= data[f].to
        /\ writer'.total >= writer.total
    BY <1>4, ChunkGrows DEF Grown
  <2>2. writer'.file = writer.file
    BY <1>1, <1>4 DEF WriteChunk, MarkCapped, FileTypes, Writers
  <2>3. QED
    BY <1>2, <1>3, <2>1, <2>2
<1>5. CASE OpenStream \/ Rotated
  <2>1. writer.file <= MaxBytes
    BY <1>1, <1>5, FilesFit, Bounds DEF OpenStream, Rotated, WriterInv, NoFile
  <2>2. Fresh = writer.file + 1
    BY <1>1, <2>1, FreshIs
  <2>3. writer'.file = Fresh /\ writer'.total = writer.total
    <3> DEFINE new == Fresh
    <3>1. \/ writer' = [writer EXCEPT !.pc = "idle", !.file = new]
          \/ writer' = [writer EXCEPT !.pc = "write", !.file = new, !.written = 0]
      BY <1>5 DEF OpenStream, Rotated
    <3> HIDE DEF new
    <3>2. writer'.file = new /\ writer'.total = writer.total
      BY <1>1, <3>1 DEF FileTypes, Writers
    <3>3. QED
      BY <3>2 DEF new
  <2>4. \E n : data' = [data EXCEPT ![Fresh] = n]
    BY <1>5 DEF OpenStream, Rotated, CreateFile
  <2>5. PICK n : data' = [data EXCEPT ![Fresh] = n]
    BY <2>4
  <2>6. ASSUME NEW f \in Made
        PROVE  data'[f] = data[f]
    <3>1. f # Fresh /\ f \in Files /\ f \in Nat
      BY <1>2, <2>2, Bounds
    <3> DEFINE new == Fresh
    <3>2. data' = [data EXCEPT ![new] = n] /\ f # new
      BY <2>5, <3>1
    <3> HIDE DEF new
    <3>3. QED
      BY <1>1, <3>1, <3>2 DEF FileTypes
  <2>7. QED
    BY <1>2, <1>3, <2>2, <2>3, <2>6
<1>6. CASE MarkOpen \/ Register \/ RemoveOldest \/ Rename \/ Close \/ Settle \/ MoveOn \/ PurgeLook
             \/ PurgeRemove \/ (\E n \in 1..MaxBytes : Write(n)) \/ \E f \in Files : Age(f)
  <2>1. data' = data
    BY <1>6 DEF MarkOpen, Register, RemoveOldest, Rename, Close, Settle, MoveOn, PurgeLook,
       PurgeRemove, Write, Age
  <2>2. writer'.file = writer.file /\ writer'.total = writer.total
    BY <1>1, <1>6 DEF MarkOpen, Register, RemoveOldest, Rename, Close, Settle, MoveOn, PurgeLook,
       PurgeRemove, Write, Age, FileTypes, Writers
  <2>3. QED
    BY <1>2, <1>3, <2>1, <2>2
<1>7. QED
  BY <1>4, <1>5, <1>6 DEF LogNext

(* A tail is as good when the files have grown.                            *)
LEMMA TailStays ==
  ASSUME Sound, TailTypes, TailInv, UNCHANGED <<tail, sent>>,
         stream' \in Streams, stream'.pc = "none" => stream.pc = "none", maxFiles' = maxFiles,
         writer'.file >= writer.file, writer'.file \in Nat,
         \A f \in Made : data'[f].from = data[f].from /\ data'[f].to >= data[f].to,
         \A f \in Files : data'[f].to \in Int
  PROVE  TailTypes' /\ TailInv'
<1>1. TailTypes'
  BY DEF TailTypes
<1>2. FileTypes
  BY DEF Sound
<1>3. tail.info \in Nat /\ tail.info <= writer.file /\ writer.file \in Nat /\ tail \in Tails
  BY <1>2, TailFields, Fields DEF TailInv, TailTypes
<1>4. tail.info <= writer'.file
  BY <1>3
<1>5. ASSUME tail.info # NoFile
      PROVE  Follows(tail)' /\ InOrder(sent, Start(tail))'
  <2>1. tail.info \in Made /\ Follows(tail) /\ InOrder(sent, Start(tail))
    BY <1>3, <1>5 DEF Made, NoFile, TailInv
  <2>2. /\ tail.info \in Files /\ data[tail.info].from \in Nat /\ data[tail.info].to \in Int
        /\ tail.offset \in Nat
    BY <1>3, <2>1, StartIs
  <2>3. data'[tail.info].from = data[tail.info].from /\ data'[tail.info].to >= data[tail.info].to
        /\ data'[tail.info].to \in Int
    BY <2>1, <2>2
  <2>4. Start(tail)' = Start(tail)
    BY <2>3 DEF Start
  <2>5. data'[tail.info].from + tail.offset <= data'[tail.info].to + 1
    BY <2>1, <2>2, <2>3 DEF Follows
  <2>6. LineEnds' = LineEnds
    BY DEF LineEnds, Capping
  <2>7. QED
    BY <2>1, <2>4, <2>5, <2>6 DEF Follows, InOrder
<1>6. QED
  BY <1>1, <1>4, <1>5 DEF TailInv, InOrder

LEMMA TailFirst ==
  ASSUME Init
  PROVE  TailTypes /\ TailInv /\ StreamInv
<1>1. tail = [offset |-> 0, partial |-> <<>>, info |-> 0] /\ sent = <<>>
      /\ stream = [pc |-> "none", backlog |-> "all", whole |-> TRUE, seen |-> 0,
                   fooled |-> FALSE, cut |-> FALSE]
      /\ writer.file = 0
  BY DEF Init, NoTail, NoFile, LogInit, NoWriter
<1>2. TailTypes
  BY <1>1, EmptySeq DEF TailTypes, Tails, Streams, NoFile
<1>3. TailInv
  BY <1>1, Bounds DEF TailInv, NoTail, NoFile
<1>4. StreamInv
  BY <1>1 DEF StreamInv, Streams
<1>5. QED
  BY <1>2, <1>3, <1>4

(* A file taken for another one is never forgotten.                        *)
LEMMA StreamStep ==
  ASSUME Sound, StreamInv, [Next]_vars
  PROVE  StreamInv' /\ (stream.fooled => stream'.fooled)
<1>1. stream \in Streams /\ writer.total \in Nat
  BY Fields DEF Sound, StreamInv
<1>2. CASE stream' = stream
  BY <1>2 DEF StreamInv
<1>3. CASE Poll \/ CloseStream
  <2>1. PICK some \in Polled, none \in Polled : Pump(some, none)
    BY <1>3 DEF Poll, CloseStream, Polled
  <2>2. /\ stream' \in Streams /\ stream'.pc # "none"
        /\ stream'.whole => stream.whole
        /\ stream.fooled => stream'.fooled
        /\ stream'.fooled => stream.fooled \/ ~stream'.whole
    BY <1>1, <2>1, PumpStream DEF Polled
  <2>3. QED
    BY <2>2 DEF StreamInv
<1>4. CASE Ask \/ Wait \/ Hangup
  <2>1. /\ stream' \in Streams /\ stream'.pc # "none"
        /\ stream'.whole = stream.whole /\ stream'.fooled = stream.fooled
    <3> DEFINE cut == attempt # "over"
    <3>1. \/ stream' = [stream EXCEPT !.pc = "drain", !.cut = cut]
          \/ \E pc \in {"wait", "poll", "gone"} : stream' = [stream EXCEPT !.pc = pc]
      BY <1>4 DEF Ask, Wait, Hangup
    <3>2. cut \in BOOLEAN
      OBVIOUS
    <3> HIDE DEF cut
    <3>3. QED
      BY <1>1, <3>1, <3>2 DEF Streams
  <2>2. QED
    BY <2>1 DEF StreamInv
<1>5. CASE \E backlog \in Backlogs : OpenTail(backlog)
  <2>1. PICK backlog \in Backlogs : OpenTail(backlog)
    BY <1>5
  <2> DEFINE all == backlog = "all"
  <2>2. /\ stream' = [stream EXCEPT !.pc = "poll", !.backlog = backlog, !.whole = all]
        /\ stream.pc = "none" /\ backlog \in {"all", "new"} /\ all \in BOOLEAN
    BY <2>1, StreamAssumption DEF OpenTail
  <2> HIDE DEF all
  <2>3. stream' \in Streams /\ stream'.pc = "poll" /\ stream'.fooled = stream.fooled
    BY <1>1, <2>2 DEF Streams
  <2>4. ~stream.fooled
    BY <1>1, <2>2 DEF StreamInv
  <2>5. QED
    BY <2>3, <2>4 DEF StreamInv
<1>6. QED
  BY <1>2, <1>3, <1>4, <1>5 DEF Next, StreamNext, vars

LEMMA TailStep ==
  ASSUME Sound, StreamInv, TailTypes, TailInv, ~stream'.fooled, [Next]_vars
  PROVE  TailTypes' /\ TailInv'
<1>0. FileTypes /\ FileTypes'
  BY SoundStep DEF Sound
<1>1. /\ stream \in Streams /\ writer.file \in Nat /\ writer'.file \in Nat
      /\ \A f \in Files : data'[f].to \in Int
      /\ \A f \in Made : data[f].to \in Int
      /\ stream' \in Streams
  <2>1. writer.file \in Nat /\ \A f \in Made : f \in Files
    BY <1>0, Fields, Bounds DEF Made
  <2>2. writer'.file \in Files \cup {0} /\ \A f \in Files : data'[f].to \in Int
    BY <1>0 DEF FileTypes, Writers, NoFile, Spans
  <2>3. stream' \in Streams
    BY StreamStep DEF StreamInv
  <2>4. QED
    BY <1>0, <2>1, <2>2, <2>3, Fields, Bounds DEF TailTypes
<1>2. CASE LogNext /\ UNCHANGED <<client, stream, tail, sent>>
  BY <1>1, <1>2, FilesGrow, TailStays
<1>3. CASE UNCHANGED <<maxFiles, writer, data, stream, tail, sent>>
  BY <1>1, <1>3, TailStays
<1>4. CASE LinesNext /\ UNCHANGED <<client, stream, tail, sent>>
  <2>1. UNCHANGED <<maxFiles, writer, data>>
    BY <1>4 DEF LinesNext, LinesBegin, Stat, ReadFile, LinesReturn
  <2>2. QED
    BY <1>3, <1>4, <2>1
<1>5. CASE StreamNext
  <2>1. CASE Poll \/ CloseStream
    <3>1. /\ UNCHANGED logVars /\ stream.pc # "none"
          /\ Pump("wait", "ask") \/ Pump("ended", "ended")
      BY <2>1 DEF Poll, CloseStream
    <3>2. "wait" \in Polled /\ "ask" \in Polled /\ "ended" \in Polled
      BY DEF Polled
    <3>3. QED
      BY <3>1, <3>2, PumpKept
  <2>2. CASE Ask \/ Wait
    <3>1. UNCHANGED <<maxFiles, writer, data, tail, sent>>
      BY <2>2 DEF Ask, Wait, logVars
    <3>2. stream'.pc # "none"
      BY <1>1, <2>2 DEF Ask, Wait, Streams
    <3>3. QED
      BY <1>1, <3>1, <3>2, TailStays
  <2>3. CASE Hangup
    <3>1. tail' = NoTail /\ sent' = <<>> /\ stream' = [stream EXCEPT !.pc = "gone"]
      BY <2>3 DEF Hangup
    <3>2. stream'.pc = "gone"
      BY <1>1, <3>1 DEF Streams
    <3>3. tail' = [offset |-> 0, partial |-> <<>>, info |-> 0]
      BY <3>1 DEF NoTail, NoFile
    <3>4. TailTypes'
      BY <1>1, <3>1, <3>3, EmptySeq DEF TailTypes, Tails, NoFile
    <3>5. TailInv'
      BY <1>1, <3>1, <3>2, <3>3 DEF TailInv, NoFile
    <3>6. QED
      BY <3>4, <3>5
  <2>4. CASE \E backlog \in Backlogs : OpenTail(backlog)
    <3>1. PICK backlog \in Backlogs : OpenTail(backlog)
      BY <2>4
    <3> DEFINE offset == IF backlog = "new" /\ dir[0] # NoFile THEN Size(dir[0]) ELSE 0
    <3>2. /\ tail' = [tail EXCEPT !.offset = offset] /\ UNCHANGED <<logVars, sent>>
          /\ stream.pc = "none" /\ stream'.pc = "poll"
      BY <1>1, <3>1 DEF OpenTail, Streams
    <3>3. tail = NoTail /\ sent = <<>> /\ tail.info = NoFile /\ tail.partial = <<>>
      BY <3>2 DEF TailInv, NoTail
    <3>4. offset \in Nat
      <4>1. CASE backlog = "new" /\ dir[0] # NoFile
        <5>1. dir[0] \in Made /\ dir[0] \in Files /\ DataInv
          BY <1>0, <4>1, Fields, HeldInOrder DEF Sound
        <5>2. data[dir[0]].from \in Nat /\ data[dir[0]].to \in Int
              /\ data[dir[0]].from <= data[dir[0]].to + 1
          BY <1>0, <5>1, Fields DEF DataInv
        <5>3. QED
          BY <4>1, <5>2 DEF Size
      <4>2. CASE ~(backlog = "new" /\ dir[0] # NoFile)
        BY <4>2
      <4>3. QED
        BY <4>1, <4>2
    <3> HIDE DEF offset
    <3>5. tail' \in Tails /\ tail'.info = NoFile /\ tail'.partial = <<>>
      BY <3>2, <3>3, <3>4 DEF TailTypes, Tails
    <3>6. TailTypes'
      BY <1>1, <3>2, <3>5 DEF TailTypes
    <3>7. TailInv'
      BY <1>1, <3>2, <3>3, <3>5 DEF TailInv, NoFile
    <3>8. QED
      BY <3>6, <3>7
  <2>5. QED
    BY <1>5, <2>1, <2>2, <2>3, <2>4 DEF StreamNext
<1>6. CASE UNCHANGED vars
  BY <1>3, <1>6 DEF vars, logVars
<1>7. QED
  BY <1>2, <1>4, <1>5, <1>6 DEF Next

LEMMA SentInOrder ==
  ASSUME Sound, TailTypes, TailInv
  PROVE  LinesAreWhole
<1>1. sent \in Seq(Seq(Int)) /\ Len(sent) \in Nat /\ DOMAIN sent = 1..Len(sent)
  BY LenProperties DEF TailTypes
<1>2. CASE tail.info = NoFile
  <2>1. sent = <<>> /\ Len(sent) = 0 /\ DOMAIN sent = {} /\ 1..(Len(sent) - 1) = {}
    BY <1>1, <1>2 DEF TailInv
  <2>2. QED
    BY <2>1 DEF LinesAreWhole
<1>3. CASE tail.info # NoFile
  <2>1. InOrder(sent, Start(tail)) /\ Follows(tail)
    BY <1>3 DEF TailInv
  <2>2. tail.info \in Made /\ tail \in Tails
    BY <1>3, TailFields, Fields DEF TailInv, Made, NoFile, TailTypes, Sound
  <2>3. Start(tail) \in Int /\ 0 \in Int
    BY <2>1, <2>2, StartIs
  <2>4. ASSUME NEW n \in 1..Len(sent)
        PROVE  \A k \in 1..(Len(sent[n]) - 1) : sent[n][k + 1] = sent[n][k] + 1
    <3> DEFINE line == sent[n]
    <3>1. Line(line, 0, Start(tail))
      BY <2>1 DEF InOrder
    <3> HIDE DEF line
    <3>2. \A k \in 1..(Len(line) - 1) : line[k + 1] = line[k] + 1
      BY <2>3, <3>1, LineIs
    <3>3. QED
      BY <3>2 DEF line
  <2>5. QED
    BY <1>1, <2>1, <2>4 DEF LinesAreWhole, InOrder
<1>4. QED
  BY <1>2, <1>3

(* A call that fails has nothing to return.                                *)
LEMMA ReadFails ==
  ASSUME ReaderTypes, ReaderInv, ReadFile, reader'.pc = "failed"
  PROVE  ReaderTypes' /\ ReaderInv'
<1>1. UNCHANGED <<dir, data, writer, attempt>> /\ reader.pc = "read" /\ reader \in Readers
  BY DEF ReadFile, ReaderTypes
<1>2. reader' = [reader EXCEPT !.pc = "failed"]
  <2> DEFINE f == dir[reader.next]
             got == (IF f = NoFile THEN <<>> ELSE <<data[f]>>) \o reader.got
             next == reader.next + 1
             pc == IF reader.next = reader.count THEN "done" ELSE "read"
  <2>1. \/ reader' = [reader EXCEPT !.pc = "failed"]
        \/ reader' = [reader EXCEPT !.got = got, !.next = next, !.pc = pc]
    BY DEF ReadFile
  <2>2. pc # "failed"
    OBVIOUS
  <2> HIDE DEF got, next, pc
  <2>3. QED
    BY <1>1, <2>1, <2>2 DEF Readers
<1>3. /\ reader' \in Readers /\ reader'.pc = "failed" /\ reader'.upto = reader.upto
      /\ reader'.overtaken = reader.overtaken
  BY <1>1, <1>2 DEF Readers
<1>4. QED
  BY <1>1, <1>3 DEF ReaderTypes, ReaderInv

LEMMA ReaderStep ==
  ASSUME Sound, ReaderTypes, ReaderInv, [Next]_vars
  PROVE  ReaderTypes' /\ ReaderInv'
<1>1. CASE LogNext
  BY <1>1, ReaderOnLog
<1>2. CASE LinesNext
  BY <1>2, BeginKept, ReadKept, ReadFails DEF LinesNext
<1>3. CASE UNCHANGED logVars
  BY <1>3 DEF logVars, ReaderTypes, ReaderInv, Last, ReadPart
<1>4. StreamNext \/ UNCHANGED vars => UNCHANGED logVars
  BY DEF StreamNext, Poll, Ask, Wait, CloseStream, Hangup, OpenTail, vars
<1>5. QED
  BY <1>1, <1>2, <1>3, <1>4 DEF Next

(* For every limit, policy and amount of output: a call of Lines that      *)
(* succeeds and that no rotation or retention overtook returns every byte  *)
(* that was stored when it began, in order, if none was removed before;    *)
(* and until a file with a freed inode is taken for the one it followed, a *)
(* client gets no line twice, none out of order and none put together from *)
(* two files (Store.Lines, rewindIfRotated, lineSplitter).                 *)
THEOREM ReadersSeeIt == Spec => []ReadersSeeTheOutput
<1> DEFINE Following == ~stream.fooled => TailTypes /\ TailInv
           Seen == Sound /\ ReaderTypes /\ ReaderInv /\ StreamInv /\ Following
<1>1. Init => Seen
  <2>1. Init => ReaderTypes /\ ReaderInv
    BY EmptySeq DEF Init, LogInit, NoReader, ReaderTypes, Readers, ReaderInv
  <2>2. QED
    BY <2>1, SoundFirst, TailFirst DEF Init
<1>2. Seen /\ [Next]_vars => Seen'
  <2>1. SUFFICES ASSUME Seen, [Next]_vars
                 PROVE  Seen'
    OBVIOUS
  <2>2. Following'
    BY <2>1, StreamStep, TailStep
  <2>3. QED
    BY <2>1, <2>2, SoundStep, ReaderStep, StreamStep
<1>3. Seen => ReadersSeeTheOutput
  BY ReaderComplete, SentInOrder DEF ReadersSeeTheOutput, NothingRepeatedOrSpliced
<1>4. QED
  BY <1>1, <1>2, <1>3, PTL DEF Spec

----------------------------------------------------------------------------
(* The end of a stream.                                                    *)

Got(lines, b) == \E n \in 1..Len(lines) : \E k \in 1..Len(lines[n]) : lines[n][k] = b

LEMMA SplitSends ==
  ASSUME NEW seq, NEW base \in Int, Run(seq, base)
  PROVE  /\ splitLines(seq) \in Seq(Seq(Int))
         /\ \A b \in Int : base < b /\ b <= base + Len(seq) - Len(Keep(seq)) =>
              Got(splitLines(seq), b)
BY SplitIs DEF Got

(* All of the output is in one file, which the client follows from its     *)
(* first byte.                                                             *)
FromFirst ==
  stream.pc # "gone" /\ stream.whole /\ ~purged /\ writer.file = 1 /\ writer.pc # "shift"

(* Such a client got all but the unfinished line up to its offset; once a  *)
(* poll found nothing it had all there was, and the last read takes it to  *)
(* the end when what was added since fits.                                 *)
EndInv ==
  /\ stream.seen <= writer.total
  /\ stream.pc \in {"drain", "ended"} => attempt = "over" \/ stream.cut
  /\ stream.pc # "gone" /\ stream.whole /\ tail.info = NoFile => tail.offset = 0
  /\ FromFirst =>
       /\ \A b \in 1..(tail.offset - Len(tail.partial)) : Got(sent, b)
       /\ stream.pc \in {"ask", "drain"} => stream.seen <= tail.offset
       /\ stream.pc = "ended" /\ ~stream.cut /\ writer.total - stream.seen <= MaxPoll =>
            tail.offset = writer.total

(* The one file is the live one, and holds it all.                         *)
LEMMA OneFile ==
  ASSUME Sound, TailTypes, TailInv, FromFirst
  PROVE  /\ dir[0] = 1 /\ dir[0] # NoFile /\ 1 \in Made /\ 1 \in Files
         /\ data[1].from = 1 /\ data[1].to = writer.total
         /\ tail.info = NoFile \/ tail.info = 1
<1>1. FileTypes /\ WriterInv /\ DataInv /\ DirInv
  BY DEF Sound
<1>2. writer.file # NoFile /\ attempt # "waiting" /\ ~purged /\ writer.file = 1
      /\ writer.pc # "shift"
  BY <1>1 DEF FromFirst, WriterInv, NoFile
<1>3. dir[0] = 1 /\ dir[0] # NoFile
  BY <1>1, <1>2 DEF DirInv
<1>4. 1 \in Made /\ 1 \in Files
  BY <1>2, Bounds DEF Made
<1>5. data[1].from = 1 /\ data[1].to = writer.total
  BY <1>1, <1>2 DEF DataInv
<1>6. tail.info \in Nat /\ tail.info <= 1
  BY <1>2, TailFields DEF TailInv
<1>7. tail.info = NoFile \/ tail.info = 1
  BY <1>6 DEF NoFile
<1>8. QED
  BY <1>3, <1>4, <1>5, <1>7

LEMMA EndOnLog ==
  ASSUME Sound, TailTypes, TailInv, EndInv, LogNext, UNCHANGED <<client, stream, tail, sent>>
  PROVE  EndInv'
<1>1. FileTypes /\ WriterInv /\ DataInv
  BY DEF Sound
<1>2. /\ writer.total \in Nat /\ writer.file \in Nat /\ writer'.total \in Nat
      /\ stream.seen \in Nat /\ writer'.total >= writer.total /\ writer'.file >= writer.file
  <2>1. FileTypes'
    <3>1. Next
      BY DEF Next
    <3>2. Sound'
      BY <3>1, SoundStep
    <3>3. QED
      BY <3>2 DEF Sound
  <2>2. writer'.total \in Nat
    BY <2>1 DEF FileTypes, Writers
  <2>3. QED
    BY <1>1, <2>2, Fields, TailFields, FilesGrow
<1>3. attempt = "over" => attempt' = "over" /\ writer' = writer
  BY <1>1 DEF LogNext, MarkOpen, OpenStream, Register, WriteChunk, MarkCapped, RemoveOldest, Rename,
     Rotated, Close, Settle, MoveOn, PurgeLook, PurgeRemove, Write, Age, WriterInv, Writing
<1>4. stream.seen <= writer'.total
  BY <1>2 DEF EndInv
<1>5. ASSUME FromFirst', ~FromFirst
      PROVE  writer.file = 0 /\ writer.total = 0 /\ attempt = "waiting"
  <2>1. ~purged
    BY <1>5 DEF FromFirst, LogNext, MarkOpen, OpenStream, Register, WriteChunk, MarkCapped,
       RemoveOldest, Rename, Rotated, Close, Settle, MoveOn, PurgeLook, PurgeRemove, Write, Age
  <2>2. writer.pc # "shift"
    <3>1. SUFFICES ASSUME writer.pc = "shift"
                   PROVE  FALSE
      OBVIOUS
    <3>2. writer.file >= 1 /\ writer.file <= MaxBytes
      BY <1>1, <3>1, FilesFit
    <3>3. CASE Rotated
      <4>1. Fresh = writer.file + 1
        BY <1>1, <3>2, FreshIs
      <4> DEFINE new == Fresh
      <4>2. writer' = [writer EXCEPT !.pc = "write", !.file = new, !.written = 0]
        BY <3>3 DEF Rotated
      <4> HIDE DEF new
      <4>3. writer'.file = new
        BY <1>1, <4>2 DEF FileTypes, Writers
      <4>4. QED
        BY <1>2, <1>5, <3>2, <4>1, <4>3 DEF FromFirst, new
    <3>4. CASE ~Rotated
      <4>1. writer'.pc = "shift"
        BY <1>1, <3>1, <3>4 DEF LogNext, MarkOpen, OpenStream, Register, WriteChunk, MarkCapped,
           RemoveOldest, Rename, Close, Settle, MoveOn, PurgeLook, PurgeRemove, Write, Age, FileTypes,
           Writers, WriterInv
      <4>2. QED
        BY <1>5, <4>1 DEF FromFirst
    <3>5. QED
      BY <3>3, <3>4
  <2>3. writer.file # 1
    BY <1>5, <2>1, <2>2 DEF FromFirst
  <2>4. writer.file = 0
    BY <1>2, <1>5, <2>3 DEF FromFirst
  <2>5. QED
    BY <1>1, <2>4 DEF WriterInv, NoFile
<1>6. ASSUME FromFirst', ~FromFirst
      PROVE  /\ tail.offset = 0 /\ tail.partial = <<>> /\ stream.seen = 0
             /\ stream.pc = "ended" => stream.cut
  <2>1. writer.file = 0 /\ writer.total = 0 /\ attempt = "waiting"
    BY <1>5, <1>6
  <2>2. tail.info = NoFile
    <3>1. tail.info \in Nat /\ tail.info <= 0
      BY <2>1, TailFields DEF TailInv
    <3>2. QED
      BY <3>1 DEF NoFile
  <2>3. tail.partial = <<>> /\ tail.offset = 0
    BY <1>6, <2>2 DEF TailInv, EndInv, FromFirst
  <2>4. stream.seen = 0
    BY <1>2, <2>1 DEF EndInv
  <2>5. QED
    BY <2>1, <2>3, <2>4 DEF EndInv
<1>7. CASE ~FromFirst' \/ FromFirst
  BY <1>2, <1>3, <1>4, <1>7 DEF EndInv, FromFirst
<1>8. CASE FromFirst' /\ ~FromFirst
  <2>1. /\ tail.offset = 0 /\ tail.partial = <<>> /\ stream.seen = 0
        /\ stream.pc = "ended" => stream.cut
        /\ stream.pc \in {"drain", "ended"} => attempt' = "over" \/ stream.cut
        /\ stream.seen <= tail.offset
    BY <1>3, <1>6, <1>8 DEF EndInv
  <2>2. Len(tail.partial) = 0 /\ 1..(tail.offset - Len(tail.partial)) = {}
    BY <2>1
  <2>3. QED
    BY <1>4, <2>1, <2>2 DEF EndInv
<1>9. QED
  BY <1>7, <1>8

(* The last part of a file that one read takes.                            *)
LEMMA EndOnPump ==
  ASSUME Sound, TailTypes, TailInv, EndInv, UNCHANGED logVars, ~stream'.fooled,
         \/ stream.pc = "poll" /\ Pump("wait", "ask")
         \/ stream.pc = "drain" /\ Pump("ended", "ended")
  PROVE  EndInv'
<1>1. FileTypes /\ WriterInv /\ DataInv
  BY DEF Sound
<1>2. /\ UNCHANGED <<writer, attempt, purged, data, dir>> /\ stream \in Streams
      /\ writer.total \in Nat /\ stream.seen \in Nat /\ MaxPoll \in Nat /\ MaxLine \in Nat
      /\ MaxLine <= MaxPoll /\ stream.seen <= writer.total
  BY <1>1, Fields, TailFields, LogAssumption, StreamAssumption DEF logVars, TailTypes, EndInv
<1>3. PICK some, none :
        /\ Pump(some, none)
        /\ \/ stream.pc = "poll" /\ some = "wait" /\ none = "ask"
           \/ stream.pc = "drain" /\ some = "ended" /\ none = "ended"
  OBVIOUS
<1>4. /\ stream.pc = "drain" => attempt = "over" \/ stream.cut
      /\ stream'.cut = stream.cut /\ (stream'.whole => stream.whole)
  BY <1>2, <1>3, PumpStream DEF EndInv, Polled
<1>5. CASE dir[0] = NoFile
  <2>1. UNCHANGED <<tail, sent>> /\ stream' = [stream EXCEPT !.pc = none, !.seen = writer.total]
    BY <1>3, <1>5 DEF Pump
  <2>2. stream'.pc = none /\ stream'.seen = writer.total
    BY <1>2, <2>1 DEF Streams
  <2>3. stream'.seen <= writer'.total
    BY <1>2, <2>2
  <2>4. ~FromFirst'
    <3>1. SUFFICES ASSUME FromFirst'
                   PROVE  FALSE
      OBVIOUS
    <3>2. FromFirst
      BY <1>2, <1>3, <1>4, <3>1 DEF FromFirst
    <3>3. QED
      BY <1>5, <3>2, OneFile
  <2>5. QED
    BY <1>2, <1>3, <1>4, <2>1, <2>2, <2>3, <2>4 DEF EndInv
<1>6. CASE dir[0] # NoFile
  <2> DEFINE f == dir[0]
             t == rewindIfRotated(f)
             chunk == Chunk(t)
             seq == t.partial \o chunk
             lines == splitLines(seq)
             kept == Keep(seq)
             pc == IF lines = <<>> THEN none ELSE some
             seen == IF lines = <<>> THEN writer.total ELSE stream.seen
  <2>1. /\ f = writer.file /\ f \in Made /\ t \in Tails /\ t.info = f
        /\ Follows(t)
        /\ Run(seq, Start(t)) /\ Len(seq) = Len(t.partial) + Len(chunk)
        /\ tail' \in Tails /\ tail'.info = f
        /\ tail'.offset = t.offset + Len(chunk) /\ tail'.partial = kept
        /\ sent' = sent \o lines
        /\ Len(kept) \in Nat /\ Len(kept) <= Len(seq) /\ Len(kept) < MaxLine
        /\ stream'.pc = pc /\ stream'.seen = seen
        /\ tail.info \in {NoFile, f} \/ ~SameFile(tail.info, f)
    BY <1>3, <1>6, PollIs
  <2>2. f \in Files /\ f # NoFile
    BY <1>1, <1>6, <2>1, Fields, Bounds DEF Made
  <2>3. stream'.pc = pc /\ stream'.seen = seen
    BY <2>1
  <2>4. seen <= writer'.total
    BY <1>2
  <2>5. pc \in {"wait", "ask", "ended"} /\ (pc = "ended" => attempt = "over" \/ stream.cut)
        /\ (pc = "ask" => lines = <<>>) /\ (pc = "ended" => stream.pc = "drain")
    BY <1>3, <1>4
  <2>6. SUFFICES ASSUME FromFirst'
                 PROVE  /\ \A b \in 1..(tail'.offset - Len(tail'.partial)) : Got(sent', b)
                        /\ pc \in {"ask", "drain"} => seen <= tail'.offset
                        /\ pc = "ended" /\ writer.total - seen <= MaxPoll =>
                             tail'.offset = writer.total
    <3> HIDE DEF f, t, chunk, seq, lines, kept, pc, seen
    <3>1. stream'.pc # "drain" /\ (stream'.pc = "ended" => attempt' = "over" \/ stream'.cut)
      BY <1>2, <1>4, <2>3, <2>5
    <3>2. tail'.info # NoFile /\ stream'.seen <= writer'.total
      BY <2>1, <2>2, <2>3, <2>4
    <3>3. QED
      BY <1>2, <2>3, <2>6, <3>1, <3>2 DEF EndInv
  <2>7. FromFirst
    <3> HIDE DEF f, t, chunk, seq, lines, kept, pc, seen
    <3>1. stream.pc # "gone"
      BY <1>3
    <3>2. stream.whole
      BY <1>4, <2>6 DEF FromFirst
    <3>3. QED
      BY <1>2, <2>6, <3>1, <3>2 DEF FromFirst
  <2>8. /\ f = 1 /\ data[f].from = 1 /\ data[f].to = writer.total
        /\ tail.info = NoFile \/ tail.info = f
    BY <2>7, OneFile
  <2>9. /\ t.offset \in Nat /\ Len(t.partial) \in Nat /\ Start(t) \in Nat
        /\ Start(t) = t.offset - Len(t.partial) /\ t.offset <= writer.total
        /\ t.offset = tail.offset
        /\ \A b \in 1..Start(t) : Got(sent, b)
        /\ stream.pc \in {"ask", "drain"} => stream.seen <= t.offset
    <3>1. t.offset \in Nat /\ Len(t.partial) \in Nat /\ Start(t) \in Nat
      BY <2>1, StartIs
    <3>2. /\ tail.info = f => t = tail
          /\ tail.info = NoFile /\ tail.offset = 0 => t.offset = 0 /\ t.partial = <<>>
      BY <1>6, <2>1, RewindIs
    <3>3. stream.pc # "gone" /\ stream.whole
      BY <2>7 DEF FromFirst
    <3>4. tail.info = NoFile => tail.offset = 0
      BY <3>3 DEF EndInv
    <3>5. /\ \A b \in 1..(tail.offset - Len(tail.partial)) : Got(sent, b)
          /\ stream.pc \in {"ask", "drain"} => stream.seen <= tail.offset
      BY <2>7 DEF EndInv
    <3>6. /\ t.offset = tail.offset
          /\ \A b \in 1..(t.offset - Len(t.partial)) : Got(sent, b)
      <4> HIDE DEF f, t
      <4>1. CASE tail.info = f
        BY <3>2, <3>5, <4>1
      <4>2. CASE tail.info = NoFile
        <5>1. t.offset = 0 /\ t.partial = <<>> /\ tail.offset = 0
          BY <3>2, <3>4, <4>2
        <5>2. Len(t.partial) = 0 /\ 1..(t.offset - Len(t.partial)) = {}
          BY <5>1
        <5>3. QED
          BY <5>1, <5>2
      <4>3. QED
        BY <2>8, <4>1, <4>2
    <3>7. Start(t) = t.offset - Len(t.partial)
      <4>1. data[t.info].from = 1
        BY <2>1, <2>8
      <4>2. Start(t) = 1 + t.offset - Len(t.partial) - 1
        BY <4>1 DEF Start
      <4> HIDE DEF t
      <4>3. QED
        BY <3>1, <4>2
    <3>8. t.offset <= writer.total
      <4>1. data[t.info].from + t.offset <= data[t.info].to + 1
        BY <2>1 DEF Follows
      <4> HIDE DEF f, t
      <4>2. 1 + t.offset <= writer.total + 1
        BY <2>1, <2>8, <4>1
      <4>3. QED
        BY <1>2, <3>1, <4>2
    <3> HIDE DEF t, f
    <3>9. QED
      BY <3>1, <3>5, <3>6, <3>7, <3>8
  <2>10. /\ Len(chunk) \in Nat
         /\ t.offset + Len(chunk) = writer.total \/ Len(chunk) = MaxPoll
         /\ writer.total - t.offset <= MaxPoll => t.offset + Len(chunk) = writer.total
    <3> DEFINE left == data[t.info].to + 1 - data[t.info].from - t.offset
    <3>1. left \in Nat /\ Len(chunk) = IF left > MaxPoll THEN MaxPoll ELSE left
      BY <2>1, ChunkIs
    <3> HIDE DEF f, t, chunk
    <3>2. left = writer.total - t.offset
      BY <1>2, <2>1, <2>8, <2>9
    <3> HIDE DEF left
    <3>3. QED
      BY <1>2, <2>9, <3>1, <3>2
  <2> DEFINE done == Start(t) + Len(seq) - Len(kept)
  <2>11. /\ lines \in Seq(Seq(Int))
         /\ \A b \in Int : Start(t) < b /\ b <= done => Got(lines, b)
    <3> HIDE DEF t, seq
    <3>1. Start(t) \in Int
      BY <2>9
    <3>2. /\ splitLines(seq) \in Seq(Seq(Int))
          /\ \A b \in Int : Start(t) < b /\ b <= Start(t) + Len(seq) - Len(Keep(seq)) =>
               Got(splitLines(seq), b)
      <4> DEFINE base == Start(t)
      <4>1. base \in Int /\ Run(seq, base)
        BY <2>1, <3>1
      <4> HIDE DEF base
      <4>2. QED
        BY <4>1, SplitSends DEF base
    <3>3. QED
      BY <3>2
  <2> DEFINE start == Start(t)
  <2>12. sent \in Seq(Seq(Int)) /\ stream.seen \in Nat
    BY TailFields DEF TailTypes
  <2>13. tail'.offset - Len(tail'.partial) = done /\ done \in Int /\ start <= done
    <3> HIDE DEF f, t, seq, kept, lines, chunk, start
    <3>1. done = start + Len(seq) - Len(kept)
      BY DEF start
    <3>2. start = t.offset - Len(t.partial)
      BY <2>9 DEF start
    <3>3. start \in Nat
      BY <2>9 DEF start
    <3> HIDE DEF done
    <3>4. QED
      BY <2>1, <2>9, <2>10, <3>1, <3>2, <3>3
  <2> HIDE DEF f, t, chunk, seq, lines, kept, done, start
  <2>14. lines = <<>> => tail'.offset = writer.total
    <3>1. SUFFICES ASSUME lines = <<>>
                   PROVE  tail'.offset = writer.total
      OBVIOUS
    <3>2. \A b \in Int : ~Got(lines, b)
      <4>1. Len(lines) = 0 /\ 1..Len(lines) = {}
        BY <3>1
      <4>2. QED
        BY <4>1 DEF Got
    <3>3. done = start
      <4>1. ~(start < done)
        BY <2>11, <2>13, <3>2 DEF start
      <4>2. QED
        BY <2>9, <2>13, <4>1 DEF start
    <3>4. Len(seq) = Len(kept)
      <4>1. done = start + Len(seq) - Len(kept) /\ start \in Nat /\ Len(seq) \in Nat
        BY <2>1, <2>9, <2>10 DEF done, start
      <4>2. QED
        BY <2>1, <3>3, <4>1
    <3>5. Len(chunk) < MaxPoll
      BY <1>2, <2>1, <2>9, <2>10, <3>4
    <3>6. QED
      BY <1>2, <2>1, <2>10, <3>5
  <2>15. ASSUME NEW b \in 1..(tail'.offset - Len(tail'.partial))
         PROVE  Got(sent', b)
    <3>1. b \in Int /\ b >= 1 /\ b <= done
      BY <2>13
    <3>2. /\ Len(sent \o lines) = Len(sent) + Len(lines) /\ Len(sent) \in Nat /\ Len(lines) \in Nat
          /\ \A i \in 1..(Len(sent) + Len(lines)) :
               (sent \o lines)[i] = IF i <= Len(sent) THEN sent[i] ELSE lines[i - Len(sent)]
      BY <2>11, <2>12, LenProperties, ConcatProperties
    <3>3. CASE b <= start
      <4>1. b \in 1..Start(t)
        BY <2>9, <3>1, <3>3 DEF start
      <4>2. PICK n \in 1..Len(sent) : \E k \in 1..Len(sent[n]) : sent[n][k] = b
        BY <2>9, <4>1 DEF Got
      <4>3. sent'[n] = sent[n] /\ n \in 1..Len(sent')
        BY <2>1, <3>2
      <4>4. QED
        BY <4>2, <4>3 DEF Got
    <3>4. CASE ~(b <= start)
      <4>1. Got(lines, b)
        BY <2>9, <2>11, <3>1, <3>4 DEF start
      <4>2. PICK n \in 1..Len(lines) : \E k \in 1..Len(lines[n]) : lines[n][k] = b
        BY <4>1 DEF Got
      <4> DEFINE m == Len(sent) + n
      <4>3. m \in 1..(Len(sent) + Len(lines)) /\ ~(m <= Len(sent)) /\ m - Len(sent) = n
        BY <3>2
      <4> HIDE DEF m
      <4>4. sent'[m] = lines[n] /\ m \in 1..Len(sent')
        BY <2>1, <3>2, <4>3
      <4>5. QED
        BY <4>2, <4>4 DEF Got
    <3>5. QED
      BY <3>3, <3>4
  <2>16. pc \in {"ask", "drain"} => seen <= tail'.offset
    <3>1. pc \in {"ask", "drain"} => lines = <<>>
      BY <2>5
    <3>2. QED
      BY <1>2, <2>14, <3>1
  <2>17. pc = "ended" /\ writer.total - seen <= MaxPoll => tail'.offset = writer.total
    <3>1. CASE lines = <<>>
      BY <2>14, <3>1
    <3>2. CASE lines # <<>>
      <4>1. SUFFICES ASSUME pc = "ended", writer.total - stream.seen <= MaxPoll
                     PROVE  tail'.offset = writer.total
        BY <3>2
      <4>2. stream.seen <= t.offset
        BY <2>5, <2>9, <4>1
      <4>3. writer.total - t.offset <= MaxPoll
        BY <1>2, <2>9, <2>12, <4>1, <4>2
      <4>4. QED
        BY <2>1, <2>10, <4>3
    <3>3. QED
      BY <3>1, <3>2
  <2>18. QED
    BY <2>15, <2>16, <2>17
<1>7. QED
  BY <1>5, <1>6

LEMMA EndStep ==
  ASSUME Sound, StreamInv, TailTypes, TailInv, EndInv, ~stream'.fooled, [Next]_vars
  PROVE  EndInv'
<1>1. /\ stream \in Streams /\ stream.seen <= writer.total /\ stream.seen \in Nat
      /\ writer.total \in Nat
  BY TailFields, Fields DEF TailTypes, EndInv, Sound
<1>2. CASE LogNext /\ UNCHANGED <<client, stream, tail, sent>>
  BY <1>2, EndOnLog
<1>3. CASE LinesNext /\ UNCHANGED <<client, stream, tail, sent>>
  <2>1. UNCHANGED <<writer, purged, attempt>>
    BY <1>3 DEF LinesNext, LinesBegin, Stat, ReadFile, LinesReturn
  <2>2. QED
    BY <1>3, <2>1 DEF EndInv, FromFirst
<1>4. CASE Poll \/ CloseStream
  BY <1>4, EndOnPump DEF Poll, CloseStream
<1>5. CASE Ask \/ Wait
  <2>1. UNCHANGED <<writer, purged, attempt, tail, sent>>
    BY <1>5 DEF Ask, Wait, logVars
  <2>2. /\ stream'.seen = stream.seen /\ stream'.whole = stream.whole
        /\ stream.pc \notin {"gone", "ended"} /\ stream'.pc \in {"wait", "poll", "drain"}
        /\ stream'.pc = "drain" => stream.pc = "ask" /\ (attempt = "over" \/ stream'.cut)
    <3> DEFINE cut == attempt # "over"
    <3>1. \/ stream.pc = "ask" /\ stream' = [stream EXCEPT !.pc = "drain", !.cut = cut]
          \/ stream.pc = "ask" /\ stream' = [stream EXCEPT !.pc = "wait"]
          \/ stream.pc = "wait" /\ stream' = [stream EXCEPT !.pc = "poll"]
      BY <1>5 DEF Ask, Wait
    <3>2. cut \/ attempt = "over"
      OBVIOUS
    <3> HIDE DEF cut
    <3>3. QED
      BY <1>1, <3>1, <3>2 DEF Streams
  <2>3. FromFirst' => FromFirst
    BY <2>1, <2>2 DEF FromFirst
  <2>4. QED
    BY <2>1, <2>2, <2>3 DEF EndInv
<1>6. CASE Hangup
  <2>1. UNCHANGED <<writer, purged, attempt>>
    BY <1>6 DEF Hangup, logVars
  <2>2. stream'.seen = stream.seen /\ stream'.pc = "gone"
    BY <1>1, <1>6 DEF Hangup, Streams
  <2>3. QED
    BY <1>1, <2>1, <2>2 DEF EndInv, FromFirst
<1>7. CASE \E backlog \in Backlogs : OpenTail(backlog)
  <2>1. PICK backlog \in Backlogs : OpenTail(backlog)
    BY <1>7
  <2> DEFINE offset == IF backlog = "new" /\ dir[0] # NoFile THEN Size(dir[0]) ELSE 0
             all == backlog = "all"
  <2>2. /\ tail' = [tail EXCEPT !.offset = offset] /\ UNCHANGED <<writer, purged, attempt, sent>>
        /\ stream' = [stream EXCEPT !.pc = "poll", !.backlog = backlog, !.whole = all]
        /\ stream.pc = "none" /\ stream.seen = 0 /\ tail \in Tails
    BY <2>1 DEF OpenTail, logVars, TailTypes, StreamInv
  <2>3. all => offset = 0
    OBVIOUS
  <2>4. tail.partial = <<>>
    BY <2>2 DEF TailInv, NoTail
  <2> HIDE DEF offset, all
  <2>5. tail'.offset = offset /\ tail'.partial = <<>>
    BY <2>2, <2>4 DEF Tails
  <2>6. stream'.pc = "poll" /\ stream'.seen = 0 /\ (stream'.whole => offset = 0)
    BY <1>1, <2>2, <2>3 DEF Streams
  <2>7. FromFirst' => 1..(tail'.offset - Len(tail'.partial)) = {}
    <3>1. SUFFICES ASSUME FromFirst'
                   PROVE  1..(tail'.offset - Len(tail'.partial)) = {}
      OBVIOUS
    <3>2. tail'.offset = 0 /\ Len(tail'.partial) = 0
      BY <2>5, <2>6, <3>1 DEF FromFirst
    <3>3. QED
      BY <3>2
  <2>8. QED
    BY <1>1, <2>2, <2>5, <2>6, <2>7 DEF EndInv
<1>8. CASE UNCHANGED vars
  BY <1>8 DEF vars, logVars, EndInv, FromFirst
<1>9. QED
  BY <1>2, <1>3, <1>4, <1>5, <1>6, <1>7, <1>8 DEF Next, StreamNext

(* The whole of the output is before the offset, and no finished line is   *)
(* in what is left.                                                        *)
LEMMA EndedIsWhole ==
  ASSUME Sound, TailTypes, TailInv, EndInv
  PROVE  EndedStreamIsWhole
<1>1. SUFFICES ASSUME stream.pc = "ended", stream.whole, ~stream.cut, ~purged, writer.file = 1,
                      writer.total - stream.seen <= MaxPoll,
                      NEW b \in 1..writer.total,
                      NEW e \in LineEnds, b <= e, e <= writer.total
               PROVE  b \in Received
  BY DEF EndedStreamIsWhole
<1>2. attempt = "over" /\ writer.pc # "shift"
  BY <1>1 DEF EndInv, Sound, WriterInv, Writing
<1>3. FromFirst
  BY <1>1, <1>2 DEF FromFirst
<1>4. /\ tail.offset = writer.total
      /\ \A i \in 1..(tail.offset - Len(tail.partial)) : Got(sent, i)
  BY <1>1, <1>3 DEF EndInv
<1>5. /\ writer.total \in Nat /\ Len(tail.partial) \in Nat /\ tail.offset \in Nat
      /\ b \in Nat /\ b >= 1 /\ e \in Int
  <2>1. e \in Int
    BY LogAssumption, Bounds DEF LineEnds, Marker
  <2>2. QED
    BY <2>1, Fields, TailFields DEF Sound
<1>6. ~(tail.offset - Len(tail.partial) < b)
  <2>1. SUFFICES ASSUME tail.offset - Len(tail.partial) < b
                 PROVE  FALSE
    OBVIOUS
  <2>2. tail.info # NoFile
    <3>1. SUFFICES ASSUME tail.info = NoFile
                   PROVE  FALSE
      OBVIOUS
    <3>2. tail.offset = 0
      BY <1>1, <3>1 DEF EndInv
    <3>3. QED
      BY <1>1, <1>4, <1>5, <3>2
  <2>3. tail.info = 1 /\ data[1].from = 1 /\ Follows(tail) /\ tail.partial \in Seq(Int)
    BY <1>3, <2>2, OneFile, TailFields DEF TailInv
  <2> DEFINE n == Len(tail.partial)
             start == tail.offset - n
             k == e - start
  <2>4. Run(tail.partial, Start(tail)) /\ \A i \in 1..n : tail.partial[i] \notin LineEnds
    BY <2>3 DEF Follows
  <2>5. Start(tail) = start
    <3>1. Start(tail) = 1 + tail.offset - n - 1
      BY <2>3 DEF Start
    <3> HIDE DEF n
    <3>2. n \in Nat
      BY <1>5 DEF n
    <3>3. QED
      BY <1>5, <3>1, <3>2
  <2>6. k \in 1..n
    BY <1>1, <1>4, <1>5, <2>1
  <2>7. tail.partial[k] = e
    <3>1. start + k = e
      BY <1>5
    <3>2. tail.partial[k] = Start(tail) + k
      <4> HIDE DEF k
      <4>1. QED
        BY <2>4, <2>6 DEF Run
    <3>3. QED
      BY <2>5, <3>1, <3>2
  <2>8. QED
    BY <1>1, <2>4, <2>6, <2>7
<1>7. PICK n \in 1..Len(sent) : \E k \in 1..Len(sent[n]) : sent[n][k] = b
  <2>1. b \in 1..(tail.offset - Len(tail.partial))
    BY <1>5, <1>6
  <2>2. QED
    BY <1>4, <2>1 DEF Got
<1>8. DOMAIN sent = 1..Len(sent) /\ sent[n] \in Seq(Int)
  <2>1. sent \in Seq(Seq(Int))
    BY DEF TailTypes
  <2>2. QED
    BY <1>7, <2>1, LenProperties
<1>9. DOMAIN sent[n] = 1..Len(sent[n])
  BY <1>8, LenProperties
<1>10. b \in {sent[n][k] : k \in DOMAIN sent[n]}
  BY <1>7, <1>9
<1>11. QED
  BY <1>7, <1>8, <1>10 DEF Received

(* For every size of a poll and of a line: a client that saw the end of a  *)
(* stream it followed from the first byte got every finished line, unless  *)
(* an error of the store ended it, or more was written since its last      *)
(* empty poll than one more poll reads (closeStream).                      *)
THEOREM EndedStreams == Spec => []EndedStreamIsWhole
<1> DEFINE Following == ~stream.fooled => TailTypes /\ TailInv /\ EndInv
           Ended == Sound /\ StreamInv /\ Following
<1>1. Init => Ended
  <2>1. SUFFICES ASSUME Init
                 PROVE  Ended
    OBVIOUS
  <2>2. Sound /\ StreamInv /\ TailTypes /\ TailInv
    BY <2>1, SoundFirst, TailFirst DEF Init
  <2>3. /\ stream = [pc |-> "none", backlog |-> "all", whole |-> TRUE, seen |-> 0,
                     fooled |-> FALSE, cut |-> FALSE]
        /\ tail = [offset |-> 0, partial |-> <<>>, info |-> 0] /\ writer.file = 0
    BY <2>1 DEF Init, NoTail, NoFile, LogInit, NoWriter
  <2>4. writer.total \in Nat
    BY <2>2, Fields DEF Sound
  <2>5. EndInv
    BY <2>3, <2>4 DEF EndInv, FromFirst
  <2>6. QED
    BY <2>2, <2>5
<1>2. Ended /\ [Next]_vars => Ended'
  <2>1. SUFFICES ASSUME Ended, [Next]_vars
                 PROVE  Ended'
    OBVIOUS
  <2>2. Following'
    BY <2>1, StreamStep, TailStep, EndStep
  <2>3. QED
    BY <2>1, <2>2, SoundStep, StreamStep
<1>3. Ended => EndedStreamIsWhole
  BY EndedIsWhole DEF StreamInv, EndedStreamIsWhole
<1>4. QED
  BY <1>1, <1>2, <1>3, PTL DEF Spec
=============================================================================
