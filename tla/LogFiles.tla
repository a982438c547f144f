------------------------------ MODULE LogFiles ------------------------------
(***************************************************************************)
(* internal/logstore: one stream of one attempt on disk.  The attempt      *)
(* writes to the live path and rotates it; retention unlinks old files;    *)
(* Lines reads all generations back.  Every system call is a step, and     *)
(* nothing but the set of open files is shared under a lock.               *)
(*                                                                         *)
(* The output of the attempt is the bytes 1, 2, 3, ...; a file is the run  *)
(* of them it holds.  Path 0 is the live file, path g its g-th rotation.   *)
(* A stream that is truncated ends with Marker bytes more: the newline     *)
(* that ends whatever was being written, and the line that tells.          *)
(***************************************************************************)
EXTENDS Integers, Sequences, FiniteSets

CONSTANTS MaxBytes,   \* bound: how much the attempt writes
          Limit,      \* max bytes per stream
          Rotations,  \* the values of MaxFiles; 0 caps the stream instead
          Newlines,   \* which bytes of the output end a line
          MaxLine     \* maxLineBytes

ASSUME LogAssumption ==
  /\ MaxBytes \in Nat /\ Limit \in Nat /\ Rotations \subseteq Nat
  /\ Newlines \subseteq 1..MaxBytes /\ MaxLine \in Nat \ {0}
  /\ \E n \in Rotations : \A m \in Rotations : m <= n

Generations == 0..(CHOOSE n \in Rotations : \A m \in Rotations : m <= n)
Files == 1..(MaxBytes + 1)   \* the files there will be, made in this order
NoFile == 0
Marker == 2

VARIABLES
  maxFiles, \* the policy of the attempt
  dir,      \* path -> the file it names, or NoFile
  data,     \* file -> [from, to, inode]: the bytes it holds, and the number by
            \* which the file system knows it
  old,      \* files last written before the retention window
  open,     \* Store.open: whether the live path is claimed
  writer,   \* StreamWriter, its rotator, and the Write under way
  reader,   \* a call of Lines
  purge,    \* one pass of Purge
  attempt,  \* the attempt: "waiting", "starting", "running" (in the supervisor's
            \* map), "left" (out of it), "retrying" (settled), "over" (settled for
            \* good, or another attempt took its place)
  purged    \* history: retention removed a file

logVars == <<maxFiles, dir, data, old, open, writer, reader, purge, attempt, purged>>

Size(f) == data[f].to - data[f].from + 1
Fresh == CHOOSE f \in Files : data[f].from = 0 /\ \A g \in Files : g < f => data[g].from # 0

(* total: what was put into the files, the output stored and the marker.   *)
NoWriter == [pc |-> "none", file |-> NoFile, written |-> 0, total |-> 0, pending |-> 0,
             gen |-> 0, capped |-> FALSE, dropped |-> FALSE]
(* upto, overtaken: history of a call of Lines; what was stored when it    *)
(* began, and whether a path changed under it.                             *)
NoReader == [pc |-> "idle", next |-> 0, count |-> 0, got |-> <<>>, upto |-> 0,
             overtaken |-> FALSE]
NoPurge == [pc |-> "idle", path |-> 0]

LogInit ==
  /\ maxFiles \in Rotations
  /\ dir = [p \in Generations |-> NoFile]
  /\ data = [f \in Files |-> [from |-> 0, to |-> -1, inode |-> 0]]
  /\ old = {} /\ open = FALSE
  /\ writer = NoWriter /\ reader = NoReader /\ purge = NoPurge
  /\ attempt = "waiting" /\ purged = FALSE

----------------------------------------------------------------------------
(* The writer.                                                             *)

(* The numbers of files that no path names any more: the file system may   *)
(* give them to the next file.                                             *)
FreedInodes ==
  {data[f].inode : f \in {g \in Files : data[g].from # 0}}
    \ {data[dir[p]].inode : p \in {q \in Generations : dir[q] # NoFile}}

CreateFile(next) ==
  /\ dir' = [dir EXCEPT ![0] = Fresh]
  /\ \E i \in {Fresh} \cup FreedInodes :
       data' = [data EXCEPT ![Fresh] = [from |-> next, to |-> next - 1, inode |-> i]]

(* openStream claims the path, then creates the file.                      *)
MarkOpen ==
  /\ attempt = "waiting" /\ writer.pc = "none"
  /\ open' = TRUE /\ writer' = [writer EXCEPT !.pc = "create"]
  /\ UNCHANGED <<maxFiles, dir, data, old, reader, purge, attempt, purged>>

OpenStream ==
  /\ writer.pc = "create"
  /\ CreateFile(1)
  /\ writer' = [writer EXCEPT !.pc = "idle", !.file = Fresh] /\ attempt' = "starting"
  /\ UNCHANGED <<maxFiles, old, open, reader, purge, purged>>

(* The attempt that was forked enters the running map.                     *)
Register ==
  /\ attempt = "starting" /\ attempt' = "running"
  /\ UNCHANGED <<maxFiles, dir, data, old, open, writer, reader, purge, purged>>

Writing == attempt \in {"starting", "running"}
Produced == writer.total + writer.pending

(* Write(p): the process wrote n bytes.                                    *)
Write(n) ==
  /\ writer.pc = "idle" /\ Writing
  /\ Produced + n <= MaxBytes
  /\ writer' = IF writer.capped THEN writer ELSE [writer EXCEPT !.pc = "write", !.pending = n]
  /\ UNCHANGED <<maxFiles, dir, data, old, open, reader, purge, attempt, purged>>

(* As much as fits; what is left over goes through roll first.             *)
WriteChunk ==
  /\ writer.pc = "write" /\ writer.written < Limit
  /\ LET room == Limit - writer.written
         size == IF writer.pending < room THEN writer.pending ELSE room
     IN  /\ data' = [data EXCEPT ![writer.file].to = @ + size]
         /\ old' = old \ {writer.file}
         /\ writer' = [writer EXCEPT !.written = @ + size, !.total = @ + size, !.pending = @ - size,
                         !.pc = IF writer.pending = size THEN "idle" ELSE "write"]
  /\ UNCHANGED <<maxFiles, dir, open, reader, purge, attempt, purged>>

(* A stream that does not rotate, or has no room at all, is truncated.     *)
Capping == maxFiles = 0 \/ Limit = 0

(* roll, without rotation: the marker is written, past the limit, and the  *)
(* rest is dropped.                                                        *)
MarkCapped ==
  /\ writer.pc = "write" /\ writer.written >= Limit /\ Capping
  /\ data' = [data EXCEPT ![writer.file].to = @ + Marker]
  /\ writer' = [writer EXCEPT !.capped = TRUE, !.total = @ + Marker, !.pending = 0, !.pc = "idle"]
  /\ old' = old \ {writer.file}
  /\ UNCHANGED <<maxFiles, dir, open, reader, purge, attempt, purged>>

Overtake == reader' = [reader EXCEPT !.overtaken = reader.pc # "idle"]

(* Nobody is told of the generation that goes.                             *)
RemoveOldest_Untold ==
  /\ writer.pc = "write" /\ writer.written >= Limit /\ ~Capping
  /\ dir' = [dir EXCEPT ![maxFiles] = NoFile]
  /\ writer' = [writer EXCEPT !.pc = "shift", !.gen = maxFiles - 1]
  /\ Overtake
  /\ UNCHANGED <<maxFiles, data, old, open, purge, attempt, purged>>

(* shift: the oldest generation goes,                                      *)
RemoveOldest ==
  /\ writer.pc = "write" /\ writer.written >= Limit /\ ~Capping
  /\ dir' = [dir EXCEPT ![maxFiles] = NoFile]
  /\ writer' = [writer EXCEPT !.pc = "shift", !.gen = maxFiles - 1,
                              !.dropped = @ \/ dir[maxFiles] # NoFile]
  /\ Overtake
  /\ UNCHANGED <<maxFiles, data, old, open, purge, attempt, purged>>

(* each other one becomes older by one, the live file last,                *)
Rename ==
  /\ writer.pc = "shift" /\ writer.gen >= 0
  /\ dir' = IF dir[writer.gen] = NoFile THEN dir
            ELSE [dir EXCEPT ![writer.gen + 1] = dir[writer.gen], ![writer.gen] = NoFile]
  /\ writer' = [writer EXCEPT !.gen = @ - 1]
  /\ Overtake
  /\ UNCHANGED <<maxFiles, data, old, open, purge, attempt, purged>>

(* and a new live file takes its place.                                    *)
Rotated ==
  /\ writer.pc = "shift" /\ writer.gen < 0
  /\ CreateFile(writer.total + 1)
  /\ writer' = [writer EXCEPT !.pc = "write", !.file = Fresh, !.written = 0]
  /\ Overtake
  /\ UNCHANGED <<maxFiles, old, open, purge, attempt, purged>>

(* The process ends, or its start is abandoned, and all it wrote was       *)
(* copied: Attempt.Close, and the attempt is in the running map no more;   *)
(* then its outcome is stored.                                             *)
Close ==
  /\ Writing /\ writer.pc = "idle"
  /\ writer' = [writer EXCEPT !.pc = "closed"] /\ open' = FALSE /\ attempt' = "left"
  /\ UNCHANGED <<maxFiles, dir, data, old, reader, purge, purged>>

Settle ==
  /\ attempt = "left" /\ attempt' \in {"retrying", "over"}
  /\ UNCHANGED <<maxFiles, dir, data, old, open, writer, reader, purge, purged>>

(* The retry is started under the next number, or will never be.           *)
MoveOn ==
  /\ attempt = "retrying" /\ attempt' = "over"
  /\ UNCHANGED <<maxFiles, dir, data, old, open, writer, reader, purge, purged>>

----------------------------------------------------------------------------
(* Retention.                                                              *)

(* A file has not been written for longer than the window.                 *)
Age(f) ==
  /\ f \notin old /\ \E p \in Generations : dir[p] = f
  /\ old' = old \cup {f}
  /\ UNCHANGED <<maxFiles, dir, data, open, writer, reader, purge, attempt, purged>>

(* Retention does not ask whether the file is being written.               *)
PurgeLook_Age ==
  /\ purge.pc = "idle"
  /\ LET f == dir[purge.path]
     IN  IF f # NoFile /\ f \in old
         THEN purge' = [purge EXCEPT !.pc = "remove"]
         ELSE purge' = [purge EXCEPT !.path = (@ + 1) % Cardinality(Generations)]
  /\ UNCHANGED <<maxFiles, dir, data, old, open, writer, reader, attempt, purged>>

(* Purge walks the paths: the age of the file, then whether the path is    *)
(* claimed; only the live path ever is.                                    *)
PurgeLook ==
  /\ purge.pc = "idle"
  /\ LET f == dir[purge.path]
     IN  IF f # NoFile /\ f \in old /\ ~(purge.path = 0 /\ open)
         THEN purge' = [purge EXCEPT !.pc = "remove"]
         ELSE purge' = [purge EXCEPT !.path = (@ + 1) % Cardinality(Generations)]
  /\ UNCHANGED <<maxFiles, dir, data, old, open, writer, reader, attempt, purged>>

(* Remove unlinks whatever the path names by then; a missing file ends the *)
(* pass.                                                                   *)
PurgeRemove ==
  /\ purge.pc = "remove"
  /\ dir' = [dir EXCEPT ![purge.path] = NoFile]
  /\ purged' = (purged \/ dir[purge.path] # NoFile)
  /\ purge' = IF dir[purge.path] = NoFile THEN NoPurge
              ELSE [pc |-> "idle", path |-> (purge.path + 1) % Cardinality(Generations)]
  /\ Overtake
  /\ UNCHANGED <<maxFiles, data, old, open, writer, attempt>>

----------------------------------------------------------------------------
(* Lines: streamFiles stats the rotations up to the first gap, then the    *)
(* files are read from the live one backwards, each put before the rest.   *)

LinesBegin ==
  /\ reader.pc = "idle" /\ attempt # "waiting"
  /\ reader' = [NoReader EXCEPT !.pc = "stat", !.next = 1, !.upto = writer.total,
                                !.overtaken = writer.pc = "shift"]
  /\ UNCHANGED <<maxFiles, dir, data, old, open, writer, purge, attempt, purged>>

(* The oldest rotation is not counted.                                     *)
Stat_StopsShort ==
  /\ reader.pc = "stat"
  /\ reader' = IF reader.next + 1 \in Generations /\ dir[reader.next + 1] # NoFile
               THEN [reader EXCEPT !.next = @ + 1]
               ELSE [reader EXCEPT !.pc = "read", !.next = 0, !.count = reader.next - 1]
  /\ UNCHANGED <<maxFiles, dir, data, old, open, writer, purge, attempt, purged>>

Stat ==
  /\ reader.pc = "stat"
  /\ reader' = IF reader.next \in Generations /\ dir[reader.next] # NoFile
               THEN [reader EXCEPT !.next = @ + 1]
               ELSE [reader EXCEPT !.pc = "read", !.next = 0, !.count = reader.next - 1]
  /\ UNCHANGED <<maxFiles, dir, data, old, open, writer, purge, attempt, purged>>

(* Which bytes of the files end a line; a stream is truncated at its       *)
(* limit.                                                                  *)
LineEnds ==
  IF Capping THEN {b \in Newlines : b <= Limit} \cup (Limit + 1)..(Limit + Marker) ELSE Newlines

(* It has a line that is too long for the scanner's buffer.                *)
Unreadable(f) ==
  \E b \in data[f].from..(data[f].to - MaxLine + 1) :
     \A c \in b..(b + MaxLine - 1) : c \notin LineEnds

(* readFileLines: a file that is gone has no lines; a file that cannot be  *)
(* scanned fails the call.                                                 *)
ReadFile ==
  /\ reader.pc = "read"
  /\ LET f == dir[reader.next]
         got == IF f = NoFile THEN <<>> ELSE <<data[f]>>
     IN  reader' = IF f # NoFile /\ Unreadable(f) THEN [reader EXCEPT !.pc = "failed"]
                   ELSE [reader EXCEPT !.got = got \o @, !.next = @ + 1,
                           !.pc = IF reader.next = reader.count THEN "done" ELSE "read"]
  /\ UNCHANGED <<maxFiles, dir, data, old, open, writer, purge, attempt, purged>>

LinesReturn ==
  /\ reader.pc \in {"done", "failed"}
  /\ reader' = NoReader
  /\ UNCHANGED <<maxFiles, dir, data, old, open, writer, purge, attempt, purged>>

LinesNext == LinesBegin \/ Stat \/ ReadFile \/ LinesReturn

LogNext ==
  \/ MarkOpen \/ OpenStream \/ Register \/ WriteChunk \/ MarkCapped
  \/ RemoveOldest \/ Rename \/ Rotated
  \/ Close \/ Settle \/ MoveOn \/ PurgeLook \/ PurgeRemove
  \/ \E n \in 1..MaxBytes : Write(n)
  \/ \E f \in Files : Age(f)

----------------------------------------------------------------------------
(* The generations a reader can find: the live file and the rotations up   *)
(* to the first gap, newest first.                                         *)
Visible == {g \in Generations : \A h \in 1..g : dir[h] # NoFile}
Held == {g \in Visible : dir[g] # NoFile}
Resting == writer.pc \in {"idle", "closed"}

(* What a file may hold beyond the limit of its stream.                    *)
Excess(f) == IF f = writer.file /\ writer.capped THEN Marker ELSE 0

(* No file outgrows the limit of its stream but by the marker, when it is  *)
(* truncated (StreamWriter.Write), and no two paths name the same file.    *)
LogTypeOK ==
  /\ dir \in [Generations -> Files \cup {NoFile}]
  /\ \A f \in Files : Size(f) \in 0..(Limit + Excess(f))
  /\ \A g, h \in Generations : dir[g] = dir[h] /\ dir[g] # NoFile => g = h
  /\ writer.pc \in {"none", "create", "idle", "write", "shift", "closed"}
  /\ attempt \in {"waiting", "starting", "running", "left", "retrying", "over"}

(* Retention never unlinks the file an attempt is writing to, however long *)
(* it has been quiet.                                                      *)
LiveFileKept == Writing /\ writer.pc # "shift" => dir[0] = writer.file

(* Output is on disk in the order it was written, oldest generation first, *)
(* whatever rotation and retention did to the files.                       *)
StoredInOrder ==
  \A g, h \in Held : g < h => data[dir[h]].to < data[dir[g]].from

(* Unless the attempt says that a rotation dropped some of it, or          *)
(* retention removed some, every byte that was stored is in a file a       *)
(* reader can find, and so is the marker that tells of the rest.           *)
NothingLostUntold ==
  Resting /\ ~writer.dropped /\ ~purged =>
    /\ UNION {data[dir[g]].from..data[dir[g]].to : g \in Held} = 1..writer.total
    /\ writer.capped <=> writer.total = Limit + Marker /\ Capping

(* The files of an attempt at every moment, part by part.                  *)
FilesInv == LogTypeOK /\ LiveFileKept /\ StoredInOrder /\ NothingLostUntold

(* A call of Lines that succeeds and that no rotation or retention         *)
(* overtook returns what it read in order, and, when nothing was removed   *)
(* before, every byte that was stored when it began.                       *)
LinesAreComplete ==
  reader.pc = "done" /\ ~reader.overtaken =>
    /\ \A i, j \in DOMAIN reader.got : i < j => reader.got[i].to < reader.got[j].from
    /\ ~purged /\ ~writer.dropped =>
         \A b \in 1..reader.upto :
           \E i \in DOMAIN reader.got : reader.got[i].from <= b /\ b <= reader.got[i].to

(* Lines reads the full history, rotations included (rewindIfRotated): no  *)
(* part of it twice.                                                       *)
LinesHaveNoRepeats ==
  reader.pc = "done" => \A i, j \in DOMAIN reader.got : i < j => reader.got[i].to < reader.got[j].from
=============================================================================
