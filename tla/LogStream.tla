------------------------------ MODULE LogStream ------------------------------
(***************************************************************************)
(* internal/logstore/tail.go and internal/api/stream.go: a client follows  *)
(* the live file of an attempt by polling it, and the stream ends once the *)
(* attempt has.                                                            *)
(***************************************************************************)
EXTENDS LogFiles

CONSTANTS MaxPoll,   \* maxPollBytes
          Backlogs   \* where streams start: "all", "new"

ASSUME StreamAssumption ==
  Backlogs \subseteq {"all", "new"} /\ MaxPoll \in Nat /\ MaxLine <= MaxPoll

VARIABLES
  client, \* what the client asks for: "lines" or "stream"
  stream, \* serveStream: its pc, where it began, and history: whether it saw all
          \* of its files from the start, what was stored at its last empty poll,
          \* whether it took a file for another one that had its inode, and
          \* whether an error of the store ended it before its attempt
  tail,   \* tailSource: offset, the partial line, the file of the last poll
  sent    \* the lines the client got, each a sequence of bytes

vars == <<logVars, client, stream, tail, sent>>

NoTail == [offset |-> 0, partial |-> <<>>, info |-> NoFile]

(* Readers change nothing another reader sees, so one client is enough.    *)
Init ==
  /\ LogInit
  /\ client \in {"lines", "stream"}
  /\ stream = [pc |-> "none", backlog |-> "all", whole |-> TRUE, seen |-> 0,
               fooled |-> FALSE, cut |-> FALSE]
  /\ sent = <<>> /\ tail = NoTail

(* Tail: startOffset looks at the live file, if there is one.              *)
OpenTail(backlog) ==
  /\ client = "stream" /\ stream.pc = "none"
  /\ stream' = [stream EXCEPT !.pc = "poll", !.backlog = backlog, !.whole = backlog = "all"]
  /\ tail' = [tail EXCEPT !.offset = IF backlog = "new" /\ dir[0] # NoFile THEN Size(dir[0]) ELSE 0]
  /\ UNCHANGED <<logVars, sent>>

(* os.SameFile compares the numbers of the files, and a number is free     *)
(* again once its file is removed.                                         *)
SameFile(f, g) == data[f].inode = data[g].inode

(* The unfinished line of the file before is kept.                         *)
rewindIfRotated_KeepsPartial(f) ==
  IF ~(tail.info # NoFile /\ ~SameFile(tail.info, f)) /\ Size(f) >= tail.offset
  THEN [tail EXCEPT !.info = f]
  ELSE [tail EXCEPT !.offset = 0, !.info = f]

(* The follower restarts at the top when the file is another one, or       *)
(* smaller than what it has read.                                          *)
rewindIfRotated(f) ==
  IF ~(tail.info # NoFile /\ ~SameFile(tail.info, f)) /\ Size(f) >= tail.offset
  THEN [tail EXCEPT !.info = f]
  ELSE [offset |-> 0, partial |-> <<>>, info |-> f]

Bytes(from, to) == [k \in 1..(to - from + 1) |-> from + k - 1]

(* split: the whole lines of data, and what is left of it; a line longer   *)
(* than MaxLine is emitted unfinished.                                     *)
Ends(seq) == {k \in DOMAIN seq : seq[k] \in LineEnds}
EndBefore(seq, k) == CHOOSE e \in Ends(seq) \cup {0} : e < k /\ \A d \in Ends(seq) : d < k => d <= e
NthEnd(seq, n) == CHOOSE e \in Ends(seq) : Cardinality({d \in Ends(seq) : d <= e}) = n
Rest(seq) == SubSeq(seq, EndBefore(seq, Len(seq) + 1) + 1, Len(seq))
TooLong(seq) == Len(Rest(seq)) >= MaxLine

splitLines(seq) ==
  [n \in 1..Cardinality(Ends(seq)) |->
     SubSeq(seq, EndBefore(seq, NthEnd(seq, n)) + 1, NthEnd(seq, n))]
    \o (IF TooLong(seq) THEN <<Rest(seq)>> ELSE <<>>)

(* One read of the live file, at most MaxPoll bytes of it.                 *)
Chunk(t) ==
  LET first == data[t.info].from + t.offset
      last == data[t.info].to
  IN  Bytes(first, IF last - first + 1 > MaxPoll THEN first + MaxPoll - 1 ELSE last)

(* pump: the stream goes on to some or to none, as it found lines or not.  *)
(* (The singletons have TLC evaluate each of their members once.)          *)
Pump(some, none) ==
  \/ /\ dir[0] = NoFile
     /\ UNCHANGED <<tail, sent>> /\ stream' = [stream EXCEPT !.pc = none, !.seen = writer.total]
  \/ /\ dir[0] # NoFile
     /\ \E t \in {rewindIfRotated(dir[0])} :
        \E chunk \in {Chunk(t)} :
        \E seq \in {t.partial \o chunk} :
        \E lines \in {splitLines(seq)} :
          LET known == tail.info \in {NoFile, t.info}
          IN  /\ tail' = [t EXCEPT !.offset = @ + Len(chunk),
                                   !.partial = IF TooLong(seq) THEN <<>> ELSE Rest(seq)]
              /\ sent' = sent \o lines
              /\ stream' = [stream EXCEPT !.pc = IF lines = <<>> THEN none ELSE some,
                   !.seen = IF lines = <<>> THEN writer.total ELSE @,
                   !.fooled = @ \/ (~known /\ SameFile(tail.info, t.info)),
                   !.whole = @ /\ known /\ (tail.info = NoFile => data[t.info].from = 1)]

(* Asks only after a poll that found something.                            *)
Poll_AsksAfterLines ==
  /\ stream.pc = "poll"
  /\ Pump("ask", "wait")
  /\ UNCHANGED logVars

(* serveStream polls; when a poll finds nothing it asks whether the        *)
(* attempt can still write.                                                *)
Poll ==
  /\ stream.pc = "poll"
  /\ Pump("wait", "ask")
  /\ UNCHANGED logVars

(* attemptLive: in the running map; or the store answers, and says that    *)
(* the execution has not ended and that no later attempt was begun.        *)
attemptLive(answered) == attempt = "running" \/ (answered /\ attempt # "over")

Ask ==
  /\ stream.pc = "ask"
  /\ \E answered \in BOOLEAN :
       stream' = IF attemptLive(answered) THEN [stream EXCEPT !.pc = "wait"]
                 ELSE [stream EXCEPT !.pc = "drain", !.cut = attempt # "over"]
  /\ UNCHANGED <<logVars, tail, sent>>

(* The next tick.                                                          *)
Wait ==
  /\ stream.pc = "wait"
  /\ stream' = [stream EXCEPT !.pc = "poll"]
  /\ UNCHANGED <<logVars, tail, sent>>

(* closeStream sends the end event without another look at the file.       *)
CloseStream_NoDrain ==
  /\ stream.pc = "drain"
  /\ stream' = [stream EXCEPT !.pc = "ended"]
  /\ UNCHANGED <<logVars, tail, sent>>

(* closeStream: one more pump, then the end event.                         *)
CloseStream ==
  /\ stream.pc = "drain"
  /\ Pump("ended", "ended")
  /\ UNCHANGED logVars

Hangup ==
  /\ stream.pc \in {"poll", "wait"}
  /\ stream' = [stream EXCEPT !.pc = "gone"]
  /\ tail' = NoTail /\ sent' = <<>>
  /\ UNCHANGED logVars

StreamNext ==
  \/ Poll \/ Ask \/ Wait \/ CloseStream \/ Hangup
  \/ \E backlog \in Backlogs : OpenTail(backlog)

Next ==
  \/ LogNext /\ UNCHANGED <<client, stream, tail, sent>>
  \/ LinesNext /\ client = "lines" /\ UNCHANGED <<client, stream, tail, sent>>
  \/ StreamNext /\ UNCHANGED client

(* The handler's goroutine runs.                                           *)
Fairness ==
  WF_vars((Poll \/ Ask \/ Wait \/ CloseStream) /\ UNCHANGED client)

Spec == Init /\ [][Next]_vars
FairSpec == Spec /\ Fairness

----------------------------------------------------------------------------
(* The client gets every line once and in order, and no line is put        *)
(* together from two files.                                                *)
LinesAreWhole ==
  /\ \A n \in DOMAIN sent : \A k \in 1..(Len(sent[n]) - 1) : sent[n][k + 1] = sent[n][k] + 1
  /\ \A n \in 1..(Len(sent) - 1) : sent[n][Len(sent[n])] < sent[n + 1][1]

(* So it is until a file is taken for another one: that takes a removal    *)
(* between two polls, and a new live file that has the removed one's       *)
(* inode.                                                                  *)
NothingRepeatedOrSpliced == ~stream.fooled => LinesAreWhole

(* What a reader gets is the output, in order: the history from Lines, and *)
(* the lines of a follower.                                                *)
ReadersSeeTheOutput == LinesAreComplete /\ NothingRepeatedOrSpliced

Received == UNION {{sent[n][k] : k \in DOMAIN sent[n]} : n \in DOMAIN sent}

(* A client that saw the end of a stream it followed from the start, with  *)
(* no rotation and no retention in the way, got every finished line, if    *)
(* what was written since the poll that found nothing fits in one more     *)
(* (closeStream), and it was not an error of the store that ended it.      *)
EndedStreamIsWhole ==
  stream.pc = "ended" /\ stream.whole /\ ~stream.cut /\ ~purged /\ writer.file = 1
    /\ writer.total - stream.seen <= MaxPoll =>
    \A b \in 1..writer.total : (\E e \in LineEnds : b <= e /\ e <= writer.total) => b \in Received

(* A stream ends once its attempt's execution has, or another attempt of   *)
(* it began.                                                               *)
StreamEnds == attempt = "over" /\ stream.pc \in {"poll", "ask", "wait", "drain"}
                ~> stream.pc \in {"ended", "gone"}

(* A stream ends when its attempt has finished (docs/api.md).              *)
FinishedStreamEnds ==
  attempt = "retrying" /\ stream.pc \in {"poll", "ask", "wait", "drain"}
    ~> stream.pc \in {"ended", "gone"}

(* Comparing identity catches every rotation (rewindIfRotated).            *)
EveryRotationIsCaught == ~stream.fooled

(* Output flushed between the last poll and the exit is not lost           *)
(* (closeStream): a client that saw the end got all of it.                 *)
EndedStreamHasAll ==
  stream.pc = "ended" /\ stream.whole /\ ~stream.cut /\ ~purged /\ writer.file = 1 =>
    1..writer.total \subseteq Received
=============================================================================
