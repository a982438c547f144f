-------------------------- MODULE SubmissionProofs --------------------------
(***************************************************************************)
(* What the Idempotency-Key promises, for any number of requests that      *)
(* share it, any bodies, hubs and restarts.  The invariants of Submission  *)
(* are not inductive: whether a refusal may be believed depends on where   *)
(* the handler was, and whether a key may be swept on what is known of its *)
(* execution.  IInv says both.                                             *)
(***************************************************************************)
EXTENDS Submission, TLAPS

Before == {"idle", "find", "get", "claim", "find again", "get again"}

(* Where the execution and the key of a request are while its handler      *)
(* runs: no row before the claim, the key and a fresh claim up to the row, *)
(* and from there a row in the state the handler left it in.               *)
Handler(r) ==
  /\ pc[r] \in StoreCalls \cup {"idle"} => r \notin cutOff
  /\ pc[r] \in Before => row[r] = "none" /\ r \notin ran
  /\ pc[r] \in {"submit", "create"} => key = r /\ age = 0 /\ row[r] = "none" /\ r \notin ran
  /\ pc[r] = "admit" => row[r] = "created" /\ r \notin ran
  /\ pc[r] = "start" => row[r] = "starting" /\ r \notin ran
  /\ pc[r] = "release" => (row[r] \in {"none", "refused"} /\ r \notin ran) \/ r \in cutOff

(* What runs or may run holds the key, or lost it to retention or to a     *)
(* shutdown; what ran and has no row was purged.                           *)
Run(r) ==
  /\ Runs(r) => key = r \/ r \in expired \cup cutOff
  /\ r \in ran /\ row[r] = "none" => r \in expired

(* What a client was told outlives its handler.                            *)
Told(r) ==
  /\ told[r] \in Refusals \cup {"accepted", "replay"} => pc[r] = "over"
  /\ told[r] \in Refusals => ~Runs(r) \/ r \in cutOff
  /\ told[r] = "replay" => ~Runs(r)
  /\ told[r] = "accepted" => (key = r /\ row[r] # "none") \/ r \in expired

(* The record a handler has read names an earlier execution of the same    *)
(* body.                                                                   *)
Replay(r) ==
  pc[r] \in {"get", "get again"} \/ told[r] = "replay" =>
    record[r] \in Requests \ {r} /\ pc[record[r]] \notin Before /\ body[record[r]] = body[r]

(* Whoever holds the key is past its claim, and a claim past the retention *)
(* is known to be.                                                         *)
KeyInv == key # NoRequest => pc[key] \notin Before /\ (age = 2 => key \in expired)

RequestInv(r) == Handler(r) /\ Run(r) /\ Told(r) /\ Replay(r)

IInv == SubmissionTypeOK /\ KeyInv /\ \A r \in Requests : RequestInv(r)

(* A step of the handler of r leaves the other requests alone.             *)
Others(r) ==
  \A q \in Requests \ {r} :
    /\ pc'[q] = pc[q] /\ told'[q] = told[q] /\ row'[q] = row[q]
    /\ record'[q] = record[q] /\ body'[q] = body[q]

USE SubmissionAssumption DEF Rows, Terminal, Answers, Refusals, StoreCalls, Handling, Before

----------------------------------------------------------------------------
(* A step before the claim writes nothing another request can see: it      *)
(* stays before the claim or answers, and only a replay needs an argument. *)
LEMMA EarlyStep ==
  ASSUME IInv, SubmissionTypeOK', NEW r \in Requests, Others(r),
         pc[r] \in Before, row'[r] = row[r],
         UNCHANGED <<key, age, ran, expired, cutOff>>,
         \/ pc'[r] \in Before /\ told'[r] = told[r]
         \/ pc'[r] = "over" /\ told'[r] # "accepted",
         Replay(r)'
  PROVE  IInv'
<1>1. Handler(r) /\ Run(r) /\ Told(r) /\ KeyInv
  BY DEF IInv, RequestInv
<1>2. KeyInv'
  BY <1>1 DEF KeyInv, Others, IInv, SubmissionTypeOK
<1>3. RequestInv(r)'
  BY <1>1 DEF Handler, Run, Told, Runs, RequestInv
<1>4. ASSUME NEW q \in Requests \ {r}
      PROVE  RequestInv(q)'
  <2>1. Handler(q) /\ Run(q) /\ Told(q) /\ Replay(q)
    BY DEF IInv, RequestInv
  <2>2. Handler(q)' /\ Run(q)' /\ Told(q)'
    BY <2>1 DEF Handler, Run, Told, Runs, Others
  <2>3. Replay(q)'
    BY <2>1 DEF Replay, Others
  <2>4. QED
    BY <2>2, <2>3 DEF RequestInv
<1>5. QED
  BY <1>2, <1>3, <1>4 DEF IInv

(* A step past the claim may let go of the key only while it holds it, and *)
(* has to account for its own request.                                     *)
LEMMA LateStep ==
  ASSUME IInv, SubmissionTypeOK', NEW r \in Requests, Others(r),
         pc[r] \notin Before, pc'[r] \notin Before, record' = record, body' = body,
         key' = key \/ (key = r /\ key' = NoRequest),
         UNCHANGED <<age, expired>>,
         \A q \in Requests \ {r} : (q \in ran' <=> q \in ran) /\ (q \in cutOff' <=> q \in cutOff),
         told'[r] = "replay" => told[r] = "replay",
         Handler(r)', Run(r)', Told(r)'
  PROVE  IInv'
<1>1. KeyInv' /\ Replay(r)'
  BY DEF IInv, RequestInv, KeyInv, Replay, Others, SubmissionTypeOK
<1>2. ASSUME NEW q \in Requests \ {r}
      PROVE  RequestInv(q)'
  <2>1. Handler(q) /\ Run(q) /\ Told(q) /\ Replay(q)
    BY DEF IInv, RequestInv
  <2>2. q \in Requests /\ q # r /\ q # NoRequest
    OBVIOUS
  <2>3. Handler(q)' /\ Run(q)' /\ Told(q)'
    BY <2>1, <2>2 DEF Handler, Run, Told, Runs, Others
  <2>4. Replay(q)'
    BY <2>1 DEF Replay, Others
  <2>5. QED
    BY <2>3, <2>4 DEF RequestInv
<1>3. QED
  BY <1>1, <1>2 DEF IInv, RequestInv

(* What an answer does to its own request and to the others.               *)
LEMMA AnswerTells ==
  ASSUME IInv, NEW r \in Requests, NEW a \in Answers, Answer(r, a)
  PROVE  /\ pc' \in [Requests -> Handling \cup {"idle", "over"}]
         /\ told' \in [Requests -> Answers]
         /\ pc'[r] = "over" /\ told'[r] \in {told[r], a}
         /\ \A q \in Requests \ {r} : pc'[q] = pc[q] /\ told'[q] = told[q]
  BY DEF IInv, SubmissionTypeOK, Answer, dispatchWriter

LEMMA GotoMoves ==
  ASSUME IInv, NEW r \in Requests, NEW where \in Handling, Goto(r, where)
  PROVE  /\ pc' \in [Requests -> Handling \cup {"idle", "over"}]
         /\ told' = told /\ pc'[r] = where
         /\ \A q \in Requests \ {r} : pc'[q] = pc[q]
  BY DEF IInv, SubmissionTypeOK, Goto

----------------------------------------------------------------------------
(* One lemma for each step of Next.                                        *)

LEMMA SendKeeps ==
  ASSUME IInv, NEW r \in Requests, Send(r)
  PROVE  IInv'
<1>1. PICK b \in Bodies : body' = [body EXCEPT ![r] = b]
  BY DEF Send
<1>2. pc[r] = "idle" /\ Goto(r, "find")
      /\ UNCHANGED <<record, gone, row, key, ran, age, gc, queueDraining, startDraining, restarts, expired, cutOff>>
  BY DEF Send
<1>3. body' \in [Requests -> Bodies] /\ \A q \in Requests \ {r} : body'[q] = body[q]
  BY <1>1 DEF IInv, SubmissionTypeOK
<1>4. SubmissionTypeOK' /\ Others(r) /\ pc'[r] = "find" /\ told'[r] = told[r]
  BY <1>2, <1>3, GotoMoves DEF IInv, SubmissionTypeOK, Others
<1>5. Replay(r)'
  BY <1>2, <1>4 DEF Replay, IInv, RequestInv, Told
<1>6. QED
  BY <1>2, <1>4, <1>5, EarlyStep DEF IInv, SubmissionTypeOK

(* Looking the key up, the first time or after a lost claim.               *)
LEMMA FindKeeps ==
  ASSUME IInv, NEW r \in Requests, Find(r) \/ FindAgain(r)
  PROVE  IInv'
<1>1. /\ pc[r] \in {"find", "find again"}
      /\ UNCHANGED <<gone, row, key, ran, rest>>
      /\ \/ (Goto(r, "claim") \/ Answer(r, "in_flight") \/ Answer(r, "reuse")) /\ UNCHANGED record
         \/ /\ key # NoRequest /\ body[key] = body[r] /\ record' = [record EXCEPT ![r] = key]
            /\ Goto(r, "get") \/ Goto(r, "get again")
  BY DEF Find, FindAgain, FindIdempotency, NothingToReplay, sameRequest
<1>2. CASE (Goto(r, "claim") \/ Answer(r, "in_flight") \/ Answer(r, "reuse")) /\ UNCHANGED record
  <2>1. /\ SubmissionTypeOK' /\ Others(r)
        /\ \/ pc'[r] = "claim" /\ told'[r] = told[r]
           \/ pc'[r] = "over" /\ told'[r] \in {told[r], "in_flight", "reuse"}
    BY <1>1, <1>2, GotoMoves, AnswerTells DEF rest, IInv, SubmissionTypeOK, Others
  <2>2. told[r] \notin {"replay", "accepted"}
    BY <1>1 DEF IInv, RequestInv, Told
  <2>3. Replay(r)'
    BY <2>1, <2>2 DEF Replay
  <2>4. QED
    BY <1>1, <2>1, <2>2, <2>3, EarlyStep DEF rest
<1>3. CASE /\ key # NoRequest /\ body[key] = body[r] /\ record' = [record EXCEPT ![r] = key]
           /\ Goto(r, "get") \/ Goto(r, "get again")
  <2>1. key \in Requests /\ key # r /\ pc[key] \notin Before
    BY <1>1, <1>3 DEF IInv, SubmissionTypeOK, KeyInv
  <2>2. record' \in [Requests -> Requests \cup {NoRequest}] /\ record'[r] = key
        /\ \A q \in Requests \ {r} : record'[q] = record[q]
    BY <1>3, <2>1 DEF IInv, SubmissionTypeOK
  <2>3. SubmissionTypeOK' /\ Others(r) /\ pc'[r] \in {"get", "get again"} /\ told'[r] = told[r]
    BY <1>1, <1>3, <2>2, GotoMoves DEF rest, IInv, SubmissionTypeOK, Others
  <2>4. Replay(r)'
    BY <1>1, <1>3, <2>1, <2>2, <2>3 DEF rest, Replay, Others
  <2>5. QED
    BY <1>1, <2>3, <2>4, EarlyStep DEF rest
<1>4. QED
  BY <1>1, <1>2, <1>3

(* Reading the execution the key names.                                    *)
LEMMA GetKeeps ==
  ASSUME IInv, NEW r \in Requests, Get(r) \/ GetAgain(r)
  PROVE  IInv'
<1>1. /\ pc[r] \in {"get", "get again"}
      /\ UNCHANGED <<record, gone, row, key, ran, rest>>
      /\ Goto(r, "claim") \/ Answer(r, "in_flight") \/ Answer(r, "replay")
  BY DEF Get, GetAgain, GetProcess, NothingToReplay
<1>2. /\ SubmissionTypeOK' /\ Others(r)
      /\ \/ pc'[r] = "claim" /\ told'[r] = told[r]
         \/ pc'[r] = "over" /\ told'[r] \in {told[r], "in_flight", "replay"}
  BY <1>1, GotoMoves, AnswerTells DEF rest, IInv, SubmissionTypeOK, Others
<1>3. told[r] # "accepted"
  BY <1>1 DEF IInv, RequestInv, Told
<1>4. record[r] \in Requests \ {r} /\ pc[record[r]] \notin Before /\ body[record[r]] = body[r]
  BY <1>1 DEF IInv, RequestInv, Replay
<1>5. Replay(r)'
  BY <1>1, <1>2, <1>4 DEF rest, Replay, Others
<1>6. QED
  BY <1>1, <1>2, <1>3, <1>5, EarlyStep DEF rest

(* The claim: a free key is taken, a taken one sends the request back.     *)
LEMMA SaveIdempotencyKeeps ==
  ASSUME IInv, NEW r \in Requests, SaveIdempotency(r)
  PROVE  IInv'
<1>1. pc[r] = "claim" /\ UNCHANGED <<record, gone, row, ran, body, gc, queueDraining, startDraining, restarts, expired, cutOff>>
  BY DEF SaveIdempotency
<1>2. CASE key = NoRequest /\ Goto(r, "submit") /\ key' = r /\ age' = 0
  <2>1. pc' \in [Requests -> Handling \cup {"idle", "over"}] /\ Others(r) /\ pc'[r] = "submit" /\ told' = told
    BY <1>1, <1>2, GotoMoves DEF Others
  <2>2. KeyInv'
    <3>1. age' = 0 /\ pc'[key'] = "submit"
      BY <1>2, <2>1
    <3>2. age' # 2
      BY <3>1
    <3>3. QED
      BY <3>1, <3>2 DEF KeyInv
  <2>3. RequestInv(r)'
    BY <1>1, <1>2, <2>1 DEF IInv, RequestInv, Handler, Run, Told, Replay, Runs
  <2>4. ASSUME NEW q \in Requests \ {r}
        PROVE  RequestInv(q)'
    <3>1. Handler(q) /\ Run(q) /\ Told(q) /\ Replay(q)
      BY DEF IInv, RequestInv
    <3>2. key # q
      BY <1>2
    <3>3. Handler(q)' /\ Run(q)' /\ Told(q)'
      BY <1>1, <1>2, <2>1, <3>1, <3>2 DEF Handler, Run, Told, Runs, Others
    <3>4. Replay(q)'
      BY <1>1, <2>1, <3>1 DEF Replay, Others
    <3>5. QED
      BY <3>3, <3>4 DEF RequestInv
  <2>5. SubmissionTypeOK'
    <3>1. key' \in Requests \cup {NoRequest} /\ age' \in 0..2
      BY <1>2
    <3>2. QED
      BY <1>1, <2>1, <3>1 DEF IInv, SubmissionTypeOK
  <2>6. QED
    BY <2>2, <2>3, <2>4, <2>5 DEF IInv
<1>3. CASE key # NoRequest /\ Goto(r, "find again") /\ UNCHANGED <<key, age>>
  <2>1. SubmissionTypeOK' /\ Others(r) /\ pc'[r] = "find again" /\ told' = told
    BY <1>1, <1>3, GotoMoves DEF IInv, SubmissionTypeOK, Others
  <2>2. Replay(r)'
    BY <1>1, <2>1 DEF Replay, IInv, RequestInv, Told
  <2>3. QED
    BY <1>1, <1>3, <2>1, <2>2, EarlyStep
<1>4. QED
  BY <1>2, <1>3 DEF SaveIdempotency

(* Submit: the claim is held and nothing is written.                       *)
LEMMA SubmitKeeps ==
  ASSUME IInv, NEW r \in Requests, Submit(r)
  PROVE  IInv'
<1>1. /\ pc[r] = "submit" /\ UNCHANGED <<record, gone, row, key, ran, rest>>
      /\ Goto(r, "release") \/ Goto(r, "create")
  BY DEF Submit
<1>2. SubmissionTypeOK' /\ Others(r) /\ pc'[r] \in {"release", "create"} /\ told' = told
  BY <1>1, GotoMoves DEF rest, IInv, SubmissionTypeOK, Others
<1>3. Handler(r) /\ Run(r) /\ Told(r)
  BY DEF IInv, RequestInv
<1>4. Handler(r)' /\ Run(r)' /\ Told(r)'
  BY <1>1, <1>2, <1>3 DEF rest, Handler, Run, Told, Runs
<1>5. QED
  BY <1>1, <1>2, <1>4, LateStep DEF rest

(* The row appears while the key is held.                                  *)
LEMMA CreateProcessKeeps ==
  ASSUME IInv, NEW r \in Requests, CreateProcess(r)
  PROVE  IInv'
<1>1. /\ pc[r] = "create" /\ UNCHANGED <<record, gone, key, ran, rest>>
      /\ Goto(r, "admit") /\ row' = [row EXCEPT ![r] = "created"]
  BY DEF CreateProcess
<1>2. row' \in [Requests -> Rows] /\ row'[r] = "created" /\ \A q \in Requests \ {r} : row'[q] = row[q]
  BY <1>1 DEF IInv, SubmissionTypeOK
<1>3. SubmissionTypeOK' /\ Others(r) /\ pc'[r] = "admit" /\ told' = told
  BY <1>1, <1>2, GotoMoves DEF rest, IInv, SubmissionTypeOK, Others
<1>4. Handler(r) /\ Run(r) /\ Told(r)
  BY DEF IInv, RequestInv
<1>5. Handler(r)' /\ Run(r)' /\ Told(r)'
  BY <1>1, <1>2, <1>3, <1>4 DEF rest, Handler, Run, Told, Runs
<1>6. QED
  BY <1>1, <1>3, <1>5, LateStep DEF rest

(* admit: the row says what the client is told.                            *)
LEMMA AdmitKeeps ==
  ASSUME IInv, NEW r \in Requests, Admit(r)
  PROVE  IInv'
<1>1. /\ pc[r] = "admit" /\ UNCHANGED <<record, gone, key, ran, rest>>
      /\ \E to \in {"waiting", "refused", "starting"} :
           /\ row' = [row EXCEPT ![r] = to]
           /\ \/ to = "waiting" /\ Answer(r, "accepted")
              \/ to = "refused" /\ Goto(r, "release")
              \/ to = "starting" /\ Goto(r, "start")
  BY DEF Admit
<1>2. PICK to \in {"waiting", "refused", "starting"} :
           /\ row' = [row EXCEPT ![r] = to]
           /\ \/ to = "waiting" /\ Answer(r, "accepted")
              \/ to = "refused" /\ Goto(r, "release")
              \/ to = "starting" /\ Goto(r, "start")
  BY <1>1
<1>3. row' \in [Requests -> Rows] /\ row'[r] = to /\ \A q \in Requests \ {r} : row'[q] = row[q]
  BY <1>2 DEF IInv, SubmissionTypeOK
<1>4. /\ pc' \in [Requests -> Handling \cup {"idle", "over"}] /\ told' \in [Requests -> Answers]
      /\ \A q \in Requests \ {r} : pc'[q] = pc[q] /\ told'[q] = told[q]
      /\ \/ to = "waiting" /\ pc'[r] = "over" /\ told'[r] \in {told[r], "accepted"}
         \/ to = "refused" /\ pc'[r] = "release" /\ told'[r] = told[r]
         \/ to = "starting" /\ pc'[r] = "start" /\ told'[r] = told[r]
  <2>1. told \in [Requests -> Answers]
    BY DEF IInv, SubmissionTypeOK
  <2>2. CASE to = "waiting" /\ Answer(r, "accepted")
    BY <2>2, AnswerTells
  <2>3. CASE to = "refused" /\ Goto(r, "release")
    BY <2>1, <2>3, GotoMoves
  <2>4. CASE to = "starting" /\ Goto(r, "start")
    BY <2>1, <2>4, GotoMoves
  <2>5. QED
    BY <1>2, <2>2, <2>3, <2>4
<1>5. Handler(r) /\ Run(r) /\ Told(r)
  BY DEF IInv, RequestInv
<1>6. Handler(r)' /\ Run(r)' /\ Told(r)'
  BY <1>1, <1>3, <1>4, <1>5 DEF rest, Handler, Run, Told, Runs
<1>7. SubmissionTypeOK' /\ Others(r)
  BY <1>1, <1>3, <1>4 DEF rest, IInv, SubmissionTypeOK, Others
<1>8. QED
  BY <1>1, <1>4, <1>6, <1>7, LateStep DEF rest

(* Supervisor.Start: a start cut off by the shutdown is remembered as one. *)
LEMMA StartKeeps ==
  ASSUME IInv, NEW r \in Requests, Start(r)
  PROVE  IInv'
<1>1. pc[r] = "start" /\ UNCHANGED <<record, gone, key, body, age, gc, queueDraining, startDraining, restarts, expired>>
  BY DEF Start
<1>2. Handler(r) /\ Run(r) /\ Told(r)
  BY DEF IInv, RequestInv
<1>3. CASE Goto(r, "release") /\ cutOff' = cutOff \cup {r} /\ UNCHANGED <<row, ran>>
  <2>1. SubmissionTypeOK' /\ Others(r) /\ pc'[r] = "release" /\ told' = told
    BY <1>1, <1>3, GotoMoves DEF IInv, SubmissionTypeOK, Others
  <2>2. Handler(r)' /\ Run(r)' /\ Told(r)'
    BY <1>1, <1>2, <1>3, <2>1 DEF Handler, Run, Told, Runs
  <2>3. QED
    BY <1>1, <1>3, <2>1, <2>2, LateStep
<1>4. CASE /\ Answer(r, "accepted") /\ UNCHANGED cutOff
           /\ \E to \in {"running", "waiting", "ended"} :
                row' = [row EXCEPT ![r] = to] /\ ran' = IF to = "running" THEN ran \cup {r} ELSE ran
  <2>1. PICK to \in {"running", "waiting", "ended"} :
                row' = [row EXCEPT ![r] = to] /\ ran' = IF to = "running" THEN ran \cup {r} ELSE ran
    BY <1>4
  <2>2. /\ row' \in [Requests -> Rows] /\ row'[r] = to /\ \A q \in Requests \ {r} : row'[q] = row[q]
        /\ ran' \subseteq Requests
    BY <2>1 DEF IInv, SubmissionTypeOK
  <2>3. SubmissionTypeOK' /\ Others(r) /\ pc'[r] = "over" /\ told'[r] \in {told[r], "accepted"}
    BY <1>1, <1>4, <2>2, AnswerTells DEF IInv, SubmissionTypeOK, Others
  <2>4. Handler(r)' /\ Run(r)' /\ Told(r)'
    BY <1>1, <1>2, <1>4, <2>2, <2>3 DEF Handler, Run, Told, Runs
  <2>5. \A q \in Requests \ {r} : q \in ran' <=> q \in ran
    BY <2>1
  <2>6. QED
    BY <1>1, <1>4, <2>3, <2>4, <2>5, LateStep
<1>5. QED
  BY <1>3, <1>4 DEF Start

(* The claim is given back, or could not be; either way nothing of this    *)
(* request will run unless it was cut off.                                 *)
LEMMA ReleaseKeeps ==
  ASSUME IInv, NEW r \in Requests, DeleteIdempotency(r) \/ ReleaseFails(r)
  PROVE  IInv'
<1>1. /\ pc[r] = "release" /\ UNCHANGED <<record, gone, row, ran, rest>>
      /\ Answer(r, "refused")
      /\ key' = key \/ (key = r /\ key' = NoRequest)
  BY DEF DeleteIdempotency, ReleaseFails
<1>2. SubmissionTypeOK' /\ Others(r) /\ pc'[r] = "over" /\ told'[r] \in {told[r], "refused"}
  BY <1>1, AnswerTells DEF rest, IInv, SubmissionTypeOK, Others
<1>3. Handler(r) /\ Run(r) /\ Told(r)
  BY DEF IInv, RequestInv
<1>4. Handler(r)' /\ Run(r)' /\ Told(r)'
  BY <1>1, <1>2, <1>3 DEF rest, Handler, Run, Told, Runs
<1>5. QED
  BY <1>1, <1>2, <1>4, LateStep DEF rest

(* A store call fails: the claim stays with what it has written.           *)
LEMMA StoreFailsKeeps ==
  ASSUME IInv, NEW r \in Requests, StoreFails(r)
  PROVE  IInv'
<1>1. /\ pc[r] \in StoreCalls /\ Answer(r, "error")
      /\ UNCHANGED <<record, gone, row, key, ran, rest>>
  BY DEF StoreFails
<1>2. SubmissionTypeOK' /\ Others(r) /\ pc'[r] = "over" /\ told'[r] \in {told[r], "error"}
  BY <1>1, AnswerTells DEF rest, IInv, SubmissionTypeOK, Others
<1>3. Handler(r) /\ Run(r) /\ Told(r)
  BY DEF IInv, RequestInv
<1>4. told'[r] \notin {"replay", "accepted"}
  BY <1>1, <1>2, <1>3 DEF Told
<1>5. CASE pc[r] \in Before
  <2>1. Replay(r)'
    BY <1>2, <1>4 DEF Replay
  <2>2. QED
    BY <1>1, <1>2, <1>4, <1>5, <2>1, EarlyStep DEF rest
<1>6. CASE pc[r] \notin Before
  <2>1. Handler(r)' /\ Run(r)' /\ Told(r)'
    BY <1>1, <1>2, <1>3 DEF rest, Handler, Run, Told, Runs
  <2>2. QED
    BY <1>1, <1>2, <1>4, <1>6, <2>1, LateStep DEF rest
<1>7. QED
  BY <1>5, <1>6

(* The client is lost while the handler goes on; a hub says it cannot know.*)
LEMMA HangupKeeps ==
  ASSUME IInv, NEW r \in Requests, Hangup(r)
  PROVE  IInv'
<1>1. /\ pc[r] \in Handling /\ UNCHANGED <<pc, record, row, key, ran, rest>>
      /\ gone' = gone \cup {r}
      /\ told' \in {[told EXCEPT ![r] = "none"], [told EXCEPT ![r] = "dispatch_unknown"]}
  BY DEF Hangup, dispatchWriter
<1>2. /\ told' \in [Requests -> Answers] /\ told'[r] \in {"none", "dispatch_unknown"}
      /\ \A q \in Requests \ {r} : told'[q] = told[q]
  BY <1>1 DEF IInv, SubmissionTypeOK
<1>3. SubmissionTypeOK' /\ Others(r)
  BY <1>1, <1>2 DEF rest, IInv, SubmissionTypeOK, Others
<1>4. KeyInv'
  BY <1>1 DEF rest, IInv, KeyInv
<1>5. ASSUME NEW q \in Requests
      PROVE  RequestInv(q)'
  <2>1. Handler(q) /\ Run(q) /\ Told(q) /\ Replay(q)
    BY DEF IInv, RequestInv
  <2>2. Handler(q)' /\ Run(q)' /\ Told(q)'
    BY <1>1, <1>2, <2>1 DEF rest, Handler, Run, Told, Runs
  <2>3. Replay(q)'
    BY <1>1, <1>2, <2>1 DEF rest, Replay
  <2>4. QED
    BY <2>2, <2>3 DEF RequestInv
<1>6. QED
  BY <1>3, <1>4, <1>5 DEF IInv

(* Dispatch and the end of an attempt move a row that is past its handler. *)
LEMMA RowMovesKeeps ==
  ASSUME IInv, NEW r \in Requests, Dispatch(r) \/ Finish(r)
  PROVE  IInv'
<1>1. /\ UNCHANGED <<pc, record, told, gone, key, rest>>
      /\ row[r] \in {"waiting", "running"}
      /\ \E to \in {"waiting", "running", "ended"} : row' = [row EXCEPT ![r] = to]
      /\ ran' = ran \/ ran' = ran \cup {r}
  BY DEF Dispatch, Finish
<1>2. /\ row' \in [Requests -> Rows] /\ row'[r] \in {"waiting", "running", "ended"}
      /\ \A q \in Requests \ {r} : row'[q] = row[q]
      /\ ran' \subseteq Requests
  BY <1>1 DEF IInv, SubmissionTypeOK
<1>3. SubmissionTypeOK' /\ Others(r) /\ KeyInv'
  BY <1>1, <1>2 DEF rest, IInv, SubmissionTypeOK, Others, KeyInv
<1>4. ASSUME NEW q \in Requests
      PROVE  RequestInv(q)'
  <2>1. Handler(q) /\ Run(q) /\ Told(q) /\ Replay(q)
    BY DEF IInv, RequestInv
  <2>2. Replay(q)'
    BY <1>1, <2>1 DEF rest, Replay
  <2>3. Handler(q)' /\ Run(q)' /\ Told(q)'
    BY <1>1, <1>2, <2>1 DEF rest, Handler, Run, Told, Runs
  <2>4. QED
    BY <2>2, <2>3 DEF RequestInv
<1>5. QED
  BY <1>3, <1>4 DEF IInv

(* SIGTERM touches no request.                                             *)
LEMMA DrainKeeps ==
  ASSUME IInv, Drain
  PROVE  IInv'
<1>1. SubmissionTypeOK'
  BY DEF IInv, Drain, SubmissionTypeOK
<1>2. KeyInv'
  BY DEF IInv, Drain, KeyInv
<1>3. ASSUME NEW q \in Requests
      PROVE  RequestInv(q)'
  BY DEF IInv, Drain, RequestInv, Handler, Run, Told, Replay, Runs
<1>4. QED
  BY <1>1, <1>2, <1>3 DEF IInv

(* The daemon starts again: no handler survives, and what Reconcile makes  *)
(* of a row is running only if it could have run before.                   *)
LEMMA RestartKeeps ==
  ASSUME IInv, Restart
  PROVE  IInv'
<1>1. UNCHANGED <<record, gone, key, ran, body, age, expired, cutOff>>
  BY DEF Restart
<1>2. /\ row' \in [Requests -> Rows]
      /\ \A q \in Requests :
           \/ row[q] \in {"created", "starting", "running"} /\ row'[q] \in {"waiting", "ended"}
           \/ row[q] \notin {"created", "starting", "running"} /\ row'[q] = row[q]
  BY DEF Restart, IInv, SubmissionTypeOK
<1>3. /\ pc' \in [Requests -> Handling \cup {"idle", "over"}]
      /\ \A q \in Requests : pc'[q] = IF pc[q] \in Handling THEN "over" ELSE pc[q]
  BY DEF Restart, IInv, SubmissionTypeOK
<1>4. /\ told' \in [Requests -> Answers]
      /\ \A q \in Requests : told'[q] = told[q] \/ (pc[q] \in Handling /\ told'[q] = "dispatch_unknown")
  BY DEF Restart, IInv, SubmissionTypeOK, dispatchWriter
<1>5. SubmissionTypeOK'
  <2>1. restarts' \in 0..MaxRestarts
    <3>1. restarts \in 0..MaxRestarts /\ restarts < MaxRestarts /\ restarts' = restarts + 1
      BY DEF Restart, IInv, SubmissionTypeOK
    <3>2. QED
      BY <3>1
  <2>2. queueDraining' \in BOOLEAN /\ startDraining' \in BOOLEAN /\ gc' \in {"idle", "keys"}
    BY DEF Restart
  <2>3. QED
    BY <1>1, <1>2, <1>3, <1>4, <2>1, <2>2 DEF IInv, SubmissionTypeOK
<1>6. KeyInv'
  BY <1>1, <1>3 DEF IInv, SubmissionTypeOK, KeyInv
<1>7. ASSUME NEW q \in Requests
      PROVE  RequestInv(q)'
  <2>1. Handler(q) /\ Run(q) /\ Told(q) /\ Replay(q)
    BY DEF IInv, RequestInv
  <2>2. Replay(q)'
    BY <1>1, <1>3, <1>4, <2>1 DEF Replay
  <2>3. pc'[q] \in {"idle", "over"} /\ (pc'[q] = "idle" => pc[q] = "idle")
    BY <1>3 DEF IInv, SubmissionTypeOK
  <2>4. Handler(q)'
    BY <1>1, <1>2, <2>1, <2>3 DEF Handler
  <2>5. Run(q)' /\ (Runs(q)' => Runs(q)) /\ (row'[q] = "none" <=> row[q] = "none")
    BY <1>1, <1>2, <2>1 DEF Run, Runs
  <2>6. Told(q)'
    BY <1>1, <1>3, <1>4, <2>1, <2>5 DEF Told
  <2>7. QED
    BY <2>2, <2>4, <2>5, <2>6 DEF RequestInv
<1>8. QED
  BY <1>5, <1>6, <1>7 DEF IInv

(* A claim grows old; only one that is past its row's creation does.       *)
LEMMA AgeKeeps ==
  ASSUME IInv, Age
  PROVE  IInv'
<1>1. /\ key \in Requests /\ pc[key] \notin {"submit", "create"}
      /\ age \in 0..2 /\ age < 2 /\ age' = age + 1
      /\ UNCHANGED <<pc, record, told, gone, row, key, ran, body, gc, queueDraining, startDraining, restarts, cutOff>>
      /\ expired' = IF age = 1 THEN expired \cup {key} ELSE expired
  BY DEF Age, IInv, SubmissionTypeOK
<1>2. age' \in 0..2 /\ (age' = 2 => age = 1)
  BY <1>1
<1>3. (age = 1 => key \in expired') /\ expired \subseteq expired' /\ expired' \subseteq Requests
  BY <1>1 DEF IInv, SubmissionTypeOK
<1>4. SubmissionTypeOK'
  BY <1>1, <1>2, <1>3 DEF IInv, SubmissionTypeOK
<1>5. KeyInv'
  BY <1>1, <1>2, <1>3 DEF IInv, KeyInv
<1>6. ASSUME NEW q \in Requests
      PROVE  RequestInv(q)'
  <2>1. Handler(q) /\ Run(q) /\ Told(q) /\ Replay(q)
    BY DEF IInv, RequestInv
  <2>2. Handler(q)'
    <3>1. pc[q] \notin {"submit", "create"}
      BY <1>1, <2>1 DEF Handler
    <3>2. QED
      BY <1>1, <2>1, <3>1 DEF Handler
  <2>3. Run(q)' /\ Told(q)' /\ Replay(q)'
    BY <1>1, <1>3, <2>1 DEF Run, Told, Replay, Runs
  <2>4. QED
    BY <2>2, <2>3 DEF RequestInv
<1>7. QED
  BY <1>4, <1>5, <1>6 DEF IInv

(* The sweep of the claims takes one that is past the retention, or has no *)
(* row: what ran without a row is past the retention too.                  *)
LEMMA purgeIdempotencyKeeps ==
  ASSUME IInv, purgeIdempotency
  PROVE  IInv'
<1>1. UNCHANGED <<pc, record, told, gone, row, ran, body, age, queueDraining, startDraining, restarts, expired, cutOff>>
  BY DEF purgeIdempotency
<1>2. CASE key' = key
  <2>1. SubmissionTypeOK'
    BY <1>1, <1>2 DEF purgeIdempotency, IInv, SubmissionTypeOK
  <2>2. KeyInv'
    BY <1>1, <1>2 DEF IInv, KeyInv
  <2>3. ASSUME NEW q \in Requests
        PROVE  RequestInv(q)'
    BY <1>1, <1>2 DEF IInv, RequestInv, Handler, Run, Told, Replay, Runs
  <2>4. QED
    BY <2>1, <2>2, <2>3 DEF IInv
<1>3. CASE /\ key \in Requests /\ key' = NoRequest
           /\ age = 2 \/ (age = 1 /\ row[key] = "none")
  <2>1. SubmissionTypeOK'
    BY <1>1, <1>3 DEF purgeIdempotency, IInv, SubmissionTypeOK
  <2>2. KeyInv'
    BY <1>3 DEF KeyInv
  <2>3. ASSUME NEW q \in Requests
        PROVE  RequestInv(q)'
    <3>1. Handler(q) /\ Run(q) /\ Told(q) /\ Replay(q)
      BY DEF IInv, RequestInv
    <3>2. key = q => pc[q] \notin {"submit", "create"}
      <4>1. age # 0
        BY <1>3
      <4>2. QED
        BY <3>1, <4>1 DEF Handler
    <3>3. key = q => q \in expired \/ (row[q] = "none" /\ (Runs(q) => q \in expired))
      BY <1>3, <3>1 DEF IInv, KeyInv, Run, Runs
    <3>4. Handler(q)'
      BY <1>1, <1>3, <3>1, <3>2 DEF Handler
    <3>5. Run(q)' /\ Told(q)' /\ Replay(q)'
      BY <1>1, <1>3, <3>1, <3>3 DEF Run, Told, Replay, Runs
    <3>6. QED
      BY <3>4, <3>5 DEF RequestInv
  <2>4. QED
    BY <2>1, <2>2, <2>3 DEF IInv
<1>4. QED
  BY <1>2, <1>3 DEF purgeIdempotency, IInv, SubmissionTypeOK

(* The sweep of the rows takes terminal ones, and marks them as expired.   *)
LEMMA PurgeRowsKeeps ==
  ASSUME IInv, NEW old \in SUBSET Requests, PurgeRows(old)
  PROVE  IInv'
<1>1. /\ UNCHANGED <<pc, record, told, gone, key, ran, body, age, queueDraining, startDraining, restarts, cutOff>>
      /\ expired' = expired \cup old /\ \A q \in old : row[q] \in Terminal
  BY DEF PurgeRows
<1>2. /\ row' \in [Requests -> Rows]
      /\ \A q \in Requests : row'[q] = IF q \in old THEN "none" ELSE row[q]
  BY DEF PurgeRows, IInv, SubmissionTypeOK
<1>3. SubmissionTypeOK'
  <2>1. expired' \subseteq Requests /\ gc' \in {"idle", "keys"}
    BY <1>1 DEF PurgeRows, IInv, SubmissionTypeOK
  <2>2. QED
    BY <1>1, <1>2, <2>1 DEF IInv, SubmissionTypeOK
<1>4. KeyInv'
  BY <1>1 DEF IInv, KeyInv
<1>5. ASSUME NEW q \in Requests
      PROVE  RequestInv(q)'
  <2>1. Handler(q) /\ Run(q) /\ Told(q) /\ Replay(q)
    BY DEF IInv, RequestInv
  <2>2. CASE q \in old
    BY <1>1, <1>2, <2>1, <2>2 DEF RequestInv, Handler, Run, Told, Replay, Runs
  <2>3. CASE q \notin old
    BY <1>1, <1>2, <2>1, <2>3 DEF RequestInv, Handler, Run, Told, Replay, Runs
  <2>4. QED
    BY <2>2, <2>3
<1>6. QED
  BY <1>3, <1>4, <1>5 DEF IInv

----------------------------------------------------------------------------
LEMMA InitEstablishes == Init => IInv
<1> SUFFICES ASSUME Init PROVE IInv
  OBVIOUS
<1>1. SubmissionTypeOK
  <2>1. body \in [Requests -> Bodies]
    BY DEF Init
  <2>2. age \in 0..2 /\ restarts \in 0..MaxRestarts
    BY DEF Init
  <2>3. QED
    BY <2>1, <2>2 DEF Init, SubmissionTypeOK
<1>2. KeyInv /\ \A r \in Requests : RequestInv(r)
  BY DEF Init, KeyInv, RequestInv, Handler, Run, Told, Replay, Runs
<1>3. QED
  BY <1>1, <1>2 DEF IInv

LEMMA StepKeeps == IInv /\ [Next]_vars => IInv'
<1> SUFFICES ASSUME IInv, [Next]_vars PROVE IInv'
  OBVIOUS
<1>1. CASE UNCHANGED vars
  BY <1>1 DEF vars, IInv, SubmissionTypeOK, KeyInv, RequestInv, Handler, Run, Told, Replay, Runs
<1>2. ASSUME NEW r \in Requests,
             \/ Send(r) \/ Handle(r) \/ Hangup(r) \/ StoreFails(r) \/ ReleaseFails(r) \/ Dispatch(r) \/ Finish(r)
      PROVE  IInv'
  BY <1>2, SendKeeps, FindKeeps, GetKeeps, SaveIdempotencyKeeps, SubmitKeeps, CreateProcessKeeps, AdmitKeeps,
     StartKeeps, ReleaseKeeps, StoreFailsKeeps, HangupKeeps, RowMovesKeeps DEF Handle
<1>3. CASE Drain \/ Restart \/ Age \/ purgeIdempotency
  BY <1>3, DrainKeeps, RestartKeeps, AgeKeeps, purgeIdempotencyKeeps
<1>4. ASSUME NEW old \in SUBSET Requests, PurgeRows(old)
      PROVE  IInv'
  BY <1>4, PurgeRowsKeeps
<1>5. QED
  BY <1>1, <1>2, <1>3, <1>4 DEF Next

(* IInv holds in every reachable state.                                    *)
THEOREM Inductive == Spec => []IInv
  BY InitEstablishes, StepKeeps, PTL DEF Spec

(* The submission model is type correct for every instance.                *)
THEOREM SubmissionTypeCorrect == Spec => []SubmissionTypeOK
<1>1. IInv => SubmissionTypeOK
  BY DEF IInv
<1>2. QED
  BY <1>1, Inductive, PTL

(* However many requests repeat one Idempotency-Key, and whatever is lost, *)
(* dies or restarts, no two executions of the key run unless retention or  *)
(* a shutdown came between (createProcess, claimIdempotent).               *)
THEOREM AtMostOnceHolds == Spec => []AtMostOnce
<1>1. IInv => AtMostOnce
  BY DEF IInv, RequestInv, Run, AtMostOnce
<1>2. QED
  BY <1>1, Inductive, PTL

(* A refusal of createProcess is final: the execution never runs, unless   *)
(* the supervisor refused it while draining.                               *)
THEOREM RefusalsAreFinal == Spec => []RefusedNeverRuns
<1>1. IInv => RefusedNeverRuns
  BY DEF IInv, RequestInv, Told, RefusedNeverRuns
<1>2. QED
  BY <1>1, Inductive, PTL

(* What was accepted keeps its key until the retention takes it: no other  *)
(* request's release, failure or repeat can take it away.                  *)
THEOREM AcceptedKeysStay == Spec => []AcceptedKeepsKey
<1>1. IInv => AcceptedKeepsKey
  BY DEF IInv, RequestInv, Told, AcceptedKeepsKey
<1>2. QED
  BY <1>1, Inductive, PTL

(* replayIdempotent hands back another execution of the very same body and *)
(* the replayed request itself never runs.                                 *)
THEOREM ReplaysAreOriginals == Spec => []ReplayIsTheOriginal
<1>1. IInv => ReplayIsTheOriginal
  BY DEF IInv, RequestInv, Told, Replay, ReplayIsTheOriginal
<1>2. QED
  BY <1>1, Inductive, PTL
=============================================================================
