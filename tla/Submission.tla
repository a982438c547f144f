----------------------------- MODULE Submission -----------------------------
(***************************************************************************)
(* POST /v1/processes (internal/api/handlers.go) with an Idempotency-Key:  *)
(* look the key up, build the execution, claim the key for it, submit it,  *)
(* and give the key back when the submission is refused.  Clients hang up, *)
(* time out and repeat; a hub in between loses answers; the daemon drains, *)
(* dies and starts again; retention removes old rows and keys.             *)
(*                                                                         *)
(* A request is also the id of the execution it builds.  Every store call  *)
(* of a handler is a step.                                                 *)
(***************************************************************************)
EXTENDS Integers

CONSTANTS Requests,     \* HTTP requests, all with the same Idempotency-Key
          NoRequest,
          ViaHub,       \* those a hub forwards
          Bodies,       \* what a request can ask for
          MaxRestarts   \* bound: how often the daemon starts again

ASSUME SubmissionAssumption ==
  MaxRestarts \in Nat /\ NoRequest \notin Requests /\ Bodies # {}

VARIABLES
  pc,       \* request -> where its handler is
  body,     \* request -> its body
  record,   \* request -> the execution FindIdempotency gave it
  told,     \* request -> what its client was answered
  gone,     \* requests whose client no longer waits
  row,      \* execution -> its state in the store
  key,      \* who holds the idempotency key, or NoRequest
  age,      \* age of that claim: 0, past claimGrace, past the retention
  gc,       \* PurgeHistory: "idle", or "keys" between its two deletes
  queueDraining, startDraining, \* Scheduler and Supervisor refuse new work
  restarts,
  ran,      \* history: executions that became a process
  expired,  \* history: executions whose row or claim outlived the retention
  cutOff    \* history: executions refused by the supervisor while draining

vars == <<pc, body, record, told, gone, row, key, age, gc, queueDraining, startDraining,
          restarts, ran, expired, cutOff>>
rest == <<body, age, gc, queueDraining, startDraining, restarts, expired, cutOff>>

Terminal == {"ended", "refused"}
Rows == {"none", "created", "waiting", "starting", "running"} \cup Terminal
Refusals == {"refused", "in_flight", "reuse"}
Answers == {"none", "accepted", "replay", "error", "dispatch_unknown"} \cup Refusals
StoreCalls == {"find", "get", "claim", "find again", "get again", "submit", "create", "admit", "start"}
Handling == StoreCalls \cup {"release"}

Init ==
  /\ pc = [r \in Requests |-> "idle"] /\ body = [r \in Requests |-> CHOOSE b \in Bodies : TRUE]
  /\ record = [r \in Requests |-> NoRequest] /\ told = [r \in Requests |-> "none"] /\ gone = {}
  /\ row = [r \in Requests |-> "none"] /\ key = NoRequest /\ age = 0 /\ gc = "idle"
  /\ queueDraining = FALSE /\ startDraining = FALSE /\ restarts = 0
  /\ ran = {} /\ expired = {} /\ cutOff = {}

----------------------------------------------------------------------------
(* Between a node and the client there may be a hub.                       *)

(* The failure of the node is passed on as the node's own refusal.         *)
dispatchWriter_PassesOn(answer) == IF answer = "bad_gateway" THEN "refused" ELSE answer

(* A node that did not answer has not said no.                             *)
dispatchWriter(answer) == IF answer = "bad_gateway" THEN "dispatch_unknown" ELSE answer

(* A client that still waits is answered.                                  *)
Answer(r, answer) ==
  /\ pc' = [pc EXCEPT ![r] = "over"]
  /\ told' = IF r \in gone THEN told
             ELSE [told EXCEPT ![r] = IF r \in ViaHub THEN dispatchWriter(answer) ELSE answer]

Goto(r, where) == pc' = [pc EXCEPT ![r] = where] /\ UNCHANGED told

(* The connection to the client, or from the hub to the node, breaks; the  *)
(* handler's context is cancelled.                                         *)
Hangup(r) ==
  /\ pc[r] \in Handling /\ r \notin gone
  /\ gone' = gone \cup {r}
  /\ told' = [told EXCEPT ![r] = IF r \in ViaHub THEN dispatchWriter("bad_gateway") ELSE "none"]
  /\ UNCHANGED <<pc, record, row, key, ran, rest>>

----------------------------------------------------------------------------
(* createProcess.                                                          *)

Send(r) ==
  /\ pc[r] = "idle"
  /\ Goto(r, "find") /\ \E b \in Bodies : body' = [body EXCEPT ![r] = b]
  /\ UNCHANGED <<record, gone, row, key, ran, age, gc, queueDraining, startDraining, restarts, expired, cutOff>>

(* A key stands for its request whatever the body.                         *)
sameRequest_AnyBody(r) == TRUE

(* The hash of the body is the one the key was claimed with.               *)
sameRequest(r) == body[key] = body[r]

(* Nothing to replay: the request is new, or the winner of the claim has   *)
(* not recorded its execution yet.                                         *)
NothingToReplay(r) ==
  IF pc[r] \in {"find", "get"} THEN Goto(r, "claim") ELSE Answer(r, "in_flight")

(* replayIdempotent: the record of the key, then the execution it names.   *)
FindIdempotency(r, get) ==
  /\ \/ key = NoRequest /\ NothingToReplay(r) /\ UNCHANGED record
     \/ key # NoRequest /\ ~sameRequest(r) /\ Answer(r, "reuse") /\ UNCHANGED record
     \/ key # NoRequest /\ sameRequest(r) /\ Goto(r, get) /\ record' = [record EXCEPT ![r] = key]
  /\ UNCHANGED <<gone, row, key, ran, rest>>

GetProcess(r) ==
  /\ \/ row[record[r]] # "none" /\ Answer(r, "replay")
     \/ row[record[r]] = "none" /\ NothingToReplay(r)
  /\ UNCHANGED <<record, gone, row, key, ran, rest>>

Find(r) == pc[r] = "find" /\ FindIdempotency(r, "get")
Get(r) == pc[r] = "get" /\ GetProcess(r)

(* claimIdempotent: the insert wins the key, or finds it taken.            *)
SaveIdempotency(r) ==
  /\ pc[r] = "claim" /\ gc = "idle"
  /\ \/ key = NoRequest /\ Goto(r, "submit") /\ key' = r /\ age' = 0
     \/ key # NoRequest /\ Goto(r, "find again") /\ UNCHANGED <<key, age>>
  /\ UNCHANGED <<record, gone, row, ran, body, gc, queueDraining, startDraining, restarts, expired, cutOff>>

(* The loser replays what the winner produced, if it is there already.     *)
FindAgain(r) == pc[r] = "find again" /\ FindIdempotency(r, "get again")
GetAgain(r) == pc[r] = "get again" /\ GetProcess(r)

(* Submit: draining and a full queue refuse before there is a row.         *)
Submit(r) ==
  /\ pc[r] = "submit"
  /\ \/ queueDraining /\ Goto(r, "release")
     \/ ~queueDraining /\ (Goto(r, "release") \/ Goto(r, "create"))
  /\ UNCHANGED <<record, gone, row, key, ran, rest>>

CreateProcess(r) ==
  /\ pc[r] = "create" /\ gc = "idle"
  /\ Goto(r, "admit") /\ row' = [row EXCEPT ![r] = "created"]
  /\ UNCHANGED <<record, gone, key, ran, rest>>

(* admit: queued, refused with a row that says so, or launched.            *)
Admit(r) ==
  /\ pc[r] = "admit" /\ gc = "idle"
  /\ \/ Answer(r, "accepted") /\ row' = [row EXCEPT ![r] = "waiting"]
     \/ Goto(r, "release") /\ row' = [row EXCEPT ![r] = "refused"]
     \/ Goto(r, "start") /\ row' = [row EXCEPT ![r] = "starting"]
  /\ UNCHANGED <<record, gone, key, ran, rest>>

(* Supervisor.Start: refused while draining, or the attempt begins; one    *)
(* that fails to start is settled and the submission still accepted.       *)
Start(r) ==
  /\ pc[r] = "start" /\ gc = "idle"
  /\ \/ /\ startDraining
        /\ Goto(r, "release") /\ cutOff' = cutOff \cup {r}
        /\ UNCHANGED <<row, ran>>
     \/ /\ ~startDraining
        /\ Answer(r, "accepted") /\ UNCHANGED cutOff
        /\ \/ row' = [row EXCEPT ![r] = "running"] /\ ran' = ran \cup {r}
           \/ \E after \in {"waiting", "ended"} : row' = [row EXCEPT ![r] = after] /\ UNCHANGED ran
  /\ UNCHANGED <<record, gone, key, body, age, gc, queueDraining, startDraining, restarts, expired>>

(* Whoever holds the key loses it.                                         *)
DeleteIdempotency_AnyHolder(r) ==
  /\ pc[r] = "release" /\ gc = "idle"
  /\ Answer(r, "refused") /\ key' = NoRequest
  /\ UNCHANGED <<record, gone, row, ran, rest>>

(* refused: the claim is given back, if it is still this execution's.      *)
DeleteIdempotency(r) ==
  /\ pc[r] = "release" /\ gc = "idle"
  /\ Answer(r, "refused") /\ key' = IF key = r THEN NoRequest ELSE key
  /\ UNCHANGED <<record, gone, row, ran, rest>>

(* releaseIdempotent only logs a delete that fails.                        *)
ReleaseFails(r) ==
  /\ pc[r] = "release"
  /\ Answer(r, "refused")
  /\ UNCHANGED <<record, gone, row, key, ran, rest>>

(* Every failed submission gives its claim back.                           *)
StoreFails_Releases(r) ==
  /\ pc[r] \in StoreCalls
  /\ Answer(r, "error") /\ key' = IF key = r THEN NoRequest ELSE key
  /\ UNCHANGED <<record, gone, row, ran, rest>>

(* A store call fails, because the store does or because the client hung   *)
(* up: not a refusal, and the claim stays.                                 *)
StoreFails(r) ==
  /\ pc[r] \in StoreCalls
  /\ Answer(r, "error")
  /\ UNCHANGED <<record, gone, row, key, ran, rest>>

----------------------------------------------------------------------------
(* The rest of the daemon, as far as a submission can tell.                *)

(* Dispatch and the end of an attempt.                                     *)
Dispatch(r) ==
  /\ row[r] = "waiting" /\ ~queueDraining /\ gc = "idle"
  /\ row' = [row EXCEPT ![r] = "running"] /\ ran' = ran \cup {r}
  /\ UNCHANGED <<pc, record, told, gone, key, rest>>

Finish(r) ==
  /\ row[r] = "running" /\ gc = "idle"
  /\ \E after \in {"waiting", "ended"} : row' = [row EXCEPT ![r] = after]
  /\ UNCHANGED <<pc, record, told, gone, key, ran, rest>>

(* SIGTERM: the scheduler drains first, the supervisor after it.           *)
Drain ==
  /\ restarts < MaxRestarts /\ ~startDraining
  /\ queueDraining' = TRUE /\ startDraining' = queueDraining
  /\ UNCHANGED <<pc, record, told, gone, row, key, ran, body, age, gc, restarts, expired, cutOff>>

(* The daemon dies or exits, and Reconcile runs before the API is served:  *)
(* what was accepted goes in line, what was interrupted is settled.        *)
Restart ==
  /\ restarts < MaxRestarts
  /\ restarts' = restarts + 1 /\ queueDraining' = FALSE /\ startDraining' = FALSE /\ gc' = "idle"
  /\ pc' = [r \in Requests |-> IF pc[r] \in Handling THEN "over" ELSE pc[r]]
  /\ told' = [r \in Requests |-> IF pc[r] \in Handling /\ r \notin gone /\ r \in ViaHub
                                 THEN dispatchWriter("bad_gateway") ELSE told[r]]
  /\ row' \in {new \in [Requests -> Rows] : \A r \in Requests :
       new[r] \in CASE row[r] = "created" -> {"waiting"}
                    [] row[r] \in {"starting", "running"} -> {"waiting", "ended"}
                    [] OTHER -> {row[r]}}
  /\ UNCHANGED <<record, gone, key, ran, body, age, expired, cutOff>>

(* A claim grows older.  A handler takes less than claimGrace from its     *)
(* claim to its row, which is what claimGrace is for.                      *)
Age ==
  /\ key # NoRequest /\ age < 2
  /\ pc[key] \notin {"submit", "create"}
  /\ age' = age + 1 /\ expired' = IF age = 1 THEN expired \cup {key} ELSE expired
  /\ UNCHANGED <<pc, record, told, gone, row, key, ran, body, gc, queueDraining, startDraining, restarts, cutOff>>

(* PurgeHistory holds writeMu: terminal rows past the retention or beyond  *)
(* the row limit first, whichever those are,                               *)
PurgeRows(old) ==
  /\ gc = "idle" /\ gc' = "keys"
  /\ \A r \in old : row[r] \in Terminal
  /\ row' = [r \in Requests |-> IF r \in old THEN "none" ELSE row[r]]
  /\ expired' = expired \cup old
  /\ UNCHANGED <<pc, record, told, gone, key, ran, body, age, queueDraining, startDraining, restarts, cutOff>>

(* Claims are never swept, only rows.                                      *)
purgeIdempotency_Skipped ==
  /\ gc = "keys" /\ gc' = "idle"
  /\ UNCHANGED <<pc, record, told, gone, row, key, ran, body, age, queueDraining, startDraining, restarts, expired, cutOff>>

(* then the claims past the retention, and past the grace with no row.     *)
purgeIdempotency ==
  /\ gc = "keys" /\ gc' = "idle"
  /\ key' = IF key # NoRequest /\ (age = 2 \/ (age = 1 /\ row[key] = "none")) THEN NoRequest ELSE key
  /\ UNCHANGED <<pc, record, told, gone, row, ran, body, age, queueDraining, startDraining, restarts, expired, cutOff>>

Handle(r) ==
  \/ Find(r) \/ Get(r) \/ SaveIdempotency(r) \/ FindAgain(r) \/ GetAgain(r) \/ Submit(r)
  \/ CreateProcess(r) \/ Admit(r) \/ Start(r) \/ DeleteIdempotency(r)

Next ==
  \/ \E r \in Requests : Send(r) \/ Handle(r) \/ Hangup(r) \/ StoreFails(r) \/ ReleaseFails(r) \/ Dispatch(r) \/ Finish(r)
  \/ Drain \/ Restart \/ Age \/ purgeIdempotency
  \/ \E old \in SUBSET Requests : PurgeRows(old)

(* Handlers run, time passes and the garbage collector keeps its tick.     *)
Fairness ==
  /\ \A r \in Requests : WF_vars(Handle(r))
  /\ WF_vars(Age) /\ WF_vars(PurgeRows({})) /\ WF_vars(purgeIdempotency)

Spec == Init /\ [][Next]_vars
FairSpec == Spec /\ Fairness

----------------------------------------------------------------------------
(* Rows, claims and answers are those createProcess, Reconcile and         *)
(* PurgeHistory can produce.                                               *)
SubmissionTypeOK ==
  /\ pc \in [Requests -> Handling \cup {"idle", "over"}]
  /\ body \in [Requests -> Bodies]
  /\ record \in [Requests -> Requests \cup {NoRequest}]
  /\ told \in [Requests -> Answers]
  /\ row \in [Requests -> Rows]
  /\ key \in Requests \cup {NoRequest} /\ age \in 0..2 /\ gc \in {"idle", "keys"}
  /\ queueDraining \in BOOLEAN /\ startDraining \in BOOLEAN /\ restarts \in 0..MaxRestarts
  /\ gone \subseteq Requests /\ ran \subseteq Requests
  /\ expired \subseteq Requests /\ cutOff \subseteq Requests

(* What a request started, or may still start.                             *)
Runs(r) == r \in ran \/ row[r] \in {"created", "waiting", "starting", "running"}

(* However often a request is repeated under its key, and whatever is lost *)
(* or dies in between, the work runs once: a second execution of the key   *)
(* needs the first to be past its retention, or cut off by a shutdown.     *)
AtMostOnce ==
  \A q, r \in Requests : Runs(q) /\ Runs(r) /\ q # r => {q, r} \cap (expired \cup cutOff) # {}

(* A client that was told no may take it at its word: the execution never  *)
(* runs, now or after a restart, unless a shutdown cut its start off.      *)
RefusedNeverRuns ==
  \A r \in Requests : told[r] \in Refusals => ~Runs(r) \/ r \in cutOff

(* An accepted execution keeps its key: it stays the one a repeat of the   *)
(* request is answered with until retention takes it.                      *)
AcceptedKeepsKey ==
  \A r \in Requests : told[r] = "accepted" => key = r \/ r \in expired

(* A replay hands back an execution of the very same request.              *)
ReplayIsTheOriginal ==
  \A r \in Requests : told[r] = "replay" =>
    record[r] \in Requests \ {r} /\ body[record[r]] = body[r] /\ ~Runs(r)

(* A claim without an execution does not refuse repeats for ever.          *)
Stale == key # NoRequest /\ row[key] = "none" /\ pc[key] = "over"
StaleClaimFreed == Stale ~> ~Stale

----------------------------------------------------------------------------
(* Nothing ran and nothing will (createProcess).                           *)
NothingWillRun == \A r \in Requests : told[r] \in Refusals => ~Runs(r)

(* A key replays for as long as its execution is retained                  *)
(* (replayIdempotent).                                                     *)
KeyReplaysWhileRetained ==
  \A r \in Requests : told[r] = "accepted" /\ row[r] # "none" => key = r

(* A claim is not left behind when the cancellation of the request is what *)
(* refused the submission (releaseIdempotent).                             *)
ClaimGivenBack == ~Stale
=============================================================================
