---------------------------- MODULE OwnerProofs ----------------------------
(***************************************************************************)
(* The rows of the store implement the lifecycle of the module Execution,  *)
(* for every instance and under every fault but the two schedules that     *)
(* Timely excludes.  Nothing in the code compares a copy of an execution   *)
(* with the row it overwrites, so the argument is one of ownership: at any *)
(* time at most one goroutine is entitled to write the row of an           *)
(* execution, and its copy is the row, or one edge of the lifecycle ahead  *)
(* of it.                                                                  *)
(***************************************************************************)
EXTENDS DaemonProofs

(* No goroutine is delayed past the backoff of its own retry, and no stop  *)
(* request overlaps the dispatch of its execution: the two schedules under *)
(* which ownership is lost (README, section 4).  Every fault may happen.   *)
Timely == "stall" \notin Faults /\ "cancelrace" \notin Faults

----------------------------------------------------------------------------
(* The edges of the lifecycle, between two copies of an execution.         *)

Waiting == {"CREATED", "QUEUED", "RETRYING"}

Supervised == {"RUNNING", "STOPPING"}

Outcomes == {"COMPLETED", "FAILED", "CANCELED", "RETRYING", "QUEUED"}

(* What a write may make of a row without an attempt being counted.        *)
PlainEdge(from, to) ==
  \/ from = NONE /\ to = "CREATED"
  \/ from = "CREATED" /\ to = "QUEUED"
  \/ from = "STARTING" /\ to = "RUNNING"
  \/ from = "RUNNING" /\ to \in {"STOPPING", "COMPLETED"}
  \/ from \in Supervised /\ to = "QUEUED"
  \/ from \in Waiting \cup Supervised /\ to = "CANCELED"

SettledEdge(id, from, to, attempt) ==
  \/ /\ from \in {"STARTING"} \cup Supervised /\ to = "RETRYING"
     /\ \/ EffectiveAttempts(Def[id].retry) = AttemptsUnlimited
        \/ attempt < EffectiveAttempts(Def[id].retry)
  \/ from \in {"QUEUED", "STARTING"} \cup Supervised /\ to = "FAILED"

Edge(id, p, q) ==
  \/ q.state = p.state /\ q.attempt = p.attempt
  \/ PlainEdge(p.state, q.state) /\ q.attempt = p.attempt
  \/ p.state \in Waiting /\ q.state = "STARTING" /\ q.attempt = p.attempt + 1
  \/ SettledEdge(id, p.state, q.state, q.attempt) /\ q.attempt \in {p.attempt, 0}

----------------------------------------------------------------------------
(* Who may write the row of an execution.                                  *)

Pending(id) == id \in todo /\ mode # "boot"

Attempting(id, n) == exec[<<id, n>>].sup \in UsingPhases

(* Someone still holds a reference to this attempt and will set its intent *)
(* or write it down.                                                       *)
Loose(id, n) ==
  \/ exec[<<id, n>>].stop = "begin"
  \/ exec[<<id, n>>].timer = "fired"
  \/ stopper[id].pc = "intent" /\ stopper[id].pid = n
  \/ <<id, n>> \in shut

NoLauncher(id) == \A t \in Launchers : launcher[t].id # id

NoAttempt(id) == \A n \in 1..MaxLaunches : ~Attempting(id, n)

NoLoose(id) == \A n \in 1..MaxLaunches : ~Loose(id, n)

(* Only a shutdown puts an attempt back into the queue.                    *)
Requeued(p) == p.state = "QUEUED" => mode \in {"stop", "exit"}

(* Nobody: an attempt that is over may be written again, as it is.         *)
Unowned(id) ==
  /\ NoLauncher(id) /\ ~Pending(id) /\ ~Cancelling(id) /\ NoAttempt(id)
  /\ \A n \in 1..MaxLaunches :
        Loose(id, n) => /\ exec[<<id, n>>].sup = "done"
                        /\ exec[<<id, n>>].p = row[id]
                        /\ row[id].state \in Outcomes /\ Requeued(row[id])

(* The dispatch pass, by the copy it read.                                 *)
OwnedByPass(id) ==
  /\ NoLauncher(id) /\ Pending(id) /\ ~Cancelling(id) /\ NoAttempt(id) /\ NoLoose(id)
  /\ snap[id] = row[id] /\ row[id].state \in {"QUEUED", "RETRYING"}

(* A stop request, by the copy it read.                                    *)
OwnedByStop(id) ==
  /\ NoLauncher(id) /\ ~Pending(id) /\ Cancelling(id) /\ NoAttempt(id) /\ NoLoose(id)
  /\ stopper[id].p.state = "CANCELED"
  /\ IF stopper[id].pc = "settle" THEN row[id] = stopper[id].p
     ELSE row[id].state \in Waiting /\ Edge(id, row[id], stopper[id].p)

(* The rows a launcher may find before it starts an attempt.               *)
Startable(t) == IF t = Dispatcher THEN {"QUEUED", "RETRYING"} ELSE {"CREATED"}

(* The attempt a launcher has forked and not handed over.                  *)
Forked(l, e, n) ==
  /\ l.p.state = "RUNNING" /\ l.p.pid = n
  /\ e.p = l.p /\ e.sup = "none" /\ e.proc \in {"alive", "zombie"}
  /\ e.intent = "" /\ e.stop = "none" /\ e.timer = "off"

(* What the program counter of a launcher implies of the row, of its copy  *)
(* and of the attempt it is starting.                                      *)
LauncherCopy(t, l, r, e, n) ==
  /\ l.pc = "create" => t # Dispatcher /\ r.state = NONE
  /\ l.pc \in {"claim", "unclaim", "yield"} => t # Dispatcher
  /\ l.pc \in {"claim", "unclaim", "yield", "slot", "lock", "unslot", "starting"}
       => l.p = r /\ r.state \in Startable(t)
  /\ l.pc \in {"conflict", "park"}
       => t # Dispatcher /\ r.state = "CREATED" /\ l.p.state \in {"CANCELED", "QUEUED"}
          /\ Edge(l.id, r, l.p)
  /\ l.pc \in {"expire", "expired"}
       => t = Dispatcher /\ r.state = "QUEUED" /\ l.p.state = "FAILED" /\ Edge(l.id, r, l.p)
  /\ l.pc \in {"start", "fork"} => l.p = r /\ r.state = "STARTING" /\ n # 0 /\ e = NoExec
  /\ l.pc \in {"running", "register", "abandon"} => n # 0 /\ Forked(l, e, n)
  /\ l.pc \in {"running", "abandon"} => r.state = "STARTING" /\ r.attempt = l.p.attempt
  /\ l.pc = "register" => l.p = r
  /\ l.pc \in {"failunlock", "failwrite"}
       => r.state = "STARTING" /\ l.p.state \in {"RETRYING", "FAILED"} /\ Edge(l.id, r, l.p)
  /\ l.pc = "failsettle" => l.p = r /\ r.state \in {"RETRYING", "FAILED"}
  /\ l.pc \in {"release", "unlock"} => r.state \in Startable(t) \cup {"STARTING"}

(* A launcher: a submission, or the dispatch loop.                         *)
OwnedByLauncher(id, t) ==
  /\ launcher[t].id = id /\ \A u \in Launchers \ {t} : launcher[u].id # id
  /\ ~Pending(id) /\ ~Cancelling(id) /\ NoAttempt(id) /\ NoLoose(id)
  /\ LauncherCopy(t, launcher[t], row[id], exec[<<id, launches[id]>>], launches[id])

(* What the phase of a supervise goroutine implies of the row and its copy. *)
AttemptCopy(e, r) ==
  /\ e.sup \in {"wait", "reaped", "deleted"}
       => e.p = r /\ r.state \in Supervised /\ (r.state = "STOPPING" => e.intent # "")
  /\ e.sup = "wait" <=> e.proc \in {"alive", "zombie"}
  /\ e.sup = "classified" => r.state \in Supervised
  /\ e.sup = "persisted" => e.p = r
  /\ e.sup \in {"classified", "persisted"} => e.p.state \in Outcomes /\ Requeued(e.p)
  /\ e.intent = "shutdown" => mode \in {"stop", "exit"}

(* The supervise goroutine of an attempt, and what stops it.               *)
OwnedByAttempt(id, n) ==
  /\ NoLauncher(id) /\ ~Pending(id) /\ ~Cancelling(id)
  /\ Attempting(id, n)
  /\ \A m \in (1..MaxLaunches) \ {n} : ~Attempting(id, m) /\ ~Loose(id, m)
  /\ AttemptCopy(exec[<<id, n>>], row[id])
  /\ exec[<<id, n>>].sup = "classified" => Edge(id, row[id], exec[<<id, n>>].p)

(* At most one of them, and what they refer to exists.                     *)
Owned(id) ==
  \/ Unowned(id) \/ OwnedByPass(id) \/ OwnedByStop(id)
  \/ \E t \in Launchers : OwnedByLauncher(id, t)
  \/ \E n \in 1..MaxLaunches : OwnedByAttempt(id, n)

(* A launch that was not made has left nothing behind; what is registered  *)
(* as running is supervised, and so is a process that is not an orphan.    *)
Referenced(id) ==
  /\ \A n \in 1..MaxLaunches : n > launches[id] => exec[<<id, n>>] = NoExec
  /\ running[id] # 0
       => running[id] \in 1..MaxLaunches
          /\ exec[<<id, running[id]>>].sup \in {"wait", "reaped"}
  /\ stopper[id].pc = "intent" => stopper[id].pid \in 1..MaxLaunches
  /\ \A n \in 1..MaxLaunches :
        /\ exec[<<id, n>>].timer = "armed" => exec[<<id, n>>].sup = "wait"
        /\ exec[<<id, n>>].stop # "none" => exec[<<id, n>>].intent # ""
        /\ exec[<<id, n>>].proc \in {"alive", "zombie"}
             => \/ exec[<<id, n>>].sup = "wait"
                \/ n = launches[id] /\ \E t \in Launchers :
                     launcher[t].id = id /\ launcher[t].pc \in {"running", "register", "abandon"}

(* An execution that was not submitted yet.                                *)
Fresh(id) ==
  /\ launcher[id].pc = "idle" => row[id].state = NONE
  /\ row[id].state = NONE => row[id].attempt = 0 /\ launches[id] = 0

(* Launchers are busy with one execution, or with none; a submission with  *)
(* its own.                                                                *)
Busy(l) == l.pc \notin {"idle", "done"}

LaunchersShape ==
  \A t \in Launchers :
     /\ Busy(launcher[t]) <=> launcher[t].id # 0
     /\ t # Dispatcher /\ Busy(launcher[t]) => launcher[t].id = t

(* A daemon that is down, or not up yet, has no goroutine.                 *)
Quiet ==
  /\ \A t \in Launchers : ~Busy(launcher[t])
  /\ \A id \in Procs : stopper[id].pc \in {"idle", "done"} /\ running[id] = 0
  /\ \A h \in Handles : exec[h].sup = "none" /\ exec[h].stop = "none" /\ exec[h].timer = "off"
  /\ mode = "down" => todo = {}

ModeInv ==
  /\ mode \in {"down", "boot"} => Quiet
  /\ mode \notin {"stop", "exit"} => shut = {}

OwnInv ==
  /\ LaunchersShape /\ ModeInv
  /\ \A id \in Procs : Owned(id) /\ Referenced(id) /\ Fresh(id)

----------------------------------------------------------------------------
(* The edges the helpers take.                                             *)

(* A transition along an edge of core/state.go arrives, and counts no      *)
(* attempt.                                                                *)
LEMMA TransitionArrives ==
  ASSUME NEW p \in Process, NEW to \in States, NEW reason \in Reasons, CanTransition(p.state, to)
  PROVE  /\ TransitionTo(p, to, reason) \in Process
         /\ TransitionTo(p, to, reason).state = to
         /\ TransitionTo(p, to, reason).attempt = p.attempt
         /\ TransitionTo(p, to, reason).pid = p.pid
BY DEF TransitionTo, Process

(* The edges the scheduler and the supervisor ask for.                     *)
LEMMA EdgesExist ==
  /\ CanTransition("CREATED", "QUEUED") /\ CanTransition("QUEUED", "FAILED")
  /\ \A s \in Waiting \cup {"STOPPING"} : CanTransition(s, "CANCELED")
  /\ \A s \in Waiting : CanTransition(s, "STARTING")
  /\ CanTransition("STARTING", "RUNNING") /\ CanTransition("RUNNING", "STOPPING")
  /\ \A s \in {"STARTING"} \cup Supervised : CanTransition(s, "CRASHED")
  /\ CanTransition("RUNNING", "COMPLETED")
  /\ CanTransition("STOPPING", "QUEUED") /\ CanTransition("STOPPING", "FAILED")
  /\ CanTransition("CRASHED", "RETRYING") /\ CanTransition("CRASHED", "FAILED")
BY DEF CanTransition, States, allowedTransitions, Waiting, Supervised

LEMMA Names ==
  /\ Waiting \subseteq States /\ Supervised \subseteq States /\ Outcomes \subseteq States
  /\ {"CREATED", "QUEUED", "STARTING", "RUNNING", "STOPPING", "CRASHED", "RETRYING",
       "COMPLETED", "FAILED", "CANCELED"} = States
  /\ {"", "user_request", "timeout", "max_attempts", "queue_timeout", "shutdown",
       "daemon_restart", "start_error", "no_retry_exit_code", "lock_conflict", "orphaned",
       "no_capacity"} = Reasons
BY DEF Waiting, Supervised, Outcomes, States, Reasons

(* settle, of a crash: a retry only within the budget.                     *)
LEMMA SettleEdge ==
  ASSUME NEW id \in Procs, NEW p \in Process, p.state = "CRASHED", NEW trigger,
         NEW reason \in Reasons, NEW reset \in BOOLEAN,
         NEW from \in {"STARTING"} \cup Supervised
  PROVE  LET q == settle(p, Def[id].retry, trigger, reason, reset)
         IN  /\ q \in Process
             /\ q.state \in {"RETRYING", "FAILED"}
             /\ SettledEdge(id, from, q.state, q.attempt)
             /\ q.attempt \in {p.attempt, 0}
             /\ ~reset => q.attempt = p.attempt
             /\ q.pid = p.pid
<1> DEFINE c == IF reset THEN [p EXCEPT !.attempt = 0] ELSE p
<1>1. c \in Process /\ c.state = "CRASHED" /\ c.pid = p.pid
  BY DEF Process
<1>2. c.attempt \in {p.attempt, 0} /\ (~reset => c.attempt = p.attempt)
  BY DEF Process
<1> HIDE DEF c
<1>3. ASSUME NEW to \in {"RETRYING", "FAILED"}, NEW why \in Reasons
      PROVE  /\ TransitionTo(c, to, why) \in Process
             /\ TransitionTo(c, to, why).state = to
             /\ TransitionTo(c, to, why).attempt = c.attempt
             /\ TransitionTo(c, to, why).pid = c.pid
  <2>1. CanTransition(c.state, to)
    BY <1>1, EdgesExist
  <2>2. to \in States
    BY Names
  <2>3. QED
    BY <1>1, <2>1, <2>2, TransitionArrives
<1>4. CASE Allowed(Def[id].retry, trigger, c.attempt)
  <2>1. settle(p, Def[id].retry, trigger, reason, reset) = TransitionTo(c, "RETRYING", "")
    BY <1>4 DEF settle, c
  <2>2. SettledEdge(id, from, "RETRYING", c.attempt)
    BY <1>4 DEF SettledEdge, Allowed
  <2>3. "" \in Reasons
    BY Names
  <2>4. QED
    BY <1>1, <1>2, <1>3, <2>1, <2>2, <2>3
<1>5. CASE ~Allowed(Def[id].retry, trigger, c.attempt)
  <2>1. settle(p, Def[id].retry, trigger, reason, reset) = TransitionTo(c, "FAILED", reason)
    BY <1>5 DEF settle, c
  <2>2. SettledEdge(id, from, "FAILED", c.attempt)
    BY DEF SettledEdge
  <2>3. QED
    BY <1>1, <1>2, <1>3, <2>1, <2>2
<1>6. QED
  BY <1>4, <1>5

(* launch: the next attempt.                                               *)
LEMMA LaunchedEdge ==
  ASSUME NEW id \in Procs, NEW p \in Process, p.state \in Waiting
  PROVE  Launched(p).state = "STARTING" /\ Edge(id, p, Launched(p))
<1> DEFINE q == ClearAttempt([p EXCEPT !.attempt = @ + 1])
<1>1. q \in Process /\ q.state = p.state /\ q.attempt = p.attempt + 1
  <2> DEFINE n == p.attempt + 1
  <2>1. n \in Nat
    BY DEF Process
  <2> HIDE DEF n, q
  <2>2. q = [p EXCEPT !.attempt = n, !.pid = 0]
    BY DEF ClearAttempt, Process, n, q
  <2>3. q \in Process /\ q.state = p.state /\ q.attempt = n
    BY <2>1, <2>2 DEF Process
  <2>4. QED
    BY <2>3 DEF n
<1> HIDE DEF q
<1>2. CanTransition(q.state, "STARTING")
  BY <1>1, EdgesExist
<1>3. "STARTING" \in States /\ "" \in Reasons
  BY Names
<1>4. TransitionTo(q, "STARTING", "").state = "STARTING"
      /\ TransitionTo(q, "STARTING", "").attempt = p.attempt + 1
  BY <1>1, <1>2, <1>3, TransitionArrives
<1>5. QED
  BY <1>4 DEF Launched, Edge, q

(* A transition to a state from which nothing was attempted.               *)
LEMMA PlainStep ==
  ASSUME NEW id \in Procs, NEW p \in Process, NEW to \in States, NEW reason \in Reasons,
         CanTransition(p.state, to), PlainEdge(p.state, to)
  PROVE  TransitionTo(p, to, reason).state = to /\ Edge(id, p, TransitionTo(p, to, reason))
BY TransitionArrives DEF Edge

(* A row that expired in the queue.                                        *)
LEMMA ExpiredEdge ==
  ASSUME NEW id \in Procs, NEW p \in Process, p.state = "QUEUED"
  PROVE  /\ TransitionTo(p, "FAILED", "queue_timeout").state = "FAILED"
         /\ Edge(id, p, TransitionTo(p, "FAILED", "queue_timeout"))
<1>1. CanTransition(p.state, "FAILED") /\ "FAILED" \in States /\ "queue_timeout" \in Reasons
  BY EdgesExist, Names
<1>2. SettledEdge(id, p.state, "FAILED", p.attempt)
  BY DEF SettledEdge
<1>3. QED
  BY <1>1, <1>2, TransitionArrives DEF Edge

(* What a submission that could not start becomes.                         *)
LEMMA ParkedEdge ==
  ASSUME NEW id \in Procs, NEW p \in Process, p.state = "CREATED"
  PROVE  Parked(id, p).state \in {"CANCELED", "QUEUED"} /\ Edge(id, p, Parked(id, p))
<1>1. CanTransition(p.state, "CANCELED") /\ CanTransition(p.state, "QUEUED")
  BY EdgesExist DEF Waiting
<1>2. {"CANCELED", "QUEUED"} \subseteq States /\ {"no_capacity", ""} \subseteq Reasons
  BY Names
<1>3. PlainEdge(p.state, "CANCELED") /\ PlainEdge(p.state, "QUEUED")
  BY DEF PlainEdge, Waiting
<1>4. QED
  BY <1>1, <1>2, <1>3, PlainStep DEF Parked

(* A start that failed, before or after the fork.                          *)
LEMMA StartFailureEdge ==
  ASSUME NEW id \in Procs, NEW p \in Process, p.state \in {"STARTING", "RUNNING"},
         NEW r, r.state = "STARTING", r.attempt = p.attempt
  PROVE  StartFailure(id, p).state \in {"RETRYING", "FAILED"} /\ Edge(id, r, StartFailure(id, p))
<1> DEFINE c == TransitionTo(p, "CRASHED", "start_error")
<1>1. CanTransition(p.state, "CRASHED") /\ "CRASHED" \in States /\ "start_error" \in Reasons
  BY EdgesExist, Names DEF Supervised
<1>2. c \in Process /\ c.state = "CRASHED" /\ c.attempt = p.attempt
  BY <1>1, TransitionArrives
<1> HIDE DEF c
<1> DEFINE q == settle(c, Def[id].retry, "start_error", "start_error", FALSE)
<1>3. q.state \in {"RETRYING", "FAILED"} /\ SettledEdge(id, "STARTING", q.state, q.attempt)
      /\ q.attempt = p.attempt
  BY <1>1, <1>2, SettleEdge
<1>4. StartFailure(id, p) = q
  BY DEF StartFailure, c
<1> HIDE DEF q
<1>5. QED
  BY <1>3, <1>4 DEF Edge

(* Reconcile's recovery of an interrupted attempt.                         *)
LEMMA RecoveredEdge ==
  ASSUME NEW id \in Procs, row[id] \in Process, row[id].state \in {"STARTING"} \cup Supervised,
         NEW reset \in BOOLEAN
  PROVE  Edge(id, row[id], Recovered(id, reset))
<1> DEFINE c == TransitionTo(row[id], "CRASHED", "daemon_restart")
<1>1. CanTransition(row[id].state, "CRASHED") /\ "CRASHED" \in States /\ "daemon_restart" \in Reasons
  BY EdgesExist, Names
<1>2. c \in Process /\ c.state = "CRASHED" /\ c.attempt = row[id].attempt
  BY <1>1, TransitionArrives
<1> HIDE DEF c
<1> DEFINE q == settle(c, Def[id].retry, exitTrigger(Def[id].type, "failure"), "daemon_restart", reset)
<1>3. SettledEdge(id, row[id].state, q.state, q.attempt) /\ q.attempt \in {row[id].attempt, 0}
  BY <1>1, <1>2, SettleEdge
<1>4. Recovered(id, reset) = q
  BY DEF Recovered, c
<1> HIDE DEF q
<1>5. QED
  BY <1>3, <1>4 DEF Edge

(* An orphan left alone: CRASHED, then FAILED.                             *)
LEMMA OrphanedEdge ==
  ASSUME NEW id \in Procs, NEW p \in Process, p.state \in {"STARTING"} \cup Supervised
  PROVE  Edge(id, p, TransitionTo(TransitionTo(p, "CRASHED", "daemon_restart"), "FAILED", "orphaned"))
<1> DEFINE c == TransitionTo(p, "CRASHED", "daemon_restart")
<1>1. CanTransition(p.state, "CRASHED") /\ {"CRASHED", "FAILED"} \subseteq States
      /\ {"daemon_restart", "orphaned"} \subseteq Reasons
  BY EdgesExist, Names
<1>2. c \in Process /\ c.state = "CRASHED" /\ c.attempt = p.attempt
  BY <1>1, TransitionArrives
<1>3. CanTransition("CRASHED", "FAILED")
  BY EdgesExist
<1> HIDE DEF c
<1>4. TransitionTo(c, "FAILED", "orphaned").state = "FAILED"
      /\ TransitionTo(c, "FAILED", "orphaned").attempt = p.attempt
  BY <1>1, <1>2, <1>3, TransitionArrives
<1>5. SettledEdge(id, p.state, "FAILED", p.attempt)
  BY DEF SettledEdge
<1>6. QED
  BY <1>4, <1>5 DEF Edge, c

(* classify, of every intent and every end.                                *)
LEMMA ClassifyEdge ==
  ASSUME NEW id \in Procs, NEW p \in Process, p.state \in Supervised,
         NEW intent \in {"", "user_request", "timeout", "shutdown"},
         p.state = "STOPPING" => intent # "",
         NEW type, NEW result, NEW reset \in BOOLEAN
  PROVE  LET q == classify(p, type, Def[id].retry, intent, result, reset)
         IN  /\ q.state \in Outcomes
             /\ Edge(id, p, q)
             /\ q.state = "QUEUED" => intent = "shutdown"
<1> DEFINE r == Def[id].retry
           q == viaStopping(p, intent)
           out == classify(p, type, r, intent, result, reset)
           OK(o) == /\ o.state \in Outcomes /\ Edge(id, p, o)
                    /\ o.state = "QUEUED" => intent = "shutdown"
<1>0. intent \in Reasons /\ p.state \in States
  BY Names
<1>1. q \in Process /\ q.attempt = p.attempt
      /\ (intent = "" => q = p /\ q.state = "RUNNING")
      /\ (intent # "" => q.state = "STOPPING")
  <2>1. CanTransition("RUNNING", "STOPPING") /\ "STOPPING" \in States
    BY EdgesExist, Names
  <2>2. QED
    BY <1>0, <2>1, TransitionArrives DEF viaStopping, Supervised
<1> HIDE DEF q
<1>2. ASSUME NEW to \in {"CANCELED", "QUEUED", "FAILED"}, NEW why \in Reasons, intent # "",
             to = "QUEUED" => intent = "shutdown"
      PROVE  OK(TransitionTo(q, to, why))
  <2>1. CanTransition(q.state, to) /\ to \in States /\ to \in Outcomes
    BY <1>1, <1>2, EdgesExist, Names DEF Outcomes
  <2>2. TransitionTo(q, to, why).state = to /\ TransitionTo(q, to, why).attempt = p.attempt
    BY <1>1, <1>2, <2>1, TransitionArrives
  <2>3. to \in {"CANCELED", "QUEUED"} => PlainEdge(p.state, to)
    BY DEF PlainEdge
  <2>4. to = "FAILED" => SettledEdge(id, p.state, to, p.attempt)
    BY DEF SettledEdge
  <2>5. QED
    BY <1>2, <2>1, <2>2, <2>3, <2>4 DEF Edge
<1>3. ASSUME NEW why \in Reasons
      PROVE  /\ TransitionTo(q, "CRASHED", why) \in Process
             /\ TransitionTo(q, "CRASHED", why).state = "CRASHED"
             /\ TransitionTo(q, "CRASHED", why).attempt = p.attempt
  <2>1. CanTransition(q.state, "CRASHED") /\ "CRASHED" \in States
    BY <1>1, EdgesExist, Names DEF Supervised
  <2>2. QED
    BY <1>1, <2>1, TransitionArrives
<1>4. ASSUME NEW c \in Process, c.state = "CRASHED", c.attempt = p.attempt, NEW trigger,
             NEW why \in Reasons
      PROVE  OK(settle(c, r, trigger, why, reset))
  <2> DEFINE o == settle(c, r, trigger, why, reset)
  <2>1. o.state \in {"RETRYING", "FAILED"} /\ SettledEdge(id, p.state, o.state, o.attempt)
        /\ o.attempt \in {p.attempt, 0}
    BY <1>4, SettleEdge
  <2> HIDE DEF o
  <2>2. OK(o)
    BY <2>1 DEF Edge, Outcomes
  <2>3. QED
    BY <2>2 DEF o
<1>5. CASE intent = "user_request"
  <2>1. out = TransitionTo(q, "CANCELED", "user_request") /\ "user_request" \in Reasons
    BY <1>5, Names DEF classify, q
  <2>2. QED
    BY <1>2, <1>5, <2>1
<1>6. CASE intent = "shutdown"
  <2>1. out = TransitionTo(q, "QUEUED", "shutdown") \/ out = TransitionTo(q, "CANCELED", "shutdown")
    BY <1>6 DEF classify, q, classifyShutdown
  <2>2. "shutdown" \in Reasons
    BY Names
  <2>3. QED
    BY <1>2, <1>6, <2>1, <2>2
<1>7. CASE intent = "timeout"
  <2>0. "timeout" \in Reasons
    BY Names
  <2>1. CASE Allowed(r, "timeout", q.attempt)
    <3>1. out = settle(TransitionTo(q, "CRASHED", "timeout"), r, "timeout", "timeout", reset)
      BY <1>7, <2>1 DEF classify, q
    <3>2. QED
      BY <1>3, <1>4, <2>0, <3>1
  <2>2. CASE ~Allowed(r, "timeout", q.attempt)
    <3>1. out = TransitionTo(q, "FAILED", "timeout")
      BY <1>7, <2>2 DEF classify, q
    <3>2. QED
      BY <1>2, <1>7, <2>0, <3>1
  <2>3. QED
    BY <2>1, <2>2
<1>8. CASE intent = ""
  <2>1. {"", "no_retry_exit_code", "max_attempts"} \subseteq Reasons
    BY Names
  <2>2. CASE type # "service" /\ Succeeded(result)
    <3>1. out = TransitionTo(q, "COMPLETED", "")
      BY <1>8, <2>2 DEF classify, q
    <3>2. q = p /\ CanTransition(p.state, "COMPLETED") /\ PlainEdge(p.state, "COMPLETED")
      BY <1>1, <1>8, EdgesExist DEF PlainEdge
    <3>3. "COMPLETED" \in States /\ "" \in Reasons
      BY Names
    <3>4. TransitionTo(p, "COMPLETED", "").state = "COMPLETED"
          /\ Edge(id, p, TransitionTo(p, "COMPLETED", ""))
      BY <3>2, <3>3, PlainStep
    <3>5. out.state = "COMPLETED" /\ Edge(id, p, out)
      BY <3>1, <3>2, <3>4
    <3>6. QED
      BY <3>5 DEF Outcomes
  <2>3. CASE ~(type # "service" /\ Succeeded(result)) /\ Fatal(result)
    <3> DEFINE c == TransitionTo(q, "CRASHED", "")
    <3>1. out = TransitionTo(c, "FAILED", "no_retry_exit_code")
      BY <1>8, <2>3 DEF classify, q
    <3>2. c \in Process /\ c.state = "CRASHED" /\ c.attempt = p.attempt
      BY <1>3, <2>1
    <3> HIDE DEF c
    <3>3. CanTransition(c.state, "FAILED") /\ "FAILED" \in States
          /\ "no_retry_exit_code" \in Reasons
      BY <3>2, EdgesExist, Names
    <3>4. TransitionTo(c, "FAILED", "no_retry_exit_code").state = "FAILED"
          /\ TransitionTo(c, "FAILED", "no_retry_exit_code").attempt = c.attempt
      BY <3>2, <3>3, TransitionArrives
    <3>5. SettledEdge(id, p.state, "FAILED", p.attempt)
      BY DEF SettledEdge
    <3> DEFINE f == TransitionTo(c, "FAILED", "no_retry_exit_code")
    <3>6. f.state = "FAILED" /\ f.attempt = p.attempt
      BY <3>2, <3>4
    <3> HIDE DEF f
    <3>7. OK(f)
      BY <3>5, <3>6 DEF Edge, Outcomes
    <3>8. QED
      BY <3>1, <3>7 DEF f
  <2>4. CASE ~(type # "service" /\ Succeeded(result)) /\ ~Fatal(result)
    <3>1. out = settle(TransitionTo(q, "CRASHED", ""), r, exitTrigger(type, result), "max_attempts", reset)
      BY <1>8, <2>4 DEF classify, q
    <3>2. QED
      BY <1>3, <1>4, <2>1, <3>1
  <2>5. QED
    BY <2>2, <2>3, <2>4
<1>9. QED
  BY <1>5, <1>6, <1>7, <1>8

----------------------------------------------------------------------------
(* Who moves and who stays.                                                *)

(* A step of others: nothing that the ownership of id depends on changes.  *)
Kept(id) ==
  /\ row'[id] = row[id] /\ launches'[id] = launches[id] /\ running'[id] = running[id]
  /\ stopper'[id] = stopper[id]
  /\ Pending(id)' <=> Pending(id)
  /\ Pending(id) => snap'[id] = snap[id]
  /\ \A n \in 1..MaxLaunches :
        exec'[<<id, n>>] = exec[<<id, n>>] /\ (<<id, n>> \in shut' <=> <<id, n>> \in shut)
  /\ \A t \in Launchers :
        launcher[t].id = id \/ launcher'[t].id = id => launcher'[t] = launcher[t]
  /\ mode \in {"stop", "exit"} => mode' \in {"stop", "exit"}

(* What a launcher knows of an attempt it knows only of one that exists.   *)
LEMMA CopySame ==
  ASSUME NEW t, NEW l, NEW r, NEW e, NEW f, NEW n, LauncherCopy(t, l, r, e, n),
         n # 0 => f = e
  PROVE  LauncherCopy(t, l, r, f, n)
BY DEF LauncherCopy, Forked

LEMMA KeepParts ==
  ASSUME NEW id \in Procs, Kept(id)
  PROVE  /\ NoLauncher(id) => NoLauncher(id)'
         /\ Cancelling(id)' <=> Cancelling(id)
         /\ Pending(id)' <=> Pending(id)
         /\ \A n \in 1..MaxLaunches :
               /\ Attempting(id, n)' <=> Attempting(id, n)
               /\ Loose(id, n)' <=> Loose(id, n)
         /\ \A p : Requeued(p) => Requeued(p)'
BY DEF Kept, NoLauncher, Cancelling, Attempting, Loose, Requeued

LEMMA KeepLauncher ==
  ASSUME NEW id \in Procs, Kept(id), launches[id] \in 0..MaxLaunches,
         NEW t \in Launchers, OwnedByLauncher(id, t)
  PROVE  OwnedByLauncher(id, t)'
<1>1. launcher'[t] = launcher[t] /\ row'[id] = row[id] /\ launches'[id] = launches[id]
  BY DEF Kept, OwnedByLauncher
<1>2. launches[id] # 0 => exec'[<<id, launches[id]>>] = exec[<<id, launches[id]>>]
  BY DEF Kept
<1>3. LauncherCopy(t, launcher'[t], row'[id], exec'[<<id, launches'[id]>>], launches'[id])
  BY <1>1, <1>2, CopySame DEF OwnedByLauncher
<1>4. \A u \in Launchers \ {t} : launcher'[u].id # id
  BY DEF Kept, OwnedByLauncher
<1>5. ~Pending(id)' /\ ~Cancelling(id)' /\ NoAttempt(id)' /\ NoLoose(id)'
  BY KeepParts DEF OwnedByLauncher, NoAttempt, NoLoose
<1>6. QED
  BY <1>1, <1>3, <1>4, <1>5 DEF OwnedByLauncher

LEMMA KeepAttempt ==
  ASSUME NEW id \in Procs, Kept(id), NEW n \in 1..MaxLaunches, OwnedByAttempt(id, n)
  PROVE  OwnedByAttempt(id, n)'
<1>1. exec'[<<id, n>>] = exec[<<id, n>>] /\ row'[id] = row[id]
  BY DEF Kept
<1>2. AttemptCopy(exec[<<id, n>>], row[id])'
  BY <1>1 DEF Kept, OwnedByAttempt, AttemptCopy, Requeued
<1>3. /\ NoLauncher(id)' /\ ~Pending(id)' /\ ~Cancelling(id)' /\ Attempting(id, n)'
      /\ \A m \in (1..MaxLaunches) \ {n} : ~Attempting(id, m)' /\ ~Loose(id, m)'
  BY KeepParts DEF OwnedByAttempt
<1>4. QED
  BY <1>1, <1>2, <1>3 DEF OwnedByAttempt

(* The owner of id goes on owning it.                                      *)
LEMMA KeepOwner ==
  ASSUME NEW id \in Procs, Kept(id), launches[id] \in 0..MaxLaunches, Owned(id)
  PROVE  Owned(id)'
<1>1. CASE Unowned(id)
  <2>1. NoLauncher(id)' /\ ~Pending(id)' /\ ~Cancelling(id)' /\ NoAttempt(id)'
    BY <1>1, KeepParts DEF Unowned, NoAttempt
  <2>2. ASSUME NEW n \in 1..MaxLaunches, Loose(id, n)'
        PROVE  /\ exec'[<<id, n>>].sup = "done" /\ exec'[<<id, n>>].p = row'[id]
               /\ row'[id].state \in Outcomes /\ Requeued(row[id])'
    <3>1. exec'[<<id, n>>] = exec[<<id, n>>] /\ row'[id] = row[id]
      BY DEF Kept
    <3>2. Loose(id, n)
      BY <2>2, KeepParts
    <3>3. Requeued(row[id])'
      BY <1>1, <3>1, <3>2 DEF Unowned, Requeued, Kept
    <3>4. QED
      BY <1>1, <3>1, <3>2, <3>3 DEF Unowned
  <2>3. QED
    BY <2>1, <2>2 DEF Owned, Unowned
<1>2. CASE OwnedByPass(id)
  <2>1. OwnedByPass(id)'
    BY <1>2, KeepParts DEF OwnedByPass, Kept, NoAttempt, NoLoose
  <2>2. QED
    BY <2>1 DEF Owned
<1>3. CASE OwnedByStop(id)
  <2>1. NoLauncher(id)' /\ ~Pending(id)' /\ Cancelling(id)' /\ NoAttempt(id)' /\ NoLoose(id)'
    BY <1>3, KeepParts DEF OwnedByStop, NoAttempt, NoLoose
  <2>2. stopper'[id] = stopper[id] /\ row'[id] = row[id]
    BY DEF Kept
  <2>3. OwnedByStop(id)'
    BY <1>3, <2>1, <2>2 DEF OwnedByStop
  <2>4. QED
    BY <2>3 DEF Owned
<1>4. CASE \E t \in Launchers : OwnedByLauncher(id, t)
  <2>1. PICK t \in Launchers : OwnedByLauncher(id, t)'
    BY <1>4, KeepLauncher
  <2>2. QED
    BY <2>1 DEF Owned
<1>5. CASE \E n \in 1..MaxLaunches : OwnedByAttempt(id, n)
  <2>1. PICK n \in 1..MaxLaunches : OwnedByAttempt(id, n)'
    BY <1>5, KeepAttempt
  <2>2. QED
    BY <2>1 DEF Owned
<1>6. QED
  BY <1>1, <1>2, <1>3, <1>4, <1>5 DEF Owned

LEMMA KeepReferences ==
  ASSUME NEW id \in Procs, Kept(id), Referenced(id)
  PROVE  Referenced(id)'
<1>1. \A n \in 1..MaxLaunches : exec'[<<id, n>>] = exec[<<id, n>>]
  BY DEF Kept
<1>2. /\ launches'[id] = launches[id] /\ running'[id] = running[id]
      /\ stopper'[id] = stopper[id]
  BY DEF Kept
<1>3. (\E t \in Launchers : launcher[t].id = id
         /\ launcher[t].pc \in {"running", "register", "abandon"})
      => \E t \in Launchers : launcher'[t].id = id
           /\ launcher'[t].pc \in {"running", "register", "abandon"}
  BY DEF Kept
<1>4. QED
  BY <1>1, <1>2, <1>3 DEF Referenced

(* Only x needs an argument of its own.                                    *)
LEMMA KeepAll ==
  ASSUME DaemonInv, OwnInv, NEW x, \A id \in Procs \ {x} : Kept(id),
         x \in Procs => Owned(x)' /\ Referenced(x)'
  PROVE  \A id \in Procs : Owned(id)' /\ Referenced(id)'
<1>1. \A id \in Procs : launches[id] \in 0..MaxLaunches
  BY DEF DaemonInv, SuperInv, AttemptsInv
<1>2. QED
  BY <1>1, KeepOwner, KeepReferences DEF OwnInv

(* The owner, by what it is doing.                                         *)
LEMMA WhoLaunches ==
  ASSUME OwnInv, NEW t \in Launchers, NEW x \in Procs, launcher[t].id = x
  PROVE  OwnedByLauncher(x, t)
<1>1. Owned(x)
  BY DEF OwnInv
<1>2. ~NoLauncher(x)
  BY DEF NoLauncher
<1>3. ASSUME NEW u \in Launchers, OwnedByLauncher(x, u)
      PROVE  u = t
  BY <1>3 DEF OwnedByLauncher
<1>4. QED
  BY <1>1, <1>2, <1>3 DEF Owned, Unowned, OwnedByPass, OwnedByStop, OwnedByAttempt

LEMMA WhoAttempts ==
  ASSUME OwnInv, NEW x \in Procs, NEW n \in 1..MaxLaunches, Attempting(x, n)
  PROVE  OwnedByAttempt(x, n)
<1>1. Owned(x)
  BY DEF OwnInv
<1>2. ~NoAttempt(x)
  BY DEF NoAttempt
<1>3. ASSUME NEW m \in 1..MaxLaunches, OwnedByAttempt(x, m)
      PROVE  m = n
  BY <1>3 DEF OwnedByAttempt
<1>4. QED
  BY <1>1, <1>2, <1>3 DEF Owned, Unowned, OwnedByPass, OwnedByStop, OwnedByLauncher

LEMMA WhoCancels ==
  ASSUME OwnInv, NEW x \in Procs, Cancelling(x)
  PROVE  OwnedByStop(x)
<1>1. Owned(x)
  BY DEF OwnInv
<1>2. QED
  BY <1>1 DEF Owned, Unowned, OwnedByPass, OwnedByLauncher, OwnedByAttempt

LEMMA WhoPends ==
  ASSUME OwnInv, NEW x \in Procs, Pending(x)
  PROVE  OwnedByPass(x)
<1>1. Owned(x)
  BY DEF OwnInv
<1>2. QED
  BY <1>1 DEF Owned, Unowned, OwnedByStop, OwnedByLauncher, OwnedByAttempt

(* A reference to an attempt that is not the owner's is to one that is     *)
(* over.                                                                   *)
LEMMA WhoIsLoose ==
  ASSUME OwnInv, NEW x \in Procs, NEW n \in 1..MaxLaunches, Loose(x, n)
  PROVE  OwnedByAttempt(x, n) \/ (Unowned(x) /\ exec[<<x, n>>].sup = "done")
<1>1. Owned(x)
  BY DEF OwnInv
<1>2. ~NoLoose(x)
  BY DEF NoLoose
<1>3. ASSUME NEW m \in 1..MaxLaunches, OwnedByAttempt(x, m)
      PROVE  m = n
  BY <1>3 DEF OwnedByAttempt
<1>4. QED
  BY <1>1, <1>2, <1>3 DEF Owned, Unowned, OwnedByPass, OwnedByStop, OwnedByLauncher

----------------------------------------------------------------------------
(* What every step owes the lifecycle, beside the invariant.               *)

(* At most one row is written, along an edge; only the submission itself   *)
(* writes the first one.                                                   *)
RowMoves ==
  \/ row' = row
  \/ \E id \in Procs, p \in Storable :
        /\ UpdateProcess(id, p) /\ Edge(id, row[id], p)
        /\ row[id].state = NONE => launcher'[id].pc # "idle"

Moved == OwnInv' /\ RowMoves

LaunchersBusy ==
  \A id \in Procs : launcher'[id].pc = "idle" => launcher[id].pc = "idle"

(* Rows that are written, and attempts that are counted, were submitted.   *)
LEMMA FreshKept ==
  ASSUME DaemonInv, OwnInv, RowMoves, LaunchersBusy,
         \A id \in Procs : launches'[id] = launches[id] \/ row'[id].state # NONE
  PROVE  \A id \in Procs : Fresh(id)'
<1> SUFFICES ASSUME NEW id \in Procs PROVE Fresh(id)'
  OBVIOUS
<1>1. Fresh(id) /\ row \in [Procs -> Storable]
  BY DEF OwnInv, DaemonInv, SuperInv, StoreInv
<1>2. CASE row'[id] = row[id]
  BY <1>1, <1>2 DEF Fresh, LaunchersBusy
<1>3. CASE row'[id] # row[id]
  <2>1. PICK p \in Storable :
          /\ row'[id] = p /\ Edge(id, row[id], p)
          /\ row[id].state = NONE => launcher'[id].pc # "idle"
    BY <1>1, <1>3 DEF RowMoves, UpdateProcess
  <2>2. p.state = NONE => row[id].state = NONE /\ p.attempt = row[id].attempt
    BY <2>1 DEF Edge, PlainEdge, SettledEdge, NONE, Waiting, Supervised
  <2>3. QED
    BY <1>1, <2>1, <2>2 DEF Fresh, LaunchersBusy
<1>4. QED
  BY <1>2, <1>3

(* The shape of every step but the end of the daemon.                      *)
LEMMA StepOwns ==
  ASSUME DaemonInv, OwnInv, RowMoves, LaunchersBusy, LaunchersShape', ModeInv', NEW x,
         \A id \in Procs \ {x} : Kept(id),
         x \in Procs => Owned(x)' /\ Referenced(x)',
         \A id \in Procs : launches'[id] = launches[id] \/ row'[id].state # NONE
  PROVE  Moved
<1>1. \A id \in Procs : Owned(id)' /\ Referenced(id)'
  BY KeepAll
<1>2. \A id \in Procs : Fresh(id)'
  BY FreshKept
<1>3. QED
  BY <1>1, <1>2 DEF OwnInv, Moved

----------------------------------------------------------------------------
(* The steps of a launcher.                                                *)

ForkedPCs == {"running", "register", "abandon"}

(* What a launcher's step leaves alone.                                    *)
LauncherOnly(x) ==
  /\ UNCHANGED <<stopper, todo, snap, shut, mode>>
  /\ \A id \in Procs \ {x} :
        row'[id] = row[id] /\ launches'[id] = launches[id] /\ running'[id] = running[id]
  /\ \A id \in Procs \ {x} : \A n \in 1..MaxLaunches : exec'[<<id, n>>] = exec[<<id, n>>]

LEMMA LauncherKeeps ==
  ASSUME LaunchersInv, NEW t \in Launchers, NEW x, NEW l, launcher' = [launcher EXCEPT ![t] = l],
         launcher[t].id \in {0, x}, l.id \in {0, x}, LauncherOnly(x)
  PROVE  \A id \in Procs \ {x} : Kept(id)
<1>1. launcher'[t] = l /\ \A u \in Launchers \ {t} : launcher'[u] = launcher[u]
  BY LauncherAlone
<1>2. \A id \in Procs : id # 0
  BY NobodyIsZero
<1>3. QED
  BY <1>1, <1>2 DEF Kept, LauncherOnly, Pending

(* A launcher goes on with its execution, or is done with it.              *)
LEMMA LauncherShape ==
  ASSUME DaemonInv, OwnInv, NEW t \in Launchers, NEW x \in Procs, NEW l,
         launcher' = [launcher EXCEPT ![t] = l], launcher[t].id = x, l.pc # "idle" \/ t = Dispatcher,
         \/ l.id = x /\ Busy(l)
         \/ l.id = 0 /\ ~Busy(l)
  PROVE  LaunchersShape' /\ LaunchersBusy
<1>1. launcher'[t] = l /\ \A u \in Launchers \ {t} : launcher'[u] = launcher[u]
  BY LauncherAlone DEF DaemonInv, SuperInv
<1>2. x # 0 /\ Dispatcher \notin Procs
  BY NobodyIsZero DEF Dispatcher
<1>3. LaunchersShape'
  BY <1>1, <1>2 DEF OwnInv, LaunchersShape
<1>4. LaunchersBusy
  BY <1>1, <1>2 DEF LaunchersBusy, Launchers
<1>5. QED
  BY <1>3, <1>4

(* A daemon at work: the mode's part of the invariant is not disturbed.    *)
LEMMA LiveKeeps ==
  ASSUME OwnInv, Live, UNCHANGED <<mode, shut>>
  PROVE  ModeInv'
BY DEF OwnInv, ModeInv, Live

(* A launcher is alone with its execution: no attempt of it is under way.  *)
LEMMA LauncherAttempts ==
  ASSUME DaemonInv, OwnInv, NEW t \in Launchers, NEW x \in Procs, launcher[t].id = x
  PROVE  /\ running[x] = 0
         /\ stopper[x].pc # "intent"
         /\ \A n \in 1..MaxLaunches :
              /\ exec[<<x, n>>].sup \notin UsingPhases
              /\ exec[<<x, n>>].timer = "off"
              /\ exec[<<x, n>>].stop # "begin"
              /\ exec[<<x, n>>].proc \in {"alive", "zombie"}
                   => n = launches[x] /\ launcher[t].pc \in ForkedPCs
<1>1. OwnedByLauncher(x, t) /\ Referenced(x)
  BY WhoLaunches DEF OwnInv
<1>2. {"wait", "reaped"} \subseteq UsingPhases
  BY DEF UsingPhases
<1>3. running[x] = 0
  BY <1>1, <1>2 DEF OwnedByLauncher, NoAttempt, Attempting, Referenced
<1>4. stopper[x].pc # "intent"
  BY <1>1 DEF OwnedByLauncher, NoLoose, Loose, Referenced
<1>5. ASSUME NEW n \in 1..MaxLaunches
      PROVE  /\ exec[<<x, n>>].sup \notin UsingPhases
             /\ exec[<<x, n>>].timer = "off"
             /\ exec[<<x, n>>].stop # "begin"
             /\ exec[<<x, n>>].proc \in {"alive", "zombie"}
                  => n = launches[x] /\ launcher[t].pc \in ForkedPCs
  <2>1. ~Attempting(x, n) /\ ~Loose(x, n)
    BY <1>1 DEF OwnedByLauncher, NoAttempt, NoLoose
  <2>2. exec[<<x, n>>].timer \in {"off", "armed", "fired"}
    BY DEF DaemonInv, SuperInv, AttemptsInv, Handles, StorableExec, Exec
  <2>3. exec[<<x, n>>].timer = "off" /\ exec[<<x, n>>].stop # "begin"
    BY <1>1, <1>2, <2>1, <2>2 DEF Attempting, Loose, Referenced
  <2>4. \A u \in Launchers : launcher[u].id = x => u = t
    BY <1>1 DEF OwnedByLauncher
  <2>5. exec[<<x, n>>].proc \in {"alive", "zombie"}
          => n = launches[x] /\ launcher[t].pc \in ForkedPCs
    BY <1>1, <1>2, <2>1, <2>4 DEF Attempting, Referenced, ForkedPCs
  <2>6. QED
    BY <2>1, <2>3, <2>5 DEF Attempting
<1>6. QED
  BY <1>3, <1>4, <1>5

(* Launches are counted up.                                                *)
LEMMA CountedUp ==
  ASSUME NEW max \in Nat, NEW a \in 0..max, NEW n \in {a, a + 1}, NEW m \in 1..max, m > n
  PROVE  m # n /\ m > a
OBVIOUS

(* A launcher goes on: to the copy its next step expects.                  *)
LEMMA LauncherGoes ==
  ASSUME DaemonInv, OwnInv, NEW t \in Launchers, NEW x \in Procs, launcher[t].id = x, Live,
         NEW l, launcher' = [launcher EXCEPT ![t] = l], l.id = x, Busy(l),
         LauncherOnly(x), RowMoves, running'[x] = running[x],
         NEW n, n = launches'[x],
         LauncherCopy(t, l, row'[x], exec'[<<x, n>>], n),
         \/ launches' = launches
         \/ launches' = [launches EXCEPT ![x] = @ + 1] /\ row'[x].state # NONE,
         \A m \in 1..MaxLaunches : m = n \/ exec'[<<x, m>>] = exec[<<x, m>>],
         n \in 1..MaxLaunches => /\ exec'[<<x, n>>].sup \notin UsingPhases
                                 /\ exec'[<<x, n>>].timer = "off"
                                 /\ exec'[<<x, n>>].stop \notin {"begin"}
                                 /\ exec'[<<x, n>>].stop # "none" => exec'[<<x, n>>].intent # ""
                                 /\ exec'[<<x, n>>].proc \in {"alive", "zombie"}
                                      => l.pc \in ForkedPCs,
         launcher[t].pc \in ForkedPCs => launches' = launches
  PROVE  Moved
<1>1. launcher'[t] = l /\ \A u \in Launchers \ {t} : launcher'[u] = launcher[u]
  BY LauncherAlone DEF DaemonInv, SuperInv
<1>2. OwnedByLauncher(x, t) /\ Referenced(x)
  BY WhoLaunches DEF OwnInv
<1>3. /\ running[x] = 0 /\ stopper[x].pc # "intent"
      /\ \A m \in 1..MaxLaunches :
           /\ exec[<<x, m>>].sup \notin UsingPhases
           /\ exec[<<x, m>>].timer = "off"
           /\ exec[<<x, m>>].stop # "begin"
           /\ exec[<<x, m>>].proc \in {"alive", "zombie"}
                => m = launches[x] /\ launcher[t].pc \in ForkedPCs
  BY LauncherAttempts
<1>4. launches \in [Procs -> 0..MaxLaunches] /\ MaxLaunches \in Nat
  BY SupervisorAssumption DEF DaemonInv, SuperInv, AttemptsInv
<1>5. launches[x] \in 0..MaxLaunches /\ n \in {launches[x], launches[x] + 1}
  BY <1>4
<1>6. UNCHANGED <<stopper, todo, shut, mode>>
  BY DEF LauncherOnly
<1>7. \A m \in 1..MaxLaunches :
        /\ exec'[<<x, m>>].sup \notin UsingPhases
        /\ exec'[<<x, m>>].timer = "off"
        /\ exec'[<<x, m>>].stop # "begin"
        /\ exec'[<<x, m>>].stop # "none" => exec'[<<x, m>>].intent # ""
        /\ exec'[<<x, m>>].proc \in {"alive", "zombie"} => m = n /\ l.pc \in ForkedPCs
  <2> SUFFICES ASSUME NEW m \in 1..MaxLaunches
               PROVE  /\ exec'[<<x, m>>].sup \notin UsingPhases
                      /\ exec'[<<x, m>>].timer = "off"
                      /\ exec'[<<x, m>>].stop # "begin"
                      /\ exec'[<<x, m>>].stop # "none" => exec'[<<x, m>>].intent # ""
                      /\ exec'[<<x, m>>].proc \in {"alive", "zombie"} => m = n /\ l.pc \in ForkedPCs
    OBVIOUS
  <2>1. CASE m = n
    BY <2>1
  <2>2. CASE m # n
    <3>1. exec'[<<x, m>>] = exec[<<x, m>>]
      BY <2>2
    <3>2. exec[<<x, m>>].stop # "none" => exec[<<x, m>>].intent # ""
      BY <1>2 DEF Referenced
    <3>3. exec[<<x, m>>].proc \notin {"alive", "zombie"}
      BY <1>3, <2>2
    <3>4. QED
      BY <1>3, <3>1, <3>2, <3>3
  <2>3. QED
    BY <2>1, <2>2
<1>8. NoAttempt(x)' /\ NoLoose(x)'
  <2>1. \A m \in 1..MaxLaunches : <<x, m>> \notin shut'
    BY <1>2, <1>6 DEF OwnedByLauncher, NoLoose, Loose
  <2>2. QED
    BY <1>3, <1>6, <1>7, <2>1 DEF NoAttempt, Attempting, NoLoose, Loose
<1>9. OwnedByLauncher(x, t)'
  <2>1. ~Pending(x)' /\ ~Cancelling(x)' /\ \A u \in Launchers \ {t} : launcher'[u].id # x
    BY <1>1, <1>2, <1>6 DEF OwnedByLauncher, Pending, Cancelling
  <2>2. QED
    BY <1>1, <1>8, <2>1 DEF OwnedByLauncher
<1>10. Owned(x)'
  BY <1>9 DEF Owned
<1>11. Referenced(x)'
  <2>1. ASSUME NEW m \in 1..MaxLaunches, m > n
        PROVE  exec'[<<x, m>>] = NoExec
    <3>1. m # n /\ m > launches[x]
      BY <1>4, <1>5, <2>1, CountedUp
    <3>2. QED
      BY <1>2, <3>1 DEF Referenced
  <2>2. running'[x] = 0 /\ stopper'[x].pc # "intent"
    BY <1>3, <1>6
  <2>3. (\E m \in 1..MaxLaunches : exec'[<<x, m>>].proc \in {"alive", "zombie"})
           => \E u \in Launchers : launcher'[u].id = x /\ launcher'[u].pc \in ForkedPCs
    BY <1>1, <1>7
  <2>4. QED
    BY <1>7, <2>1, <2>2, <2>3 DEF Referenced, ForkedPCs
<1>12. \A id \in Procs \ {x} : Kept(id)
  BY LauncherKeeps DEF DaemonInv, SuperInv
<1>13. LaunchersShape' /\ LaunchersBusy /\ ModeInv'
  BY LauncherShape, LiveKeeps DEF LauncherOnly, Busy
<1>14. \A id \in Procs : launches'[id] = launches[id] \/ row'[id].state # NONE
  BY <1>4
<1>15. QED
  BY <1>10, <1>11, <1>12, <1>13, <1>14, StepOwns

(* Most steps of a launcher change no attempt.                             *)
LEMMA LauncherWalks ==
  ASSUME DaemonInv, OwnInv, NEW t \in Launchers, NEW x \in Procs, launcher[t].id = x, Live,
         NEW l, launcher' = [launcher EXCEPT ![t] = l], l.id = x, Busy(l),
         UNCHANGED <<exec, launches, running, stopper, todo, snap, shut, mode>>,
         RowMoves, \A id \in Procs \ {x} : row'[id] = row[id],
         LauncherCopy(t, l, row'[x], exec[<<x, launches[x]>>], launches[x]),
         launcher[t].pc \in ForkedPCs => l.pc \in ForkedPCs
  PROVE  Moved
<1>1. \A m \in 1..MaxLaunches :
        /\ exec[<<x, m>>].sup \notin UsingPhases
        /\ exec[<<x, m>>].timer = "off"
        /\ exec[<<x, m>>].stop # "begin"
        /\ exec[<<x, m>>].proc \in {"alive", "zombie"}
             => m = launches[x] /\ launcher[t].pc \in ForkedPCs
  BY LauncherAttempts
<1>2. \A m \in 1..MaxLaunches : exec[<<x, m>>].stop # "none" => exec[<<x, m>>].intent # ""
  BY DEF OwnInv, Referenced
<1>3. LauncherOnly(x)
  BY DEF LauncherOnly
<1> DEFINE n == launches[x]
<1>4. n = launches'[x] /\ exec'[<<x, n>>] = exec[<<x, n>>]
  OBVIOUS
<1>5. n \in 1..MaxLaunches => /\ exec'[<<x, n>>].sup \notin UsingPhases
                              /\ exec'[<<x, n>>].timer = "off"
                              /\ exec'[<<x, n>>].stop \notin {"begin"}
                              /\ exec'[<<x, n>>].stop # "none" => exec'[<<x, n>>].intent # ""
                              /\ exec'[<<x, n>>].proc \in {"alive", "zombie"} => l.pc \in ForkedPCs
  BY <1>1, <1>2
<1> HIDE DEF n
<1>6. LauncherCopy(t, l, row'[x], exec'[<<x, n>>], n)
  BY DEF n
<1>7. QED
  BY <1>3, <1>4, <1>5, <1>6, LauncherGoes

(* A launcher is done with its execution, which nobody owns then.          *)
LEMMA LauncherReturns ==
  ASSUME DaemonInv, OwnInv, NEW t \in Launchers, NEW x \in Procs, launcher[t].id = x, Live,
         launcher[t].pc \notin ForkedPCs, Return(t),
         UNCHANGED <<exec, launches, running, stopper, todo, snap, shut, mode>>,
         RowMoves, \A id \in Procs \ {x} : row'[id] = row[id]
  PROVE  Moved
<1>1. PICK l : /\ launcher' = [launcher EXCEPT ![t] = l] /\ l.id = 0 /\ ~Busy(l)
               /\ l.pc # "idle" \/ t = Dispatcher
  <2>1. WITNESS IF t = Dispatcher THEN IdleLauncher ELSE DoneLauncher
  <2>2. QED
    BY <2>1 DEF Return, IdleLauncher, DoneLauncher, Busy
<1>2. launcher'[t] = l /\ \A u \in Launchers \ {t} : launcher'[u] = launcher[u]
  BY <1>1, LauncherAlone DEF DaemonInv, SuperInv
<1>3. OwnedByLauncher(x, t) /\ Referenced(x)
  BY WhoLaunches DEF OwnInv
<1>4. LauncherOnly(x)
  BY DEF LauncherOnly
<1>5. Unowned(x)'
  <2>1. NoLauncher(x)'
    BY <1>1, <1>2, <1>3, NobodyIsZero DEF NoLauncher, OwnedByLauncher
  <2>2. ~Pending(x)' /\ ~Cancelling(x)' /\ NoAttempt(x)' /\ NoLoose(x)'
    BY <1>3 DEF OwnedByLauncher, Pending, Cancelling, NoAttempt, Attempting, NoLoose, Loose
  <2>3. QED
    BY <2>1, <2>2 DEF Unowned, NoLoose
<1>6. Referenced(x)'
  <2>1. \A m \in 1..MaxLaunches : exec[<<x, m>>].proc \notin {"alive", "zombie"}
    BY LauncherAttempts
  <2>2. QED
    BY <1>3, <2>1 DEF Referenced
<1>7. \A id \in Procs \ {x} : Kept(id)
  BY <1>1, <1>4, LauncherKeeps DEF DaemonInv, SuperInv
<1>8. LaunchersShape' /\ LaunchersBusy /\ ModeInv'
  BY <1>1, LauncherShape, LiveKeeps
<1>9. QED
  BY <1>5, <1>6, <1>7, <1>8, StepOwns DEF Owned

(* Where Goto, GotoWith and GotoFailed lead.                               *)
Lands(t, pc, p) ==
  \E l : /\ launcher' = [launcher EXCEPT ![t] = l]
         /\ l.id = launcher[t].id /\ l.pc = pc /\ l.p = p

LEMMA Landing ==
  ASSUME LaunchersInv, NEW t \in Launchers, NEW pc, NEW p, NEW d
  PROVE  /\ Goto(t, pc) => Lands(t, pc, launcher[t].p)
         /\ GotoWith(t, pc, p) => Lands(t, pc, p)
         /\ GotoFailed(t, p, d)
              => \E q \in {"failunlock", "failwrite"} :
                    Lands(t, q, StartFailure(launcher[t].id, p))
<1>0. launcher[t] \in Launcher
  BY DEF LaunchersInv, LauncherOK, StorableLauncher
<1>1. ASSUME Goto(t, pc) PROVE Lands(t, pc, launcher[t].p)
  <2> DEFINE l == [launcher[t] EXCEPT !.pc = pc]
  <2>1. launcher' = [launcher EXCEPT ![t] = l]
    BY <1>1 DEF Goto
  <2>2. l.id = launcher[t].id /\ l.pc = pc /\ l.p = launcher[t].p
    BY <1>0 DEF Launcher
  <2>3. QED
    BY <2>1, <2>2 DEF Lands
<1>2. ASSUME GotoWith(t, pc, p) PROVE Lands(t, pc, p)
  <2> DEFINE l == [launcher[t] EXCEPT !.pc = pc, !.p = p]
  <2>1. launcher' = [launcher EXCEPT ![t] = l]
    BY <1>2 DEF GotoWith
  <2>2. l.id = launcher[t].id /\ l.pc = pc /\ l.p = p
    BY <1>0 DEF Launcher
  <2>3. QED
    BY <2>1, <2>2 DEF Lands
<1>3. ASSUME GotoFailed(t, p, d)
      PROVE  \E q \in {"failunlock", "failwrite"} :
                Lands(t, q, StartFailure(launcher[t].id, p))
  <2> DEFINE f == StartFailure(launcher[t].id, p)
             q == IF IsTerminal(f.state) THEN "failunlock" ELSE "failwrite"
             l == [launcher[t] EXCEPT !.p = f, !.detached = d, !.pc = q]
  <2>1. launcher' = [launcher EXCEPT ![t] = l]
    BY <1>3 DEF GotoFailed
  <2> HIDE DEF f, q
  <2>2. l.id = launcher[t].id /\ l.pc = q /\ l.p = f
    BY <1>0 DEF Launcher
  <2>3. Lands(t, q, f) /\ q \in {"failunlock", "failwrite"}
    BY <2>1, <2>2 DEF Lands, q
  <2>4. QED
    BY <2>3 DEF f
<1>4. QED
  BY <1>1, <1>2, <1>3

(* A launcher that changes no attempt goes on.                             *)
LEMMA LauncherLands ==
  ASSUME DaemonInv, OwnInv, NEW t \in Launchers, NEW x \in Procs, launcher[t].id = x, Live,
         NEW pc, pc \notin {"idle", "done"}, NEW p, Lands(t, pc, p),
         UNCHANGED <<exec, launches, running, stopper, todo, snap, shut, mode>>,
         RowMoves, \A id \in Procs \ {x} : row'[id] = row[id],
         \A l : l.id = x /\ l.pc = pc /\ l.p = p
           => LauncherCopy(t, l, row'[x], exec[<<x, launches[x]>>], launches[x]),
         launcher[t].pc \in ForkedPCs => pc \in ForkedPCs
  PROVE  Moved
<1>1. PICK l : /\ launcher' = [launcher EXCEPT ![t] = l]
               /\ l.id = x /\ l.pc = pc /\ l.p = p
  BY DEF Lands
<1>2. Busy(l) /\ LauncherCopy(t, l, row'[x], exec[<<x, launches[x]>>], launches[x])
  BY <1>1 DEF Busy
<1>3. QED
  BY <1>1, <1>2, LauncherWalks

(* A write of a row that was submitted.                                    *)
LEMMA Written ==
  ASSUME DaemonInv, NEW x \in Procs, NEW p \in Storable, UpdateProcess(x, p),
         Edge(x, row[x], p), row[x].state = NONE => launcher'[x].pc # "idle"
  PROVE  RowMoves /\ row'[x] = p /\ \A id \in Procs \ {x} : row'[id] = row[id]
BY DEF RowMoves, UpdateProcess, DaemonInv, SuperInv, StoreInv

LEMMA NotWritten ==
  ASSUME row' = row
  PROVE  RowMoves
BY DEF RowMoves

(* What a busy launcher has in hand.                                       *)
LEMMA InHand ==
  ASSUME DaemonInv, OwnInv, NEW t \in Launchers, launcher[t].pc \notin {"idle", "done"}
  PROVE  \E x \in Procs :
            /\ launcher[t].id = x
            /\ LauncherCopy(t, launcher[t], row[x], exec[<<x, launches[x]>>], launches[x])
            /\ launcher[t].p \in Process /\ launcher[t].p \in Storable
            /\ row[x] \in Process /\ row[x] \in Storable
            /\ launches[x] \in 0..MaxLaunches
            /\ t # Dispatcher => t = x
<1>1. PICK x \in Procs : launcher[t].id = x
  BY BusyLauncher DEF DaemonInv, SuperInv
<1>2. OwnedByLauncher(x, t)
  BY <1>1, WhoLaunches
<1>3. launcher[t].p \in Process /\ launcher[t].p \in Storable
  BY BusyLauncher DEF DaemonInv, SuperInv
<1>4. row[x] \in Storable /\ row[x] \in Process /\ launches[x] \in 0..MaxLaunches
  BY DEF DaemonInv, SuperInv, StoreInv, AttemptsInv, Storable
<1>5. t # Dispatcher => t = x
  BY <1>1 DEF OwnInv, LaunchersShape, Busy
<1>6. QED
  BY <1>1, <1>2, <1>3, <1>4, <1>5 DEF OwnedByLauncher

(* Supervisor.Start, with startFailed and abandonStart.                    *)
LEMMA StartOwns ==
  ASSUME DaemonInv, OwnInv, NEW t \in Launchers, StartNext(t), UNCHANGED <<todo, snap, shut>>
  PROVE  Moved
<1>0. launcher[t].pc \notin {"idle", "done"} /\ Live
  BY DEF StartNext, StartDraining, StartAccepted, Fork, ForkFails, PersistRunning,
         PersistRunningFails, Register, AbandonStart, FailUnlock, FailWrite, FailSettle, At
<1>1. PICK x \in Procs :
        /\ launcher[t].id = x
        /\ LauncherCopy(t, launcher[t], row[x], exec[<<x, launches[x]>>], launches[x])
        /\ launcher[t].p \in Process /\ launcher[t].p \in Storable
        /\ row[x] \in Process /\ row[x] \in Storable
        /\ launches[x] \in 0..MaxLaunches
        /\ t # Dispatcher => t = x
  BY <1>0, InHand
<1>2. LaunchersInv
  BY DEF DaemonInv, SuperInv
<1> DEFINE p == launcher[t].p
           Copy(l, r) == LauncherCopy(t, l, r, exec[<<x, launches[x]>>], launches[x])
           Frame == UNCHANGED <<exec, launches, running, stopper, todo, snap, shut, mode>>
<1>3. ASSUME Frame, row' = row, NEW pc, pc \notin {"idle", "done"}, NEW q, Lands(t, pc, q),
             \A l : l.id = x /\ l.pc = pc /\ l.p = q => Copy(l, row[x]),
             launcher[t].pc \in ForkedPCs => pc \in ForkedPCs
      PROVE  Moved
  <2>1. RowMoves /\ row'[x] = row[x] /\ \A id \in Procs \ {x} : row'[id] = row[id]
    BY <1>3, NotWritten
  <2> HIDE DEF p
  <2>2. QED
    BY <1>0, <1>1, <1>3, <2>1, LauncherLands
<1>10. CASE StartDraining(t)
  <2>1. Lands(t, "release", p) /\ Frame /\ row' = row /\ launcher[t].pc = "start"
    BY <1>10, <1>2, Landing DEF StartDraining, At, storeVars
  <2>2. \A l : l.id = x /\ l.pc = "release" /\ l.p = p => Copy(l, row[x])
    BY <1>1, <2>1 DEF LauncherCopy
  <2>3. QED
    BY <1>3, <2>1, <2>2 DEF ForkedPCs
<1>11. CASE StartAccepted(t)
  <2>1. Lands(t, "fork", p) /\ Frame /\ row' = row /\ launcher[t].pc = "start"
    BY <1>11, <1>2, Landing DEF StartAccepted, At, storeVars
  <2>2. \A l : l.id = x /\ l.pc = "fork" /\ l.p = p => Copy(l, row[x])
    BY <1>1, <2>1 DEF LauncherCopy
  <2>3. QED
    BY <1>3, <2>1, <2>2 DEF ForkedPCs
<1>13. CASE ForkFails(t)
  <2>1. PICK pc \in {"failunlock", "failwrite"} : Lands(t, pc, StartFailure(x, p))
    BY <1>1, <1>2, <1>13, Landing DEF ForkFails
  <2>2. Frame /\ row' = row /\ launcher[t].pc = "fork"
    BY <1>13 DEF ForkFails, At, storeVars
  <2>3. row[x].state = "STARTING" /\ p = row[x]
    BY <1>1, <2>2 DEF LauncherCopy
  <2> DEFINE f == StartFailure(x, p)
  <2>4. f.state \in {"RETRYING", "FAILED"} /\ Edge(x, row[x], f)
    BY <1>1, <2>3, StartFailureEdge
  <2> HIDE DEF f
  <2>5. \A l : l.id = x /\ l.pc = pc /\ l.p = f => Copy(l, row[x])
    BY <2>3, <2>4 DEF LauncherCopy
  <2>6. QED
    BY <1>3, <2>1, <2>2, <2>5 DEF ForkedPCs, f
<1>15. CASE PersistRunningFails(t)
  <2>1. Lands(t, "abandon", p) /\ Frame /\ row' = row /\ launcher[t].pc = "running"
    BY <1>15, <1>2, Landing DEF PersistRunningFails, At, storeVars
  <2>2. \A l : l.id = x /\ l.pc = "abandon" /\ l.p = p => Copy(l, row[x])
    BY <1>1, <2>1 DEF LauncherCopy, Forked
  <2>3. QED
    BY <1>3, <2>1, <2>2 DEF ForkedPCs
<1>18. CASE FailUnlock(t)
  <2>1. Lands(t, "failwrite", p) /\ Frame /\ row' = row /\ launcher[t].pc = "failunlock"
    BY <1>18, <1>2, Landing DEF FailUnlock, At
  <2>2. \A l : l.id = x /\ l.pc = "failwrite" /\ l.p = p => Copy(l, row[x])
    BY <1>1, <2>1 DEF LauncherCopy
  <2>3. QED
    BY <1>3, <2>1, <2>2 DEF ForkedPCs
<1>19. CASE FailWrite(t)
  <2>0. launcher[t].pc = "failwrite" /\ Frame
    BY <1>19 DEF FailWrite, At
  <2>1. row[x].state = "STARTING" /\ p.state \in {"RETRYING", "FAILED"} /\ Edge(x, row[x], p)
    BY <1>1, <2>0 DEF LauncherCopy
  <2>2. CASE row' = row /\ Goto(t, "release")
    <3>1. Lands(t, "release", p)
      BY <1>2, <2>2, Landing
    <3>2. \A l : l.id = x /\ l.pc = "release" /\ l.p = p => Copy(l, row[x])
      BY <2>1 DEF LauncherCopy
    <3>3. QED
      BY <1>3, <2>0, <2>2, <3>1, <3>2 DEF ForkedPCs
  <2>3. CASE UpdateProcess(x, p) /\ Goto(t, "failsettle")
    <3>1. Lands(t, "failsettle", p)
      BY <1>2, <2>3, Landing
    <3>2. RowMoves /\ row'[x] = p /\ \A id \in Procs \ {x} : row'[id] = row[id]
      BY <1>1, <2>1, <2>3, Written DEF NONE
    <3>3. \A l : l.id = x /\ l.pc = "failsettle" /\ l.p = p => Copy(l, row'[x])
      BY <2>1, <3>2 DEF LauncherCopy
    <3>4. QED
      BY <1>0, <1>1, <2>0, <3>1, <3>2, <3>3, LauncherLands DEF ForkedPCs
  <2>4. QED
    BY <1>1, <1>19, <2>2, <2>3 DEF FailWrite
<1>14. CASE PersistRunning(t)
  <2>0. launcher[t].pc = "running" /\ Frame /\ UpdateProcess(x, p)
    BY <1>1, <1>14 DEF PersistRunning, At
  <2>1. /\ row[x].state = "STARTING" /\ row[x].attempt = p.attempt /\ p.state = "RUNNING"
        /\ launches[x] # 0 /\ Forked(launcher[t], exec[<<x, launches[x]>>], launches[x])
    BY <1>1, <2>0 DEF LauncherCopy, Forked
  <2>2. Lands(t, "register", p)
    BY <1>2, <1>14, Landing DEF PersistRunning
  <2>3. Edge(x, row[x], p)
    BY <2>1 DEF Edge, PlainEdge
  <2>4. RowMoves /\ row'[x] = p /\ \A id \in Procs \ {x} : row'[id] = row[id]
    BY <1>1, <2>0, <2>1, <2>3, Written DEF NONE
  <2>5. \A l : l.id = x /\ l.pc = "register" /\ l.p = p => Copy(l, row'[x])
    BY <2>1, <2>4 DEF LauncherCopy, Forked
  <2>6. QED
    BY <1>0, <1>1, <2>0, <2>2, <2>4, <2>5, LauncherLands DEF ForkedPCs
<1>20. CASE FailSettle(t)
  <2>1. launcher[t].pc \notin ForkedPCs /\ Return(t) /\ Frame /\ row' = row
    BY <1>20 DEF FailSettle, At, ForkedPCs, storeVars
  <2>2. QED
    BY <1>0, <1>1, <2>1, NotWritten, LauncherReturns
<1>4. ASSUME launches[x] # 0
      PROVE  /\ launches[x] \in 1..MaxLaunches /\ <<x, launches[x]>> \in Handles
             /\ exec[<<x, launches[x]>>] \in Exec
             /\ \A id \in Procs, m \in 1..MaxLaunches : <<id, m>> \in Handles
             /\ exec \in [Handles -> StorableExec]
  BY <1>1, <1>4, SupervisorAssumption DEF DaemonInv, SuperInv, AttemptsInv, Handles, StorableExec
<1>12. CASE Fork(t)
  <2> DEFINE n == launches[x]
             q == [TransitionTo(p, "RUNNING", "") EXCEPT !.pid = n]
             e == [NoExec EXCEPT !.proc = "alive", !.p = q]
  <2>0. launcher[t].pc = "fork"
    BY <1>12 DEF Fork, At
  <2>1. p = row[x] /\ row[x].state = "STARTING" /\ n # 0
    BY <1>1, <2>0 DEF LauncherCopy
  <2>2. /\ exec' = [exec EXCEPT ![<<x, n>>] = e] /\ GotoWith(t, "running", q)
        /\ UNCHANGED <<launches, running, stopper, mode>> /\ row' = row
    BY <1>1, <1>12 DEF Fork, storeVars
  <2>3. q.state = "RUNNING" /\ q.attempt = p.attempt /\ q.pid = n
    <3>1. CanTransition(p.state, "RUNNING") /\ "RUNNING" \in States /\ "" \in Reasons
      BY <2>1, EdgesExist, Names
    <3>2. /\ TransitionTo(p, "RUNNING", "") \in Process
          /\ TransitionTo(p, "RUNNING", "").state = "RUNNING"
          /\ TransitionTo(p, "RUNNING", "").attempt = p.attempt
      BY <1>1, <3>1, TransitionArrives
    <3>3. QED
      BY <3>2 DEF Process
  <2> HIDE DEF q
  <2>4. /\ e.p = q /\ e.sup = "none" /\ e.proc = "alive" /\ e.intent = ""
        /\ e.stop = "none" /\ e.timer = "off"
    BY DEF NoExec
  <2> HIDE DEF e
  <2>5. /\ exec'[<<x, n>>] = e
        /\ \A id \in Procs, m \in 1..MaxLaunches : id # x \/ m # n => exec'[<<id, m>>] = exec[<<id, m>>]
    BY <1>4, <2>1, <2>2
  <2>6. PICK l : /\ launcher' = [launcher EXCEPT ![t] = l]
                 /\ l.id = x /\ l.pc = "running" /\ l.p = q
    BY <1>1, <1>2, <2>2, Landing DEF Lands
  <2>7. LauncherCopy(t, l, row'[x], exec'[<<x, n>>], n)
    BY <2>1, <2>2, <2>3, <2>4, <2>5, <2>6 DEF LauncherCopy, Forked
  <2>8. LauncherOnly(x)
    BY <2>2, <2>5 DEF LauncherOnly
  <2>9. Busy(l) /\ l.pc \in ForkedPCs /\ "none" \notin UsingPhases
    BY <2>6 DEF Busy, ForkedPCs, UsingPhases
  <2> HIDE DEF p
  <2>10. n = launches'[x] /\ \A m \in 1..MaxLaunches : m = n \/ exec'[<<x, m>>] = exec[<<x, m>>]
    BY <2>2, <2>5
  <2> HIDE DEF n
  <2>11. RowMoves /\ launches' = launches /\ running'[x] = running[x]
    BY <2>2, NotWritten
  <2>12. /\ exec'[<<x, n>>].sup \notin UsingPhases
         /\ exec'[<<x, n>>].timer = "off"
         /\ exec'[<<x, n>>].stop \notin {"begin"}
         /\ exec'[<<x, n>>].stop # "none" => exec'[<<x, n>>].intent # ""
    BY <2>4, <2>5, <2>9
  <2>13. QED
    BY <1>0, <1>1, <2>6, <2>7, <2>8, <2>9, <2>10, <2>11, <2>12, LauncherGoes
<1>17. CASE AbandonStart(t)
  <2> DEFINE n == launches[x]
             q == [p EXCEPT !.pid = 0]
             e == [NoExec EXCEPT !.proc = "gone"]
             f == StartFailure(x, q)
  <2>0. launcher[t].pc = "abandon"
    BY <1>17 DEF AbandonStart, At
  <2>1. /\ p.state = "RUNNING" /\ p.pid = n /\ n # 0
        /\ row[x].state = "STARTING" /\ row[x].attempt = p.attempt
    BY <1>1, <2>0 DEF LauncherCopy, Forked
  <2>2. /\ exec' = [exec EXCEPT ![<<x, n>>] = e] /\ GotoFailed(t, q, TRUE)
        /\ UNCHANGED <<launches, running, stopper, mode>> /\ row' = row
    BY <1>1, <1>17, <2>1 DEF AbandonStart, Handle, storeVars
  <2>3. q \in Process /\ q.state = "RUNNING" /\ q.attempt = p.attempt
    BY <1>1, <2>1 DEF Process
  <2> HIDE DEF q
  <2>4. f.state \in {"RETRYING", "FAILED"} /\ Edge(x, row[x], f)
    BY <2>1, <2>3, StartFailureEdge
  <2>5. e.sup = "none" /\ e.proc = "gone" /\ e.stop = "none" /\ e.timer = "off"
    BY DEF NoExec
  <2> HIDE DEF e
  <2>6. /\ exec'[<<x, n>>] = e
        /\ \A id \in Procs, m \in 1..MaxLaunches : id # x \/ m # n => exec'[<<id, m>>] = exec[<<id, m>>]
    BY <1>4, <2>1, <2>2
  <2>7. PICK pc \in {"failunlock", "failwrite"} : Lands(t, pc, f)
    BY <1>1, <1>2, <2>2, Landing
  <2> HIDE DEF f
  <2>8. PICK l : /\ launcher' = [launcher EXCEPT ![t] = l]
                 /\ l.id = x /\ l.pc = pc /\ l.p = f
    BY <1>1, <2>7 DEF Lands
  <2>9. LauncherCopy(t, l, row'[x], exec'[<<x, n>>], n)
    BY <2>1, <2>2, <2>4, <2>8 DEF LauncherCopy
  <2>10. LauncherOnly(x)
    BY <2>2, <2>6 DEF LauncherOnly
  <2>11. Busy(l) /\ "none" \notin UsingPhases
    BY <2>8 DEF Busy, UsingPhases
  <2> HIDE DEF p
  <2>12. n = launches'[x] /\ \A m \in 1..MaxLaunches : m = n \/ exec'[<<x, m>>] = exec[<<x, m>>]
    BY <2>2, <2>6
  <2> HIDE DEF n
  <2>13. RowMoves /\ launches' = launches /\ running'[x] = running[x]
    BY <2>2, NotWritten
  <2>14. /\ exec'[<<x, n>>].sup \notin UsingPhases
         /\ exec'[<<x, n>>].timer = "off"
         /\ exec'[<<x, n>>].stop \notin {"begin"}
         /\ exec'[<<x, n>>].stop # "none" => exec'[<<x, n>>].intent # ""
         /\ exec'[<<x, n>>].proc \notin {"alive", "zombie"}
    BY <2>5, <2>6, <2>11
  <2>15. QED
    BY <1>0, <1>1, <2>8, <2>9, <2>10, <2>11, <2>12, <2>13, <2>14, LauncherGoes
<1>16. CASE Register(t)
  <2>0. launcher[t].pc = "register"
    BY <1>16 DEF Register, At
  <2>a. launches[x] # 0
    BY <1>1, <2>0 DEF LauncherCopy
  <2>b. PICK n \in 1..MaxLaunches : n = launches[x]
    BY <1>4, <2>a
  <2> DEFINE e == exec[<<x, n>>]
             d == [e EXCEPT !.sup = "wait", !.timer = IF Def[x].timeout THEN "armed" ELSE "off"]
  <2>1. p = row[x] /\ Forked(launcher[t], e, n)
    BY <1>1, <2>0, <2>b DEF LauncherCopy
  <2>2. n \in 1..MaxLaunches /\ e \in Exec
    BY <1>4, <2>a, <2>b
  <2>3. /\ exec' = [exec EXCEPT ![<<x, n>>] = d] /\ Return(t)
        /\ running' = [running EXCEPT ![x] = n]
        /\ UNCHANGED <<launches, stopper, mode>> /\ row' = row
    <3>1. Handle(t) = <<x, n>> /\ p.pid = n
      BY <1>1, <2>1 DEF Handle, Forked
    <3>2. exec' = [exec EXCEPT ![Handle(t)] =
                     [exec[Handle(t)] EXCEPT !.sup = "wait",
                        !.timer = IF Def[launcher[t].id].timeout THEN "armed" ELSE "off"]]
      BY <1>16 DEF Register
    <3>3. exec' = [exec EXCEPT ![<<x, n>>] = d]
      BY <1>1, <3>1, <3>2
    <3>4. Return(t) /\ UNCHANGED <<launches, stopper, mode>> /\ row' = row
          /\ running' = [running EXCEPT ![x] = n]
      BY <1>1, <1>16, <3>1 DEF Register, storeVars
    <3>5. QED
      BY <3>3, <3>4
  <2>4. /\ d.sup = "wait" /\ d.p = p /\ d.proc \in {"alive", "zombie"} /\ d.intent = ""
        /\ d.stop = "none" /\ d.timer \in {"armed", "off"}
    BY <2>1, <2>2 DEF Forked, Exec
  <2> HIDE DEF d
  <2>5. /\ exec'[<<x, n>>] = d
        /\ \A id \in Procs, m \in 1..MaxLaunches : id # x \/ m # n => exec'[<<id, m>>] = exec[<<id, m>>]
    BY <1>4, <2>a, <2>3
  <2>6. PICK l : /\ launcher' = [launcher EXCEPT ![t] = l] /\ l.id = 0 /\ ~Busy(l)
                 /\ l.pc # "idle" \/ t = Dispatcher
    <3>1. WITNESS IF t = Dispatcher THEN IdleLauncher ELSE DoneLauncher
    <3>2. QED
      BY <2>3, <3>1 DEF Return, IdleLauncher, DoneLauncher, Busy
  <2>7. launcher'[t] = l /\ \A u \in Launchers \ {t} : launcher'[u] = launcher[u]
    BY <1>2, <2>6, LauncherAlone
  <2>8. OwnedByLauncher(x, t) /\ Referenced(x)
    BY <1>1, WhoLaunches DEF OwnInv
  <2>9. running'[x] = n /\ \A id \in Procs \ {x} : running'[id] = running[id]
    BY <2>3 DEF DaemonInv, SuperInv, AttemptsInv
  <2>10. LauncherOnly(x)
    BY <2>3, <2>5, <2>9 DEF LauncherOnly
  <2>11. "wait" \in UsingPhases /\ p.state = "RUNNING"
    BY <2>1 DEF UsingPhases, Forked
  <2>12. OwnedByAttempt(x, n)'
    <3>1. NoLauncher(x)'
      BY <2>6, <2>7, <2>8, NobodyIsZero DEF NoLauncher, OwnedByLauncher
    <3>2. ~Pending(x)' /\ ~Cancelling(x)'
      BY <2>3, <2>8 DEF OwnedByLauncher, Pending, Cancelling
    <3>3. Attempting(x, n)'
      BY <2>4, <2>5, <2>11 DEF Attempting
    <3>4. \A m \in (1..MaxLaunches) \ {n} : ~Attempting(x, m)' /\ ~Loose(x, m)'
      BY <2>3, <2>5, <2>8 DEF OwnedByLauncher, NoAttempt, NoLoose, Attempting, Loose
    <3>5. AttemptCopy(exec[<<x, n>>], row[x])'
      BY <2>1, <2>3, <2>4, <2>5, <2>11 DEF AttemptCopy, Supervised
    <3>6. exec'[<<x, n>>].sup # "classified"
      BY <2>4, <2>5
    <3>7. QED
      BY <3>1, <3>2, <3>3, <3>4, <3>5, <3>6 DEF OwnedByAttempt
  <2>13. Referenced(x)'
    <3>1. \A m \in 1..MaxLaunches : m > n => exec'[<<x, m>>] = NoExec
      <4>1. ASSUME NEW m \in 1..MaxLaunches, m > n
            PROVE  exec'[<<x, m>>] = NoExec
        <5>1. m # n
          BY <4>1
        <5>2. QED
          BY <2>b, <2>5, <2>8, <4>1, <5>1 DEF Referenced
      <4>2. QED
        BY <4>1
    <3>2. \A m \in 1..MaxLaunches :
            /\ exec[<<x, m>>].timer = "off"
            /\ exec[<<x, m>>].proc \in {"alive", "zombie"} => m = n
      BY <1>1, <2>b, LauncherAttempts
    <3>3. \A m \in 1..MaxLaunches :
            /\ exec'[<<x, m>>].timer = "armed" => m = n
            /\ exec'[<<x, m>>].stop # "none" => exec'[<<x, m>>].intent # ""
            /\ exec'[<<x, m>>].proc \in {"alive", "zombie"} => m = n
      <4>1. \A m \in 1..MaxLaunches : exec[<<x, m>>].stop # "none" => exec[<<x, m>>].intent # ""
        BY <2>8 DEF Referenced
      <4>2. \A m \in 1..MaxLaunches : m # n => exec'[<<x, m>>] = exec[<<x, m>>]
        BY <2>5
      <4>3. exec'[<<x, n>>].stop = "none"
        BY <2>4, <2>5
      <4>4. QED
        BY <3>2, <4>1, <4>2, <4>3
    <3>4. exec'[<<x, n>>].sup = "wait"
      BY <2>4, <2>5
    <3>5. stopper'[x] = stopper[x] /\ launches'[x] = n
      BY <2>b, <2>3
    <3>6. QED
      BY <2>2, <2>8, <2>9, <3>1, <3>3, <3>4, <3>5 DEF Referenced
  <2>14. \A id \in Procs \ {x} : Kept(id)
    BY <1>1, <1>2, <2>6, <2>10, LauncherKeeps
  <2>15. LaunchersShape' /\ LaunchersBusy /\ ModeInv'
    BY <1>0, <1>1, <2>3, <2>6, LauncherShape, LiveKeeps
  <2>16. RowMoves /\ Owned(x)'
    BY <2>2, <2>3, <2>12, NotWritten DEF Owned
  <2>17. QED
    BY <2>3, <2>13, <2>14, <2>15, <2>16, StepOwns
<1>21. QED
  BY <1>10, <1>11, <1>12, <1>13, <1>14, <1>15, <1>16, <1>17, <1>18, <1>19, <1>20 DEF StartNext

(* A launcher that writes nothing goes on.                                 *)
LEMMA LauncherLandsUnwritten ==
  ASSUME DaemonInv, OwnInv, NEW t \in Launchers, NEW x \in Procs, launcher[t].id = x, Live,
         NEW pc, pc \notin {"idle", "done"}, NEW p, Lands(t, pc, p),
         UNCHANGED <<row, exec, launches, running, stopper, todo, snap, shut, mode>>,
         \A l : l.id = x /\ l.pc = pc /\ l.p = p
           => LauncherCopy(t, l, row[x], exec[<<x, launches[x]>>], launches[x]),
         launcher[t].pc \in ForkedPCs => pc \in ForkedPCs
  PROVE  Moved
<1>1. RowMoves /\ row'[x] = row[x] /\ \A id \in Procs \ {x} : row'[id] = row[id]
  BY NotWritten
<1>2. QED
  BY <1>1, LauncherLands

(* park, from wherever a submission finds that it cannot start.            *)
LEMMA ParkLands ==
  ASSUME DaemonInv, OwnInv, NEW t \in Launchers, NEW x \in Procs, launcher[t].id = x, Live,
         t # Dispatcher, launcher[t].p = row[x], row[x].state = "CREATED", GotoPark(t),
         UNCHANGED <<row, exec, launches, running, stopper, todo, snap, shut, mode>>,
         launcher[t].pc \notin ForkedPCs
  PROVE  Moved
<1> DEFINE q == Parked(x, row[x])
<1>1. row[x] \in Process
  BY DEF DaemonInv, SuperInv, StoreInv, Storable
<1>2. q.state \in {"CANCELED", "QUEUED"} /\ Edge(x, row[x], q)
  BY <1>1, ParkedEdge
<1> HIDE DEF q
<1>3. Lands(t, "park", q)
  BY Landing DEF GotoPark, q, DaemonInv, SuperInv
<1>4. \A l : l.id = x /\ l.pc = "park" /\ l.p = q
        => LauncherCopy(t, l, row[x], exec[<<x, launches[x]>>], launches[x])
  BY <1>2 DEF LauncherCopy
<1>5. QED
  BY <1>3, <1>4, LauncherLandsUnwritten

(* The steps of admit and launch.                                          *)
LEMMA AdmitOwns ==
  ASSUME DaemonInv, OwnInv, NEW t \in Launchers, AdmitNext(t), UNCHANGED <<todo, snap, shut>>
  PROVE  Moved
<1>0. launcher[t].pc \notin {"idle", "done"} /\ launcher[t].pc \notin ForkedPCs /\ Live
  BY DEF AdmitNext, TakeSlot, TakeLock, YieldSlot, WriteStarting, ReleaseSlot, Unlock, At, ForkedPCs
<1>1. PICK x \in Procs :
        /\ launcher[t].id = x
        /\ LauncherCopy(t, launcher[t], row[x], exec[<<x, launches[x]>>], launches[x])
        /\ launcher[t].p \in Process /\ launcher[t].p \in Storable
        /\ row[x] \in Process /\ row[x] \in Storable
        /\ launches[x] \in 0..MaxLaunches
        /\ t # Dispatcher => t = x
  BY <1>0, InHand
<1>2. LaunchersInv
  BY DEF DaemonInv, SuperInv
<1> DEFINE p == launcher[t].p
           Copy(l) == LauncherCopy(t, l, row[x], exec[<<x, launches[x]>>], launches[x])
           Frame == UNCHANGED <<row, exec, launches, running, stopper, todo, snap, shut, mode>>
<1>3. ASSUME Frame, NEW pc, pc \notin {"idle", "done"}, NEW q, Lands(t, pc, q),
             \A l : l.id = x /\ l.pc = pc /\ l.p = q => Copy(l)
      PROVE  Moved
  <2> HIDE DEF p
  <2>1. QED
    BY <1>0, <1>1, <1>3, LauncherLandsUnwritten
<1>4. ASSUME Frame, Return(t)
      PROVE  Moved
  BY <1>0, <1>1, <1>4, NotWritten, LauncherReturns
<1>5. launcher[t].pc \in {"slot", "lock", "yield", "unslot", "starting"}
        => p = row[x] /\ row[x].state \in Startable(t)
  BY <1>1 DEF LauncherCopy
<1>6. ASSUME Frame, GotoPark(t), launcher[t].pc \in {"slot", "yield"}, t # Dispatcher
      PROVE  Moved
  <2>1. p = row[x] /\ row[x].state = "CREATED"
    BY <1>5, <1>6 DEF Startable
  <2>2. QED
    BY <1>0, <1>1, <1>6, <2>1, ParkLands
<1>10. CASE TakeSlot(t)
  <2>1. launcher[t].pc = "slot" /\ Frame
    BY <1>10 DEF TakeSlot, At, storeVars
  <2>2. CASE Goto(t, "lock")
    <3>1. Lands(t, "lock", p)
      BY <1>2, <2>2, Landing
    <3>2. \A l : l.id = x /\ l.pc = "lock" /\ l.p = p => Copy(l)
      BY <1>5, <2>1 DEF LauncherCopy
    <3>3. QED
      BY <1>3, <2>1, <3>1, <3>2
  <2>3. CASE t = Dispatcher /\ Return(t)
    BY <1>4, <2>1, <2>3
  <2>4. CASE t # Dispatcher /\ Goto(t, "unclaim")
    <3>1. Lands(t, "unclaim", p)
      BY <1>2, <2>4, Landing
    <3>2. \A l : l.id = x /\ l.pc = "unclaim" /\ l.p = p => Copy(l)
      BY <1>5, <2>1, <2>4 DEF LauncherCopy
    <3>3. QED
      BY <1>3, <2>1, <3>1, <3>2
  <2>5. CASE t # Dispatcher /\ GotoPark(t)
    BY <1>6, <2>1, <2>5
  <2>6. QED
    BY <1>10, <2>2, <2>3, <2>4, <2>5 DEF TakeSlot
<1>11. CASE TakeLock(t)
  <2>1. launcher[t].pc = "lock" /\ Frame
    BY <1>11 DEF TakeLock, At
  <2>2. PICK pc \in {"starting", "unslot", "yield"} :
          Goto(t, pc) /\ (pc = "yield" => t # Dispatcher)
    BY <1>11 DEF TakeLock
  <2>3. Lands(t, pc, p)
    BY <1>2, <2>2, Landing
  <2>4. \A l : l.id = x /\ l.pc = pc /\ l.p = p => Copy(l)
    BY <1>5, <2>1, <2>2 DEF LauncherCopy
  <2>5. QED
    BY <1>3, <2>1, <2>2, <2>3, <2>4
<1>12. CASE YieldSlot(t)
  <2>1. launcher[t].pc \in {"yield", "unslot"} /\ Frame
    BY <1>12 DEF YieldSlot, At, storeVars
  <2>2. CASE launcher[t].pc = "yield" /\ GotoPark(t)
    <3>1. t # Dispatcher
      BY <1>1, <2>2 DEF LauncherCopy
    <3>2. QED
      BY <1>6, <2>1, <2>2, <3>1
  <2>3. CASE Return(t)
    BY <1>4, <2>1, <2>3
  <2>4. QED
    BY <1>12, <2>2, <2>3 DEF YieldSlot
<1>13. CASE WriteStarting(t)
  <2>1. launcher[t].pc = "starting" /\ UNCHANGED <<exec, running, stopper, mode>>
    BY <1>13 DEF WriteStarting, At
  <2>2. CASE Goto(t, "release") /\ UNCHANGED <<row, launches>>
    <3>1. Lands(t, "release", p)
      BY <1>2, <2>2, Landing
    <3>2. \A l : l.id = x /\ l.pc = "release" /\ l.p = p => Copy(l)
      BY <1>5, <2>1 DEF LauncherCopy
    <3>3. QED
      BY <1>3, <2>1, <2>2, <3>1, <3>2
  <2>3. CASE /\ launches[x] < MaxLaunches /\ UpdateProcess(x, Launched(p))
             /\ launches' = [launches EXCEPT ![x] = @ + 1]
             /\ GotoWith(t, "start", Launched(p))
    <3> DEFINE q == Launched(p)
    <3>1. p = row[x] /\ row[x].state \in Waiting
      BY <1>5, <2>1 DEF Startable, Waiting
    <3>2. q.state = "STARTING" /\ Edge(x, row[x], q)
      BY <1>1, <3>1, LaunchedEdge
    <3>3. q \in Storable
      BY <1>1, LaunchedStorable
    <3> HIDE DEF q
    <3>a. Lands(t, "start", q)
      BY <1>2, <2>3, Landing DEF q
    <3>4. PICK l : /\ launcher' = [launcher EXCEPT ![t] = l]
                   /\ l.id = x /\ l.pc = "start" /\ l.p = q
      BY <1>1, <3>a DEF Lands
    <3>5. RowMoves /\ row'[x] = q /\ \A id \in Procs \ {x} : row'[id] = row[id]
      BY <2>3, <3>1, <3>2, <3>3, Written DEF q, NONE, Waiting
    <3>6. PICK n \in 1..MaxLaunches : n = launches'[x] /\ n = launches[x] + 1
      <4>1. launches \in [Procs -> 0..MaxLaunches] /\ MaxLaunches \in Nat
        BY SupervisorAssumption DEF DaemonInv, SuperInv, AttemptsInv
      <4>2. launches'[x] = launches[x] + 1
        BY <2>3, <4>1
      <4>3. launches[x] + 1 \in 1..MaxLaunches
        BY <1>1, <2>3, <4>1
      <4>4. QED
        BY <4>2, <4>3
    <3>7. \A id \in Procs \ {x} : launches'[id] = launches[id]
      BY <2>3 DEF DaemonInv, SuperInv, AttemptsInv
    <3>8. exec[<<x, n>>] = NoExec
      <4>1. n > launches[x]
        BY <1>1, <3>6, SupervisorAssumption
      <4>2. QED
        BY <4>1 DEF OwnInv, Referenced
    <3>9. LauncherCopy(t, l, row'[x], exec'[<<x, n>>], n)
      BY <2>1, <3>2, <3>4, <3>5, <3>8 DEF LauncherCopy
    <3>10. LauncherOnly(x)
      BY <2>1, <3>5, <3>7 DEF LauncherOnly
    <3>11. /\ exec'[<<x, n>>].sup \notin UsingPhases
           /\ exec'[<<x, n>>].timer = "off"
           /\ exec'[<<x, n>>].stop \notin {"begin"}
           /\ exec'[<<x, n>>].stop # "none" => exec'[<<x, n>>].intent # ""
           /\ exec'[<<x, n>>].proc \notin {"alive", "zombie"}
      <4>1. exec'[<<x, n>>] = NoExec
        BY <2>1, <3>8
      <4>2. /\ NoExec.sup \notin UsingPhases /\ NoExec.timer = "off" /\ NoExec.stop = "none"
            /\ NoExec.proc = "none"
        BY DEF NoExec, UsingPhases
      <4>3. QED
        BY <4>1, <4>2
    <3>12. Busy(l) /\ row'[x].state # NONE
      BY <3>2, <3>4, <3>5 DEF Busy, NONE
    <3>13. running'[x] = running[x] /\ \A m \in 1..MaxLaunches : exec'[<<x, m>>] = exec[<<x, m>>]
      BY <2>1
    <3> HIDE DEF p
    <3>14. launches' = [launches EXCEPT ![x] = @ + 1]
      BY <2>3
    <3>15. QED
      BY <1>0, <1>1, <3>4, <3>5, <3>6, <3>9, <3>10, <3>11, <3>12, <3>13, <3>14, LauncherGoes
  <2>4. QED
    BY <1>1, <1>13, <2>2, <2>3 DEF WriteStarting
<1>14. CASE ReleaseSlot(t)
  <2>1. launcher[t].pc = "release" /\ Frame /\ Lands(t, "unlock", p)
    BY <1>2, <1>14, Landing DEF ReleaseSlot, At, storeVars
  <2>2. \A l : l.id = x /\ l.pc = "unlock" /\ l.p = p => Copy(l)
    BY <1>1, <2>1 DEF LauncherCopy
  <2>3. QED
    BY <1>3, <2>1, <2>2
<1>15. CASE Unlock(t)
  <2>1. Return(t) /\ Frame
    BY <1>15 DEF Unlock
  <2>2. QED
    BY <1>4, <2>1
<1>16. QED
  BY <1>10, <1>11, <1>12, <1>13, <1>14, <1>15 DEF AdmitNext

(* A launch that was not made.                                             *)
LEMMA NoExecIs ==
  /\ NoExec.sup = "none" /\ NoExec.timer = "off" /\ NoExec.stop = "none"
  /\ NoExec.proc = "none" /\ NoExec.sup \notin UsingPhases
BY DEF NoExec, UsingPhases

(* A row that does not exist is nobody's.                                  *)
LEMMA NobodysYet ==
  ASSUME DaemonInv, OwnInv, NEW x \in Procs, row[x].state = NONE
  PROVE  /\ ~Pending(x) /\ ~Cancelling(x) /\ NoAttempt(x) /\ NoLoose(x)
         /\ \A u \in Launchers : launcher[u].id = x => launcher[u].pc = "create"
<1>1. \A n \in 1..MaxLaunches : exec[<<x, n>>] = NoExec
  <2>1. launches[x] = 0 /\ \A n \in 1..MaxLaunches : n > launches[x] => exec[<<x, n>>] = NoExec
    BY DEF OwnInv, Fresh, Referenced
  <2>2. QED
    BY <2>1
<1>2. NoAttempt(x)
  BY <1>1, NoExecIs DEF NoAttempt, Attempting
<1>3. ~Pending(x)
  BY WhoPends DEF OwnedByPass, NONE
<1>4. ~Cancelling(x)
  BY WhoCancels DEF OwnedByStop, NONE, Waiting
<1>5. NoLoose(x)
  <2> SUFFICES ASSUME NEW n \in 1..MaxLaunches, Loose(x, n) PROVE FALSE
    BY DEF NoLoose
  <2>1. exec[<<x, n>>].sup = "none"
    BY <1>1, NoExecIs
  <2>2. QED
    BY <1>2, <2>1, WhoIsLoose DEF OwnedByAttempt, NoAttempt
<1>6. ASSUME NEW u \in Launchers, launcher[u].id = x
      PROVE  launcher[u].pc = "create"
  <2>1. LauncherCopy(u, launcher[u], row[x], exec[<<x, launches[x]>>], launches[x])
    BY <1>6, WhoLaunches DEF OwnedByLauncher
  <2>2. Busy(launcher[u])
    BY <1>6, NobodyIsZero DEF OwnInv, LaunchersShape
  <2>3. launcher[u].pc \in LauncherPCs
    BY DEF DaemonInv, SuperInv, LaunchersInv, LauncherOK, StorableLauncher, Launcher
  <2>4. launcher[u].pc # "register"
    BY <2>1 DEF LauncherCopy, Forked, NONE
  <2>5. QED
    BY <2>1, <2>2, <2>3, <2>4 DEF LauncherCopy, LauncherPCs, Busy, Startable, NONE
<1>7. QED
  BY <1>2, <1>3, <1>4, <1>5, <1>6

(* Nothing that matters to an owner changes.                               *)
LEMMA NobodyMoves ==
  ASSUME DaemonInv, OwnInv, UNCHANGED <<row, launcher, exec, launches, running, stopper, shut>>,
         \A id \in Procs : (Pending(id)' <=> Pending(id)) /\ (Pending(id) => snap'[id] = snap[id]),
         mode \in {"stop", "exit"} => mode' \in {"stop", "exit"}, ModeInv'
  PROVE  Moved
<1>1. \A id \in Procs : Kept(id)
  BY DEF Kept
<1>2. RowMoves /\ LaunchersBusy /\ LaunchersShape'
  BY NotWritten DEF LaunchersBusy, LaunchersShape, OwnInv
<1>3. QED
  BY <1>1, <1>2, NobodyIsZero, StepOwns

(* Submit: the execution is the submission's from here on.                 *)
LEMMA SubmitOwnsIt ==
  ASSUME DaemonInv, OwnInv, NEW t \in Launchers, t \in Procs, Submit(t),
         UNCHANGED <<todo, snap, shut>>
  PROVE  Moved
<1>0. Live /\ launcher[t].pc = "idle" /\ launcher[t] \in Launcher
  BY DEF Submit, At, DaemonInv, SuperInv, LaunchersInv, LauncherOK, StorableLauncher
<1>1. launcher[t].id = 0 /\ t # Dispatcher /\ row[t].state = NONE
  BY <1>0, NobodyIsZero DEF OwnInv, LaunchersShape, Busy, Fresh, Dispatcher
<1>2. UNCHANGED <<row, exec, launches, running, stopper, mode, todo, snap, shut>>
  BY DEF Submit, storeVars
<1>3. LaunchersInv
  BY DEF DaemonInv, SuperInv
<1>4. CASE Return(t)
  <2>1. launcher' = [launcher EXCEPT ![t] = DoneLauncher] /\ DoneLauncher.id = 0
        /\ DoneLauncher.pc = "done"
    BY <1>1, <1>4 DEF Return, DoneLauncher, IdleLauncher
  <2>2. launcher'[t] = DoneLauncher /\ \A u \in Launchers \ {t} : launcher'[u] = launcher[u]
    BY <1>3, <2>1, LauncherAlone
  <2>3. LauncherOnly(0)
    BY <1>2 DEF LauncherOnly
  <2>4. \A id \in Procs \ {0} : Kept(id)
    BY <1>1, <1>3, <2>1, <2>3, LauncherKeeps
  <2>5. LaunchersShape' /\ LaunchersBusy
    BY <2>1, <2>2 DEF OwnInv, LaunchersShape, LaunchersBusy, Busy, Launchers
  <2>6. RowMoves /\ ModeInv'
    BY <1>0, <1>2, NotWritten, LiveKeeps
  <2>7. QED
    BY <1>2, <2>4, <2>5, <2>6, NobodyIsZero, StepOwns
<1>5. CASE launcher' = [launcher EXCEPT ![t].pc = "create", ![t].id = t]
  <2> DEFINE l == [launcher[t] EXCEPT !.pc = "create", !.id = t]
  <2>1. launcher' = [launcher EXCEPT ![t] = l] /\ l.id = t /\ l.pc = "create"
    BY <1>0, <1>5 DEF Launcher
  <2> HIDE DEF l
  <2>2. launcher'[t] = l /\ \A u \in Launchers \ {t} : launcher'[u] = launcher[u]
    BY <1>3, <2>1, LauncherAlone
  <2>3. LauncherOnly(t)
    BY <1>2 DEF LauncherOnly
  <2>4. \A id \in Procs \ {t} : Kept(id)
    BY <1>1, <1>3, <2>1, <2>3, LauncherKeeps
  <2>5. LaunchersShape' /\ LaunchersBusy
    BY <1>1, <2>1, <2>2, NobodyIsZero DEF OwnInv, LaunchersShape, LaunchersBusy, Busy, Launchers
  <2>6. RowMoves /\ ModeInv'
    BY <1>0, <1>2, NotWritten, LiveKeeps
  <2>7. /\ ~Pending(t) /\ ~Cancelling(t) /\ NoAttempt(t) /\ NoLoose(t)
        /\ \A u \in Launchers : launcher[u].id = t => launcher[u].pc = "create"
    BY <1>1, NobodysYet
  <2>8. \A u \in Launchers \ {t} : launcher[u].id # t
    <3> SUFFICES ASSUME NEW u \in Launchers \ {t}, launcher[u].id = t PROVE FALSE
      OBVIOUS
    <3>1. launcher[u].pc = "create"
      BY <2>7
    <3>2. u # Dispatcher
      <4>1. LauncherCopy(u, launcher[u], row[t], exec[<<t, launches[t]>>], launches[t])
        BY WhoLaunches DEF OwnedByLauncher
      <4>2. QED
        BY <3>1, <4>1 DEF LauncherCopy
    <3>3. QED
      BY <3>1, <3>2 DEF OwnInv, LaunchersShape, Busy
  <2>9. LauncherCopy(t, l, row'[t], exec'[<<t, launches'[t]>>], launches'[t])
    BY <1>1, <1>2, <2>1 DEF LauncherCopy
  <2>10. OwnedByLauncher(t, t)'
    BY <1>2, <2>1, <2>2, <2>7, <2>8, <2>9
       DEF OwnedByLauncher, Pending, Cancelling, NoAttempt, Attempting, NoLoose, Loose
  <2>11. Referenced(t)'
    <3>1. Referenced(t) /\ \A u \in Launchers : launcher[u].id # t
      BY <1>1, <2>8, NobodyIsZero DEF OwnInv
    <3>2. QED
      BY <1>2, <3>1 DEF Referenced
  <2>12. Owned(t)'
    BY <2>10 DEF Owned
  <2>13. QED
    BY <1>2, <2>4, <2>5, <2>6, <2>11, <2>12, StepOwns
<1>6. QED
  BY <1>4, <1>5 DEF Submit

(* The other steps of a submission, and expiry.                            *)
LEMMA SubmitOwns ==
  ASSUME DaemonInv, OwnInv, NEW t \in Launchers,
         (t \in Procs /\ SubmitNext(t)) \/ (t = Dispatcher /\ (ExpireUnlock(t) \/ ExpireWrite(t))),
         UNCHANGED <<todo, snap, shut>>
  PROVE  Moved
<1>1. CASE t \in Procs /\ Submit(t)
  BY <1>1, SubmitOwnsIt
<1>2. CASE Hangup(t)
  <2>1. /\ UNCHANGED <<row, launcher, exec, launches, running, stopper, shut, mode, todo, snap>>
        /\ Live
    BY <1>2 DEF Hangup, storeVars
  <2>2. ModeInv'
    BY <2>1, LiveKeeps
  <2>3. \A id \in Procs : Pending(id)' <=> Pending(id)
    BY <2>1 DEF Pending
  <2>4. QED
    BY <2>1, <2>2, <2>3, NobodyMoves
<1>3. CASE \/ Create(t) \/ Claim(t) \/ Unclaim(t) \/ ExpireUnlock(t)
           \/ rejectLocked(t) \/ park(t) \/ ExpireWrite(t)
  <2>0. launcher[t].pc \notin {"idle", "done"} /\ launcher[t].pc \notin ForkedPCs /\ Live
    BY <1>3 DEF Create, Claim, Unclaim, ExpireUnlock, rejectLocked, park, ExpireWrite,
                WriteAndReturn, At, ForkedPCs
  <2>1. PICK x \in Procs :
          /\ launcher[t].id = x
          /\ LauncherCopy(t, launcher[t], row[x], exec[<<x, launches[x]>>], launches[x])
          /\ launcher[t].p \in Process /\ launcher[t].p \in Storable
          /\ row[x] \in Process /\ row[x] \in Storable
          /\ launches[x] \in 0..MaxLaunches
          /\ t # Dispatcher => t = x
    BY <2>0, InHand
  <2>2. LaunchersInv
    BY DEF DaemonInv, SuperInv
  <2> DEFINE p == launcher[t].p
             Copy(l) == LauncherCopy(t, l, row[x], exec[<<x, launches[x]>>], launches[x])
             Rest == UNCHANGED <<exec, launches, running, stopper, todo, snap, shut, mode>>
  <2>3. ASSUME Rest, row' = row, Return(t)
        PROVE  Moved
    BY <2>0, <2>1, <2>3, NotWritten, LauncherReturns
  <2>4. ASSUME Rest, row' = row, NEW pc, pc \notin {"idle", "done"}, NEW q, Lands(t, pc, q),
               \A l : l.id = x /\ l.pc = pc /\ l.p = q => Copy(l)
        PROVE  Moved
    <3> HIDE DEF p
    <3>1. QED
      BY <2>0, <2>1, <2>4, LauncherLandsUnwritten
  <2>5. ASSUME NEW pc \in {"conflict", "park", "expired"}, WriteAndReturn(t, pc)
        PROVE  Moved
    <3>1. Rest /\ Return(t) /\ launcher[t].pc = pc
      BY <2>5 DEF WriteAndReturn, At
    <3>2. CASE row' = row
      BY <2>3, <3>1, <3>2
    <3>3. CASE UpdateProcess(x, p)
      <4>1. row[x].state \in {"CREATED", "QUEUED"} /\ Edge(x, row[x], p)
        BY <2>1, <3>1 DEF LauncherCopy
      <4>2. RowMoves /\ \A id \in Procs \ {x} : row'[id] = row[id]
        BY <2>1, <3>3, <4>1, Written DEF NONE
      <4>3. QED
        BY <2>0, <2>1, <3>1, <4>2, LauncherReturns
    <3>4. QED
      BY <2>1, <2>5, <3>2, <3>3 DEF WriteAndReturn
  <2>10. CASE rejectLocked(t) \/ park(t) \/ ExpireWrite(t)
    BY <2>5, <2>10 DEF rejectLocked, park, ExpireWrite
  <2>11. CASE Create(t)
    <3>0. launcher[t].pc = "create" /\ Rest
      BY <2>11 DEF Create, At
    <3>1. CASE Return(t) /\ UNCHANGED row
      BY <2>3, <3>0, <3>1
    <3>2. CASE CreateProcess(t) /\ \E pc \in {"claim", "slot"} : GotoWith(t, pc, NewProcess)
      <4>0. PICK pc \in {"claim", "slot"} : GotoWith(t, pc, NewProcess)
        BY <3>2
      <4>1. t # Dispatcher /\ t = x /\ row[x].state = NONE /\ row[x].attempt = 0
        BY <2>1, <3>0 DEF LauncherCopy, OwnInv, Fresh
      <4>2. NewProcess \in Storable /\ NewProcess.state = "CREATED" /\ NewProcess.attempt = 0
        BY DEF NewProcess, NoProcess, Storable, Process, NONE, Reasons, States
      <4>3. Edge(x, row[x], NewProcess)
        BY <4>1, <4>2 DEF Edge, PlainEdge
      <4>4. Lands(t, pc, NewProcess)
        BY <2>2, <4>0, Landing
      <4>5. launcher'[x].pc # "idle"
        <5>1. PICK l : launcher' = [launcher EXCEPT ![t] = l] /\ l.pc = pc
          BY <4>4 DEF Lands
        <5>2. QED
          BY <2>2, <4>1, <5>1, LauncherAlone
      <4>6. RowMoves /\ row'[x] = NewProcess /\ \A id \in Procs \ {x} : row'[id] = row[id]
        BY <3>2, <4>1, <4>2, <4>3, <4>5, Written DEF CreateProcess, UpdateProcess
      <4>7. \A l : l.id = x /\ l.pc = pc /\ l.p = NewProcess
              => LauncherCopy(t, l, row'[x], exec[<<x, launches[x]>>], launches[x])
        BY <4>1, <4>2, <4>6 DEF LauncherCopy, Startable
      <4>8. QED
        BY <2>0, <2>1, <3>0, <4>4, <4>6, <4>7, LauncherLands
    <3>3. QED
      BY <2>11, <3>1, <3>2 DEF Create
  <2>12. CASE Claim(t)
    <3>0. launcher[t].pc = "claim" /\ Rest /\ row' = row
      BY <2>12 DEF Claim, At
    <3>1. t # Dispatcher /\ t = x /\ p = row[x] /\ row[x].state = "CREATED"
      BY <2>1, <3>0 DEF LauncherCopy, Startable
    <3>2. CASE Return(t)
      BY <2>3, <3>0, <3>2
    <3>3. CASE Goto(t, "slot")
      <4>1. Lands(t, "slot", p)
        BY <2>2, <3>3, Landing
      <4>2. \A l : l.id = x /\ l.pc = "slot" /\ l.p = p => Copy(l)
        BY <3>1 DEF LauncherCopy, Startable
      <4>3. QED
        BY <2>4, <3>0, <4>1, <4>2
    <3>4. CASE GotoWith(t, "conflict", TransitionTo(p, "CANCELED", "lock_conflict"))
      <4> DEFINE q == TransitionTo(row[x], "CANCELED", "lock_conflict")
      <4>1. Lands(t, "conflict", q)
        BY <2>2, <3>1, <3>4, Landing
      <4>2. "CANCELED" \in States /\ "lock_conflict" \in Reasons
            /\ CanTransition(row[x].state, "CANCELED") /\ PlainEdge(row[x].state, "CANCELED")
        BY <3>1, Names, EdgesExist DEF PlainEdge, Waiting
      <4>3. q.state = "CANCELED" /\ Edge(x, row[x], q)
        BY <2>1, <4>2, PlainStep
      <4> HIDE DEF q
      <4>4. \A l : l.id = x /\ l.pc = "conflict" /\ l.p = q => Copy(l)
        BY <3>1, <4>3 DEF LauncherCopy
      <4>5. QED
        BY <2>4, <3>0, <4>1, <4>4
    <3>5. QED
      BY <2>12, <3>2, <3>3, <3>4 DEF Claim
  <2>13. CASE Unclaim(t)
    <3>0. launcher[t].pc = "unclaim" /\ Rest /\ row' = row /\ GotoPark(t)
      BY <2>13 DEF Unclaim, At
    <3>1. t # Dispatcher /\ p = row[x] /\ row[x].state = "CREATED"
      BY <2>1, <3>0 DEF LauncherCopy, Startable
    <3>2. QED
      BY <2>0, <2>1, <3>0, <3>1, ParkLands
  <2>14. CASE ExpireUnlock(t)
    <3>0. launcher[t].pc = "expire" /\ Rest /\ row' = row /\ Lands(t, "expired", p)
      BY <2>2, <2>14, Landing DEF ExpireUnlock, At
    <3>1. \A l : l.id = x /\ l.pc = "expired" /\ l.p = p => Copy(l)
      BY <2>1, <3>0 DEF LauncherCopy
    <3>2. QED
      BY <2>4, <3>0, <3>1
  <2>15. QED
    BY <1>3, <2>10, <2>11, <2>12, <2>13, <2>14
<1>4. QED
  BY <1>1, <1>2, <1>3 DEF SubmitNext

----------------------------------------------------------------------------
(* The steps of an attempt.                                                *)

(* What a step on behalf of the attempt n of x leaves alone.               *)
AttemptOnly(x, n) ==
  /\ UNCHANGED <<launcher, launches, todo, snap, mode>>
  /\ \A id \in Procs \ {x} :
        row'[id] = row[id] /\ running'[id] = running[id] /\ stopper'[id] = stopper[id]
  /\ \A id \in Procs, m \in 1..MaxLaunches :
        id # x \/ m # n
          => exec'[<<id, m>>] = exec[<<id, m>>] /\ (<<id, m>> \in shut' <=> <<id, m>> \in shut)
  /\ stopper'[x] = stopper[x] \/ stopper'[x].pc = "done"
  /\ shut' \subseteq shut

LEMMA AttemptKeeps ==
  ASSUME DaemonInv, OwnInv, Live, NEW x \in Procs, NEW n, AttemptOnly(x, n)
  PROVE  /\ \A id \in Procs \ {x} : Kept(id)
         /\ LaunchersShape' /\ LaunchersBusy /\ ModeInv'
         /\ Pending(x)' <=> Pending(x)
         /\ NoLauncher(x)' <=> NoLauncher(x)
         /\ ~Cancelling(x) => ~Cancelling(x)'
<1>1. \A id \in Procs \ {x} : Kept(id)
  BY DEF Kept, AttemptOnly, Pending
<1>2. LaunchersShape' /\ LaunchersBusy
  BY DEF OwnInv, LaunchersShape, LaunchersBusy, AttemptOnly
<1>3. ModeInv'
  <2>1. mode' = mode /\ mode \notin {"boot", "down"} /\ shut' \subseteq shut
    BY DEF AttemptOnly, Live
  <2>2. mode \notin {"stop", "exit"} => shut' = {}
    BY <2>1 DEF OwnInv, ModeInv
  <2>3. QED
    BY <2>1, <2>2 DEF ModeInv
<1>4. (Pending(x)' <=> Pending(x)) /\ (NoLauncher(x)' <=> NoLauncher(x))
      /\ (~Cancelling(x) => ~Cancelling(x)')
  BY DEF AttemptOnly, Pending, NoLauncher, Cancelling
<1>5. QED
  BY <1>1, <1>2, <1>3, <1>4

(* Its other attempts stay as they are, and no more is owed to them.       *)
LEMMA OtherAttempts ==
  ASSUME NEW x \in Procs, NEW n, NEW m \in 1..MaxLaunches, m # n, AttemptOnly(x, n)
  PROVE  /\ exec'[<<x, m>>] = exec[<<x, m>>]
         /\ Attempting(x, m)' <=> Attempting(x, m)
         /\ Loose(x, m)' => Loose(x, m)
BY DEF AttemptOnly, Attempting, Loose

(* A supervise goroutine goes on.                                          *)
LEMMA AttemptGoes ==
  ASSUME DaemonInv, OwnInv, Live, NEW x \in Procs, NEW n \in 1..MaxLaunches,
         OwnedByAttempt(x, n), AttemptOnly(x, n), RowMoves,
         NEW e, exec'[<<x, n>>] = e, e.sup \in UsingPhases, AttemptCopy(e, row'[x]),
         e.sup = "classified" => Edge(x, row'[x], e.p),
         e.timer = "armed" => e.sup = "wait",
         e.stop # "none" => e.intent # "",
         running'[x] = 0 \/ (running'[x] = running[x] /\ e.sup \in {"wait", "reaped"})
  PROVE  Moved
<1>1. /\ \A id \in Procs \ {x} : Kept(id)
      /\ LaunchersShape' /\ LaunchersBusy /\ ModeInv'
      /\ Pending(x)' <=> Pending(x)
      /\ NoLauncher(x)' <=> NoLauncher(x)
      /\ ~Cancelling(x) => ~Cancelling(x)'
  BY AttemptKeeps
<1>2. OwnedByAttempt(x, n)'
  <2>1. NoLauncher(x)' /\ ~Pending(x)' /\ ~Cancelling(x)' /\ Attempting(x, n)'
    BY <1>1 DEF OwnedByAttempt, Attempting
  <2>2. \A m \in (1..MaxLaunches) \ {n} : ~Attempting(x, m)' /\ ~Loose(x, m)'
    BY OtherAttempts DEF OwnedByAttempt
  <2>3. AttemptCopy(exec[<<x, n>>], row[x])'
    BY DEF AttemptCopy, Requeued, AttemptOnly
  <2>4. exec'[<<x, n>>].sup = "classified" => Edge(x, row'[x], exec'[<<x, n>>].p)
    OBVIOUS
  <2>5. QED
    BY <2>1, <2>2, <2>3, <2>4 DEF OwnedByAttempt
<1>3. Referenced(x)'
  <2>0. Referenced(x) /\ Attempting(x, n)
    BY DEF OwnInv, OwnedByAttempt
  <2>1. ~(n > launches[x])
    BY <2>0, NoExecIs DEF Referenced, Attempting
  <2>2. launches'[x] = launches[x] /\ (stopper'[x] = stopper[x] \/ stopper'[x].pc = "done")
    BY DEF AttemptOnly
  <2>3. \A m \in 1..MaxLaunches : m # n => exec'[<<x, m>>] = exec[<<x, m>>]
    BY OtherAttempts
  <2>4. \A m \in 1..MaxLaunches : m > launches'[x] => exec'[<<x, m>>] = NoExec
    BY <2>0, <2>1, <2>2, <2>3 DEF Referenced
  <2>5. running'[x] # 0 => running'[x] \in 1..MaxLaunches
                          /\ exec'[<<x, running'[x]>>].sup \in {"wait", "reaped"}
    BY <2>0, <2>3 DEF Referenced
  <2>6. \A m \in 1..MaxLaunches : exec'[<<x, m>>].timer = "armed" => exec'[<<x, m>>].sup = "wait"
    BY <2>0, <2>3 DEF Referenced
  <2>7. \A m \in 1..MaxLaunches : exec'[<<x, m>>].stop # "none" => exec'[<<x, m>>].intent # ""
    BY <2>0, <2>3 DEF Referenced
  <2>8. \A m \in 1..MaxLaunches :
          exec'[<<x, m>>].proc \in {"alive", "zombie"} => exec'[<<x, m>>].sup = "wait"
    <3>1. NoLauncher(x)
      BY DEF OwnedByAttempt
    <3>2. \A m \in 1..MaxLaunches :
            exec[<<x, m>>].proc \in {"alive", "zombie"} => exec[<<x, m>>].sup = "wait"
      BY <2>0, <3>1 DEF Referenced, NoLauncher
    <3>3. e.proc \in {"alive", "zombie"} => e.sup = "wait"
      BY DEF AttemptCopy
    <3>4. QED
      BY <2>3, <3>2, <3>3
  <2>9. stopper'[x].pc = "intent" => stopper'[x].pid \in 1..MaxLaunches
    BY <2>0, <2>2 DEF Referenced
  <2>10. QED
    BY <2>4, <2>5, <2>6, <2>7, <2>8, <2>9 DEF Referenced
<1>4. \A id \in Procs : launches'[id] = launches[id]
  BY DEF AttemptOnly
<1>5. Owned(x)'
  BY <1>2 DEF Owned
<1>6. QED
  BY <1>1, <1>3, <1>4, <1>5, StepOwns

(* An attempt is over, or was.                                             *)
LEMMA AttemptOver ==
  ASSUME DaemonInv, OwnInv, Live, NEW x \in Procs, NEW n \in 1..MaxLaunches,
         \/ OwnedByAttempt(x, n)
         \/ Unowned(x) /\ row'[x] = row[x],
         AttemptOnly(x, n), RowMoves,
         NEW e, exec'[<<x, n>>] = e, e.sup = "done", e.p = row'[x],
         row'[x].state \in Outcomes, Requeued(row'[x]),
         exec[<<x, n>>] # NoExec,
         e.timer # "armed", e.proc \notin {"alive", "zombie"},
         e.stop # "none" => e.intent # "",
         running'[x] = 0
  PROVE  Moved
<1>1. /\ \A id \in Procs \ {x} : Kept(id)
      /\ LaunchersShape' /\ LaunchersBusy /\ ModeInv'
      /\ Pending(x)' <=> Pending(x)
      /\ NoLauncher(x)' <=> NoLauncher(x)
      /\ ~Cancelling(x) => ~Cancelling(x)'
  BY AttemptKeeps
<1>0. "done" \notin UsingPhases /\ NoLauncher(x)
  BY DEF UsingPhases, OwnedByAttempt, Unowned
<1>2. Unowned(x)'
  <2>1. NoLauncher(x)' /\ ~Pending(x)' /\ ~Cancelling(x)'
    BY <1>1 DEF OwnedByAttempt, Unowned
  <2>2. NoAttempt(x)'
    <3> SUFFICES ASSUME NEW m \in 1..MaxLaunches PROVE ~Attempting(x, m)'
      BY DEF NoAttempt
    <3>1. CASE m = n
      BY <1>0, <3>1 DEF Attempting
    <3>2. CASE m # n
      BY <3>2, OtherAttempts DEF OwnedByAttempt, Unowned, NoAttempt
    <3>3. QED
      BY <3>1, <3>2
  <2>3. ASSUME NEW m \in 1..MaxLaunches, Loose(x, m)'
        PROVE  /\ exec'[<<x, m>>].sup = "done" /\ exec'[<<x, m>>].p = row'[x]
               /\ row'[x].state \in Outcomes /\ Requeued(row[x])'
    <3>0. Requeued(row[x])'
      BY DEF Requeued, AttemptOnly
    <3>1. CASE m = n
      BY <3>0, <3>1
    <3>2. CASE m # n
      <4>1. Loose(x, m) /\ exec'[<<x, m>>] = exec[<<x, m>>]
        BY <2>3, <3>2, OtherAttempts
      <4>2. Unowned(x) /\ row'[x] = row[x]
        BY <3>2, <4>1 DEF OwnedByAttempt
      <4>3. QED
        BY <3>0, <4>1, <4>2 DEF Unowned
    <3>3. QED
      BY <3>1, <3>2
  <2>4. QED
    BY <2>1, <2>2, <2>3 DEF Unowned
<1>3. Referenced(x)'
  <2>0. Referenced(x)
    BY DEF OwnInv
  <2>1. ~(n > launches[x])
    BY <2>0 DEF Referenced
  <2>2. launches'[x] = launches[x] /\ (stopper'[x] = stopper[x] \/ stopper'[x].pc = "done")
    BY DEF AttemptOnly
  <2>3. \A m \in 1..MaxLaunches : m # n => exec'[<<x, m>>] = exec[<<x, m>>]
    BY OtherAttempts
  <2>4. \A m \in 1..MaxLaunches : m > launches'[x] => exec'[<<x, m>>] = NoExec
    BY <2>0, <2>1, <2>2, <2>3 DEF Referenced
  <2>6. \A m \in 1..MaxLaunches : exec'[<<x, m>>].timer = "armed" => exec'[<<x, m>>].sup = "wait"
    BY <2>0, <2>3 DEF Referenced
  <2>7. \A m \in 1..MaxLaunches : exec'[<<x, m>>].stop # "none" => exec'[<<x, m>>].intent # ""
    BY <2>0, <2>3 DEF Referenced
  <2>8. \A m \in 1..MaxLaunches :
          exec'[<<x, m>>].proc \in {"alive", "zombie"} => exec'[<<x, m>>].sup = "wait"
    <3>2. \A m \in 1..MaxLaunches :
            exec[<<x, m>>].proc \in {"alive", "zombie"} => exec[<<x, m>>].sup = "wait"
      BY <1>0, <2>0 DEF Referenced, NoLauncher
    <3>4. QED
      BY <2>3, <3>2
  <2>9. stopper'[x].pc = "intent" => stopper'[x].pid \in 1..MaxLaunches
    BY <2>0, <2>2 DEF Referenced
  <2>10. QED
    BY <2>4, <2>6, <2>7, <2>8, <2>9 DEF Referenced
<1>4. \A id \in Procs : launches'[id] = launches[id]
  BY DEF AttemptOnly
<1>5. Owned(x)'
  BY <1>2 DEF Owned
<1>6. QED
  BY <1>1, <1>3, <1>4, <1>5, StepOwns

(* A change of an attempt that no owner goes by.                           *)
Alike(e, f) ==
  /\ f.p = e.p /\ f.sup = e.sup /\ f.intent = e.intent /\ f.timer = e.timer
  /\ f.stop = "begin" <=> e.stop = "begin"
  /\ f.stop = "none" <=> e.stop = "none"
  /\ f.proc \in {"alive", "zombie"} <=> e.proc \in {"alive", "zombie"}

LEMMA AlikeCopy ==
  ASSUME NEW t, NEW l, NEW r, NEW e, NEW f, NEW n, LauncherCopy(t, l, r, e, n),
         Alike(e, f), e # NoExec \/ f = e
  PROVE  LauncherCopy(t, l, r, f, n)
BY DEF LauncherCopy, Forked, Alike

(* The process of an attempt ends, or is signalled.                        *)
LEMMA QuietMove ==
  ASSUME DaemonInv, OwnInv, NEW x \in Procs, NEW n \in 1..MaxLaunches,
         UNCHANGED <<row, launcher, launches, running, stopper, todo, snap, shut, mode>>,
         \A id \in Procs, m \in 1..MaxLaunches :
            id # x \/ m # n => exec'[<<id, m>>] = exec[<<id, m>>],
         Alike(exec[<<x, n>>], exec'[<<x, n>>]), exec[<<x, n>>] # NoExec
  PROVE  Moved
<1>1. \A id \in Procs \ {x} : Kept(id)
  BY DEF Kept, Pending
<1>2. \A id \in Procs, m \in 1..MaxLaunches : Alike(exec[<<id, m>>], exec'[<<id, m>>])
  BY DEF Alike
<1>3. /\ NoLauncher(x) => NoLauncher(x)'
      /\ Cancelling(x)' <=> Cancelling(x)
      /\ Pending(x)' <=> Pending(x)
      /\ \A m \in 1..MaxLaunches :
            /\ Attempting(x, m)' <=> Attempting(x, m)
            /\ Loose(x, m)' <=> Loose(x, m)
      /\ \A p : Requeued(p)' <=> Requeued(p)
  BY <1>2 DEF NoLauncher, Cancelling, Pending, Attempting, Loose, Requeued, Alike
<1>4. NoAttempt(x) => NoAttempt(x)'
  BY <1>3 DEF NoAttempt
<1>5. NoLoose(x) => NoLoose(x)'
  BY <1>3 DEF NoLoose
<1>6. Owned(x)'
  <2>1. CASE Unowned(x)
    <3>1. ASSUME NEW m \in 1..MaxLaunches, Loose(x, m)'
          PROVE  /\ exec'[<<x, m>>].sup = "done" /\ exec'[<<x, m>>].p = row'[x]
                 /\ row'[x].state \in Outcomes /\ Requeued(row[x])'
      <4>1. Loose(x, m) /\ Requeued(row[x])' = Requeued(row[x])
        BY <1>3, <3>1 DEF Requeued
      <4>2. QED
        BY <1>2, <2>1, <4>1 DEF Unowned, Alike
    <3>2. Unowned(x)'
      BY <1>3, <1>4, <2>1, <3>1 DEF Unowned
    <3>3. QED
      BY <3>2 DEF Owned
  <2>2. CASE OwnedByPass(x)
    <3>1. OwnedByPass(x)'
      BY <1>3, <1>4, <1>5, <2>2 DEF OwnedByPass
    <3>2. QED
      BY <3>1 DEF Owned
  <2>3. CASE OwnedByStop(x)
    <3>1. OwnedByStop(x)'
      BY <1>3, <1>4, <1>5, <2>3 DEF OwnedByStop
    <3>2. QED
      BY <3>1 DEF Owned
  <2>4. CASE \E t \in Launchers : OwnedByLauncher(x, t)
    <3>1. PICK t \in Launchers : OwnedByLauncher(x, t)
      BY <2>4
    <3>2. PICK k \in 0..MaxLaunches : k = launches[x]
      BY DEF DaemonInv, SuperInv, AttemptsInv
    <3>3. LauncherCopy(t, launcher[t], row[x], exec[<<x, k>>], k)
      BY <3>1, <3>2 DEF OwnedByLauncher
    <3>4. LauncherCopy(t, launcher[t], row[x], exec'[<<x, k>>], k)
      <4>1. CASE k = n
        BY <3>3, <4>1, AlikeCopy
      <4>2. CASE k # n /\ k # 0
        BY <3>2, <3>3, <4>2, CopySame
      <4>3. CASE k = 0
        BY <3>3, <4>3, CopySame
      <4>4. QED
        BY <4>1, <4>2, <4>3
    <3>5. OwnedByLauncher(x, t)'
      BY <1>3, <1>4, <1>5, <3>1, <3>2, <3>4 DEF OwnedByLauncher
    <3>6. QED
      BY <3>5 DEF Owned
  <2>5. CASE \E m \in 1..MaxLaunches : OwnedByAttempt(x, m)
    <3>1. PICK m \in 1..MaxLaunches : OwnedByAttempt(x, m)
      BY <2>5
    <3>2. AttemptCopy(exec[<<x, m>>], row[x])'
      BY <1>2, <3>1 DEF OwnedByAttempt, AttemptCopy, Alike, Requeued
    <3>3. exec'[<<x, m>>].sup = "classified" => Edge(x, row'[x], exec'[<<x, m>>].p)
      BY <1>2, <3>1 DEF OwnedByAttempt, Alike
    <3>4. OwnedByAttempt(x, m)'
      BY <1>3, <3>1, <3>2, <3>3 DEF OwnedByAttempt
    <3>5. QED
      BY <3>4 DEF Owned
  <2>6. Owned(x)
    BY DEF OwnInv
  <2>7. QED
    BY <2>1, <2>2, <2>3, <2>4, <2>5, <2>6 DEF Owned
<1>7. Referenced(x)'
  <2>1. Referenced(x)
    BY DEF OwnInv
  <2>2. \A m \in 1..MaxLaunches : m > launches'[x] => exec'[<<x, m>>] = NoExec
    BY <2>1 DEF Referenced
  <2>3. running'[x] # 0 => running'[x] \in 1..MaxLaunches
                          /\ exec'[<<x, running'[x]>>].sup \in {"wait", "reaped"}
    BY <1>2, <2>1 DEF Referenced, Alike
  <2>4. ASSUME NEW m \in 1..MaxLaunches
        PROVE  /\ exec'[<<x, m>>].timer = "armed" => exec'[<<x, m>>].sup = "wait"
               /\ exec'[<<x, m>>].stop # "none" => exec'[<<x, m>>].intent # ""
               /\ exec'[<<x, m>>].proc \in {"alive", "zombie"}
                    => \/ exec'[<<x, m>>].sup = "wait"
                       \/ m = launches'[x] /\ \E t \in Launchers :
                            launcher'[t].id = x /\ launcher'[t].pc \in ForkedPCs
    <3>1. /\ exec[<<x, m>>].timer = "armed" => exec[<<x, m>>].sup = "wait"
          /\ exec[<<x, m>>].stop # "none" => exec[<<x, m>>].intent # ""
          /\ exec[<<x, m>>].proc \in {"alive", "zombie"}
               => \/ exec[<<x, m>>].sup = "wait"
                  \/ m = launches[x] /\ \E t \in Launchers :
                       launcher[t].id = x /\ launcher[t].pc \in ForkedPCs
      BY <2>1 DEF Referenced, ForkedPCs
    <3>2. Alike(exec[<<x, m>>], exec'[<<x, m>>])
      BY <1>2
    <3>3. QED
      BY <3>1, <3>2 DEF Alike
  <2>5. stopper'[x].pc = "intent" => stopper'[x].pid \in 1..MaxLaunches
    BY <2>1 DEF Referenced
  <2>6. QED
    BY <2>2, <2>3, <2>4, <2>5 DEF Referenced, ForkedPCs
<1>8. LaunchersShape' /\ LaunchersBusy /\ RowMoves
  BY NotWritten DEF OwnInv, LaunchersShape, LaunchersBusy
<1>9. ModeInv'
  <2>1. Quiet => Quiet'
    BY <1>2 DEF Quiet, Handles, Alike
  <2>2. QED
    BY <2>1 DEF OwnInv, ModeInv
<1>10. QED
  BY <1>1, <1>6, <1>7, <1>8, <1>9, StepOwns

(* setIntent: the first reason stays.                                      *)
LEMMA SetIntentIs ==
  ASSUME NEW e \in Exec, NEW reason \in {"user_request", "timeout", "shutdown"}
  PROVE  /\ setIntent(e, reason).p = e.p /\ setIntent(e, reason).sup = e.sup
         /\ setIntent(e, reason).proc = e.proc /\ setIntent(e, reason).timer = e.timer
         /\ setIntent(e, reason).intent \in {e.intent, reason} \ {""}
BY DEF setIntent, Exec

(* One attempt changes, and nothing of other executions.                   *)
LEMMA AttemptAt ==
  ASSUME DaemonInv, NEW x \in Procs, NEW n \in 1..MaxLaunches, NEW e,
         exec' = [exec EXCEPT ![<<x, n>>] = e],
         UNCHANGED <<launcher, launches, todo, snap, mode>>,
         \A id \in Procs \ {x} :
            row'[id] = row[id] /\ running'[id] = running[id] /\ stopper'[id] = stopper[id],
         stopper'[x] = stopper[x] \/ stopper'[x].pc = "done",
         shut' = shut \/ shut' = shut \ {<<x, n>>}
  PROVE  exec'[<<x, n>>] = e /\ AttemptOnly(x, n)
<1>1. <<x, n>> \in Handles
  BY DEF Handles
<1>2. exec'[<<x, n>>] = e /\ \A g \in Handles : g # <<x, n>> => exec'[g] = exec[g]
  BY <1>1, AttemptAlone DEF DaemonInv
<1>3. \A id \in Procs, m \in 1..MaxLaunches :
        id # x \/ m # n => <<id, m>> \in Handles /\ <<id, m>> # <<x, n>>
  BY DEF Handles
<1>4. QED
  BY <1>2, <1>3 DEF AttemptOnly

(* What is registered as running is the attempt that owns the execution.   *)
LEMMA RunningIs ==
  ASSUME OwnInv, NEW x \in Procs
  PROVE  /\ Unowned(x) => running[x] = 0
         /\ \A n \in 1..MaxLaunches :
              OwnedByAttempt(x, n)
                => running[x] = 0
                   \/ (running[x] = n /\ exec[<<x, n>>].sup \in {"wait", "reaped"})
<1>1. Referenced(x)
  BY DEF OwnInv
<1>2. running[x] # 0 => Attempting(x, running[x]) /\ running[x] \in 1..MaxLaunches
  BY <1>1 DEF Referenced, Attempting, UsingPhases
<1>3. QED
  BY <1>1, <1>2 DEF Unowned, NoAttempt, OwnedByAttempt, Referenced

(* An attempt nobody supervises any more is still.                         *)
LEMMA OverIs ==
  ASSUME OwnInv, NEW x \in Procs, Unowned(x), NEW n \in 1..MaxLaunches, exec[<<x, n>>].sup = "done"
  PROVE  /\ exec[<<x, n>>] # NoExec /\ exec[<<x, n>>].timer # "armed"
         /\ exec[<<x, n>>].proc \notin {"alive", "zombie"}
BY NoExecIs DEF OwnInv, Referenced, Unowned, NoLauncher

(* setIntent, by whoever still refers to the attempt.                      *)
LEMMA IntentOwns ==
  ASSUME DaemonInv, OwnInv, Live, NEW x \in Procs, NEW n \in 1..MaxLaunches,
         Loose(x, n), MuFree(<<x, n>>),
         NEW reason \in {"user_request", "timeout", "shutdown"},
         reason = "shutdown" => mode \in {"stop", "exit"},
         NEW d \in Exec, d.p = exec[<<x, n>>].p, d.sup = exec[<<x, n>>].sup,
         d.proc = exec[<<x, n>>].proc, d.intent = exec[<<x, n>>].intent,
         d.timer \in {exec[<<x, n>>].timer, "off"},
         exec' = [exec EXCEPT ![<<x, n>>] = setIntent(d, reason)],
         UNCHANGED <<row, running, launcher, launches, todo, snap, mode>>,
         \A id \in Procs \ {x} : stopper'[id] = stopper[id],
         stopper'[x] = stopper[x] \/ stopper'[x].pc = "done",
         shut' = shut \/ shut' = shut \ {<<x, n>>}
  PROVE  Moved
<1> DEFINE h == <<x, n>>
           e == setIntent(d, reason)
<1>1. /\ e.p = exec[h].p /\ e.sup = exec[h].sup /\ e.proc = exec[h].proc
      /\ e.timer \in {exec[h].timer, "off"}
      /\ e.intent \in {exec[h].intent, reason} \ {""}
  BY SetIntentIs
<1>2. exec' = [exec EXCEPT ![h] = e]
  OBVIOUS
<1> HIDE DEF e
<1>3. exec'[h] = e /\ AttemptOnly(x, n)
  <2>1. \A id \in Procs \ {x} :
           row'[id] = row[id] /\ running'[id] = running[id] /\ stopper'[id] = stopper[id]
    OBVIOUS
  <2>2. UNCHANGED <<launcher, launches, todo, snap, mode>>
    OBVIOUS
  <2>3. QED
    <3>1. h \in Handles
      BY DEF Handles
    <3>2. exec'[h] = e /\ \A g \in Handles : g # h => exec'[g] = exec[g]
      BY <1>2, <3>1, AttemptAlone DEF DaemonInv
    <3>3. \A id \in Procs, m \in 1..MaxLaunches :
            id # x \/ m # n => <<id, m>> \in Handles /\ <<id, m>> # h
      BY DEF Handles
    <3>4. \A id \in Procs, m \in 1..MaxLaunches :
            id # x \/ m # n => exec'[<<id, m>>] = exec[<<id, m>>]
      BY <3>2, <3>3
    <3>5. \A id \in Procs, m \in 1..MaxLaunches :
            id # x \/ m # n => (<<id, m>> \in shut' <=> <<id, m>> \in shut)
      BY <3>3
    <3>6. QED
      BY <2>1, <2>2, <3>2, <3>4, <3>5 DEF AttemptOnly
<1>4. RowMoves
  BY NotWritten
<1> HIDE DEF h
<1>5. Referenced(x) /\ h = <<x, n>>
  BY DEF OwnInv, h
<1>6. e.timer = "armed" => e.sup = "wait"
  BY <1>1, <1>5 DEF Referenced
<1>7. CASE OwnedByAttempt(x, n)
  <2>1. e.sup \in UsingPhases /\ e.sup # "classified" /\ AttemptCopy(exec[h], row[x])
    BY <1>1, <1>5, <1>7 DEF OwnedByAttempt, Attempting, MuFree
  <2>2. AttemptCopy(e, row'[x])
    BY <1>1, <2>1 DEF AttemptCopy
  <2>3. running'[x] = 0 \/ (running'[x] = running[x] /\ e.sup \in {"wait", "reaped"})
    BY <1>1, <1>5, <1>7, RunningIs
  <2>4. QED
    BY <1>1, <1>3, <1>4, <1>5, <1>6, <1>7, <2>1, <2>2, <2>3, AttemptGoes
<1>8. CASE Unowned(x) /\ exec[h].sup = "done"
  <2>1. exec[h].p = row[x] /\ row[x].state \in Outcomes /\ Requeued(row[x])
    BY <1>5, <1>8 DEF Unowned
  <2>2. exec[h] # NoExec /\ exec[h].timer # "armed" /\ exec[h].proc \notin {"alive", "zombie"}
    BY <1>5, <1>8, OverIs
  <2>3. running'[x] = 0
    BY <1>8, RunningIs
  <2>4. Requeued(row'[x]) /\ row'[x] = row[x]
    BY <2>1 DEF Requeued
  <2>5. /\ e.sup = "done" /\ e.p = row'[x] /\ row'[x].state \in Outcomes
        /\ e.timer # "armed" /\ e.proc \notin {"alive", "zombie"} /\ e.intent # ""
    BY <1>1, <1>8, <2>1, <2>2, <2>4
  <2>6. exec'[<<x, n>>] = e /\ exec[<<x, n>>] # NoExec
    BY <1>3, <1>5, <2>2
  <2>7. QED
    BY <1>3, <1>4, <1>8, <2>3, <2>4, <2>5, <2>6, AttemptOver
<1>9. QED
  BY <1>5, <1>7, <1>8, WhoIsLoose

(* beginStop writes down an attempt that is under way, or one that is over *)
(* as it is.                                                               *)
LEMMA BeginStopOwns ==
  ASSUME DaemonInv, OwnInv, NEW x \in Procs, NEW n \in 1..MaxLaunches, BeginStop(<<x, n>>),
         UNCHANGED <<todo, snap, shut>>
  PROVE  Moved
<1> DEFINE h == <<x, n>>
           p == IF exec[h].p.state = "RUNNING"
                THEN TransitionTo(exec[h].p, "STOPPING", exec[h].intent) ELSE exec[h].p
           e == [exec[h] EXCEPT !.p = p, !.stop = "signal"]
<1>0. /\ Live /\ exec[h].stop = "begin" /\ MuFree(h)
      /\ exec' = [exec EXCEPT ![h] = e] /\ UpdateProcess(x, p)
      /\ UNCHANGED <<running, launcher, launches, stopper, mode>>
  BY DEF BeginStop
<1>1. h \in Handles /\ exec[h] \in Exec /\ exec[h].p \in Storable /\ exec[h].p \in Process
  BY DEF Handles, DaemonInv, SuperInv, AttemptsInv, StorableExec, Storable
<1>2. /\ e.p = p /\ e.stop = "signal" /\ e.sup = exec[h].sup /\ e.proc = exec[h].proc
      /\ e.timer = exec[h].timer /\ e.intent = exec[h].intent
  BY <1>1 DEF Exec
<1>3. exec[h].intent # "" /\ Loose(x, n)
  BY <1>0 DEF OwnInv, Referenced, Loose
<1>4. exec[h].p.state # "RUNNING" => p = exec[h].p
  OBVIOUS
<1>5. exec[h].p.state = "RUNNING"
        => p \in Process /\ p.state = "STOPPING" /\ Edge(x, exec[h].p, p)
  <2>1. "STOPPING" \in States /\ exec[h].intent \in Reasons /\ CanTransition("RUNNING", "STOPPING")
        /\ PlainEdge("RUNNING", "STOPPING")
    BY <1>1, Names, EdgesExist DEF Exec, PlainEdge
  <2>2. QED
    BY <1>1, <2>1, PlainStep, TransitionArrives
<1> HIDE DEF p, e
<1>6. \A id \in Procs \ {x} : row'[id] = row[id]
  BY <1>0 DEF UpdateProcess, DaemonInv, SuperInv, StoreInv
<1>7. exec'[h] = e /\ AttemptOnly(x, n)
  BY <1>0, <1>6, AttemptAt
<1> HIDE DEF h
<1>8. h = <<x, n>> /\ Referenced(x) /\ row[x] \in Storable
  BY DEF OwnInv, h, DaemonInv, SuperInv, StoreInv
<1>9. e.timer = "armed" => e.sup = "wait"
  BY <1>2, <1>8 DEF Referenced
<1>10. p \in Storable
  BY <1>1, <1>4, <1>5 DEF Storable
<1>11. CASE OwnedByAttempt(x, n)
  <2>1. e.sup \in {"wait", "reaped", "deleted", "persisted"} /\ AttemptCopy(exec[h], row[x])
    BY <1>0, <1>2, <1>8, <1>11 DEF OwnedByAttempt, Attempting, UsingPhases, MuFree
  <2>2. exec[h].p = row[x]
    BY <1>2, <2>1 DEF AttemptCopy
  <2>3. row[x].state \in Supervised \cup Outcomes
    BY <1>2, <2>1, <2>2 DEF AttemptCopy
  <2>4. Edge(x, row[x], p) /\ row[x].state # NONE
    BY <1>4, <1>5, <2>2, <2>3 DEF Edge, NONE, Supervised, Outcomes
  <2>5. RowMoves /\ row'[x] = p
    BY <1>0, <1>10, <2>4, Written
  <2>6. AttemptCopy(e, row'[x])
    <3>1. CASE e.sup = "persisted"
      <4>1. p = exec[h].p
        BY <1>2, <1>4, <2>1, <3>1 DEF AttemptCopy, Outcomes
      <4>2. QED
        BY <1>2, <2>1, <2>5, <3>1, <4>1 DEF AttemptCopy
    <3>2. CASE e.sup # "persisted"
      <4>1. p.state \in Supervised
        BY <1>2, <1>4, <1>5, <2>1, <2>2, <3>2 DEF AttemptCopy, Supervised
      <4>2. QED
        BY <1>2, <1>3, <2>1, <2>5, <3>2, <4>1 DEF AttemptCopy
    <3>3. QED
      BY <3>1, <3>2
  <2>7. running'[x] = 0 \/ (running'[x] = running[x] /\ e.sup \in {"wait", "reaped"})
    BY <1>0, <1>2, <1>8, <1>11, RunningIs
  <2>8. e.sup \in UsingPhases /\ e.sup # "classified" /\ exec'[<<x, n>>] = e /\ e.intent # ""
    BY <1>2, <1>3, <1>7, <1>8, <2>1 DEF UsingPhases
  <2>9. QED
    BY <1>0, <1>7, <1>9, <1>11, <2>5, <2>6, <2>7, <2>8, AttemptGoes
<1>12. CASE Unowned(x) /\ exec[h].sup = "done"
  <2>1. exec[h].p = row[x] /\ row[x].state \in Outcomes /\ Requeued(row[x])
    BY <1>3, <1>8, <1>12 DEF Unowned
  <2>2. p = row[x]
    BY <1>4, <2>1 DEF Outcomes
  <2>3. RowMoves /\ row'[x] = row[x]
    <3>1. Edge(x, row[x], p) /\ row[x].state # NONE
      BY <2>1, <2>2 DEF Edge, NONE, Outcomes
    <3>2. QED
      BY <1>0, <1>10, <2>2, <3>1, Written
  <2>4. exec[h] # NoExec /\ exec[h].timer # "armed" /\ exec[h].proc \notin {"alive", "zombie"}
    BY <1>8, <1>12, OverIs
  <2>5. running'[x] = 0
    BY <1>0, <1>12, RunningIs
  <2>6. Requeued(row'[x]) /\ e.p = row'[x] /\ exec'[<<x, n>>] = e /\ exec[<<x, n>>] # NoExec
    BY <1>2, <1>7, <1>8, <2>1, <2>2, <2>3, <2>4
  <2>7. e.timer # "armed" /\ e.proc \notin {"alive", "zombie"} /\ e.intent # "" /\ e.sup = "done"
    BY <1>2, <1>3, <1>12, <2>4
  <2>8. row'[x].state \in Outcomes
    BY <2>1, <2>3
  <2>9. QED
    BY <1>0, <1>7, <1>12, <2>3, <2>5, <2>6, <2>7, <2>8, AttemptOver
<1>13. QED
  BY <1>3, <1>8, <1>11, <1>12, WhoIsLoose

(* Every step of an attempt keeps to its owner.                            *)
LEMMA AttemptOwns ==
  ASSUME DaemonInv, OwnInv, NEW h \in Handles, AttemptNext(h), UNCHANGED <<todo, snap, shut>>
  PROVE  Moved
<1>0. PICK x \in Procs, n \in 1..MaxLaunches : h = <<x, n>>
  BY DEF Handles
<1>1. exec[h] \in Exec /\ exec[h].p \in Storable /\ row[x] \in Storable /\ row[x] \in Process
  BY DEF DaemonInv, SuperInv, AttemptsInv, StorableExec, StoreInv, Storable
<1>2. h[1] = x /\ Referenced(x) /\ h \in Handles
  BY <1>0 DEF OwnInv
<1>3. \A id \in Procs, m \in 1..MaxLaunches : id # x \/ m # n => <<id, m>> # h /\ <<id, m>> \in Handles
  BY <1>0 DEF Handles
(* The attempt changes as e says, and the row not at all or to p.          *)
<1>4. ASSUME NEW e, exec' = [exec EXCEPT ![h] = e],
             UNCHANGED <<launcher, launches, stopper, mode>>,
             row' = row \/ \E p : UpdateProcess(x, p),
             running' = running \/ running' = [running EXCEPT ![x] = 0]
      PROVE  exec'[<<x, n>>] = e /\ AttemptOnly(x, n)
  <2>1. \A id \in Procs \ {x} :
           row'[id] = row[id] /\ running'[id] = running[id] /\ stopper'[id] = stopper[id]
    BY <1>4 DEF UpdateProcess, DaemonInv, SuperInv, StoreInv, AttemptsInv
  <2>2. exec' = [exec EXCEPT ![<<x, n>>] = e]
    BY <1>0, <1>4
  <2>3. QED
    BY <1>4, <2>1, <2>2, AttemptAt
<1>5. ASSUME NEW e, exec' = [exec EXCEPT ![h] = e],
             UNCHANGED <<row, launcher, launches, running, stopper, mode>>,
             Alike(exec[h], e), exec[h] # NoExec
      PROVE  Moved
  <2>1. exec'[h] = e /\ \A g \in Handles : g # h => exec'[g] = exec[g]
    BY <1>5, AttemptAlone DEF DaemonInv
  <2>2. \A id \in Procs, m \in 1..MaxLaunches :
           id # x \/ m # n => exec'[<<id, m>>] = exec[<<id, m>>]
    BY <1>3, <2>1
  <2>3. QED
    BY <1>0, <1>5, <2>1, <2>2, QuietMove
<1>6. \A phase \in UsingPhases : exec[h].sup = phase => OwnedByAttempt(x, n)
  BY <1>0, WhoAttempts DEF Attempting
<1>7. running[x] = 0 \/ exec[h].sup \in {"wait", "reaped"} \/ exec[h].sup \notin UsingPhases
  BY <1>0, <1>6, RunningIs
<1>10. CASE \E result \in Results : ProcExit(h, result)
  <2>1. PICK result \in Results : ProcExit(h, result)
    BY <1>10
  <2> DEFINE e == [exec[h] EXCEPT !.proc = "zombie", !.result = result]
  <2>2. exec[h].proc = "alive" /\ exec' = [exec EXCEPT ![h] = e]
        /\ UNCHANGED <<row, launcher, launches, running, stopper, mode>>
    BY <2>1 DEF ProcExit, storeVars
  <2>3. Alike(exec[h], e)
    BY <1>1, <2>2 DEF Alike, Exec
  <2>4. QED
    BY <1>5, <2>2, <2>3, NoExecIs
<1>11. CASE OrphanExit(h)
  <2> DEFINE e == [exec[h] EXCEPT !.proc = "gone"]
  <2>2. exec[h].proc = "orphan" /\ exec' = [exec EXCEPT ![h] = e]
        /\ UNCHANGED <<row, launcher, launches, running, stopper, mode>>
    BY <1>11 DEF OrphanExit, storeVars
  <2>3. Alike(exec[h], e)
    BY <1>1, <2>2 DEF Alike, Exec
  <2>4. QED
    BY <1>5, <2>2, <2>3, NoExecIs
<1>12. CASE SignalGroup(h)
  <2> DEFINE e == [exec[h] EXCEPT !.stop = "done"]
  <2>2. exec[h].stop = "signal" /\ exec' = [exec EXCEPT ![h] = e]
        /\ UNCHANGED <<row, launcher, launches, running, stopper, mode>>
    BY <1>12 DEF SignalGroup, storeVars
  <2>3. Alike(exec[h], e)
    BY <1>1, <2>2 DEF Alike, Exec
  <2>4. QED
    BY <1>5, <2>2, <2>3, NoExecIs
<1>13. CASE WaitReturns(h)
  <2> DEFINE e == [exec[h] EXCEPT !.proc = "gone", !.sup = "reaped",
                                  !.timer = IF @ = "armed" THEN "off" ELSE @]
  <2>1. /\ Live /\ exec[h].sup = "wait" /\ exec' = [exec EXCEPT ![h] = e]
        /\ UNCHANGED <<row, launcher, launches, running, stopper, mode>>
    BY <1>13 DEF WaitReturns, InPhase, storeVars
  <2>2. /\ e.p = exec[h].p /\ e.sup = "reaped" /\ e.proc = "gone" /\ e.timer # "armed"
        /\ e.intent = exec[h].intent /\ e.stop = exec[h].stop
    BY <1>1 DEF Exec
  <2> HIDE DEF e
  <2>3. exec'[<<x, n>>] = e /\ AttemptOnly(x, n) /\ RowMoves
    BY <1>4, <2>1, NotWritten
  <2>4. OwnedByAttempt(x, n) /\ AttemptCopy(exec[h], row[x])
    BY <1>0, <1>6, <2>1 DEF OwnedByAttempt, UsingPhases
  <2>5. AttemptCopy(e, row'[x])
    BY <2>1, <2>2, <2>4 DEF AttemptCopy
  <2>6. e.stop # "none" => e.intent # ""
    BY <1>0, <1>2, <2>2 DEF Referenced
  <2>7. e.sup \in UsingPhases /\ e.sup \in {"wait", "reaped"}
    BY <2>2 DEF UsingPhases
  <2>8. QED
    BY <2>1, <2>2, <2>3, <2>4, <2>5, <2>6, <2>7, AttemptGoes
<1>14. CASE Unregister(h)
  <2> DEFINE e == [exec[h] EXCEPT !.sup = "deleted"]
  <2>1. /\ Live /\ exec[h].sup = "reaped" /\ exec' = [exec EXCEPT ![h] = e]
        /\ running' = [running EXCEPT ![x] = 0]
        /\ UNCHANGED <<row, launcher, launches, stopper, mode>>
    BY <1>2, <1>14 DEF Unregister, InPhase, storeVars
  <2>2. /\ e.p = exec[h].p /\ e.sup = "deleted" /\ e.proc = exec[h].proc
        /\ e.timer = exec[h].timer /\ e.intent = exec[h].intent /\ e.stop = exec[h].stop
    BY <1>1 DEF Exec
  <2> HIDE DEF e
  <2>3. exec'[<<x, n>>] = e /\ AttemptOnly(x, n) /\ RowMoves
    BY <1>4, <2>1, NotWritten
  <2>4. OwnedByAttempt(x, n) /\ AttemptCopy(exec[h], row[x])
    BY <1>0, <1>6, <2>1 DEF OwnedByAttempt, UsingPhases
  <2>5. AttemptCopy(e, row'[x])
    BY <2>1, <2>2, <2>4 DEF AttemptCopy
  <2>6. (e.stop # "none" => e.intent # "") /\ e.timer # "armed"
    BY <1>0, <1>2, <2>1, <2>2 DEF Referenced
  <2>7. e.sup \in UsingPhases /\ e.sup # "classified" /\ running'[x] = 0
    BY <2>1, <2>2 DEF UsingPhases, DaemonInv, SuperInv, AttemptsInv
  <2>8. QED
    BY <2>1, <2>2, <2>3, <2>4, <2>5, <2>6, <2>7, AttemptGoes
<1>15. CASE \E reset \in BOOLEAN : Classify(h, reset)
  <2>0. PICK reset \in BOOLEAN : Classify(h, reset)
    BY <1>15
  <2> DEFINE q == Outcome(h, reset)
             e == [exec[h] EXCEPT !.p = q, !.sup = "classified", !.result = "none"]
  <2>1. /\ Live /\ exec[h].sup = "deleted" /\ exec' = [exec EXCEPT ![h] = e]
        /\ UNCHANGED <<row, launcher, launches, running, stopper, mode>>
    BY <2>0 DEF Classify, InPhase
  <2>2. /\ e.p = q /\ e.sup = "classified" /\ e.proc = exec[h].proc
        /\ e.timer = exec[h].timer /\ e.intent = exec[h].intent /\ e.stop = exec[h].stop
    BY <1>1 DEF Exec
  <2> HIDE DEF e
  <2>3. exec'[<<x, n>>] = e /\ AttemptOnly(x, n) /\ RowMoves
    BY <1>4, <2>1, NotWritten
  <2>4. OwnedByAttempt(x, n) /\ AttemptCopy(exec[h], row[x])
    BY <1>0, <1>6, <2>1 DEF OwnedByAttempt, UsingPhases
  <2>5. /\ exec[h].p = row[x] /\ row[x].state \in Supervised
        /\ row[x].state = "STOPPING" => exec[h].intent # ""
        /\ exec[h].intent = "shutdown" => mode \in {"stop", "exit"}
        /\ exec[h].intent \in {"", "user_request", "timeout", "shutdown"}
    BY <1>1, <2>1, <2>4 DEF AttemptCopy, Exec
  <2>6. q.state \in Outcomes /\ Edge(x, row[x], q)
        /\ (q.state = "QUEUED" => exec[h].intent = "shutdown")
    BY <1>1, <1>2, <2>5, ClassifyEdge DEF Outcome
  <2> HIDE DEF q
  <2>7. AttemptCopy(e, row'[x]) /\ Edge(x, row'[x], e.p)
    BY <2>1, <2>2, <2>4, <2>5, <2>6 DEF AttemptCopy, Requeued
  <2>8. (e.stop # "none" => e.intent # "") /\ e.timer # "armed"
    BY <1>0, <1>2, <2>1, <2>2 DEF Referenced
  <2>9. e.sup \in UsingPhases /\ running'[x] = 0
    BY <1>7, <2>1, <2>2 DEF UsingPhases
  <2>10. QED
    BY <2>1, <2>2, <2>3, <2>4, <2>7, <2>8, <2>9, AttemptGoes
<1>16. CASE PersistOutcome(h)
  <2> DEFINE e == [exec[h] EXCEPT !.sup = "persisted"]
             p == exec[h].p
  <2>1. /\ Live /\ exec[h].sup = "classified" /\ exec' = [exec EXCEPT ![h] = e]
        /\ UpdateProcess(x, p) /\ UNCHANGED <<launcher, launches, running, stopper, mode>>
    BY <1>2, <1>16 DEF PersistOutcome, InPhase
  <2>2. /\ e.p = p /\ e.sup = "persisted" /\ e.proc = exec[h].proc
        /\ e.timer = exec[h].timer /\ e.intent = exec[h].intent /\ e.stop = exec[h].stop
    BY <1>1 DEF Exec
  <2> HIDE DEF e
  <2>3. exec'[<<x, n>>] = e /\ AttemptOnly(x, n)
    BY <1>4, <2>1
  <2>4. OwnedByAttempt(x, n) /\ AttemptCopy(exec[h], row[x]) /\ Edge(x, row[x], p)
    BY <1>0, <1>6, <2>1 DEF OwnedByAttempt, UsingPhases
  <2>5. row[x].state # NONE /\ p \in Storable
    BY <1>1, <2>1, <2>4 DEF AttemptCopy, Supervised, NONE
  <2> HIDE DEF p
  <2>6. RowMoves /\ row'[x] = p
    BY <2>1, <2>4, <2>5, Written
  <2>7. AttemptCopy(e, row'[x])
    BY <2>1, <2>2, <2>4, <2>6 DEF AttemptCopy, Requeued, p
  <2>8. (e.stop # "none" => e.intent # "") /\ e.timer # "armed"
    BY <1>0, <1>2, <2>1, <2>2 DEF Referenced
  <2>9. e.sup \in UsingPhases /\ e.sup # "classified" /\ running'[x] = 0
    BY <1>7, <2>1, <2>2 DEF UsingPhases
  <2>10. QED
    BY <2>1, <2>3, <2>4, <2>6, <2>7, <2>8, <2>9, AttemptGoes
<1>17. CASE Settle(h)
  <2> DEFINE e == [exec[h] EXCEPT !.sup = "done"]
  <2>1. /\ Live /\ exec[h].sup = "persisted" /\ exec' = [exec EXCEPT ![h] = e]
        /\ UNCHANGED <<row, launcher, launches, running, stopper, mode>>
    BY <1>17 DEF Settle, InPhase, storeVars
  <2>2. /\ e.p = exec[h].p /\ e.sup = "done" /\ e.proc = exec[h].proc
        /\ e.timer = exec[h].timer /\ e.intent = exec[h].intent /\ e.stop = exec[h].stop
    BY <1>1 DEF Exec
  <2> HIDE DEF e
  <2>3. exec'[<<x, n>>] = e /\ AttemptOnly(x, n) /\ RowMoves
    BY <1>4, <2>1, NotWritten
  <2>4. OwnedByAttempt(x, n) /\ AttemptCopy(exec[h], row[x])
    BY <1>0, <1>6, <2>1 DEF OwnedByAttempt, UsingPhases
  <2>5. /\ row'[x] = row[x] /\ e.p = row[x] /\ row[x].state \in Outcomes /\ Requeued(row'[x])
        /\ e.proc \notin {"alive", "zombie"}
    BY <2>1, <2>2, <2>4 DEF AttemptCopy, Requeued
  <2>6. (e.stop # "none" => e.intent # "") /\ e.timer # "armed"
    BY <1>0, <1>2, <2>1, <2>2 DEF Referenced
  <2>7. exec[<<x, n>>] # NoExec /\ running'[x] = 0
    <3>1. "persisted" \in UsingPhases
      BY DEF UsingPhases
    <3>2. QED
      BY <1>0, <1>7, <2>1, <3>1, NoExecIs
  <2>8. QED
    BY <2>1, <2>2, <2>3, <2>4, <2>5, <2>6, <2>7, AttemptOver
<1>18. CASE TimerFires(h)
  <2> DEFINE e == [exec[h] EXCEPT !.timer = "fired"]
  <2>1. /\ Live /\ exec[h].timer = "armed" /\ exec' = [exec EXCEPT ![h] = e]
        /\ UNCHANGED <<row, launcher, launches, running, stopper, mode>>
    BY <1>18 DEF TimerFires, storeVars
  <2>2. /\ e.p = exec[h].p /\ e.sup = exec[h].sup /\ e.proc = exec[h].proc
        /\ e.timer = "fired" /\ e.intent = exec[h].intent /\ e.stop = exec[h].stop
    BY <1>1 DEF Exec
  <2> HIDE DEF e
  <2>3. exec'[<<x, n>>] = e /\ AttemptOnly(x, n) /\ RowMoves
    BY <1>4, <2>1, NotWritten
  <2>4. exec[h].sup = "wait" /\ (e.stop # "none" => e.intent # "")
    BY <1>0, <1>2, <2>1, <2>2 DEF Referenced
  <2>5. OwnedByAttempt(x, n) /\ AttemptCopy(exec[h], row[x])
    BY <1>0, <1>6, <2>4 DEF OwnedByAttempt, UsingPhases
  <2>6. AttemptCopy(e, row'[x])
    BY <2>1, <2>2, <2>5 DEF AttemptCopy
  <2>7. e.sup \in UsingPhases /\ e.sup \in {"wait", "reaped"} /\ running'[x] = running[x]
    BY <2>1, <2>2, <2>4 DEF UsingPhases
  <2>8. QED
    BY <2>1, <2>2, <2>3, <2>4, <2>5, <2>6, <2>7, AttemptGoes
<1>19. CASE TimeoutIntent(h)
  <2> DEFINE d == [exec[h] EXCEPT !.timer = "off"]
  <2>1. /\ Live /\ exec[h].timer = "fired" /\ MuFree(h)
        /\ exec' = [exec EXCEPT ![h] = setIntent(d, "timeout")]
        /\ UNCHANGED <<row, launcher, launches, running, stopper, mode>>
    BY <1>19 DEF TimeoutIntent, storeVars
  <2>2. /\ d \in Exec /\ d.p = exec[h].p /\ d.sup = exec[h].sup /\ d.proc = exec[h].proc
        /\ d.timer = "off" /\ d.intent = exec[h].intent
    BY <1>1 DEF Exec
  <2> HIDE DEF d
  <2>3. Loose(x, n) /\ MuFree(<<x, n>>) /\ exec' = [exec EXCEPT ![<<x, n>>] = setIntent(d, "timeout")]
    BY <1>0, <2>1 DEF Loose
  <2>4. \A id \in Procs : stopper'[id] = stopper[id]
    BY <2>1
  <2>5. /\ d.p = exec[<<x, n>>].p /\ d.sup = exec[<<x, n>>].sup
        /\ d.proc = exec[<<x, n>>].proc /\ d.intent = exec[<<x, n>>].intent
        /\ d.timer \in {exec[<<x, n>>].timer, "off"}
    BY <1>0, <2>2
  <2>6. QED
    BY <2>1, <2>2, <2>3, <2>4, <2>5, IntentOwns
<1>20. CASE BeginStop(h)
  BY <1>0, <1>20, BeginStopOwns
<1>21. QED
  BY <1>10, <1>11, <1>12, <1>13, <1>14, <1>15, <1>16, <1>17, <1>18, <1>19, <1>20 DEF AttemptNext

----------------------------------------------------------------------------
(* The steps of a stop request.                                            *)

LEMMA StopperAlone ==
  ASSUME DaemonInv, NEW x \in Procs, NEW s, stopper' = [stopper EXCEPT ![x] = s]
  PROVE  stopper'[x] = s /\ \A id \in Procs \ {x} : stopper'[id] = stopper[id]
BY DEF DaemonInv, SuperInv, AttemptsInv

(* What is left of a step of a stop request, once the owner is known.      *)
LEMMA StopperMoves ==
  ASSUME DaemonInv, OwnInv, Live, NEW x \in Procs, NEW s, stopper' = [stopper EXCEPT ![x] = s],
         UNCHANGED <<exec, launcher, launches, running, todo, snap, shut, mode>>,
         \A id \in Procs \ {x} : row'[id] = row[id], RowMoves,
         s.pc = "intent" => s.pid \in 1..MaxLaunches, Owned(x)'
  PROVE  Moved
<1>1. stopper'[x] = s /\ \A id \in Procs \ {x} : stopper'[id] = stopper[id]
  BY StopperAlone
<1>2. \A id \in Procs \ {x} : Kept(id)
  BY <1>1 DEF Kept, Pending
<1>3. Referenced(x)'
  <2>1. Referenced(x)
    BY DEF OwnInv
  <2>2. QED
    BY <1>1, <2>1 DEF Referenced
<1>4. LaunchersShape' /\ LaunchersBusy /\ ModeInv'
  BY LiveKeeps DEF OwnInv, LaunchersShape, LaunchersBusy
<1>5. QED
  BY <1>2, <1>3, <1>4, StepOwns

(* A stop request that owns nothing before or after the step.              *)
LEMMA StopperWalks ==
  ASSUME DaemonInv, OwnInv, Live, NEW x \in Procs, NEW s, stopper' = [stopper EXCEPT ![x] = s],
         UNCHANGED <<row, exec, launcher, launches, running, todo, snap, shut, mode>>,
         ~Cancelling(x), s.pc \notin {"release", "write", "settle"},
         s.pc = "intent" => s.pid = running[x] /\ running[x] # 0
  PROVE  Moved
<1>1. stopper'[x] = s
  BY StopperAlone
<1>2. running[x] # 0 => running[x] \in 1..MaxLaunches /\ Attempting(x, running[x])
  BY DEF OwnInv, Referenced, Attempting, UsingPhases
<1>3. /\ NoLauncher(x)' <=> NoLauncher(x)
      /\ Pending(x)' <=> Pending(x)
      /\ ~Cancelling(x)'
      /\ \A m \in 1..MaxLaunches :
            /\ Attempting(x, m)' <=> Attempting(x, m)
            /\ Loose(x, m)' => Loose(x, m) \/ (m = running[x] /\ Attempting(x, m))
  BY <1>1, <1>2 DEF NoLauncher, Pending, Cancelling, Attempting, Loose
<1>4. (NoAttempt(x)' <=> NoAttempt(x)) /\ (NoAttempt(x) /\ NoLoose(x) => NoLoose(x)')
  BY <1>3 DEF NoAttempt, NoLoose
<1>5. Owned(x)'
  <2>1. CASE Unowned(x)
    <3>1. \A m \in 1..MaxLaunches : Loose(x, m)' => Loose(x, m)
      BY <1>3, <2>1 DEF Unowned, NoAttempt
    <3>2. ASSUME NEW m \in 1..MaxLaunches, Loose(x, m)'
          PROVE  /\ exec'[<<x, m>>].sup = "done" /\ exec'[<<x, m>>].p = row'[x]
                 /\ row'[x].state \in Outcomes /\ Requeued(row[x])'
      BY <2>1, <3>1, <3>2 DEF Unowned, Requeued
    <3>3. Unowned(x)'
      BY <1>3, <1>4, <2>1, <3>2 DEF Unowned
    <3>4. QED
      BY <3>3 DEF Owned
  <2>2. CASE OwnedByPass(x)
    <3>1. OwnedByPass(x)'
      BY <1>3, <1>4, <2>2 DEF OwnedByPass
    <3>2. QED
      BY <3>1 DEF Owned
  <2>3. CASE OwnedByStop(x)
    BY <2>3 DEF OwnedByStop
  <2>4. CASE \E t \in Launchers : OwnedByLauncher(x, t)
    <3>1. PICK t \in Launchers : OwnedByLauncher(x, t)
      BY <2>4
    <3>2. OwnedByLauncher(x, t)'
      BY <1>3, <1>4, <3>1 DEF OwnedByLauncher
    <3>3. QED
      BY <3>2 DEF Owned
  <2>5. CASE \E n \in 1..MaxLaunches : OwnedByAttempt(x, n)
    <3>1. PICK n \in 1..MaxLaunches : OwnedByAttempt(x, n)
      BY <2>5
    <3>2. \A m \in (1..MaxLaunches) \ {n} : ~Attempting(x, m)' /\ ~Loose(x, m)'
      BY <1>3, <3>1 DEF OwnedByAttempt
    <3>3. AttemptCopy(exec[<<x, n>>], row[x])'
      BY <3>1 DEF OwnedByAttempt, AttemptCopy, Requeued
    <3>4. OwnedByAttempt(x, n)'
      BY <1>3, <3>1, <3>2, <3>3 DEF OwnedByAttempt
    <3>5. QED
      BY <3>4 DEF Owned
  <2>6. Owned(x)
    BY DEF OwnInv
  <2>7. QED
    BY <2>1, <2>2, <2>3, <2>4, <2>5, <2>6 DEF Owned
<1>6. RowMoves
  BY NotWritten
<1>7. QED
  BY <1>2, <1>5, <1>6, StopperMoves

(* cancelPending keeps the execution until it returns.                     *)
LEMMA CancelMoves ==
  ASSUME DaemonInv, OwnInv, Live, NEW x \in Procs, NEW s, stopper' = [stopper EXCEPT ![x] = s],
         UNCHANGED <<exec, launcher, launches, running, todo, snap, shut, mode>>,
         \A id \in Procs \ {x} : row'[id] = row[id], RowMoves,
         NoLauncher(x), ~Pending(x), NoAttempt(x), NoLoose(x),
         \/ s.pc = "done"
         \/ /\ s.pc \in {"release", "write", "settle"} /\ s.p.state = "CANCELED"
            /\ IF s.pc = "settle" THEN row'[x] = s.p
               ELSE row'[x].state \in Waiting /\ Edge(x, row'[x], s.p)
  PROVE  Moved
<1>1. stopper'[x] = s
  BY StopperAlone
<1>2. NoLauncher(x)' /\ ~Pending(x)' /\ NoAttempt(x)' /\ NoLoose(x)'
      /\ (Cancelling(x)' <=> s.pc # "done")
  BY <1>1 DEF NoLauncher, Pending, NoAttempt, Attempting, NoLoose, Loose, Cancelling
<1>3. CASE s.pc = "done"
  <2>1. Unowned(x)'
    BY <1>2, <1>3 DEF Unowned, NoLoose
  <2>2. Owned(x)'
    BY <2>1 DEF Owned
  <2>3. QED
    BY <1>3, <2>2, StopperMoves
<1>4. CASE s.pc # "done"
  <2>1. OwnedByStop(x)'
    BY <1>1, <1>2, <1>4 DEF OwnedByStop
  <2>2. Owned(x)'
    BY <2>1 DEF Owned
  <2>3. s.pc # "intent"
    BY <1>4
  <2>4. QED
    BY <2>2, <2>3, StopperMoves
<1>5. QED
  BY <1>3, <1>4

(* What a stop request does to an execution it owns or does not own.       *)
LEMMA StopOwns ==
  ASSUME DaemonInv, OwnInv, NEW x \in Procs,
         StopNext(x) \/ (CancelGet(x) /\ ~BeingStarted(x) /\ ~Unsettled(x)),
         UNCHANGED <<todo, snap, shut>>
  PROVE  Moved
<1>1. stopper[x] \in Stopper /\ stopper[x].p \in Storable /\ row[x] \in Storable /\ row[x] \in Process
  BY DEF DaemonInv, SuperInv, AttemptsInv, StorableStopper, StoreInv, Storable
<1>2. DoneStopper.pc = "done"
  BY DEF DoneStopper, IdleStopper
<1>3. Referenced(x)
  BY DEF OwnInv
<1>4. CASE RequestStop(x)
  <2> DEFINE s == [stopper[x] EXCEPT !.pc = "lookup"]
  <2>1. /\ stopper' = [stopper EXCEPT ![x] = s] /\ Live /\ stopper[x].pc = "idle"
        /\ UNCHANGED <<row, exec, launcher, launches, running, mode>>
    BY <1>4 DEF RequestStop, GotoStopper, Live, storeVars
  <2>2. s.pc = "lookup"
    BY <1>1 DEF Stopper
  <2> HIDE DEF s
  <2>3. ~Cancelling(x)
    BY <2>1 DEF Cancelling
  <2>4. QED
    BY <2>1, <2>2, <2>3, StopperWalks
<1>5. CASE StopLookup(x)
  <2> DEFINE s == [stopper[x] EXCEPT !.pc = IF running[x] = 0 THEN "get" ELSE "intent",
                                     !.pid = running[x]]
  <2>1. /\ stopper' = [stopper EXCEPT ![x] = s] /\ Live /\ stopper[x].pc = "lookup"
        /\ UNCHANGED <<row, exec, launcher, launches, running, mode>>
    BY <1>5 DEF StopLookup, storeVars
  <2>2. s.pc = (IF running[x] = 0 THEN "get" ELSE "intent") /\ s.pid = running[x]
    BY <1>1 DEF Stopper
  <2> HIDE DEF s
  <2>3. ~Cancelling(x)
    BY <2>1 DEF Cancelling
  <2>4. QED
    BY <2>1, <2>2, <2>3, StopperWalks
<1>6. CASE StopIntent(x)
  <2>0. stopper[x].pc = "intent" /\ Live
    BY <1>6 DEF StopIntent
  <2>1. PICK n \in 1..MaxLaunches : n = stopper[x].pid
    BY <1>3, <2>0 DEF Referenced
  <2>2. /\ MuFree(<<x, n>>)
        /\ exec' = [exec EXCEPT ![<<x, n>>] = setIntent(exec[<<x, n>>], "user_request")]
        /\ stopper' = [stopper EXCEPT ![x] = DoneStopper]
        /\ UNCHANGED <<row, launcher, launches, running, mode>>
    BY <1>6, <2>1 DEF StopIntent, ReturnStopper, storeVars
  <2>3. Loose(x, n) /\ exec[<<x, n>>] \in Exec
    BY <2>0, <2>1 DEF Loose, Handles, DaemonInv, SuperInv, AttemptsInv, StorableExec
  <2>4. stopper'[x].pc = "done" /\ \A id \in Procs \ {x} : stopper'[id] = stopper[id]
    BY <1>2, <2>2, StopperAlone
  <2>5. QED
    BY <2>0, <2>2, <2>3, <2>4, IntentOwns
<1>7. CASE CancelGet(x) /\ ~BeingStarted(x) /\ ~Unsettled(x)
  <2>0. /\ stopper[x].pc = "get" /\ Live
        /\ UNCHANGED <<row, exec, launcher, launches, running, mode>>
    BY <1>7 DEF CancelGet, storeVars
  <2>1. ~Cancelling(x)
    BY <2>0 DEF Cancelling
  <2>2. CASE ReturnStopper(x)
    BY <1>2, <2>0, <2>1, <2>2, StopperWalks DEF ReturnStopper
  <2>3. CASE mode = "up" /\ row[x].state \in {"CREATED", "QUEUED", "RETRYING"} /\ ~ReturnStopper(x)
    <3> DEFINE q == TransitionTo(row[x], "CANCELED", "user_request")
               s == [stopper[x] EXCEPT !.pc = "release", !.p = q]
    <3>1. stopper' = [stopper EXCEPT ![x] = s]
      BY <1>7, <2>3 DEF CancelGet
    <3>2. s.pc = "release" /\ s.p = q
      BY <1>1 DEF Stopper
    <3>3. q.state = "CANCELED" /\ Edge(x, row[x], q) /\ row[x].state \in Waiting
      <4>1. /\ "CANCELED" \in States /\ "user_request" \in Reasons /\ row[x].state \in Waiting
            /\ CanTransition(row[x].state, "CANCELED") /\ PlainEdge(row[x].state, "CANCELED")
        BY <2>3, Names, EdgesExist DEF Waiting, PlainEdge
      <4>2. QED
        BY <1>1, <4>1, PlainStep
    <3> HIDE DEF s, q
    <3>4. NoLauncher(x) /\ ~Pending(x)
      BY <1>7, NobodyIsZero DEF BeingStarted, NoLauncher, Pending, OwnInv, LaunchersShape, Busy
    <3>5. ASSUME NEW n \in 1..MaxLaunches, OwnedByAttempt(x, n)
          PROVE  FALSE
      <4>1. exec[<<x, n>>].sup # "persisted"
        BY <1>7 DEF Unsettled
      <4>2. row[x].state \in Supervised
        BY <3>5, <4>1 DEF OwnedByAttempt, Attempting, UsingPhases, AttemptCopy
      <4>3. QED
        BY <2>3, <4>2 DEF Supervised
    <3>6. NoAttempt(x)
      BY <3>5, WhoAttempts DEF NoAttempt
    <3>7. shut = {}
      BY <2>3 DEF OwnInv, ModeInv
    <3>8. NoLoose(x)
      BY <1>7, <2>0, <3>7 DEF NoLoose, Loose, Unsettled
    <3>9. RowMoves /\ \A id \in Procs : row'[id] = row[id]
      BY <2>0, NotWritten
    <3>10. QED
      BY <2>0, <3>1, <3>2, <3>3, <3>4, <3>6, <3>8, <3>9, CancelMoves
  <2>4. QED
    BY <1>7, <2>2, <2>3 DEF CancelGet
<1>8. CASE CancelRelease(x) \/ CancelWrite(x) \/ CancelSettle(x)
  <2>0. /\ stopper[x].pc \in {"release", "write", "settle"} /\ Live
        /\ UNCHANGED <<exec, launcher, launches, running, mode>>
    BY <1>8 DEF CancelRelease, CancelWrite, CancelSettle
  <2>1. OwnedByStop(x)
    BY <2>0, WhoCancels DEF Cancelling
  <2>2. NoLauncher(x) /\ ~Pending(x) /\ NoAttempt(x) /\ NoLoose(x) /\ stopper[x].p.state = "CANCELED"
    BY <2>1 DEF OwnedByStop
  <2>3. ASSUME NEW pc \in {"write", "settle"}
        PROVE  [stopper[x] EXCEPT !.pc = pc].pc = pc /\ [stopper[x] EXCEPT !.pc = pc].p = stopper[x].p
    BY <1>1 DEF Stopper
  <2>4. CASE CancelRelease(x)
    <3> DEFINE s == [stopper[x] EXCEPT !.pc = "write"]
    <3>1. stopper' = [stopper EXCEPT ![x] = s] /\ row' = row /\ stopper[x].pc = "release"
      BY <2>4 DEF CancelRelease, GotoStopper
    <3>2. s.pc = "write" /\ s.p = stopper[x].p
      BY <2>3
    <3> HIDE DEF s
    <3>3. row[x].state \in Waiting /\ Edge(x, row[x], s.p) /\ row'[x] = row[x]
      BY <2>1, <3>1, <3>2 DEF OwnedByStop
    <3>4. RowMoves /\ \A id \in Procs : row'[id] = row[id]
      BY <3>1, NotWritten
    <3>5. QED
      BY <2>0, <2>2, <3>1, <3>2, <3>3, <3>4, CancelMoves
  <2>5. CASE CancelWrite(x)
    <3>1. CASE row' = row /\ ReturnStopper(x)
      <4>1. RowMoves /\ \A id \in Procs : row'[id] = row[id]
        BY <3>1, NotWritten
      <4>2. QED
        BY <1>2, <2>0, <2>2, <3>1, <4>1, CancelMoves DEF ReturnStopper
    <3>2. CASE UpdateProcess(x, stopper[x].p) /\ GotoStopper(x, "settle")
      <4> DEFINE s == [stopper[x] EXCEPT !.pc = "settle"]
      <4>1. stopper' = [stopper EXCEPT ![x] = s] /\ stopper[x].pc = "write"
        BY <2>5, <3>2 DEF CancelWrite, GotoStopper
      <4>2. s.pc = "settle" /\ s.p = stopper[x].p
        BY <2>3
      <4> HIDE DEF s
      <4>3. Edge(x, row[x], s.p) /\ row[x].state # NONE
        BY <2>1, <4>1, <4>2 DEF OwnedByStop, Waiting, NONE
      <4>4. RowMoves /\ row'[x] = s.p /\ \A id \in Procs \ {x} : row'[id] = row[id]
        BY <1>1, <3>2, <4>2, <4>3, Written
      <4>5. QED
        BY <2>0, <2>2, <4>1, <4>2, <4>4, CancelMoves
    <3>3. QED
      BY <2>5, <3>1, <3>2 DEF CancelWrite
  <2>6. CASE CancelSettle(x)
    <3>1. row' = row /\ ReturnStopper(x)
      BY <2>6 DEF CancelSettle, storeVars
    <3>2. RowMoves /\ \A id \in Procs : row'[id] = row[id]
      BY <3>1, NotWritten
    <3>3. QED
      BY <1>2, <2>0, <2>2, <3>1, <3>2, CancelMoves DEF ReturnStopper
  <2>7. QED
    BY <1>8, <2>4, <2>5, <2>6
<1>9. QED
  BY <1>4, <1>5, <1>6, <1>7, <1>8 DEF StopNext

----------------------------------------------------------------------------
(* The steps of the dispatch loop.                                         *)

(* A row a pass may see is nobody's: its last attempt is settled and its   *)
(* launcher has returned.                                                  *)
LEMMA SeenUnowned ==
  ASSUME DaemonInv, OwnInv, launcher[Dispatcher].pc = "idle", todo = {}, mode = "up",
         NEW x \in Procs, row[x].state \in {"QUEUED", "RETRYING"}, ~Cancelling(x),
         row[x].state = "RETRYING" => ~Unsettled(x)
  PROVE  NoLauncher(x) /\ NoAttempt(x) /\ NoLoose(x)
<1>1. Owned(x) /\ shut = {}
  BY DEF OwnInv, ModeInv
<1>2. ~OwnedByPass(x) /\ ~OwnedByStop(x)
  BY DEF OwnedByPass, OwnedByStop, Pending
<1>3. ASSUME NEW t \in Launchers, OwnedByLauncher(x, t)
      PROVE  FALSE
  <2>1. Busy(launcher[t]) /\ launcher[t].pc \in LauncherPCs
    BY <1>3, NobodyIsZero
       DEF OwnedByLauncher, OwnInv, LaunchersShape, DaemonInv, SuperInv, LaunchersInv, LauncherOK,
           StorableLauncher, Launcher
  <2>2. t # Dispatcher /\ t = x
    BY <1>3, <2>1 DEF Busy, OwnInv, LaunchersShape, OwnedByLauncher
  <2>3. LauncherCopy(t, launcher[t], row[x], exec[<<x, launches[x]>>], launches[x])
    BY <1>3 DEF OwnedByLauncher
  <2>4. row[x].state \in {"RETRYING", "FAILED"} /\ launcher[t].pc = "failsettle"
    BY <2>1, <2>2, <2>3
       DEF LauncherCopy, LauncherPCs, Busy, Startable, Forked, NONE
  <2>5. QED
    BY <2>2, <2>4 DEF Unsettled
<1>4. ASSUME NEW n \in 1..MaxLaunches, OwnedByAttempt(x, n)
      PROVE  FALSE
  <2>1. exec[<<x, n>>].sup = "persisted" /\ exec[<<x, n>>].p = row[x] /\ Requeued(exec[<<x, n>>].p)
    BY <1>4 DEF OwnedByAttempt, Attempting, AttemptCopy, UsingPhases, Supervised
  <2>2. QED
    BY <2>1 DEF Requeued, Unsettled
<1>5. ASSUME Unowned(x), NEW n \in 1..MaxLaunches, Loose(x, n)
      PROVE  FALSE
  <2>1. Requeued(row[x])
    BY <1>5 DEF Unowned
  <2>2. QED
    BY <1>1, <1>5, <2>1 DEF Requeued, Unsettled, Loose
<1>6. Unowned(x)
  BY <1>1, <1>2, <1>3, <1>4 DEF Owned
<1>7. QED
  BY <1>5, <1>6 DEF Unowned, NoLoose

(* A pass takes the rows it may see; nobody else may write them.           *)
LEMMA ScanOwns ==
  ASSUME Timely, DaemonInv, OwnInv, NEW due \in SUBSET Retrying, DispatchScan(due),
         UNCHANGED shut
  PROVE  Moved
<1> DEFINE pending == {id \in Queued \cup due : Visible(id)}
<1>1. /\ launcher[Dispatcher].pc = "idle" /\ todo = {} /\ mode = "up" /\ Live
      /\ due \subseteq {id \in Retrying : CanBeDue(id)}
      /\ todo' = pending
      /\ snap' = [id \in Procs |-> IF id \in pending THEN row[id] ELSE NoProcess]
      /\ UNCHANGED <<row, exec, launches, running, launcher, stopper, mode>>
  BY DEF DispatchScan, At, storeVars, superVars
<1>2. ASSUME NEW x \in Procs
      PROVE  Owned(x)' /\ Referenced(x)'
  <2>0. Owned(x) /\ Referenced(x) /\ launches[x] \in 0..MaxLaunches
    BY DEF OwnInv, DaemonInv, SuperInv, AttemptsInv
  <2>1. CASE x \in pending
    <3>1. /\ row[x].state \in {"QUEUED", "RETRYING"} /\ ~Cancelling(x)
          /\ row[x].state = "RETRYING" => ~Unsettled(x)
      BY <1>1, <2>1 DEF Timely, Visible, CanBeDue, Queued, Retrying
    <3>2. NoLauncher(x) /\ NoAttempt(x) /\ NoLoose(x)
      BY <1>1, <3>1, SeenUnowned
    <3>3. Pending(x)' /\ snap'[x] = row'[x] /\ row'[x] = row[x]
      BY <1>1, <2>1 DEF Pending
    <3>4. OwnedByPass(x)'
      BY <1>1, <3>1, <3>2, <3>3
         DEF OwnedByPass, NoLauncher, Cancelling, NoAttempt, Attempting, NoLoose, Loose
    <3>5. Referenced(x)'
      BY <1>1, <2>0 DEF Referenced
    <3>6. QED
      BY <3>4, <3>5 DEF Owned
  <2>2. CASE x \notin pending
    <3>1. ~Pending(x) /\ ~Pending(x)'
      BY <1>1, <2>2 DEF Pending
    <3>2. Kept(x)
      BY <1>1, <3>1 DEF Kept
    <3>3. QED
      BY <2>0, <3>2, KeepOwner, KeepReferences
  <2>3. QED
    BY <2>1, <2>2
<1>3. RowMoves /\ LaunchersBusy /\ LaunchersShape' /\ ModeInv'
  BY <1>1, NotWritten, LiveKeeps DEF LaunchersBusy, LaunchersShape, OwnInv
<1>4. \A id \in Procs : Fresh(id)'
  BY <1>1, <1>3, FreshKept
<1>5. QED
  BY <1>2, <1>3, <1>4 DEF OwnInv, Moved

(* The pass hands an execution to the loop.                                *)
LEMMA VisitOwns ==
  ASSUME DaemonInv, OwnInv, NEW x \in todo, NEW expired \in BOOLEAN, DispatchNext(x, expired),
         UNCHANGED shut
  PROVE  Moved
<1> DEFINE p == snap[x]
           q == IF expired THEN TransitionTo(p, "FAILED", "queue_timeout") ELSE p
           pc == IF expired THEN "expire" ELSE "slot"
           l == [IdleLauncher EXCEPT !.id = x, !.pc = pc, !.p = q]
<1>1. /\ launcher[Dispatcher].pc = "idle" /\ Live
      /\ expired => p.state = "QUEUED"
      /\ launcher' = [launcher EXCEPT ![Dispatcher] = l]
      /\ todo' = todo \ {x} /\ snap' = [snap EXCEPT ![x] = NoProcess]
      /\ UNCHANGED <<row, exec, launches, running, stopper, mode>>
  BY DEF DispatchNext, At, storeVars
<1>2. l.id = x /\ l.pc = pc /\ l.p = q /\ (pc = IF expired THEN "expire" ELSE "slot")
  BY DEF IdleLauncher
<1>3. x \in Procs /\ row[x] \in Process /\ snap \in [Procs -> Storable]
  BY DEF DaemonInv, PassInv, SuperInv, StoreInv, Storable
<1>4. OwnedByPass(x)
  BY <1>1, <1>3, WhoPends DEF Pending, Live
<1>5. p = row[x] /\ row[x].state \in {"QUEUED", "RETRYING"}
  BY <1>4 DEF OwnedByPass
<1>6. expired => row[x].state = "QUEUED" /\ q.state = "FAILED" /\ Edge(x, row[x], q)
  BY <1>1, <1>3, <1>5, ExpiredEdge
<1>7. ~expired => q = row[x]
  BY <1>5
<1> HIDE DEF q, pc, l
<1>8. launcher[Dispatcher].id = 0 /\ Dispatcher \in Launchers /\ Dispatcher \notin Procs /\ x # 0
  BY <1>1, <1>3, NobodyIsZero DEF OwnInv, LaunchersShape, Busy, Launchers, Dispatcher
<1>9. launcher'[Dispatcher] = l /\ \A u \in Launchers \ {Dispatcher} : launcher'[u] = launcher[u]
  BY <1>1, <1>8, LauncherAlone DEF DaemonInv, SuperInv
<1>10. \A id \in Procs \ {x} : Kept(id)
  <2> SUFFICES ASSUME NEW id \in Procs \ {x} PROVE Kept(id)
    OBVIOUS
  <2>1. \A t \in Launchers :
          launcher[t].id = id \/ launcher'[t].id = id => launcher'[t] = launcher[t]
    BY <1>2, <1>8, <1>9, NobodyIsZero
  <2>2. snap'[id] = snap[id] /\ (id \in todo' <=> id \in todo)
    BY <1>1, <1>3
  <2>3. Pending(id)' <=> Pending(id)
    BY <1>1, <2>2 DEF Pending
  <2>4. QED
    BY <1>1, <2>1, <2>2, <2>3 DEF Kept
<1>11. OwnedByLauncher(x, Dispatcher)'
  <2>1. LauncherCopy(Dispatcher, l, row[x], exec[<<x, launches[x]>>], launches[x])
    BY <1>2, <1>5, <1>6, <1>7 DEF LauncherCopy, Startable
  <2>2. \A u \in Launchers \ {Dispatcher} : launcher'[u].id # x
    BY <1>4, <1>9 DEF OwnedByPass, NoLauncher
  <2>3. ~Pending(x)' /\ ~Cancelling(x)' /\ NoAttempt(x)' /\ NoLoose(x)'
    BY <1>1, <1>4 DEF OwnedByPass, Pending, Cancelling, NoAttempt, Attempting, NoLoose, Loose
  <2>4. QED
    BY <1>1, <1>2, <1>9, <2>1, <2>2, <2>3 DEF OwnedByLauncher
<1>12. Referenced(x)'
  <2>1. Referenced(x) /\ NoLauncher(x)
    BY <1>3, <1>4 DEF OwnInv, OwnedByPass
  <2>2. QED
    BY <1>1, <2>1 DEF Referenced, NoLauncher
<1>13. LaunchersShape' /\ LaunchersBusy
  <2>1. Busy(l)
    BY <1>2 DEF Busy
  <2>2. QED
    BY <1>2, <1>8, <1>9, <2>1 DEF OwnInv, LaunchersShape, LaunchersBusy, Launchers
<1>14. RowMoves /\ ModeInv'
  BY <1>1, NotWritten, LiveKeeps
<1>15. Owned(x)'
  BY <1>8, <1>11 DEF Owned
<1>16. QED
  BY <1>1, <1>10, <1>12, <1>13, <1>14, <1>15, StepOwns

----------------------------------------------------------------------------
(* Shutdown, exit, crash and the next start.                               *)

(* Shutdown takes its snapshot: what is registered is owned by its attempt. *)
LEMMA ShutdownBeginsOwns ==
  ASSUME DaemonInv, OwnInv, ShutdownBegins
  PROVE  Moved
<1>1. /\ mode = "drain" /\ mode' \in {"stop", "exit"} /\ shut' = RunningHandles
      /\ UNCHANGED <<row, exec, launches, running, launcher, stopper, todo, snap>>
  BY DEF ShutdownBegins, OthersUnchanged, storeVars, schedulerVars
<1>2. shut = {}
  BY <1>1 DEF OwnInv, ModeInv
<1>3. \A id \in Procs, m \in 1..MaxLaunches : <<id, m>> \in shut' <=> running[id] = m
  BY <1>1 DEF RunningHandles, Handles
<1>4. ASSUME NEW id \in Procs
      PROVE  Owned(id)' /\ Referenced(id)'
  <2>0. Owned(id) /\ Referenced(id) /\ launches[id] \in 0..MaxLaunches
    BY DEF OwnInv, DaemonInv, SuperInv, AttemptsInv
  <2>1. CASE running[id] = 0
    <3>1. \A m \in 1..MaxLaunches : <<id, m>> \notin shut' /\ <<id, m>> \notin shut
      BY <1>2, <1>3, <2>1
    <3>2. Kept(id)
      BY <1>1, <3>1 DEF Kept, Pending
    <3>3. QED
      BY <2>0, <3>2, KeepOwner, KeepReferences
  <2>2. CASE running[id] # 0
    <3>1. PICK n \in 1..MaxLaunches : n = running[id]
      BY <2>0, <2>2 DEF Referenced
    <3>2. OwnedByAttempt(id, n)
      <4>1. exec[<<id, n>>].sup \in {"wait", "reaped"}
        BY <2>0, <2>2, <3>1 DEF Referenced
      <4>2. Attempting(id, n)
        BY <4>1 DEF Attempting, UsingPhases
      <4>3. QED
        BY <2>0, <4>2, WhoAttempts
    <3>3. NoLauncher(id)' /\ ~Pending(id)' /\ ~Cancelling(id)' /\ Attempting(id, n)'
      BY <1>1, <3>2 DEF OwnedByAttempt, NoLauncher, Pending, Cancelling, Attempting
    <3>4. \A m \in (1..MaxLaunches) \ {n} : ~Attempting(id, m)' /\ ~Loose(id, m)'
      BY <1>1, <1>3, <3>1, <3>2 DEF OwnedByAttempt, Attempting, Loose
    <3>5. AttemptCopy(exec[<<id, n>>], row[id])'
      BY <1>1, <3>2 DEF OwnedByAttempt, AttemptCopy, Requeued
    <3>6. OwnedByAttempt(id, n)'
      BY <1>1, <3>2, <3>3, <3>4, <3>5 DEF OwnedByAttempt
    <3>7. Referenced(id)'
      BY <1>1, <2>0 DEF Referenced
    <3>8. QED
      BY <3>6, <3>7 DEF Owned
  <2>3. QED
    BY <2>1, <2>2
<1>5. RowMoves /\ LaunchersBusy /\ LaunchersShape' /\ ModeInv'
  BY <1>1, NotWritten DEF LaunchersBusy, LaunchersShape, ModeInv, OwnInv
<1>6. \A id \in Procs : Fresh(id)'
  BY <1>1, <1>5, FreshKept
<1>7. QED
  BY <1>4, <1>5, <1>6 DEF OwnInv, Moved

(* What the end of the daemon leaves of an attempt.                        *)
LEMMA LeftOver ==
  ASSUME NEW e \in Exec, NEW f,
         f = CASE e.proc \in {"alive", "orphan"} -> [NoExec EXCEPT !.proc = "orphan"]
               [] e.proc \in {"zombie", "gone"} -> [NoExec EXCEPT !.proc = "gone"]
               [] OTHER -> NoExec
  PROVE  /\ f.sup = "none" /\ f.stop = "none" /\ f.timer = "off"
         /\ f.proc \notin {"alive", "zombie"} /\ (e.proc = "none" => f = NoExec)
BY DEF NoExec, Exec

(* The end of the daemon: every owner is gone.                             *)
LEMMA PowerOffOwns ==
  ASSUME DaemonInv, OwnInv, PowerOff
  PROVE  Moved
<1>1. ASSUME NEW h \in Handles
      PROVE  /\ exec'[h].sup = "none" /\ exec'[h].stop = "none" /\ exec'[h].timer = "off"
             /\ exec'[h].proc \notin {"alive", "zombie"}
             /\ exec[h].proc = "none" => exec'[h] = NoExec
  <2>1. exec[h] \in Exec
    BY DEF DaemonInv, SuperInv, AttemptsInv, StorableExec
  <2>2. exec'[h] = CASE exec[h].proc \in {"alive", "orphan"} -> [NoExec EXCEPT !.proc = "orphan"]
                     [] exec[h].proc \in {"zombie", "gone"} -> [NoExec EXCEPT !.proc = "gone"]
                     [] OTHER -> NoExec
    BY DEF PowerOff
  <2>3. QED
    BY <2>1, <2>2, LeftOver
<1>2. /\ mode' = "down" /\ todo' = {} /\ shut' = {}
      /\ row' = row /\ launches' = launches
      /\ \A id \in Procs : running'[id] = 0
  BY DEF PowerOff, storeVars
<1>3. \A t \in Launchers :
        /\ launcher'[t].id = 0 /\ launcher'[t].pc \in {"idle", "done"}
        /\ t \in Procs /\ launcher'[t].pc = "idle" => launcher[t].pc = "idle"
  <2>1. IdleLauncher.pc = "idle" /\ IdleLauncher.id = 0 /\ DoneLauncher.pc = "done"
        /\ DoneLauncher.id = 0
    BY DEF IdleLauncher, DoneLauncher
  <2>2. \A t \in Procs : t # Dispatcher
    BY NobodyIsZero DEF Dispatcher
  <2>3. QED
    BY <2>1, <2>2 DEF PowerOff
<1>4. \A id \in Procs : stopper'[id].pc \in {"idle", "done"}
  <2>1. IdleStopper.pc = "idle" /\ DoneStopper.pc = "done"
    BY DEF IdleStopper, DoneStopper
  <2>2. QED
    BY <2>1 DEF PowerOff
<1>5. ASSUME NEW id \in Procs
      PROVE  Owned(id)' /\ Referenced(id)'
  <2>0. \A m \in 1..MaxLaunches : <<id, m>> \in Handles
    BY DEF Handles
  <2>1. NoLauncher(id)' /\ ~Pending(id)' /\ ~Cancelling(id)'
    BY <1>2, <1>3, <1>4, NobodyIsZero DEF NoLauncher, Pending, Cancelling
  <2>2. \A m \in 1..MaxLaunches : ~Attempting(id, m)' /\ ~Loose(id, m)'
    BY <1>1, <1>2, <1>4, <2>0 DEF Attempting, Loose, UsingPhases
  <2>3. Unowned(id)'
    BY <2>1, <2>2 DEF Unowned, NoAttempt
  <2>4. Referenced(id)'
    <3>0. Referenced(id)
      BY DEF OwnInv
    <3>1. \A n \in 1..MaxLaunches : n > launches'[id] => exec'[<<id, n>>] = NoExec
      <4> SUFFICES ASSUME NEW n \in 1..MaxLaunches, n > launches'[id]
                   PROVE  exec'[<<id, n>>] = NoExec
        OBVIOUS
      <4>1. exec[<<id, n>>] = NoExec
        BY <1>2, <3>0 DEF Referenced
      <4>2. exec[<<id, n>>].proc = "none"
        BY <4>1, NoExecIs
      <4>3. QED
        BY <1>1, <2>0, <4>2
    <3>2. QED
      BY <1>1, <1>2, <1>4, <2>0, <3>1 DEF Referenced
  <2>5. QED
    BY <2>3, <2>4 DEF Owned
<1>6. LaunchersShape' /\ LaunchersBusy /\ RowMoves
  BY <1>2, <1>3, NotWritten DEF LaunchersShape, LaunchersBusy, Busy, Launchers
<1>7. ModeInv'
  <2>1. Quiet'
    BY <1>1, <1>2, <1>3, <1>4 DEF Quiet, Busy
  <2>2. QED
    BY <1>2, <2>1 DEF ModeInv
<1>8. \A id \in Procs : Fresh(id)'
  BY <1>2, <1>6, FreshKept
<1>9. QED
  BY <1>5, <1>6, <1>7, <1>8 DEF OwnInv, Moved

(* Nobody owns a row while the daemon is down or starting.                 *)
LEMMA QuietIs ==
  ASSUME OwnInv, mode \in {"down", "boot"}, NEW id \in Procs
  PROVE  /\ NoLauncher(id) /\ ~Cancelling(id) /\ running[id] = 0
         /\ \A m \in 1..MaxLaunches : ~Attempting(id, m) /\ ~Loose(id, m)
<1>1. Quiet /\ shut = {}
  BY DEF OwnInv, ModeInv
<1>2. \A m \in 1..MaxLaunches : <<id, m>> \in Handles
  BY DEF Handles
<1>3. NoLauncher(id)
  BY <1>1, NobodyIsZero DEF Quiet, NoLauncher, OwnInv, LaunchersShape
<1>4. ~Cancelling(id) /\ running[id] = 0 /\ stopper[id].pc # "intent"
  BY <1>1 DEF Quiet, Cancelling
<1>5. \A m \in 1..MaxLaunches : ~Attempting(id, m) /\ ~Loose(id, m)
  BY <1>1, <1>2, <1>4 DEF Quiet, Attempting, Loose, UsingPhases
<1>6. QED
  BY <1>3, <1>4, <1>5

(* A row is reconciled along an edge, or left alone.                       *)
LEMMA ReconciledEdge ==
  ASSUME DaemonInv, NEW x \in Procs, NEW reset \in BOOLEAN, reconcileOne(x, reset)
  PROVE  \/ row' = row
         \/ \E p \in Storable :
               UpdateProcess(x, p) /\ Edge(x, row[x], p) /\ row[x].state # NONE
<1>0. row[x] \in Process /\ row[x] \in Storable
  BY DEF DaemonInv, SuperInv, StoreInv, Storable
<1>1. CASE row[x].state = "CREATED" /\ UpdateProcess(x, TransitionTo(row[x], "QUEUED", ""))
  <2> DEFINE p == TransitionTo(row[x], "QUEUED", "")
  <2>1. "QUEUED" \in States \ {"CRASHED"} /\ "" \in Reasons /\ CanTransition(row[x].state, "QUEUED")
        /\ PlainEdge(row[x].state, "QUEUED")
    BY <1>1, Names, EdgesExist DEF PlainEdge
  <2>2. p \in Storable /\ Edge(x, row[x], p)
    BY <1>0, <2>1, TransitionToStorable, PlainStep
  <2> HIDE DEF p
  <2>3. UpdateProcess(x, p) /\ row[x].state # NONE
    BY <1>1 DEF p, NONE
  <2>4. QED
    BY <2>2, <2>3
<1>2. CASE IsActive(row[x].state) /\ LeaveOrphan(x)
  <2> DEFINE c == TransitionTo(row[x], "CRASHED", "daemon_restart")
             p == TransitionTo(c, "FAILED", "orphaned")
  <2>0. row[x].state \in {"STARTING"} \cup Supervised
    BY <1>2 DEF IsActive, Supervised
  <2>1. Edge(x, row[x], p)
    BY <1>0, <2>0, OrphanedEdge
  <2>2. p \in Storable
    <3>1. "CRASHED" \in States /\ {"daemon_restart", "orphaned"} \subseteq Reasons
      BY Names
    <3>2. c \in Process
      BY <1>0, <3>1, TransitionToType
    <3> HIDE DEF c
    <3>3. QED
      BY <3>1, <3>2, CrashedLeft
  <2>3. UpdateProcess(x, p)
    BY <1>2 DEF LeaveOrphan
  <2>4. row[x].state # NONE
    BY <2>0 DEF Supervised, NONE
  <2> HIDE DEF p
  <2>5. QED
    BY <2>1, <2>2, <2>3, <2>4
<1>3. CASE IsActive(row[x].state) /\ Recover(x, reset)
  <2> DEFINE p == Recovered(x, reset)
  <2>0. row[x].state \in {"STARTING"} \cup Supervised
    BY <1>3 DEF IsActive, Supervised
  <2>1. Edge(x, row[x], p) /\ p \in Storable
    BY <1>0, <2>0, RecoveredEdge, RecoveredStorable DEF DaemonInv, SuperInv
  <2>2. UpdateProcess(x, p)
    BY <1>3 DEF Recover
  <2>3. row[x].state # NONE
    BY <2>0 DEF Supervised, NONE
  <2> HIDE DEF p
  <2>4. QED
    BY <2>1, <2>2, <2>3
<1>4. QED
  BY <1>1, <1>2, <1>3 DEF reconcileOne, storeVars

(* The next start owns every row.                                          *)
LEMMA ReconcileOwns ==
  ASSUME DaemonInv, OwnInv, NEW x \in todo, NEW reset \in BOOLEAN, reconcileOne(x, reset)
  PROVE  Moved
<1>0. x \in Procs
  BY DEF DaemonInv, PassInv
<1>1. /\ mode = "boot" /\ todo' = todo \ {x}
      /\ UNCHANGED <<launches, running, launcher, stopper, mode, snap, shut>>
  BY DEF reconcileOne, daemonVars
<1>2. \/ row' = row
      \/ \E p \in Storable : UpdateProcess(x, p) /\ Edge(x, row[x], p) /\ row[x].state # NONE
  BY <1>0, ReconciledEdge
<1>3. RowMoves /\ \A id \in Procs \ {x} : row'[id] = row[id]
  BY <1>0, <1>2, Written, NotWritten
<1>4. \A h \in Handles :
        /\ exec'[h].sup = exec[h].sup /\ exec'[h].stop = exec[h].stop /\ exec'[h].timer = exec[h].timer
        /\ \/ exec'[h] = exec[h]
           \/ h[1] = x /\ exec[h].proc = "orphan" /\ exec'[h].proc = "gone"
        /\ exec'[h].intent = exec[h].intent
  <2>1. CASE exec' = exec
    BY <2>1
  <2>2. CASE SameProcess(x) /\ exec' = [exec EXCEPT ![<<x, row[x].pid>>].proc = "gone"]
    <3> DEFINE g == <<x, row[x].pid>>
    <3>1. g \in Handles /\ exec[g].proc = "orphan" /\ g[1] = x
      BY <1>0, <2>2 DEF SameProcess, Handles
    <3> HIDE DEF g
    <3>2. exec \in [Handles -> Exec]
      BY DEF DaemonInv, SuperInv, AttemptsInv, StorableExec
    <3>3. exec' = [exec EXCEPT ![g] = [exec[g] EXCEPT !.proc = "gone"]]
      BY <2>2 DEF g
    <3>4. /\ exec'[g] = [exec[g] EXCEPT !.proc = "gone"] /\ exec[g] \in Exec
          /\ \A h \in Handles : h # g => exec'[h] = exec[h]
      BY <3>1, <3>2, <3>3
    <3>5. /\ exec'[g].sup = exec[g].sup /\ exec'[g].stop = exec[g].stop
          /\ exec'[g].timer = exec[g].timer /\ exec'[g].proc = "gone"
          /\ exec'[g].intent = exec[g].intent
      BY <3>4 DEF Exec
    <3>6. QED
      BY <3>1, <3>4, <3>5
  <2>3. QED
    BY <2>1, <2>2 DEF reconcileOne, LeaveOrphan, Recover
<1>5. \A id \in Procs, m \in 1..MaxLaunches : <<id, m>> \in Handles /\ <<id, m>>[1] = id
  BY DEF Handles
<1>6. ASSUME NEW id \in Procs \ {x}
      PROVE  Kept(id)
  <2>1. \A m \in 1..MaxLaunches : exec'[<<id, m>>] = exec[<<id, m>>]
    BY <1>4, <1>5
  <2>2. QED
    BY <1>1, <1>3, <2>1 DEF Kept, Pending
<1>7. /\ NoLauncher(x) /\ ~Cancelling(x) /\ running[x] = 0
      /\ \A m \in 1..MaxLaunches : ~Attempting(x, m) /\ ~Loose(x, m)
  BY <1>0, <1>1, QuietIs
<1>8. Unowned(x)'
  <2>1. \A m \in 1..MaxLaunches : ~Attempting(x, m)' /\ ~Loose(x, m)'
    BY <1>0, <1>1, <1>4, <1>5, <1>7 DEF Attempting, Loose
  <2>2. NoLauncher(x)' /\ ~Cancelling(x)' /\ ~Pending(x)'
    BY <1>1, <1>7 DEF NoLauncher, Cancelling, Pending
  <2>3. QED
    BY <2>1, <2>2 DEF Unowned, NoAttempt
<1>9. Referenced(x)'
  <2>0. Referenced(x)
    BY <1>0 DEF OwnInv
  <2>1. \A n \in 1..MaxLaunches : n > launches'[x] => exec'[<<x, n>>] = NoExec
    <3> SUFFICES ASSUME NEW n \in 1..MaxLaunches, n > launches'[x]
                 PROVE  exec'[<<x, n>>] = NoExec
      OBVIOUS
    <3>1. exec[<<x, n>>] = NoExec
      BY <1>1, <2>0 DEF Referenced
    <3>2. exec[<<x, n>>].proc = "none"
      BY <3>1, NoExecIs
    <3>3. <<x, n>> \in Handles /\ <<x, n>>[1] = x
      BY <1>0, <1>5
    <3>4. exec'[<<x, n>>] = exec[<<x, n>>]
      BY <1>4, <3>2, <3>3
    <3>5. QED
      BY <3>1, <3>4
  <2>2. \A n \in 1..MaxLaunches :
          /\ exec'[<<x, n>>].timer = "armed" => exec'[<<x, n>>].sup = "wait"
          /\ exec'[<<x, n>>].stop # "none" => exec'[<<x, n>>].intent # ""
          /\ exec'[<<x, n>>].proc \in {"alive", "zombie"} => exec'[<<x, n>>].sup = "wait"
    <3> SUFFICES ASSUME NEW n \in 1..MaxLaunches
                 PROVE  /\ exec'[<<x, n>>].timer = "armed" => exec'[<<x, n>>].sup = "wait"
                        /\ exec'[<<x, n>>].stop # "none" => exec'[<<x, n>>].intent # ""
                        /\ exec'[<<x, n>>].proc \in {"alive", "zombie"} => exec'[<<x, n>>].sup = "wait"
      OBVIOUS
    <3>1. exec[<<x, n>>].proc \in {"alive", "zombie"} => exec[<<x, n>>].sup = "wait"
      BY <1>7, <2>0 DEF Referenced, NoLauncher
    <3>2. /\ exec[<<x, n>>].timer = "armed" => exec[<<x, n>>].sup = "wait"
          /\ exec[<<x, n>>].stop # "none" => exec[<<x, n>>].intent # ""
      BY <2>0 DEF Referenced
    <3>3. QED
      BY <1>0, <1>4, <1>5, <3>1, <3>2
  <2>3. running'[x] = 0 /\ (stopper'[x].pc = "intent" => stopper'[x].pid \in 1..MaxLaunches)
    BY <1>1, <1>7, <2>0 DEF Referenced
  <2>4. QED
    BY <2>1, <2>2, <2>3 DEF Referenced
<1>10. LaunchersShape' /\ LaunchersBusy
  BY <1>1 DEF LaunchersShape, LaunchersBusy, OwnInv
<1>11. ModeInv'
  <2>1. Quiet
    BY <1>1 DEF OwnInv, ModeInv
  <2>2. Quiet'
    BY <1>1, <1>4, <2>1 DEF Quiet
  <2>3. QED
    BY <1>1, <2>2 DEF OwnInv, ModeInv
<1>12. Owned(x)'
  BY <1>8 DEF Owned
<1>13. QED
  BY <1>1, <1>3, <1>6, <1>9, <1>10, <1>11, <1>12, StepOwns

LEMMA LifecycleOwns ==
  ASSUME DaemonInv, OwnInv, LifecycleStep
  PROVE  Moved
<1>1. CASE Sigterm \/ Drain \/ ShutdownEnds \/ ReconcileDone \/ Boot
  <2>1. UNCHANGED <<row, launcher, exec, launches, running, stopper, shut, snap>>
    BY <1>1 DEF Sigterm, Drain, ShutdownEnds, ReconcileDone, Boot, OthersUnchanged, storeVars,
                schedulerVars, daemonVars
  <2>2. CASE Sigterm \/ Drain \/ ShutdownEnds
    <3>1. todo' = todo /\ mode \notin {"boot", "down"} /\ mode' \notin {"boot", "down"}
          /\ (mode \in {"stop", "exit"} => mode' \in {"stop", "exit"})
          /\ (mode' \notin {"stop", "exit"} => mode \notin {"stop", "exit"})
      BY <2>2 DEF Sigterm, Drain, ShutdownEnds, OthersUnchanged, schedulerVars
    <3>2. ModeInv'
      BY <2>1, <3>1 DEF OwnInv, ModeInv
    <3>3. \A id \in Procs : Pending(id)' <=> Pending(id)
      BY <3>1 DEF Pending
    <3>4. QED
      BY <2>1, <3>1, <3>2, <3>3, NobodyMoves
  <2>3. CASE ReconcileDone
    <3>1. mode = "boot" /\ mode' = "up" /\ todo = {} /\ todo' = {}
      BY <2>3 DEF ReconcileDone, schedulerVars
    <3>2. ModeInv'
      BY <2>1, <3>1 DEF OwnInv, ModeInv
    <3>3. \A id \in Procs : Pending(id)' <=> Pending(id)
      BY <3>1 DEF Pending
    <3>4. QED
      BY <2>1, <3>1, <3>2, <3>3, NobodyMoves
  <2>4. CASE Boot
    <3>1. mode = "down" /\ mode' = "boot"
      BY <2>4 DEF Boot
    <3>2. Quiet
      BY <3>1 DEF OwnInv, ModeInv
    <3>3. ModeInv'
      BY <2>1, <3>1, <3>2 DEF OwnInv, ModeInv, Quiet
    <3>4. \A id \in Procs : Pending(id)' <=> Pending(id)
      BY <3>1, <3>2 DEF Pending, Quiet
    <3>5. QED
      BY <2>1, <3>1, <3>3, <3>4, NobodyMoves
  <2>5. QED
    BY <1>1, <2>2, <2>3, <2>4
<1>2. CASE ShutdownBegins
  BY <1>2, ShutdownBeginsOwns
<1>3. CASE \E h \in Handles : ShutdownIntent(h)
  <2>1. PICK h \in Handles : ShutdownIntent(h)
    BY <1>3
  <2>2. PICK x \in Procs, n \in 1..MaxLaunches : h = <<x, n>>
    BY DEF Handles
  <2>3. /\ mode = "stop" /\ <<x, n>> \in shut /\ MuFree(<<x, n>>)
        /\ exec' = [exec EXCEPT ![<<x, n>>] = setIntent(exec[<<x, n>>], "shutdown")]
        /\ shut' = shut \ {<<x, n>>}
        /\ UNCHANGED <<row, running, launcher, launches, stopper, todo, snap, mode>>
    BY <2>1, <2>2 DEF ShutdownIntent, OthersUnchanged, storeVars, schedulerVars
  <2>4. Loose(x, n) /\ Live /\ exec[<<x, n>>] \in Exec
    BY <2>2, <2>3 DEF Loose, Live, DaemonInv, SuperInv, AttemptsInv, StorableExec
  <2>5. \A id \in Procs : stopper'[id] = stopper[id]
    BY <2>3
  <2>6. QED
    BY <2>3, <2>4, <2>5, IntentOwns
<1>4. CASE Exit \/ Crash
  BY <1>4, PowerOffOwns DEF Exit, Crash
<1>5. CASE \E id \in todo, reset \in BOOLEAN : reconcileOne(id, reset)
  BY <1>5, ReconcileOwns
<1>6. QED
  BY <1>1, <1>2, <1>3, <1>4, <1>5 DEF LifecycleStep

----------------------------------------------------------------------------
(* The invariant.                                                          *)

LEMMA NoProcessIs == NoProcess.state = NONE /\ NoProcess.attempt = 0
BY DEF NoProcess

LEMMA InitOwns == Init => OwnInv
<1> SUFFICES ASSUME Init PROVE OwnInv
  OBVIOUS
<1>1. /\ \A id \in Procs : row[id] = NoProcess /\ launches[id] = 0 /\ running[id] = 0
                           /\ stopper[id].pc = "idle"
      /\ \A t \in Launchers : launcher[t].pc = "idle" /\ launcher[t].id = 0
      /\ mode = "up" /\ todo = {} /\ shut = {}
  BY DEF Init, StoreInit, SupervisorInit, SchedulerInit, IdleLauncher, IdleStopper
<1>2. \A id \in Procs, n \in 1..MaxLaunches : exec[<<id, n>>] = NoExec
  BY DEF Init, SupervisorInit, Handles
<1>3. LaunchersShape /\ ModeInv
  BY <1>1 DEF LaunchersShape, ModeInv, Busy
<1>4. ASSUME NEW id \in Procs
      PROVE  Owned(id) /\ Referenced(id) /\ Fresh(id)
  <2>1. NoLauncher(id) /\ ~Pending(id) /\ ~Cancelling(id)
    BY <1>1, NobodyIsZero DEF NoLauncher, Pending, Cancelling
  <2>2. \A n \in 1..MaxLaunches :
          /\ exec[<<id, n>>].sup = "none" /\ exec[<<id, n>>].timer = "off"
          /\ exec[<<id, n>>].stop = "none" /\ exec[<<id, n>>].proc = "none"
    BY <1>2, NoExecIs
  <2>3. NoAttempt(id) /\ NoLoose(id)
    BY <1>1, <2>2 DEF NoAttempt, NoLoose, Attempting, Loose, UsingPhases
  <2>4. Owned(id)
    BY <2>1, <2>3 DEF Owned, Unowned, NoLoose
  <2>5. Referenced(id)
    BY <1>1, <1>2, <2>2 DEF Referenced
  <2>6. Fresh(id)
    <3>1. row[id] = NoProcess /\ launches[id] = 0
      BY <1>1
    <3>2. QED
      BY <3>1, NoProcessIs DEF Fresh
  <2>7. QED
    BY <2>4, <2>5, <2>6
<1>5. QED
  BY <1>3, <1>4 DEF OwnInv

(* Neither a reload nor a stuttering step concerns an owner.               *)
LEMMA RestOwns ==
  ASSUME DaemonInv, OwnInv,
         UNCHANGED <<row, launcher, exec, launches, running, stopper, shut, mode, todo, snap>>
  PROVE  Moved
<1>1. ModeInv'
  <2>1. Quiet' <=> Quiet
    BY DEF Quiet
  <2>2. QED
    BY <2>1 DEF OwnInv, ModeInv
<1>2. \A id \in Procs : Pending(id)' <=> Pending(id)
  BY DEF Pending
<1>3. QED
  BY <1>1, <1>2, NobodyMoves

LEMMA NextOwns ==
  ASSUME Timely, DaemonInv, OwnInv, [Next]_vars
  PROVE  Moved
<1>1. ASSUME NEW t \in Launchers, LauncherStep(t)
      PROVE  Moved
  <2>1. UNCHANGED <<todo, snap, shut>>
    BY <1>1 DEF LauncherStep, schedulerVars, daemonVars
  <2>2. CASE StartNext(t)
    BY <2>1, <2>2, StartOwns
  <2>3. CASE AdmitNext(t)
    BY <2>1, <2>3, AdmitOwns
  <2>4. CASE \/ t \in Procs /\ SubmitNext(t)
             \/ t = Dispatcher /\ (ExpireUnlock(t) \/ ExpireWrite(t))
    BY <2>1, <2>4, SubmitOwns
  <2>5. QED
    BY <1>1, <2>2, <2>3, <2>4 DEF LauncherStep
<1>2. ASSUME NEW h \in Handles, AttemptStep(h)
      PROVE  Moved
  BY <1>2, AttemptOwns DEF AttemptStep, schedulerVars, daemonVars
<1>3. ASSUME NEW x \in Procs, StopStep(x)
      PROVE  Moved
  <2>1. UNCHANGED <<todo, snap, shut>>
    BY <1>3 DEF StopStep, schedulerVars, daemonVars
  <2>2. StopNext(x) \/ (CancelGet(x) /\ ~BeingStarted(x) /\ ~Unsettled(x))
    BY <1>3 DEF StopStep, Timely
  <2>3. QED
    BY <2>1, <2>2, StopOwns
<1>4. CASE DispatchStep
  <2>1. UNCHANGED shut
    BY <1>4 DEF DispatchStep, daemonVars
  <2>2. CASE \E due \in SUBSET Retrying : DispatchScan(due)
    BY <2>1, <2>2, ScanOwns
  <2>3. CASE \E x \in todo, expired \in BOOLEAN : DispatchNext(x, expired)
    BY <2>1, <2>3, VisitOwns
  <2>4. QED
    BY <1>4, <2>2, <2>3 DEF DispatchStep
<1>5. CASE LifecycleStep
  BY <1>5, LifecycleOwns
<1>6. CASE (\E w \in Workers, limit \in Limits : Reload(w, limit)) \/ UNCHANGED vars
  <2>1. UNCHANGED <<row, launcher, exec, launches, running, stopper, shut, mode, todo, snap>>
    BY <1>6 DEF Reload, vars, storeVars, superVars, schedulerVars, daemonVars
  <2>2. QED
    BY <2>1, RestOwns
<1>7. QED
  BY <1>1, <1>2, <1>3, <1>4, <1>5, <1>6 DEF Next

(* Whatever requests, attempts, stops, timers, the dispatch loop, shutdown *)
(* and restarts do, at most one of them is entitled to write the row of an *)
(* execution, and its copy is the row, or one edge of the lifecycle ahead  *)
(* of it.                                                                  *)
THEOREM RowsAreOwned ==
  ASSUME Timely
  PROVE  Spec => []OwnInv
<1>1. Init => OwnInv
  BY InitOwns
<1>2. DaemonInv /\ OwnInv /\ [Next]_vars => OwnInv'
  BY NextOwns DEF Moved
<1>3. QED
  BY <1>1, <1>2, DaemonCorrect, PTL DEF Spec

----------------------------------------------------------------------------
(* The lifecycle.                                                          *)

(* What a write along an edge looks like to a reader of the store.         *)
LEMMA EdgeIsStep ==
  ASSUME NEW id \in Procs, NEW s, NEW a, NEW s2, NEW a2,
         s = [x \in Procs |-> row[x].state], a = [x \in Procs |-> row[x].attempt],
         s2 = [s EXCEPT ![id] = row'[id].state], a2 = [a EXCEPT ![id] = row'[id].attempt],
         s2 = [x \in Procs |-> row[x].state]', a2 = [x \in Procs |-> row[x].attempt]',
         Edge(id, row[id], row'[id])
  PROVE  [Lifecycle!Next]_<<[x \in Procs |-> row[x].state], [x \in Procs |-> row[x].attempt]>>
<1>1. s[id] = row[id].state /\ a[id] = row[id].attempt
  OBVIOUS
<1>2. CASE row'[id].state = row[id].state /\ row'[id].attempt = row[id].attempt
  <2>1. s2 = s /\ a2 = a
    BY <1>1, <1>2
  <2>2. QED
    BY <2>1
<1>3. CASE PlainEdge(row[id].state, row'[id].state) /\ row'[id].attempt = row[id].attempt
  <2>1. a2 = a
    BY <1>1, <1>3
  <2>2. \/ Lifecycle!Submitted(id) \/ Lifecycle!Waits(id) \/ Lifecycle!Runs(id)
        \/ Lifecycle!Stops(id) \/ Lifecycle!Completes(id) \/ Lifecycle!Requeues(id)
        \/ Lifecycle!Cancels(id)
    BY <1>1, <1>3, <2>1
       DEF PlainEdge, Waiting, Supervised, Lifecycle!Submitted, Lifecycle!Waits, Lifecycle!Runs,
           Lifecycle!Stops, Lifecycle!Completes, Lifecycle!Requeues, Lifecycle!Cancels,
           Lifecycle!Become, Lifecycle!KeepAttempt, Lifecycle!NONE, NONE
  <2>3. QED
    BY <2>2 DEF Lifecycle!Next
<1>4. CASE /\ row[id].state \in Waiting /\ row'[id].state = "STARTING"
           /\ row'[id].attempt = row[id].attempt + 1
  <2>1. Lifecycle!Starts(id)
    BY <1>1, <1>4 DEF Waiting, Lifecycle!Starts, Lifecycle!Become
  <2>2. QED
    BY <2>1 DEF Lifecycle!Next
<1>5. CASE /\ SettledEdge(id, row[id].state, row'[id].state, row'[id].attempt)
           /\ row'[id].attempt \in {row[id].attempt, 0}
  <2>1. a2 = a \/ a2 = [a EXCEPT ![id] = 0]
    BY <1>1, <1>5
  <2>2. a2[id] = row'[id].attempt
    OBVIOUS
  <2>3. Lifecycle!Retries(id) \/ Lifecycle!Fails(id)
    BY <1>1, <1>5, <2>1, <2>2
       DEF SettledEdge, Supervised, Lifecycle!Retries, Lifecycle!Fails, Lifecycle!Become,
           Lifecycle!MayForgive, Lifecycle!AttemptsUnlimited, AttemptsUnlimited
  <2>4. QED
    BY <2>3 DEF Lifecycle!Next
<1>6. QED
  BY <1>2, <1>3, <1>4, <1>5 DEF Edge

LEMMA MovesAreSteps ==
  ASSUME DaemonInv, RowMoves
  PROVE  [Lifecycle!Next]_<<[x \in Procs |-> row[x].state], [x \in Procs |-> row[x].attempt]>>
<1>1. CASE row' = row
  BY <1>1
<1>2. ASSUME NEW id \in Procs, NEW p \in Storable, UpdateProcess(id, p), Edge(id, row[id], p)
      PROVE  [Lifecycle!Next]_<<[x \in Procs |-> row[x].state], [x \in Procs |-> row[x].attempt]>>
  <2>1. row'[id] = p /\ \A x \in Procs \ {id} : row'[x] = row[x]
    BY <1>2 DEF UpdateProcess, DaemonInv, SuperInv, StoreInv
  <2> DEFINE s == [x \in Procs |-> row[x].state]
             a == [x \in Procs |-> row[x].attempt]
             s2 == [s EXCEPT ![id] = row'[id].state]
             a2 == [a EXCEPT ![id] = row'[id].attempt]
  <2>2. s2 = [x \in Procs |-> row[x].state]' /\ a2 = [x \in Procs |-> row[x].attempt]'
    BY <2>1
  <2>3. Edge(id, row[id], row'[id])
    BY <1>2, <2>1
  <2>4. QED
    BY <2>2, <2>3, EdgeIsStep
<1>3. QED
  BY <1>1, <1>2 DEF RowMoves

(* The rows of the store implement the lifecycle of core/state.go, within  *)
(* the attempt budget, for any number of executions, attempts and faults.  *)
THEOREM LifecycleImplemented ==
  ASSUME Timely
  PROVE  Spec => ImplementsLifecycle
<1>1. Init => Lifecycle!Init
  BY NoProcessIs DEF Init, StoreInit, Lifecycle!Init, Lifecycle!NONE, NONE
<1>2. DaemonInv /\ OwnInv /\ [Next]_vars
        => [Lifecycle!Next]_<<[id \in Procs |-> row[id].state], [id \in Procs |-> row[id].attempt]>>
  BY NextOwns, MovesAreSteps DEF Moved
<1>3. Spec => []OwnInv
  BY RowsAreOwned
<1>4. QED
  BY <1>1, <1>2, <1>3, DaemonCorrect, PTL DEF Spec, ImplementsLifecycle, Lifecycle!Spec

(* Terminal states are immutable: no late write of an attempt that is over *)
(* and no stop, retry or restart changes a state that is final.            *)
THEOREM TerminalStaysTerminal ==
  ASSUME Timely
  PROVE  Spec => TerminalImmutable
<1>1. ASSUME DaemonInv, RowMoves, NEW id \in Procs, IsTerminal(row[id].state)
      PROVE  row'[id].state = row[id].state
  <2>1. CASE row' = row
    BY <2>1
  <2>2. ASSUME NEW x \in Procs, NEW p \in Storable, UpdateProcess(x, p), Edge(x, row[x], p)
        PROVE  row'[id].state = row[id].state
    <3>1. row'[x] = p /\ \A y \in Procs \ {x} : row'[y] = row[y]
      BY <1>1, <2>2 DEF UpdateProcess, DaemonInv, SuperInv, StoreInv
    <3>2. CASE id = x
      BY <1>1, <2>2, <3>1, <3>2
         DEF Edge, PlainEdge, SettledEdge, Waiting, Supervised, IsTerminal, NONE
    <3>3. QED
      BY <3>1, <3>2
  <2>3. QED
    BY <1>1, <2>1, <2>2 DEF RowMoves
<1>2. DaemonInv /\ OwnInv /\ [Next]_vars
        => [\A id \in Procs : IsTerminal(row[id].state) => row'[id].state = row[id].state]_row
  BY <1>1, NextOwns DEF Moved
<1>3. Spec => []OwnInv
  BY RowsAreOwned
<1>4. QED
  BY <1>2, <1>3, DaemonCorrect, PTL DEF Spec, TerminalImmutable

----------------------------------------------------------------------------
(***************************************************************************)
(* What ownership of the rows buys: the slot and the lock of an execution  *)
(* change hands only at its owner, so a process is covered by both for as  *)
(* long as it lives, and an execution that is over has neither.            *)
(***************************************************************************)

(* Where an attempt needs the lock of its execution.                       *)
LockPCs == {"starting", "start", "fork", "running", "register", "abandon"}

LockPhases == {"wait", "reaped", "deleted"}

LockUser(id) ==
  \/ \E t \in Launchers : launcher[t].id = id /\ launcher[t].pc \in LockPCs
  \/ \E n \in 1..MaxLaunches : exec[<<id, n>>].sup \in LockPhases

Free(id) == \A k \in LockKeys : locks[k] # id

(* An execution that is over, or was never submitted.                      *)
Over(s) == IsTerminal(s) \/ s = NONE

(* The context of a launcher is done: CtxDone, of its state l.             *)
Cut(t, l) == ~l.detached /\ (mode # "up" \/ t \in hungup)

(* A launcher that has not asked for the lock, or that has given it back   *)
(* and will write a state no attempt follows, if its context lets it.      *)
Lockless(t, l, id) ==
  \/ l.pc \in {"create", "claim", "conflict", "yield"}
  \/ l.pc = "slot" /\ t # Dispatcher /\ (Def[id].lock = NoLock \/ ~Def[id].reject)
  \/ l.pc = "park" /\ ~Cut(t, l)
  \/ l.pc \in {"expired", "failwrite"} /\ IsTerminal(l.p.state) /\ ~Cut(t, l)

(* Nobody needs the lock of an execution any more, or yet.                 *)
LetGo(id) ==
  \/ Over(row[id].state)
  \/ \E t \in Launchers : launcher[t].id = id /\ Lockless(t, launcher[t], id)
  \/ \E n \in 1..MaxLaunches :
        exec[<<id, n>>].sup = "classified" /\ IsTerminal(exec[<<id, n>>].p.state)
  \/ stopper[id].pc = "write" /\ mode = "up"

(* What a service may keep its slot for.                                   *)
SlotReason(id) ==
  SlotUser(id) \/ row[id].state = "RETRYING" \/ stopper[id].pc = "settle"

Cover(id) ==
  /\ SlotUser(id) => Holds(id)
  /\ LockUser(id) => HoldsLock(id)
  /\ LetGo(id) => Free(id)
  /\ Def[id].type = "service" /\ Holds(id) => SlotReason(id)

(* A key is locked by an execution that names it.                          *)
LocksOwn == \A k \in LockKeys : locks[k] # 0 => Def[locks[k]].lock = k

CoverInv ==
  /\ LocksOwn
  /\ mode \in {"down", "boot"} => \A id \in Procs : ~Holds(id)
  /\ \A id \in Procs : Cover(id)

----------------------------------------------------------------------------
(* The lock and the slot of x change hands; those of the others stay.      *)

LocksStay(x) ==
  \A id \in Procs \ {x} : (HoldsLock(id) => HoldsLock(id)') /\ (Free(id) => Free(id)')

SlotsStay(x) == \A id \in Procs \ {x} : Holds(id)' <=> Holds(id)

LEMMA LockTaken ==
  ASSUME StoreInv, LocksOwn, NEW x \in Procs, LockAvailable(x), AcquireLock(x)
  PROVE  HoldsLock(x)' /\ LocksOwn' /\ LocksStay(x)
<1>1. /\ \A k \in LockKeys : locks'[k] = IF k = Def[x].lock THEN x ELSE locks[k]
      /\ \A id \in Procs : Def[id].lock \in LockKeys \cup {NoLock}
      /\ x # 0
  BY NobodyIsZero, DefAssumption DEF AcquireLock
<1>2. HoldsLock(x)'
  BY <1>1 DEF HoldsLock
<1>3. LocksOwn'
  BY <1>1 DEF LocksOwn
<1>4. ASSUME NEW id \in Procs \ {x}, HoldsLock(id)
      PROVE  HoldsLock(id)'
  <2>1. CASE Def[id].lock = Def[x].lock
    BY <1>1, <1>4, <2>1, NobodyIsZero DEF HoldsLock, LockAvailable
  <2>2. CASE Def[id].lock # Def[x].lock
    BY <1>1, <1>4, <2>2 DEF HoldsLock
  <2>3. QED
    BY <2>1, <2>2
<1>5. ASSUME NEW id \in Procs \ {x}, Free(id)
      PROVE  Free(id)'
  BY <1>1, <1>5 DEF Free
<1>6. QED
  BY <1>2, <1>3, <1>4, <1>5 DEF LocksStay

LEMMA LockGiven ==
  ASSUME StoreInv, LocksOwn, NEW x \in Procs, ReleaseLock(x)
  PROVE  Free(x)' /\ LocksOwn' /\ LocksStay(x)
<1>1. /\ \A k \in LockKeys : locks'[k] = IF k = Def[x].lock /\ locks[k] = x THEN 0 ELSE locks[k]
      /\ \A id \in Procs : Def[id].lock \in LockKeys \cup {NoLock}
      /\ x # 0
  BY NobodyIsZero, DefAssumption DEF ReleaseLock
<1>2. Free(x)'
  BY <1>1 DEF Free, LocksOwn
<1>3. LocksOwn'
  BY <1>1 DEF LocksOwn
<1>4. LocksStay(x)
  BY <1>1, NobodyIsZero DEF LocksStay, HoldsLock, Free
<1>5. QED
  BY <1>2, <1>3, <1>4

LEMMA LockKept ==
  ASSUME LocksOwn, locks' = locks, NEW x
  PROVE  /\ LocksOwn' /\ LocksStay(x)
         /\ \A id \in Procs : (HoldsLock(id)' <=> HoldsLock(id)) /\ (Free(id)' <=> Free(id))
BY DEF LocksOwn, LocksStay, HoldsLock, Free

LEMMA SlotTaken ==
  ASSUME SlotsInv, NEW x \in Procs, NEW w \in Workers, Acquire(x, w)
  PROVE  Holds(x)' /\ SlotsStay(x)
<1>1. holders \in [Procs -> Workers \cup {NoWorker}] /\ NoWorker \notin Workers
  BY WorkersAssumption DEF SlotsInv, SlotsTypeOK
<1>2. QED
  BY <1>1 DEF Acquire, slotVars, Holds, SlotsStay

LEMMA SlotGiven ==
  ASSUME SlotsInv, NEW x \in Procs, Release(x)
  PROVE  ~Holds(x)' /\ SlotsStay(x)
<1>1. ~Holds(x)'
  BY ReleaseStep
<1>2. \A j \in Procs \ {x} : holders'[j] = holders[j]
  BY DEF Release, slotVars, SlotsInv, SlotsTypeOK
<1>3. QED
  BY <1>1, <1>2 DEF SlotsStay, Holds

LEMMA SlotKept ==
  ASSUME UNCHANGED slotVars, NEW x
  PROVE  SlotsStay(x) /\ \A id \in Procs : Holds(id)' <=> Holds(id)
BY DEF slotVars, SlotsStay, Holds

(* A retry of a service keeps the slot; every other end gives it back.     *)
LEMMA SlotSettled ==
  ASSUME SlotsInv, NEW x \in Procs, NEW state, OnExecutionSettled(x, state)
  PROVE  SlotsStay(x) /\ ((Def[x].type = "service" /\ state = "RETRYING") \/ ~Holds(x)')
BY SlotGiven, SlotKept DEF OnExecutionSettled

----------------------------------------------------------------------------
(* The shape of every step.                                                *)

(* Contexts are cancelled for good.                                        *)
NoRevival == (mode' = "up" => mode = "up") /\ hungup \subseteq hungup'

(* Nothing that a cover depends on changes.                                *)
Calm(id) ==
  /\ SlotUser(id)' => SlotUser(id)
  /\ LockUser(id)' => LockUser(id)
  /\ LetGo(id)' => LetGo(id)
  /\ SlotReason(id) => SlotReason(id)'

LEMMA CoverStep ==
  ASSUME CoverInv, NEW x, LocksOwn', LocksStay(x), SlotsStay(x), Live, mode' = mode \/ Live',
         \A id \in Procs \ {x} : Calm(id), x \in Procs => Cover(x)'
  PROVE  CoverInv'
<1>1. ASSUME NEW id \in Procs \ {x}
      PROVE  Cover(id)'
  BY DEF CoverInv, Cover, Calm, LocksStay, SlotsStay
<1>2. mode' \notin {"down", "boot"}
  BY DEF Live
<1>3. QED
  BY <1>1, <1>2 DEF CoverInv

(* The same records, the same users.                                       *)
LEMMA SameIsCalm ==
  ASSUME NEW id \in Procs, NoRevival, row'[id] = row[id],
         \/ stopper'[id] = stopper[id]
         \/ stopper[id].pc \notin {"write", "settle"} /\ stopper'[id].pc \notin {"write", "settle"},
         \A n \in 1..MaxLaunches :
           exec'[<<id, n>>].sup = exec[<<id, n>>].sup /\ exec'[<<id, n>>].p = exec[<<id, n>>].p,
         \A t \in Launchers :
           launcher[t].id = id \/ launcher'[t].id = id => launcher'[t] = launcher[t]
  PROVE  Calm(id)
<1>1. SlotUser(id)' <=> SlotUser(id)
  BY DEF SlotUser
<1>2. LockUser(id)' => LockUser(id)
  BY DEF LockUser
<1>3. ASSUME NEW t \in Launchers, launcher'[t].id = id, Lockless(t, launcher[t], id)'
      PROVE  Lockless(t, launcher[t], id)
  <2>1. launcher'[t] = launcher[t]
    BY <1>3
  <2>2. Cut(t, launcher[t]) => Cut(t, launcher[t])'
    BY <2>1 DEF Cut, NoRevival
  <2>3. QED
    BY <1>3, <2>1, <2>2 DEF Lockless
<1>4. LetGo(id)' => LetGo(id)
  BY <1>3 DEF LetGo, NoRevival
<1>5. SlotReason(id) => SlotReason(id)'
  BY <1>1 DEF SlotReason
<1>6. QED
  BY <1>1, <1>2, <1>4, <1>5 DEF Calm

----------------------------------------------------------------------------
(* The steps of a launcher.                                                *)

(* What a launcher has for its execution.                                  *)
LEMMA LauncherHas ==
  ASSUME OwnInv, CoverInv, NEW t \in Launchers, NEW x \in Procs, launcher[t].id = x
  PROVE  /\ launcher[t].pc \in UsingPCs => Holds(x)
         /\ launcher[t].pc \in LockPCs => HoldsLock(x)
         /\ Over(row[x].state) \/ Lockless(t, launcher[t], x) => Free(x)
         /\ Def[x].type = "service" /\ Holds(x)
              => launcher[t].pc \in UsingPCs \/ row[x].state = "RETRYING"
         /\ LocksOwn
<1>1. Cover(x) /\ OwnedByLauncher(x, t) /\ LocksOwn
  BY WhoLaunches DEF CoverInv
<1>2. SlotUser(x) <=> launcher[t].pc \in UsingPCs
  BY <1>1 DEF SlotUser, OwnedByLauncher, NoAttempt, Attempting
<1>3. launcher[t].pc \in LockPCs => LockUser(x)
  BY DEF LockUser
<1>4. Over(row[x].state) \/ Lockless(t, launcher[t], x) => LetGo(x)
  BY DEF LetGo
<1>5. stopper[x].pc # "settle"
  BY <1>1 DEF OwnedByLauncher, Cancelling
<1>6. QED
  BY <1>1, <1>2, <1>3, <1>4, <1>5 DEF Cover, SlotReason

(* What it must have when it goes on, or is done.                          *)
LEMMA LauncherCovers ==
  ASSUME DaemonInv, OwnInv, CoverInv, Live, NEW t \in Launchers, NEW x \in Procs, NEW l,
         launcher[t].id = x, launcher' = [launcher EXCEPT ![t] = l], l.id \in {0, x},
         UNCHANGED <<stopper, mode, hungup>>,
         \A id \in Procs \ {x} : row'[id] = row[id],
         \A h \in Handles : /\ exec'[h].sup = exec[h].sup
                            /\ h[1] # x => exec'[h].p = exec[h].p,
         LocksOwn', LocksStay(x), SlotsStay(x),
         l.id = x /\ l.pc \in UsingPCs => Holds(x)',
         l.id = x /\ l.pc \in LockPCs => HoldsLock(x)',
         Over(row'[x].state) \/ (l.id = x /\ Lockless(t, l, x)) => Free(x)',
         Def[x].type = "service" /\ Holds(x)'
           => (l.id = x /\ l.pc \in UsingPCs) \/ row'[x].state = "RETRYING"
  PROVE  CoverInv'
<1>1. launcher'[t] = l /\ \A u \in Launchers \ {t} : launcher'[u] = launcher[u]
  BY LauncherAlone DEF DaemonInv, SuperInv
<1>2. OwnedByLauncher(x, t)
  BY WhoLaunches
<1>3. \A u \in Launchers \ {t} : launcher'[u].id # x
  BY <1>1, <1>2 DEF OwnedByLauncher
<1>4. \A id \in Procs, n \in 1..MaxLaunches : <<id, n>> \in Handles /\ <<id, n>>[1] = id
  BY DEF Handles
<1>5. \A n \in 1..MaxLaunches : exec'[<<x, n>>].sup \notin UsingPhases
  BY <1>2, <1>4 DEF OwnedByLauncher, NoAttempt, Attempting
<1>6. stopper'[x].pc \notin {"write", "settle"}
  BY <1>2 DEF OwnedByLauncher, Cancelling
<1>7. ASSUME NEW id \in Procs \ {x}
      PROVE  Calm(id)
  <2>1. \A u \in Launchers :
          launcher[u].id = id \/ launcher'[u].id = id => launcher'[u] = launcher[u]
    BY <1>1, NobodyIsZero
  <2>2. \A n \in 1..MaxLaunches :
          exec'[<<id, n>>].sup = exec[<<id, n>>].sup /\ exec'[<<id, n>>].p = exec[<<id, n>>].p
    BY <1>4
  <2>3. QED
    BY <2>1, <2>2, SameIsCalm DEF NoRevival
<1>8. Cover(x)'
  <2>1. SlotUser(x)' <=> (l.id = x /\ l.pc \in UsingPCs)
    BY <1>1, <1>3, <1>5 DEF SlotUser
  <2>2. LockUser(x)' <=> (l.id = x /\ l.pc \in LockPCs)
    BY <1>1, <1>3, <1>5 DEF LockUser, LockPhases, UsingPhases
  <2>3. Lockless(t, l, x)' <=> Lockless(t, l, x)
    BY DEF Lockless, Cut
  <2>4. LetGo(x)' <=> (Over(row'[x].state) \/ (l.id = x /\ Lockless(t, l, x)))
    BY <1>1, <1>3, <1>5, <1>6, <2>3 DEF LetGo, UsingPhases
  <2>5. SlotReason(x)' <=> (SlotUser(x)' \/ row'[x].state = "RETRYING")
    BY <1>6 DEF SlotReason
  <2>6. QED
    BY <2>1, <2>2, <2>4, <2>5 DEF Cover
<1>9. QED
  BY <1>7, <1>8, CoverStep

(* A step that leaves slots and locks alone.                               *)
LEMMA LauncherGoesOnCovered ==
  ASSUME DaemonInv, OwnInv, CoverInv, Live, NEW t \in Launchers, NEW x \in Procs, NEW l,
         launcher[t].id = x, launcher' = [launcher EXCEPT ![t] = l], l.id = x,
         UNCHANGED <<stopper, mode, hungup, locks>>, UNCHANGED slotVars,
         \A id \in Procs \ {x} : row'[id] = row[id],
         \A h \in Handles : /\ exec'[h].sup = exec[h].sup
                            /\ h[1] # x => exec'[h].p = exec[h].p,
         l.pc \in UsingPCs <=> launcher[t].pc \in UsingPCs,
         l.pc \in LockPCs => launcher[t].pc \in LockPCs,
         Over(row'[x].state) \/ Lockless(t, l, x)
           => Over(row[x].state) \/ Lockless(t, launcher[t], x),
         row[x].state = "RETRYING" => l.pc \in UsingPCs \/ row'[x].state = "RETRYING"
  PROVE  CoverInv'
<1>1. /\ launcher[t].pc \in UsingPCs => Holds(x)
      /\ launcher[t].pc \in LockPCs => HoldsLock(x)
      /\ Over(row[x].state) \/ Lockless(t, launcher[t], x) => Free(x)
      /\ Def[x].type = "service" /\ Holds(x)
           => launcher[t].pc \in UsingPCs \/ row[x].state = "RETRYING"
      /\ LocksOwn
  BY LauncherHas
<1>2. /\ LocksOwn' /\ LocksStay(x) /\ SlotsStay(x)
      /\ HoldsLock(x)' <=> HoldsLock(x)
      /\ Free(x)' <=> Free(x)
      /\ Holds(x)' <=> Holds(x)
  BY <1>1, LockKept, SlotKept
<1>3. l.id \in {0, x}
  OBVIOUS
<1>4. QED
  BY <1>1, <1>2, <1>3, LauncherCovers

(* The launcher returns, and leaves nothing behind that it used.           *)
LEMMA LauncherDoneCovered ==
  ASSUME DaemonInv, OwnInv, CoverInv, Live, NEW t \in Launchers, NEW x \in Procs,
         launcher[t].id = x, Return(t),
         UNCHANGED <<stopper, mode, hungup, locks, exec>>,
         \A id \in Procs \ {x} : row'[id] = row[id],
         SlotsStay(x),
         Over(row'[x].state) => Over(row[x].state) \/ Lockless(t, launcher[t], x),
         Def[x].type = "service" /\ Holds(x)' => row'[x].state = "RETRYING"
  PROVE  CoverInv'
<1>1. PICK l : launcher' = [launcher EXCEPT ![t] = l] /\ l.id = 0
  <2>1. WITNESS IF t = Dispatcher THEN IdleLauncher ELSE DoneLauncher
  <2>2. QED
    BY <2>1 DEF Return, IdleLauncher, DoneLauncher
<1>2. Over(row[x].state) \/ Lockless(t, launcher[t], x) => Free(x)
  BY LauncherHas
<1>3. LocksOwn' /\ LocksStay(x) /\ (Free(x)' <=> Free(x))
  BY LockKept DEF CoverInv
<1>4. x # 0
  BY NobodyIsZero
<1>5. QED
  BY <1>1, <1>2, <1>3, <1>4, LauncherCovers

(* Where Goto, GotoWith and GotoFailed lead, and under which context.      *)
LandsWith(t, pc, p, d) ==
  \E l : /\ launcher' = [launcher EXCEPT ![t] = l]
         /\ l.id = launcher[t].id /\ l.pc = pc /\ l.p = p /\ l.detached = d

LEMMA LandingWith ==
  ASSUME LaunchersInv, NEW t \in Launchers, NEW pc, NEW p, NEW d
  PROVE  /\ Goto(t, pc) => LandsWith(t, pc, launcher[t].p, launcher[t].detached)
         /\ GotoWith(t, pc, p) => LandsWith(t, pc, p, launcher[t].detached)
         /\ GotoFailed(t, p, d)
              => LET f == StartFailure(launcher[t].id, p)
                 IN  LandsWith(t, IF IsTerminal(f.state) THEN "failunlock" ELSE "failwrite", f, d)
<1>0. launcher[t] \in Launcher
  BY DEF LaunchersInv, LauncherOK, StorableLauncher
<1>1. ASSUME Goto(t, pc)
      PROVE  LandsWith(t, pc, launcher[t].p, launcher[t].detached)
  <2> DEFINE l == [launcher[t] EXCEPT !.pc = pc]
  <2>1. launcher' = [launcher EXCEPT ![t] = l]
    BY <1>1 DEF Goto
  <2>2. /\ l.id = launcher[t].id /\ l.pc = pc /\ l.p = launcher[t].p
        /\ l.detached = launcher[t].detached
    BY <1>0 DEF Launcher
  <2>3. QED
    BY <2>1, <2>2 DEF LandsWith
<1>2. ASSUME GotoWith(t, pc, p)
      PROVE  LandsWith(t, pc, p, launcher[t].detached)
  <2> DEFINE l == [launcher[t] EXCEPT !.pc = pc, !.p = p]
  <2>1. launcher' = [launcher EXCEPT ![t] = l]
    BY <1>2 DEF GotoWith
  <2>2. /\ l.id = launcher[t].id /\ l.pc = pc /\ l.p = p
        /\ l.detached = launcher[t].detached
    BY <1>0 DEF Launcher
  <2>3. QED
    BY <2>1, <2>2 DEF LandsWith
<1> DEFINE f == StartFailure(launcher[t].id, p)
           q == IF IsTerminal(f.state) THEN "failunlock" ELSE "failwrite"
<1>3. ASSUME GotoFailed(t, p, d)
      PROVE  LandsWith(t, q, f, d)
  <2> DEFINE l == [launcher[t] EXCEPT !.p = f, !.detached = d, !.pc = q]
  <2>1. launcher' = [launcher EXCEPT ![t] = l]
    BY <1>3 DEF GotoFailed
  <2> HIDE DEF f, q
  <2>2. l.id = launcher[t].id /\ l.pc = q /\ l.p = f /\ l.detached = d
    BY <1>0 DEF Launcher
  <2>3. QED
    BY <2>1, <2>2 DEF LandsWith
<1>4. QED
  BY <1>1, <1>2, <1>3

(* Goto, GotoWith and GotoFailed, with slots and locks left alone.         *)
LEMMA LandsCovered ==
  ASSUME DaemonInv, OwnInv, CoverInv, Live, NEW t \in Launchers, NEW x \in Procs, launcher[t].id = x,
         NEW pc, NEW p, NEW d, LandsWith(t, pc, p, d),
         UNCHANGED <<stopper, mode, hungup, locks>>, UNCHANGED slotVars,
         \A id \in Procs \ {x} : row'[id] = row[id],
         \A h \in Handles : /\ exec'[h].sup = exec[h].sup
                            /\ h[1] # x => exec'[h].p = exec[h].p,
         pc \in UsingPCs <=> launcher[t].pc \in UsingPCs,
         pc \in LockPCs => launcher[t].pc \in LockPCs,
         Over(row'[x].state) => Over(row[x].state) \/ Lockless(t, launcher[t], x),
         \A l : l.pc = pc /\ l.p = p /\ l.detached = d /\ Lockless(t, l, x)
                  => Over(row[x].state) \/ Lockless(t, launcher[t], x),
         row[x].state = "RETRYING" => pc \in UsingPCs \/ row'[x].state = "RETRYING"
  PROVE  CoverInv'
<1>1. PICK l : /\ launcher' = [launcher EXCEPT ![t] = l]
               /\ l.id = x /\ l.pc = pc /\ l.p = p /\ l.detached = d
  BY DEF LandsWith
<1>2. Lockless(t, l, x) => Over(row[x].state) \/ Lockless(t, launcher[t], x)
  BY <1>1
<1>3. QED
  BY <1>1, <1>2, LauncherGoesOnCovered

(* Supervisor.Start, with startFailed and abandonStart.                    *)
LEMMA StartCovers ==
  ASSUME DaemonInv, OwnInv, CoverInv, NEW t \in Launchers, StartNext(t)
  PROVE  CoverInv'
<1>0. launcher[t].pc \notin {"idle", "done"} /\ Live
  BY DEF StartNext, StartDraining, StartAccepted, Fork, ForkFails, PersistRunning,
         PersistRunningFails, Register, AbandonStart, FailUnlock, FailWrite, FailSettle, At
<1>1. PICK x \in Procs :
        /\ launcher[t].id = x
        /\ LauncherCopy(t, launcher[t], row[x], exec[<<x, launches[x]>>], launches[x])
        /\ row[x] \in Process /\ launches[x] \in 0..MaxLaunches
  BY <1>0, InHand
<1>2. LaunchersInv /\ StoreInv /\ SlotsInv /\ LocksOwn
  BY DEF DaemonInv, SuperInv, CoverInv
<1>3. launches[x] # 0 => <<x, launches[x]>> \in Handles
  BY <1>1, SupervisorAssumption DEF Handles
<1> DEFINE p == launcher[t].p
           d == launcher[t].detached
           Frame == UNCHANGED <<stopper, mode, hungup>>
<1>4. CASE StartDraining(t) \/ StartAccepted(t) \/ PersistRunningFails(t)
  <2>1. Frame /\ UNCHANGED <<row, exec, locks>> /\ UNCHANGED slotVars
    BY <1>4 DEF StartDraining, StartAccepted, PersistRunningFails, storeVars
  <2>2. PICK pc : /\ LandsWith(t, pc, p, d) /\ pc \in {"release", "fork", "abandon"}
                  /\ launcher[t].pc \in {"start", "running"}
    BY <1>2, <1>4, LandingWith DEF StartDraining, StartAccepted, PersistRunningFails, At
  <2>3. /\ pc \in UsingPCs <=> launcher[t].pc \in UsingPCs
        /\ pc \in LockPCs => launcher[t].pc \in LockPCs
        /\ \A l : l.pc = pc => ~Lockless(t, l, x)
        /\ pc \in UsingPCs
    BY <2>2 DEF UsingPCs, LockPCs, Lockless
  <2>4. \A h \in Handles : exec'[h] = exec[h]
    BY <2>1
  <2> HIDE DEF p, d
  <2>5. QED
    BY <1>0, <1>1, <2>1, <2>2, <2>3, <2>4, LandsCovered
<1>5. CASE Fork(t)
  <2> DEFINE n == launches[x]
             q == [TransitionTo(p, "RUNNING", "") EXCEPT !.pid = n]
             e == [NoExec EXCEPT !.proc = "alive", !.p = q]
  <2>0. launcher[t].pc = "fork" /\ n # 0 /\ exec[<<x, n>>] = NoExec
    BY <1>1, <1>5 DEF Fork, At, LauncherCopy
  <2>1. /\ exec' = [exec EXCEPT ![<<x, n>>] = e] /\ LandsWith(t, "running", q, d)
        /\ Frame /\ UNCHANGED <<row, locks>> /\ UNCHANGED slotVars
    BY <1>1, <1>2, <1>5, LandingWith DEF Fork, storeVars
  <2>2. e.sup = NoExec.sup
    BY DEF NoExec
  <2> HIDE DEF e, q
  <2>3. \A h \in Handles : /\ exec'[h].sup = exec[h].sup
                           /\ h[1] # x => exec'[h].p = exec[h].p
    BY <1>3, <2>0, <2>1, <2>2 DEF DaemonInv, SuperInv, AttemptsInv
  <2>4. /\ "running" \in UsingPCs <=> launcher[t].pc \in UsingPCs
        /\ "running" \in LockPCs => launcher[t].pc \in LockPCs
        /\ \A l : l.pc = "running" => ~Lockless(t, l, x)
        /\ "running" \in UsingPCs
    BY <2>0 DEF UsingPCs, LockPCs, Lockless
  <2> HIDE DEF d
  <2>5. QED
    BY <1>0, <1>1, <2>1, <2>3, <2>4, LandsCovered
<1>6. ASSUME NEW q, NEW c, GotoFailed(t, q, c), launcher[t].pc \in {"fork", "abandon"}, Frame,
             UNCHANGED <<row, locks>>, UNCHANGED slotVars,
             \A h \in Handles : /\ exec'[h].sup = exec[h].sup
                                /\ h[1] # x => exec'[h].p = exec[h].p
      PROVE  CoverInv'
  <2> DEFINE f == StartFailure(x, q)
             pc == IF IsTerminal(f.state) THEN "failunlock" ELSE "failwrite"
  <2>1. LandsWith(t, pc, f, c)
    BY <1>1, <1>2, <1>6, LandingWith
  <2>2. /\ pc \in UsingPCs <=> launcher[t].pc \in UsingPCs
        /\ pc \in LockPCs => launcher[t].pc \in LockPCs
        /\ pc \in UsingPCs
    BY <1>6 DEF UsingPCs, LockPCs
  <2>3. \A l : l.pc = pc /\ l.p = f => ~Lockless(t, l, x)
    BY DEF Lockless
  <2> HIDE DEF pc, f
  <2>4. QED
    BY <1>0, <1>1, <1>6, <2>1, <2>2, <2>3, LandsCovered
<1>7. CASE ForkFails(t)
  <2>1. GotoFailed(t, p, d) /\ launcher[t].pc = "fork" /\ exec' = exec
        /\ Frame /\ UNCHANGED <<row, locks>> /\ UNCHANGED slotVars
    BY <1>7 DEF ForkFails, At, storeVars
  <2> HIDE DEF p, d
  <2>2. QED
    BY <1>6, <2>1
<1>8. CASE AbandonStart(t)
  <2> DEFINE n == launches[x]
             e == [NoExec EXCEPT !.proc = "gone"]
  <2>0. launcher[t].pc = "abandon" /\ n # 0 /\ p.pid = n /\ exec[<<x, n>>].sup = "none"
    BY <1>1, <1>8 DEF AbandonStart, At, LauncherCopy, Forked
  <2>1. /\ exec' = [exec EXCEPT ![<<x, n>>] = e] /\ GotoFailed(t, [p EXCEPT !.pid = 0], TRUE)
        /\ Frame /\ UNCHANGED <<row, locks>> /\ UNCHANGED slotVars
    BY <1>1, <1>8, <2>0 DEF AbandonStart, Handle, storeVars
  <2>2. e.sup = "none"
    BY DEF NoExec
  <2> HIDE DEF e
  <2>3. \A h \in Handles : /\ exec'[h].sup = exec[h].sup
                           /\ h[1] # x => exec'[h].p = exec[h].p
    BY <1>3, <2>0, <2>1, <2>2 DEF DaemonInv, SuperInv, AttemptsInv
  <2> HIDE DEF p
  <2>4. QED
    BY <1>6, <2>0, <2>1, <2>3
<1>9. CASE PersistRunning(t)
  <2>1. /\ launcher[t].pc = "running" /\ LandsWith(t, "register", p, d) /\ exec' = exec
        /\ Frame /\ locks' = locks /\ UNCHANGED slotVars /\ UpdateProcess(x, p)
    BY <1>1, <1>2, <1>9, LandingWith DEF PersistRunning, At
  <2>2. p.state = "RUNNING" /\ row[x].state = "STARTING"
    BY <1>1, <2>1 DEF LauncherCopy, Forked
  <2>3. row'[x] = p /\ \A id \in Procs \ {x} : row'[id] = row[id]
    BY <1>2, <2>1 DEF UpdateProcess, StoreInv
  <2>4. /\ "register" \in UsingPCs <=> launcher[t].pc \in UsingPCs
        /\ "register" \in LockPCs => launcher[t].pc \in LockPCs
        /\ \A l : l.pc = "register" => ~Lockless(t, l, x)
        /\ ~Over(row'[x].state) /\ row[x].state # "RETRYING"
    BY <2>1, <2>2, <2>3 DEF UsingPCs, LockPCs, Lockless, Over, IsTerminal, NONE
  <2> HIDE DEF p, d
  <2>5. QED
    BY <1>0, <1>1, <2>1, <2>3, <2>4, LandsCovered
<1>10. CASE FailUnlock(t)
  <2>1. /\ launcher[t].pc = "failunlock" /\ LandsWith(t, "failwrite", p, d)
        /\ exec' = exec /\ Frame /\ row' = row /\ UNCHANGED slotVars
        /\ IF Cut(t, launcher[t]) THEN locks' = locks ELSE ReleaseLock(x)
    BY <1>1, <1>2, <1>10, LandingWith DEF FailUnlock, At, Cut, CtxDone
  <2>2. PICK l : /\ launcher' = [launcher EXCEPT ![t] = l] /\ l.id = x
                 /\ l.pc = "failwrite" /\ l.p = p /\ l.detached = d
    BY <1>1, <2>1 DEF LandsWith
  <2>3. /\ LocksOwn' /\ LocksStay(x) /\ SlotsStay(x) /\ (Holds(x)' <=> Holds(x))
        /\ (Cut(t, launcher[t]) /\ (Free(x)' <=> Free(x))) \/ (~Cut(t, launcher[t]) /\ Free(x)')
    BY <1>2, <2>1, LockKept, LockGiven, SlotKept
  <2>4. /\ Cut(t, l) <=> Cut(t, launcher[t])
        /\ "failunlock" \in UsingPCs /\ "failwrite" \in UsingPCs /\ "failwrite" \notin LockPCs
    BY <2>2 DEF Cut, UsingPCs, LockPCs
  <2>5. Holds(x) /\ (Over(row[x].state) => Free(x))
    BY <1>1, <2>1, <2>4, LauncherHas
  <2>6. Over(row'[x].state) \/ (l.id = x /\ Lockless(t, l, x)) => Free(x)'
    BY <2>1, <2>2, <2>3, <2>4, <2>5 DEF Lockless
  <2>7. l.id \in {0, x} /\ \A id \in Procs \ {x} : row'[id] = row[id]
    BY <2>1, <2>2
  <2>8. \A h \in Handles : exec'[h] = exec[h]
    BY <2>1
  <2> HIDE DEF p, d
  <2>9. QED
    BY <1>0, <1>1, <2>1, <2>2, <2>3, <2>4, <2>5, <2>6, <2>7, <2>8, LauncherCovers
<1>11. CASE FailWrite(t)
  <2>1. /\ launcher[t].pc = "failwrite" /\ exec' = exec /\ Frame /\ locks' = locks
        /\ UNCHANGED slotVars
        /\ \/ Cut(t, launcher[t]) /\ LandsWith(t, "release", p, d) /\ row' = row
           \/ ~Cut(t, launcher[t]) /\ LandsWith(t, "failsettle", p, d) /\ UpdateProcess(x, p)
    BY <1>1, <1>2, <1>11, LandingWith DEF FailWrite, At, Cut, CtxDone
  <2>2. row[x].state = "STARTING" /\ p.state \in {"RETRYING", "FAILED"}
    BY <1>1, <2>1 DEF LauncherCopy
  <2>3. /\ \A id \in Procs \ {x} : row'[id] = row[id]
        /\ row'[x] = row[x] \/ (~Cut(t, launcher[t]) /\ row'[x] = p)
    BY <1>2, <2>1 DEF UpdateProcess, StoreInv
  <2>4. Over(row'[x].state) => Lockless(t, launcher[t], x)
    BY <2>1, <2>2, <2>3 DEF Lockless, Over, IsTerminal, NONE
  <2>5. PICK pc \in {"release", "failsettle"} : LandsWith(t, pc, p, d)
    BY <2>1
  <2>6. /\ pc \in UsingPCs <=> launcher[t].pc \in UsingPCs
        /\ pc \in LockPCs => launcher[t].pc \in LockPCs
        /\ \A l : l.pc = pc => ~Lockless(t, l, x)
        /\ pc \in UsingPCs
    BY <2>1 DEF UsingPCs, LockPCs, Lockless
  <2>7. \A h \in Handles : exec'[h] = exec[h]
    BY <2>1
  <2> HIDE DEF p, d
  <2>8. QED
    BY <1>0, <1>1, <2>1, <2>3, <2>4, <2>5, <2>6, <2>7, LandsCovered
<1>12. CASE FailSettle(t)
  <2>1. /\ launcher[t].pc = "failsettle" /\ UNCHANGED <<exec, locks>> /\ Frame /\ row' = row
        /\ OnExecutionSettled(x, p.state) /\ Return(t)
    BY <1>1, <1>12 DEF FailSettle, At, storeVars
  <2>2. p = row[x]
    BY <1>1, <2>1 DEF LauncherCopy
  <2>3. SlotsStay(x) /\ (p.state = "RETRYING" \/ ~Holds(x)')
    BY <1>2, <2>1, SlotSettled
  <2>4. Def[x].type = "service" /\ Holds(x)' => row'[x].state = "RETRYING"
    BY <2>1, <2>2, <2>3
  <2>5. \A id \in Procs \ {x} : row'[id] = row[id]
    BY <2>1
  <2>6. Over(row'[x].state) => Over(row[x].state)
    BY <2>1
  <2>7. QED
    BY <1>0, <1>1, <2>1, <2>3, <2>4, <2>5, <2>6, LauncherDoneCovered
<1>13. CASE Register(t)
  <2> DEFINE n == launches[x]
             e == [exec[<<x, n>>] EXCEPT !.sup = "wait",
                                         !.timer = IF Def[x].timeout THEN "armed" ELSE "off"]
  <2>0. launcher[t].pc = "register" /\ n # 0 /\ p.pid = n /\ row[x].state = "RUNNING"
    BY <1>1, <1>13 DEF Register, At, LauncherCopy, Forked
  <2>1. /\ exec' = [exec EXCEPT ![<<x, n>>] = e]
        /\ Return(t) /\ Frame /\ UNCHANGED <<row, locks>> /\ UNCHANGED slotVars
    BY <1>1, <1>13, <2>0 DEF Register, Handle, storeVars
  <2>2. exec[<<x, n>>] \in Exec
    BY <1>3, <2>0 DEF DaemonInv, SuperInv, AttemptsInv, StorableExec
  <2>3. e.sup = "wait"
    BY <2>2 DEF Exec
  <2> HIDE DEF e
  <2>4. exec'[<<x, n>>].sup = "wait" /\ \A h \in Handles : h # <<x, n>> => exec'[h] = exec[h]
    BY <1>3, <2>0, <2>1, <2>3 DEF DaemonInv, SuperInv, AttemptsInv
  <2>5. PICK l : launcher' = [launcher EXCEPT ![t] = l] /\ l.id = 0
    <3>1. WITNESS IF t = Dispatcher THEN IdleLauncher ELSE DoneLauncher
    <3>2. QED
      BY <2>1, <3>1 DEF Return, IdleLauncher, DoneLauncher
  <2>6. launcher'[t].id = 0 /\ \A u \in Launchers \ {t} : launcher'[u] = launcher[u]
    BY <1>2, <2>5, LauncherAlone
  <2>7. \A id \in Procs, m \in 1..MaxLaunches : <<id, m>> \in Handles
    BY DEF Handles
  <2>8. OwnedByLauncher(x, t)
    BY <1>1, WhoLaunches
  <2>9. n \in 1..MaxLaunches
    BY <1>1, <2>0, SupervisorAssumption
  <2> HIDE DEF n
  <2>10. ASSUME NEW id \in Procs \ {x}
         PROVE  Calm(id)
    <3>1. \A m \in 1..MaxLaunches : exec'[<<id, m>>] = exec[<<id, m>>]
      BY <2>4, <2>7
    <3>2. \A u \in Launchers :
            launcher[u].id = id \/ launcher'[u].id = id => launcher'[u] = launcher[u]
      BY <1>1, <2>6, NobodyIsZero
    <3>3. QED
      BY <2>1, <3>1, <3>2, SameIsCalm DEF NoRevival
  <2>11. Cover(x)'
    <3>1. Holds(x) /\ HoldsLock(x)
      BY <1>1, <2>0, LauncherHas DEF UsingPCs, LockPCs
    <3>2. Holds(x)' /\ HoldsLock(x)'
      BY <1>2, <2>1, <3>1, LockKept, SlotKept
    <3>3. \A u \in Launchers : launcher'[u].id # x
      BY <2>6, <2>8, NobodyIsZero DEF OwnedByLauncher
    <3>4. \A m \in 1..MaxLaunches : m # n => exec'[<<x, m>>].sup \notin UsingPhases
      BY <2>4, <2>7, <2>8 DEF OwnedByLauncher, NoAttempt, Attempting
    <3>5. stopper'[x].pc # "write"
      BY <2>1, <2>8 DEF OwnedByLauncher, Cancelling
    <3>6. ~LetGo(x)'
      BY <2>0, <2>1, <2>4, <2>9, <3>3, <3>4, <3>5
         DEF LetGo, Over, IsTerminal, NONE, UsingPhases
    <3>7. SlotUser(x)'
      BY <2>4, <2>9 DEF SlotUser, UsingPhases
    <3>8. QED
      BY <3>2, <3>6, <3>7 DEF Cover, SlotReason
  <2>12. LocksOwn' /\ LocksStay(x) /\ SlotsStay(x)
    BY <1>2, <2>1, LockKept, SlotKept
  <2>13. QED
    BY <1>0, <2>1, <2>10, <2>11, <2>12, CoverStep
<1>14. QED
  BY <1>4, <1>5, <1>7, <1>8, <1>9, <1>10, <1>11, <1>12, <1>13 DEF StartNext

(* The steps of admit and launch.                                          *)
LEMMA AdmitCovers ==
  ASSUME DaemonInv, OwnInv, CoverInv, NEW t \in Launchers, AdmitNext(t)
  PROVE  CoverInv'
<1>0. launcher[t].pc \notin {"idle", "done"} /\ Live
  BY DEF AdmitNext, TakeSlot, TakeLock, YieldSlot, WriteStarting, ReleaseSlot, Unlock, At
<1>1. PICK x \in Procs :
        /\ launcher[t].id = x
        /\ LauncherCopy(t, launcher[t], row[x], exec[<<x, launches[x]>>], launches[x])
        /\ row[x] \in Process
  BY <1>0, InHand
<1>2. LaunchersInv /\ StoreInv /\ SlotsInv /\ LocksOwn
  BY DEF DaemonInv, SuperInv, CoverInv
<1> DEFINE p == launcher[t].p
           d == launcher[t].detached
           Frame == UNCHANGED <<exec, stopper, mode, hungup>>
<1>3. /\ launcher[t].pc \in UsingPCs => Holds(x)
      /\ launcher[t].pc \in LockPCs => HoldsLock(x)
      /\ Over(row[x].state) \/ Lockless(t, launcher[t], x) => Free(x)
      /\ Def[x].type = "service" /\ Holds(x)
           => launcher[t].pc \in UsingPCs \/ row[x].state = "RETRYING"
  BY <1>1, LauncherHas
<1>4. launcher[t].pc \in {"slot", "lock", "yield", "unslot", "starting", "release", "unlock"}
        => ~Over(row[x].state) /\ (t # Dispatcher => row[x].state # "RETRYING")
  <2>1. launcher[t].pc \in {"slot", "lock", "yield", "unslot", "starting", "release", "unlock"}
          => row[x].state \in Startable(t) \cup {"STARTING"}
    BY <1>1 DEF LauncherCopy
  <2>2. QED
    BY <2>1 DEF Startable, Over, IsTerminal, NONE
(* A step that changes no attempt and leads on, to pc.                      *)
<1>5. ASSUME Frame, row' = row, ~Over(row[x].state), NEW pc, NEW q, LandsWith(t, pc, q, d),
             LocksOwn', LocksStay(x), SlotsStay(x),
             pc \in UsingPCs => Holds(x)', pc \in LockPCs => HoldsLock(x)',
             \A l : l.pc = pc /\ l.p = q /\ l.detached = d /\ Lockless(t, l, x) => Free(x)',
             Def[x].type = "service" /\ Holds(x)' => pc \in UsingPCs \/ row[x].state = "RETRYING"
      PROVE  CoverInv'
  <2>1. PICK l : /\ launcher' = [launcher EXCEPT ![t] = l]
                 /\ l.id = x /\ l.pc = pc /\ l.p = q /\ l.detached = d
    BY <1>1, <1>5 DEF LandsWith
  <2>2. Lockless(t, l, x) => Free(x)'
    BY <1>5, <2>1
  <2>3. /\ l.id \in {0, x} /\ row'[x] = row[x]
        /\ \A id \in Procs \ {x} : row'[id] = row[id]
        /\ \A h \in Handles : exec'[h] = exec[h]
    BY <1>5, <2>1
  <2> HIDE DEF p, d
  <2>4. QED
    BY <1>0, <1>1, <1>5, <2>1, <2>2, <2>3, LauncherCovers
(* One that leaves slots and locks alone too.                              *)
<1>6. ASSUME Frame, row' = row, ~Over(row[x].state), NEW pc, NEW q, LandsWith(t, pc, q, d),
             locks' = locks, UNCHANGED slotVars,
             pc \in UsingPCs <=> launcher[t].pc \in UsingPCs,
             pc \in LockPCs => launcher[t].pc \in LockPCs,
             \A l : l.pc = pc /\ l.p = q /\ l.detached = d /\ Lockless(t, l, x) => Free(x)
      PROVE  CoverInv'
  <2>1. /\ LocksOwn' /\ LocksStay(x) /\ SlotsStay(x)
        /\ HoldsLock(x)' <=> HoldsLock(x)
        /\ Free(x)' <=> Free(x)
        /\ Holds(x)' <=> Holds(x)
    BY <1>2, <1>6, LockKept, SlotKept
  <2> HIDE DEF p, d
  <2>2. QED
    BY <1>3, <1>5, <1>6, <2>1
<1>7. ASSUME Frame, row' = row, locks' = locks, Return(t), SlotsStay(x),
             Def[x].type = "service" /\ Holds(x)' => row[x].state = "RETRYING"
      PROVE  CoverInv'
  <2>1. /\ row'[x] = row[x] /\ \A id \in Procs \ {x} : row'[id] = row[id]
        /\ UNCHANGED <<stopper, mode, hungup, locks, exec>>
    BY <1>7
  <2>2. QED
    BY <1>0, <1>1, <1>7, <2>1, LauncherDoneCovered
<1>10. CASE TakeSlot(t)
  <2>1. launcher[t].pc = "slot" /\ Frame /\ row' = row /\ locks' = locks
    BY <1>10 DEF TakeSlot, At, storeVars
  <2>2. LocksOwn' /\ LocksStay(x) /\ (Free(x)' <=> Free(x)) /\ (HoldsLock(x)' <=> HoldsLock(x))
    BY <1>2, <2>1, LockKept
  <2>3. "slot" \notin UsingPCs /\ "lock" \in UsingPCs /\ "lock" \notin LockPCs
        /\ {"unclaim", "park"} \cap (UsingPCs \cup LockPCs) = {}
    BY DEF UsingPCs, LockPCs
  <2>4. CASE Acquire(x, Def[x].worker) /\ Goto(t, "lock")
    <3>1. Holds(x)' /\ SlotsStay(x)
      BY <1>2, <2>4, SupervisorAssumption, SlotTaken
    <3>2. LandsWith(t, "lock", p, d) /\ \A l : l.pc = "lock" => ~Lockless(t, l, x)
      BY <1>2, <2>4, LandingWith DEF Lockless
    <3> HIDE DEF p, d
    <3>3. QED
      BY <1>4, <1>5, <2>1, <2>2, <2>3, <3>1, <3>2
  <2>5. CASE ~CanAcquire(x, Def[x].worker) /\ UNCHANGED slotVars
    <3>1. ~Holds(x) /\ ~Holds(x)' /\ SlotsStay(x)
      BY <2>5, SlotKept DEF CanAcquire
    <3>2. CASE Return(t)
      BY <1>7, <2>1, <3>1, <3>2
    <3>3. CASE Goto(t, "unclaim")
      <4>1. LandsWith(t, "unclaim", p, d) /\ \A l : l.pc = "unclaim" => ~Lockless(t, l, x)
        BY <1>2, <3>3, LandingWith DEF Lockless
      <4> HIDE DEF p, d
      <4>2. QED
        BY <1>4, <1>6, <2>1, <2>3, <2>5, <4>1
    <3>4. CASE GotoPark(t) /\ t # Dispatcher /\ ~(Def[x].lock # NoLock /\ Def[x].reject)
      <4>1. LandsWith(t, "park", Parked(x, p), d)
        BY <1>1, <1>2, <3>4, LandingWith DEF GotoPark
      <4>2. Lockless(t, launcher[t], x)
        BY <2>1, <3>4, DefAssumption DEF Lockless
      <4> HIDE DEF p, d
      <4>3. QED
        BY <1>3, <1>4, <1>6, <2>1, <2>3, <2>5, <4>1, <4>2
    <3>5. QED
      BY <1>1, <1>10, <2>1, <2>5, <3>2, <3>3, <3>4 DEF TakeSlot
  <2>6. QED
    BY <1>1, <1>10, <2>4, <2>5 DEF TakeSlot
<1>11. CASE TakeLock(t)
  <2>1. launcher[t].pc = "lock" /\ Frame /\ row' = row /\ UNCHANGED slotVars
    BY <1>11 DEF TakeLock, At
  <2>2. {"lock", "starting", "unslot", "yield"} \subseteq UsingPCs
        /\ "unslot" \notin LockPCs /\ "yield" \notin LockPCs
    BY DEF UsingPCs, LockPCs
  <2>3. SlotsStay(x) /\ Holds(x) /\ Holds(x)'
    BY <1>3, <2>1, <2>2, SlotKept
  <2>4. CASE LockAvailable(x) /\ AcquireLock(x) /\ Goto(t, "starting")
    <3>1. HoldsLock(x)' /\ LocksOwn' /\ LocksStay(x)
      BY <1>2, <2>4, LockTaken
    <3>2. LandsWith(t, "starting", p, d) /\ \A l : l.pc = "starting" => ~Lockless(t, l, x)
      BY <1>2, <2>4, LandingWith DEF Lockless
    <3> HIDE DEF p, d
    <3>3. QED
      BY <1>4, <1>5, <2>1, <2>2, <2>3, <3>1, <3>2
  <2>5. CASE ~LockAvailable(x) /\ locks' = locks /\ Goto(t, "yield")
    <3>1. Free(x)
      BY <1>2, <2>5, NobodyIsZero DEF LockAvailable, LocksOwn, Free
    <3>2. LandsWith(t, "yield", p, d)
      BY <1>2, <2>5, LandingWith
    <3> HIDE DEF p, d
    <3>3. QED
      BY <1>4, <1>6, <2>1, <2>2, <2>5, <3>1, <3>2
  <2>6. CASE locks' = locks /\ Goto(t, "unslot")
    <3>1. LandsWith(t, "unslot", p, d) /\ \A l : l.pc = "unslot" => ~Lockless(t, l, x)
      BY <1>2, <2>6, LandingWith DEF Lockless
    <3> HIDE DEF p, d
    <3>2. QED
      BY <1>4, <1>6, <2>1, <2>2, <2>6, <3>1
  <2>7. QED
    BY <1>1, <1>11, <2>4, <2>5, <2>6 DEF TakeLock
<1>12. CASE YieldSlot(t)
  <2>1. launcher[t].pc \in {"yield", "unslot"} /\ Frame /\ row' = row /\ locks' = locks
        /\ Release(x)
    BY <1>1, <1>12 DEF YieldSlot, At, storeVars
  <2>2. LocksOwn' /\ LocksStay(x) /\ (Free(x)' <=> Free(x))
    BY <1>2, <2>1, LockKept
  <2>3. ~Holds(x)' /\ SlotsStay(x)
    BY <1>2, <2>1, SlotGiven
  <2>4. CASE launcher[t].pc = "yield" /\ GotoPark(t)
    <3>1. LandsWith(t, "park", Parked(x, p), d) /\ "park" \notin UsingPCs /\ "park" \notin LockPCs
      BY <1>1, <1>2, <2>4, LandingWith DEF GotoPark, UsingPCs, LockPCs
    <3>2. Lockless(t, launcher[t], x)
      BY <2>4 DEF Lockless
    <3> HIDE DEF p, d
    <3>3. QED
      BY <1>3, <1>4, <1>5, <2>1, <2>2, <2>3, <3>1, <3>2
  <2>5. CASE Return(t)
    BY <1>7, <2>1, <2>3, <2>5
  <2>6. QED
    BY <1>12, <2>4, <2>5 DEF YieldSlot
<1>13. CASE WriteStarting(t)
  <2>1. launcher[t].pc = "starting" /\ Frame /\ locks' = locks /\ UNCHANGED slotVars
    BY <1>13 DEF WriteStarting, At
  <2>2. {"release", "starting", "start"} \subseteq UsingPCs
        /\ {"starting", "start"} \subseteq LockPCs /\ "release" \notin LockPCs
    BY DEF UsingPCs, LockPCs
  <2>3. CASE Goto(t, "release") /\ row' = row
    <3>1. LandsWith(t, "release", p, d) /\ \A l : l.pc = "release" => ~Lockless(t, l, x)
      BY <1>2, <2>3, LandingWith DEF Lockless
    <3> HIDE DEF p, d
    <3>2. QED
      BY <1>4, <1>6, <2>1, <2>2, <2>3, <3>1
  <2>4. CASE UpdateProcess(x, Launched(p)) /\ GotoWith(t, "start", Launched(p))
    <3> DEFINE q == Launched(p)
    <3>1. p = row[x] /\ row[x].state \in Waiting
      BY <1>1, <2>1 DEF LauncherCopy, Startable, Waiting
    <3>2. q.state = "STARTING"
      BY <1>1, <3>1, LaunchedEdge
    <3> HIDE DEF q
    <3>3. row'[x] = q /\ \A id \in Procs \ {x} : row'[id] = row[id]
      BY <1>2, <2>4 DEF UpdateProcess, StoreInv, q
    <3>4. LandsWith(t, "start", q, d) /\ \A l : l.pc = "start" => ~Lockless(t, l, x)
      BY <1>2, <2>4, LandingWith DEF Lockless, q
    <3>5. ~Over(row'[x].state) /\ \A h \in Handles : exec'[h] = exec[h]
      BY <2>1, <3>2, <3>3 DEF Over, IsTerminal, NONE
    <3> HIDE DEF p, d
    <3>6. QED
      BY <1>0, <1>1, <2>1, <2>2, <3>3, <3>4, <3>5, LandsCovered
  <2>5. QED
    BY <1>1, <1>13, <2>3, <2>4 DEF WriteStarting
<1>14. CASE ReleaseSlot(t)
  <2>1. launcher[t].pc = "release" /\ Frame /\ row' = row /\ locks' = locks
        /\ Release(x) /\ LandsWith(t, "unlock", p, d)
    BY <1>1, <1>2, <1>14, LandingWith DEF ReleaseSlot, At, storeVars
  <2>2. LocksOwn' /\ LocksStay(x)
    BY <1>2, <2>1, LockKept
  <2>3. ~Holds(x)' /\ SlotsStay(x)
    BY <1>2, <2>1, SlotGiven
  <2>4. "unlock" \notin UsingPCs /\ "unlock" \notin LockPCs
        /\ \A l : l.pc = "unlock" => ~Lockless(t, l, x)
    BY DEF UsingPCs, LockPCs, Lockless
  <2> HIDE DEF p, d
  <2>5. QED
    BY <1>4, <1>5, <2>1, <2>2, <2>3, <2>4
<1>15. CASE Unlock(t)
  <2>1. launcher[t].pc = "unlock" /\ Frame /\ row' = row /\ UNCHANGED slotVars /\ Return(t)
        /\ (locks' = locks \/ ReleaseLock(x))
    BY <1>1, <1>15 DEF Unlock, At
  <2>2. LocksOwn' /\ LocksStay(x)
    BY <1>2, <2>1, LockKept, LockGiven
  <2>3. SlotsStay(x) /\ (Holds(x)' <=> Holds(x))
    BY <2>1, SlotKept
  <2>4. PICK l : launcher' = [launcher EXCEPT ![t] = l] /\ l.id = 0
    <3>1. WITNESS IF t = Dispatcher THEN IdleLauncher ELSE DoneLauncher
    <3>2. QED
      BY <2>1, <3>1 DEF Return, IdleLauncher, DoneLauncher
  <2>5. "unlock" \notin UsingPCs /\ ~Over(row'[x].state) /\ x # 0 /\ row'[x] = row[x]
        /\ (\A id \in Procs \ {x} : row'[id] = row[id])
        /\ \A h \in Handles : exec'[h] = exec[h]
    BY <1>4, <2>1, NobodyIsZero DEF UsingPCs
  <2>6. Def[x].type = "service" /\ Holds(x)' => row'[x].state = "RETRYING"
    BY <1>3, <2>1, <2>3, <2>5
  <2> HIDE DEF p, d
  <2>7. QED
    BY <1>0, <1>1, <2>1, <2>2, <2>3, <2>4, <2>5, <2>6, LauncherCovers
<1>16. QED
  BY <1>10, <1>11, <1>12, <1>13, <1>14, <1>15 DEF AdmitNext

(* Only a worker with lock_conflict: reject claims its lock.               *)
Rejects(id) == Def[id].lock # NoLock /\ Def[id].reject

ClaimInv == \A t \in Launchers : launcher[t].pc = "claim" => Rejects(launcher[t].id)

LEMMA ClaimMoves ==
  ASSUME LaunchersInv, ClaimInv, NEW t \in Launchers, NEW l,
         launcher' = [launcher EXCEPT ![t] = l], l.pc = "claim" => Rejects(l.id)
  PROVE  ClaimInv'
<1>1. launcher'[t] = l /\ \A u \in Launchers \ {t} : launcher'[u] = launcher[u]
  BY LauncherAlone
<1>2. QED
  BY <1>1 DEF ClaimInv, Rejects

(* A step that does not lead to a claim.                                   *)
Elsewhere(t) ==
  \/ \E pc \in LauncherPCs \ {"claim"} : Goto(t, pc)
  \/ \E pc \in LauncherPCs \ {"claim"} : \E p : GotoWith(t, pc, p)
  \/ \E p, d : GotoFailed(t, p, d)
  \/ Return(t)

LEMMA ElsewhereNoClaim ==
  ASSUME LaunchersInv, ClaimInv, NEW t \in Launchers, Elsewhere(t)
  PROVE  ClaimInv'
<1>1. ASSUME NEW c, c # "claim", NEW q, NEW e, LandsWith(t, c, q, e)
      PROVE  ClaimInv'
  BY <1>1, ClaimMoves DEF LandsWith
<1>2. ASSUME NEW pc \in LauncherPCs \ {"claim"}, NEW p, Goto(t, pc) \/ GotoWith(t, pc, p)
      PROVE  ClaimInv'
  BY <1>1, <1>2, LandingWith
<1>3. ASSUME NEW p, NEW d, GotoFailed(t, p, d)
      PROVE  ClaimInv'
  <2> DEFINE f == StartFailure(launcher[t].id, p)
             c == IF IsTerminal(f.state) THEN "failunlock" ELSE "failwrite"
  <2>1. LandsWith(t, c, f, d) /\ c # "claim"
    BY <1>3, LandingWith
  <2> HIDE DEF c, f
  <2>2. QED
    BY <1>1, <2>1
<1>4. CASE Return(t)
  <2>1. PICK l : launcher' = [launcher EXCEPT ![t] = l] /\ l.pc # "claim"
    <3>1. WITNESS IF t = Dispatcher THEN IdleLauncher ELSE DoneLauncher
    <3>2. QED
      BY <1>4, <3>1 DEF Return, IdleLauncher, DoneLauncher
  <2>2. QED
    BY <2>1, ClaimMoves
<1>5. QED
  BY <1>2, <1>3, <1>4 DEF Elsewhere

LEMMA ClaimStep ==
  ASSUME DaemonInv, OwnInv, ClaimInv, [Next]_vars
  PROVE  ClaimInv'
<1>0. LaunchersInv
  BY DEF DaemonInv, SuperInv
<1>1. CASE UNCHANGED launcher
  BY <1>1 DEF ClaimInv
<1>a. \A pc \in {"create", "conflict", "slot", "unclaim", "park", "lock", "yield", "unslot",
                 "starting", "start", "fork", "running", "register", "abandon", "failunlock",
                 "failwrite", "failsettle", "release", "unlock", "expire", "expired"} :
        pc \in LauncherPCs \ {"claim"}
  BY DEF LauncherPCs
<1>2. ASSUME NEW t \in Launchers, StartNext(t)
      PROVE  ClaimInv'
  <2>1. CASE StartDraining(t) \/ StartAccepted(t) \/ PersistRunningFails(t) \/ PersistRunning(t)
    BY <1>0, <1>a, <2>1, ElsewhereNoClaim
       DEF Elsewhere, StartDraining, StartAccepted, PersistRunningFails, PersistRunning
  <2>2. CASE Fork(t) \/ Register(t)
    BY <1>0, <1>a, <2>2, ElsewhereNoClaim DEF Elsewhere, Fork, Register
  <2>3. CASE ForkFails(t) \/ AbandonStart(t)
    BY <1>0, <2>3, ElsewhereNoClaim DEF Elsewhere, ForkFails, AbandonStart
  <2>4. CASE FailUnlock(t) \/ FailWrite(t) \/ FailSettle(t)
    BY <1>0, <1>a, <2>4, ElsewhereNoClaim DEF Elsewhere, FailUnlock, FailWrite, FailSettle
  <2>5. QED
    BY <1>2, <2>1, <2>2, <2>3, <2>4 DEF StartNext
<1>3. ASSUME NEW t \in Launchers, AdmitNext(t)
      PROVE  ClaimInv'
  <2>1. GotoPark(t) => ClaimInv'
    BY <1>0, <1>a, ElsewhereNoClaim DEF Elsewhere, GotoPark
  <2>2. CASE TakeSlot(t)
    BY <1>0, <1>a, <2>1, <2>2, ElsewhereNoClaim DEF Elsewhere, TakeSlot
  <2>3. CASE TakeLock(t)
    BY <1>0, <1>a, <2>3, ElsewhereNoClaim DEF Elsewhere, TakeLock
  <2>4. CASE YieldSlot(t)
    BY <1>0, <2>1, <2>4, ElsewhereNoClaim DEF Elsewhere, YieldSlot
  <2>5. CASE WriteStarting(t)
    BY <1>0, <1>a, <2>5, ElsewhereNoClaim DEF Elsewhere, WriteStarting
  <2>6. CASE ReleaseSlot(t) \/ Unlock(t)
    BY <1>0, <1>a, <2>6, ElsewhereNoClaim DEF Elsewhere, ReleaseSlot, Unlock
  <2>7. QED
    BY <1>3, <2>2, <2>3, <2>4, <2>5, <2>6 DEF AdmitNext
<1>4. ASSUME NEW t \in Launchers,
             \/ Claim(t) \/ rejectLocked(t) \/ Unclaim(t) \/ park(t)
             \/ ExpireUnlock(t) \/ ExpireWrite(t)
      PROVE  ClaimInv'
  <2>1. CASE Claim(t)
    BY <1>0, <1>a, <2>1, ElsewhereNoClaim DEF Elsewhere, Claim
  <2>2. CASE rejectLocked(t) \/ park(t) \/ ExpireWrite(t)
    BY <1>0, <2>2, ElsewhereNoClaim DEF Elsewhere, rejectLocked, park, ExpireWrite, WriteAndReturn
  <2>3. CASE Unclaim(t) \/ ExpireUnlock(t)
    BY <1>0, <1>a, <2>3, ElsewhereNoClaim DEF Elsewhere, Unclaim, ExpireUnlock, GotoPark
  <2>4. QED
    BY <1>4, <2>1, <2>2, <2>3
<1>5. ASSUME NEW t \in Procs, Create(t)
      PROVE  ClaimInv'
  <2>1. t \in Launchers /\ t # Dispatcher
    BY NobodyIsZero DEF Launchers, Dispatcher
  <2>2. launcher[t].id = t
    BY <1>5, <2>1 DEF Create, At, OwnInv, LaunchersShape, Busy
  <2>3. CASE GotoWith(t, "claim", NewProcess) /\ Rejects(t)
    BY <1>0, <2>1, <2>2, <2>3, LandingWith, ClaimMoves DEF LandsWith
  <2>4. CASE Return(t) \/ GotoWith(t, "slot", NewProcess)
    BY <1>0, <1>a, <2>1, <2>4, ElsewhereNoClaim DEF Elsewhere
  <2>5. QED
    BY <1>5, <2>3, <2>4 DEF Create, Rejects
<1>6. ASSUME NEW t \in Procs, Submit(t)
      PROVE  ClaimInv'
  <2>1. launcher[t] \in Launcher /\ t \in Launchers
    BY <1>0 DEF Launchers, LaunchersInv, LauncherOK, StorableLauncher
  <2>2. PICK l : launcher' = [launcher EXCEPT ![t] = l] /\ l.pc # "claim"
    <3>1. CASE Return(t)
      <4>1. WITNESS IF t = Dispatcher THEN IdleLauncher ELSE DoneLauncher
      <4>2. QED
        BY <3>1, <4>1 DEF Return, DoneLauncher, IdleLauncher
    <3>2. CASE launcher' = [launcher EXCEPT ![t].pc = "create", ![t].id = t]
      <4>1. WITNESS [launcher[t] EXCEPT !.pc = "create", !.id = t]
      <4>2. QED
        BY <2>1, <3>2, <4>1 DEF Launcher
    <3>3. QED
      BY <1>6, <3>1, <3>2 DEF Submit
  <2>3. QED
    BY <1>0, <2>1, <2>2, ClaimMoves
<1>7. ASSUME NEW id \in todo, NEW expired \in BOOLEAN, DispatchNext(id, expired)
      PROVE  ClaimInv'
  <2>1. PICK l : launcher' = [launcher EXCEPT ![Dispatcher] = l] /\ l.pc # "claim"
    <3>1. WITNESS [IdleLauncher EXCEPT
              !.id = id,
              !.pc = IF expired THEN "expire" ELSE "slot",
              !.p = IF expired THEN TransitionTo(snap[id], "FAILED", "queue_timeout") ELSE snap[id]]
    <3>2. QED
      BY <1>7, <3>1 DEF DispatchNext, IdleLauncher
  <2>2. QED
    BY <1>0, <2>1, ClaimMoves DEF Launchers
<1>8. CASE PowerOff
  <2>1. \A t \in Launchers : launcher'[t] \in {IdleLauncher, DoneLauncher}
    BY <1>8 DEF PowerOff
  <2>2. IdleLauncher.pc # "claim" /\ DoneLauncher.pc # "claim"
    BY DEF IdleLauncher, DoneLauncher
  <2>3. QED
    BY <2>1, <2>2 DEF ClaimInv
<1>9. QED
  <2>1. ASSUME NEW t \in Launchers, LauncherStep(t)
        PROVE  ClaimInv'
    BY <1>1, <1>2, <1>3, <1>4, <1>5, <1>6, <2>1 DEF LauncherStep, SubmitNext, Hangup
  <2>2. ASSUME NEW h \in Handles, AttemptStep(h)
        PROVE  ClaimInv'
    BY <1>1, <2>2 DEF AttemptStep, AttemptNext, ProcExit, OrphanExit, WaitReturns, Unregister,
         Classify, PersistOutcome, Settle, TimerFires, TimeoutIntent, BeginStop, SignalGroup
  <2>3. ASSUME NEW id \in Procs, StopStep(id)
        PROVE  ClaimInv'
    BY <1>1, <2>3 DEF StopStep, StopNext, RequestStop, StopLookup, StopIntent, CancelGet,
         CancelRelease, CancelWrite, CancelSettle
  <2>4. CASE DispatchStep
    BY <1>1, <1>7, <2>4 DEF DispatchStep, DispatchScan, superVars
  <2>5. CASE LifecycleStep
    BY <1>1, <1>8, <2>5 DEF LifecycleStep, Sigterm, Drain, ShutdownBegins, ShutdownEnds, Exit, Crash,
         ShutdownIntent, Boot, ReconcileDone, reconcileOne, OthersUnchanged
  <2>6. ASSUME NEW w \in Workers, NEW limit \in Limits, Reload(w, limit)
        PROVE  ClaimInv'
    BY <1>1, <2>6 DEF Reload, superVars
  <2>7. CASE UNCHANGED vars
    BY <1>1, <2>7 DEF vars, superVars
  <2>8. QED
    BY <2>1, <2>2, <2>3, <2>4, <2>5, <2>6, <2>7 DEF Next

(* The other steps of a submission, and expiry.                            *)
LEMMA SubmitCovers ==
  ASSUME DaemonInv, OwnInv, CoverInv, ClaimInv, NEW t \in Launchers,
         (t \in Procs /\ SubmitNext(t)) \/ (t = Dispatcher /\ (ExpireUnlock(t) \/ ExpireWrite(t)))
  PROVE  CoverInv'
<1>0. LaunchersInv /\ StoreInv /\ SlotsInv /\ LocksOwn
  BY DEF DaemonInv, SuperInv, CoverInv
<1>1. CASE t \in Procs /\ Submit(t)
  <2>1. Live /\ launcher[t].pc = "idle" /\ launcher[t] \in Launcher
    BY <1>1 DEF Submit, At, DaemonInv, SuperInv, LaunchersInv, LauncherOK, StorableLauncher
  <2>2. launcher[t].id = 0 /\ row[t].state = NONE /\ t # 0
    BY <1>1, <2>1, NobodyIsZero DEF OwnInv, LaunchersShape, Busy, Fresh, Dispatcher
  <2>3. UNCHANGED <<row, locks, exec, stopper, mode, hungup>> /\ UNCHANGED slotVars
    BY <1>1 DEF Submit, storeVars
  <2>4. PICK l : launcher' = [launcher EXCEPT ![t] = l] /\ l.id \in {0, t} /\ l.pc \in {"done", "create"}
    <3>1. CASE Return(t)
      <4>1. WITNESS DoneLauncher
      <4>2. QED
        BY <2>2, <3>1, <4>1 DEF Return, Dispatcher, DoneLauncher, IdleLauncher
    <3>2. CASE launcher' = [launcher EXCEPT ![t].pc = "create", ![t].id = t]
      <4>1. WITNESS [launcher[t] EXCEPT !.pc = "create", !.id = t]
      <4>2. QED
        BY <2>1, <3>2, <4>1 DEF Launcher
    <3>3. QED
      BY <1>1, <3>1, <3>2 DEF Submit
  <2>5. launcher'[t] = l /\ \A u \in Launchers \ {t} : launcher'[u] = launcher[u]
    BY <1>0, <2>4, LauncherAlone
  <2>6. \A id \in Procs \ {t} : Calm(id)
    <3> SUFFICES ASSUME NEW id \in Procs \ {t} PROVE Calm(id)
      OBVIOUS
    <3>1. \A u \in Launchers :
            launcher[u].id = id \/ launcher'[u].id = id => launcher'[u] = launcher[u]
      BY <2>2, <2>4, <2>5, NobodyIsZero
    <3>2. QED
      BY <2>3, <3>1, SameIsCalm DEF NoRevival
  <2>7. Cover(t)'
    <3>1. Cover(t)
      BY <1>1 DEF CoverInv
    <3>2. \A u \in Launchers : launcher[u].id = t => launcher[u].pc = "create"
      BY <1>1, <2>2, NobodysYet
    <3>3. \A u \in Launchers : launcher'[u].id = t => launcher'[u].pc \in {"done", "create"}
      BY <2>4, <2>5, <3>2
    <3>4. SlotUser(t)' => SlotUser(t)
      BY <2>3, <3>3 DEF SlotUser, UsingPCs
    <3>5. LockUser(t)' => LockUser(t)
      BY <2>3, <3>3 DEF LockUser, LockPCs
    <3>6. LetGo(t)
      BY <2>2 DEF LetGo, Over
    <3>7. SlotReason(t) => SlotReason(t)'
      <4>1. \A u \in Launchers : launcher[u].id = t => launcher[u].pc \notin UsingPCs
        BY <3>2 DEF UsingPCs
      <4>2. SlotUser(t) => SlotUser(t)'
        BY <2>3, <4>1 DEF SlotUser
      <4>3. QED
        BY <2>3, <4>2 DEF SlotReason
    <3>8. /\ Holds(t)' <=> Holds(t)
          /\ HoldsLock(t)' <=> HoldsLock(t)
          /\ Free(t)' <=> Free(t)
      BY <1>0, <1>1, <2>3, SlotKept, LockKept
    <3>9. QED
      BY <3>1, <3>4, <3>5, <3>6, <3>7, <3>8 DEF Cover
  <2>8. LocksOwn' /\ LocksStay(t) /\ SlotsStay(t)
    BY <1>0, <2>3, LockKept, SlotKept
  <2>9. QED
    BY <2>1, <2>3, <2>6, <2>7, <2>8, CoverStep
<1>2. CASE Hangup(t)
  <2>1. /\ UNCHANGED <<row, locks, exec, stopper, mode, launcher>> /\ UNCHANGED slotVars
        /\ hungup \subseteq hungup' /\ Live
    BY <1>2 DEF Hangup, storeVars
  <2>2. \A id \in Procs \ {0} : Calm(id)
    BY <2>1, SameIsCalm DEF NoRevival
  <2>3. LocksOwn' /\ LocksStay(0) /\ SlotsStay(0)
    BY <1>0, <2>1, LockKept, SlotKept
  <2>4. QED
    BY <2>1, <2>2, <2>3, NobodyIsZero, CoverStep
<1>3. CASE \/ Create(t) \/ Claim(t) \/ Unclaim(t) \/ ExpireUnlock(t)
           \/ rejectLocked(t) \/ park(t) \/ ExpireWrite(t)
  <2>0. launcher[t].pc \notin {"idle", "done"} /\ Live
        /\ launcher[t].pc \in {"create", "claim", "unclaim", "expire", "conflict", "park", "expired"}
    BY <1>3 DEF Create, Claim, Unclaim, ExpireUnlock, rejectLocked, park, ExpireWrite,
                WriteAndReturn, At
  <2>1. PICK x \in Procs :
          /\ launcher[t].id = x
          /\ LauncherCopy(t, launcher[t], row[x], exec[<<x, launches[x]>>], launches[x])
          /\ row[x] \in Process
          /\ t # Dispatcher => t = x
    BY <2>0, InHand
  <2> DEFINE p == launcher[t].p
             d == launcher[t].detached
  <2>2. /\ UNCHANGED <<exec, stopper, mode, hungup>> /\ UNCHANGED slotVars
        /\ \A h \in Handles : exec'[h] = exec[h]
    BY <1>3 DEF Create, Claim, Unclaim, ExpireUnlock, rejectLocked, park, ExpireWrite,
                WriteAndReturn
  <2>3. /\ Over(row[x].state) \/ Lockless(t, launcher[t], x) => Free(x)
        /\ Def[x].type = "service" /\ Holds(x)
             => launcher[t].pc \in UsingPCs \/ row[x].state = "RETRYING"
    BY <2>1, LauncherHas
  <2>4. launcher[t].pc \notin UsingPCs /\ launcher[t].pc \notin LockPCs
        /\ row[x].state \in {NONE, "CREATED", "QUEUED"} /\ row[x].state # "RETRYING"
    BY <2>0, <2>1 DEF UsingPCs, LockPCs, LauncherCopy, Startable, NONE
  <2>5. ~(Def[x].type = "service" /\ Holds(x)') /\ SlotsStay(x)
    BY <2>2, <2>3, <2>4, SlotKept
  <2>6. ASSUME Return(t), locks' = locks, \A id \in Procs \ {x} : row'[id] = row[id],
               Over(row'[x].state) => Over(row[x].state) \/ Lockless(t, launcher[t], x)
        PROVE  CoverInv'
    BY <2>0, <2>1, <2>2, <2>5, <2>6, LauncherDoneCovered
  <2>7. ASSUME NEW pc, pc \notin UsingPCs, pc \notin LockPCs, NEW q, LandsWith(t, pc, q, d),
               LocksOwn', LocksStay(x), \A id \in Procs \ {x} : row'[id] = row[id],
               \A l : Over(row'[x].state) \/ (l.pc = pc /\ l.p = q /\ l.detached = d /\ Lockless(t, l, x))
                        => Free(x)'
        PROVE  CoverInv'
    <3>1. PICK l : /\ launcher' = [launcher EXCEPT ![t] = l]
                   /\ l.id = x /\ l.pc = pc /\ l.p = q /\ l.detached = d
      BY <2>1, <2>7 DEF LandsWith
    <3>2. /\ Over(row'[x].state) \/ (l.id = x /\ Lockless(t, l, x)) => Free(x)'
          /\ l.id \in {0, x}
      BY <2>7, <3>1
    <3> HIDE DEF p, d
    <3>3. QED
      BY <2>0, <2>1, <2>2, <2>5, <2>7, <3>1, <3>2, LauncherCovers
  <2>8. ASSUME NEW pc \in {"conflict", "park", "expired"}, WriteAndReturn(t, pc)
        PROVE  CoverInv'
    <3>1. Return(t) /\ launcher[t].pc = pc /\ locks' = locks
          /\ (row' = row \/ (~Cut(t, launcher[t]) /\ UpdateProcess(x, p)))
      BY <2>1, <2>8 DEF WriteAndReturn, At, Cut, CtxDone
    <3>2. CASE row' = row
      BY <2>6, <3>1, <3>2
    <3>3. CASE ~Cut(t, launcher[t]) /\ UpdateProcess(x, p)
      <4>1. row'[x] = p /\ \A id \in Procs \ {x} : row'[id] = row[id]
        BY <1>0, <3>3 DEF UpdateProcess, StoreInv
      <4>2. pc = "expired" => p.state = "FAILED"
        BY <2>1, <3>1 DEF LauncherCopy
      <4>3. Lockless(t, launcher[t], x)
        BY <3>1, <3>3, <4>2 DEF Lockless, IsTerminal
      <4>4. QED
        BY <2>6, <3>1, <4>1, <4>3
    <3>4. QED
      BY <3>1, <3>2, <3>3
  <2>10. CASE rejectLocked(t) \/ park(t) \/ ExpireWrite(t)
    BY <2>8, <2>10 DEF rejectLocked, park, ExpireWrite
  <2>11. CASE Create(t)
    <3>0. launcher[t].pc = "create" /\ locks' = locks
      BY <2>11 DEF Create, At
    <3>1. Lockless(t, launcher[t], x) /\ Free(x)
      BY <2>3, <3>0 DEF Lockless
    <3>2. LocksOwn' /\ LocksStay(x) /\ Free(x)'
      BY <1>0, <3>0, <3>1, LockKept
    <3>3. CASE Return(t) /\ UNCHANGED row
      BY <2>6, <3>0, <3>3
    <3>4. CASE CreateProcess(t) /\ \E pc \in {"claim", "slot"} : GotoWith(t, pc, NewProcess)
      <4>1. PICK pc \in {"claim", "slot"} : GotoWith(t, pc, NewProcess)
        BY <3>4
      <4>2. LandsWith(t, pc, NewProcess, d)
        BY <1>0, <4>1, LandingWith
      <4>3. t = x /\ \A id \in Procs \ {x} : row'[id] = row[id]
        <5>1. t # Dispatcher
          BY <2>1, <3>0 DEF LauncherCopy
        <5>2. QED
          BY <1>0, <2>1, <3>4, <5>1 DEF CreateProcess, StoreInv
      <4>4. pc \notin UsingPCs /\ pc \notin LockPCs
        BY DEF UsingPCs, LockPCs
      <4> HIDE DEF p, d
      <4>5. QED
        BY <2>7, <3>2, <4>2, <4>3, <4>4
    <3>5. QED
      BY <2>11, <3>3, <3>4 DEF Create
  <2>12. CASE Claim(t)
    <3>0. launcher[t].pc = "claim" /\ row' = row /\ t = x /\ row[x].state = "CREATED"
      BY <2>1, <2>12 DEF Claim, At, LauncherCopy, Startable
    <3>1. ~Over(row'[x].state)
      BY <3>0 DEF Over, IsTerminal, NONE
    <3>2. CASE Return(t) /\ UNCHANGED locks
      BY <2>6, <3>0, <3>1, <3>2
    <3>3. CASE Goto(t, "slot") /\ LockAvailable(x) /\ AcquireLock(x)
      <4>1. LandsWith(t, "slot", p, d) /\ "slot" \notin UsingPCs /\ "slot" \notin LockPCs
        BY <1>0, <3>3, LandingWith DEF UsingPCs, LockPCs
      <4>2. LocksOwn' /\ LocksStay(x)
        BY <1>0, <3>3, LockTaken
      <4>3. \A l : l.pc = "slot" => ~Lockless(t, l, x)
        BY <2>1, <3>0 DEF Lockless, ClaimInv, Rejects
      <4> HIDE DEF p, d
      <4>4. QED
        BY <2>7, <3>0, <3>1, <4>1, <4>2, <4>3
    <3>4. CASE UNCHANGED locks /\ GotoWith(t, "conflict", TransitionTo(p, "CANCELED", "lock_conflict"))
      <4>1. LandsWith(t, "conflict", TransitionTo(p, "CANCELED", "lock_conflict"), d)
            /\ "conflict" \notin UsingPCs /\ "conflict" \notin LockPCs
        BY <1>0, <3>4, LandingWith DEF UsingPCs, LockPCs
      <4>2. Lockless(t, launcher[t], x)
        BY <3>0 DEF Lockless
      <4>3. LocksOwn' /\ LocksStay(x) /\ Free(x)'
        BY <1>0, <2>3, <3>4, <4>2, LockKept
      <4> HIDE DEF p, d
      <4>4. QED
        BY <2>7, <3>0, <4>1, <4>3
    <3>5. QED
      BY <2>12, <3>0, <3>2, <3>3, <3>4 DEF Claim
  <2>13. CASE Unclaim(t)
    <3>0. launcher[t].pc = "unclaim" /\ row' = row /\ GotoPark(t) /\ row[x].state = "CREATED"
          /\ IF Cut(t, launcher[t]) THEN locks' = locks ELSE ReleaseLock(x)
      BY <2>1, <2>13 DEF Unclaim, At, LauncherCopy, Startable, Cut, CtxDone
    <3>1. LocksOwn' /\ LocksStay(x) /\ (Cut(t, launcher[t]) \/ Free(x)')
      BY <1>0, <3>0, LockKept, LockGiven
    <3>2. LandsWith(t, "park", Parked(x, p), d) /\ "park" \notin UsingPCs /\ "park" \notin LockPCs
      BY <1>0, <2>1, <3>0, LandingWith DEF GotoPark, UsingPCs, LockPCs
    <3>3. \A l : l.pc = "park" /\ l.detached = d /\ Lockless(t, l, x) => Free(x)'
      BY <3>1 DEF Lockless, Cut
    <3>4. ~Over(row'[x].state)
      BY <3>0 DEF Over, IsTerminal, NONE
    <3> HIDE DEF p, d
    <3>5. QED
      BY <2>7, <3>0, <3>1, <3>2, <3>3, <3>4
  <2>14. CASE ExpireUnlock(t)
    <3>0. launcher[t].pc = "expire" /\ row' = row /\ LandsWith(t, "expired", p, d)
          /\ row[x].state = "QUEUED"
          /\ IF Cut(t, launcher[t]) THEN locks' = locks ELSE ReleaseLock(x)
      BY <1>0, <2>1, <2>14, LandingWith DEF ExpireUnlock, At, LauncherCopy, Cut, CtxDone
    <3>1. LocksOwn' /\ LocksStay(x) /\ (Cut(t, launcher[t]) \/ Free(x)')
      BY <1>0, <3>0, LockKept, LockGiven
    <3>2. \A l : l.pc = "expired" /\ l.detached = d /\ Lockless(t, l, x) => Free(x)'
      BY <3>1 DEF Lockless, Cut
    <3>3. ~Over(row'[x].state) /\ "expired" \notin UsingPCs /\ "expired" \notin LockPCs
      BY <3>0 DEF Over, IsTerminal, NONE, UsingPCs, LockPCs
    <3> HIDE DEF p, d
    <3>4. QED
      BY <2>7, <3>0, <3>1, <3>2, <3>3
  <2>15. QED
    BY <1>3, <2>10, <2>11, <2>12, <2>13, <2>14
<1>4. QED
  BY <1>1, <1>2, <1>3 DEF SubmitNext

----------------------------------------------------------------------------
(* The steps of an attempt.                                                *)

(* A step that changes nothing a cover depends on.                         *)
LEMMA QuietCovers ==
  ASSUME CoverInv, NoRevival, mode' \in {"down", "boot"} => mode \in {"down", "boot"},
         UNCHANGED <<row, locks, launcher>>, UNCHANGED slotVars,
         \A id \in Procs :
            \/ stopper'[id] = stopper[id]
            \/ stopper[id].pc \notin {"write", "settle"} /\ stopper'[id].pc \notin {"write", "settle"},
         \A h \in Handles : exec'[h].sup = exec[h].sup /\ exec'[h].p = exec[h].p
  PROVE  CoverInv'
<1>1. \A id \in Procs, n \in 1..MaxLaunches : <<id, n>> \in Handles
  BY DEF Handles
<1>2. ASSUME NEW id \in Procs
      PROVE  Cover(id)'
  <2>1. Calm(id)
    BY <1>1, SameIsCalm
  <2>2. /\ Holds(id)' <=> Holds(id)
        /\ HoldsLock(id)' <=> HoldsLock(id)
        /\ Free(id)' <=> Free(id)
    BY SlotKept, LockKept DEF CoverInv
  <2>3. QED
    BY <2>1, <2>2 DEF Calm, Cover, CoverInv
<1>3. LocksOwn' /\ \A id \in Procs : Holds(id)' <=> Holds(id)
  BY SlotKept, LockKept DEF CoverInv
<1>4. QED
  BY <1>2, <1>3 DEF CoverInv

(* What a supervise goroutine has for its execution.                       *)
LEMMA AttemptHas ==
  ASSUME CoverInv, NEW x \in Procs, NEW n \in 1..MaxLaunches, OwnedByAttempt(x, n)
  PROVE  /\ Holds(x)
         /\ exec[<<x, n>>].sup \in LockPhases => HoldsLock(x)
         /\ Over(row[x].state)
              \/ (exec[<<x, n>>].sup = "classified" /\ IsTerminal(exec[<<x, n>>].p.state))
              => Free(x)
         /\ LocksOwn
<1>1. Cover(x) /\ LocksOwn
  BY DEF CoverInv
<1>2. SlotUser(x)
  BY DEF OwnedByAttempt, Attempting, SlotUser
<1>3. exec[<<x, n>>].sup \in LockPhases => LockUser(x)
  BY DEF LockUser
<1>4. Over(row[x].state)
        \/ (exec[<<x, n>>].sup = "classified" /\ IsTerminal(exec[<<x, n>>].p.state))
        => LetGo(x)
  BY DEF LetGo
<1>5. QED
  BY <1>1, <1>2, <1>3, <1>4 DEF Cover

(* What it must have when it goes on, or is done.                          *)
LEMMA AttemptGoesCovered ==
  ASSUME DaemonInv, OwnInv, CoverInv, Live, NEW x \in Procs, NEW n \in 1..MaxLaunches, NEW e,
         OwnedByAttempt(x, n), exec' = [exec EXCEPT ![<<x, n>>] = e],
         UNCHANGED <<launcher, stopper, mode, hungup>>,
         \A id \in Procs \ {x} : row'[id] = row[id],
         LocksOwn', LocksStay(x), SlotsStay(x),
         e.sup \in UsingPhases => Holds(x)',
         e.sup \in LockPhases => HoldsLock(x)',
         Over(row'[x].state) \/ (e.sup = "classified" /\ IsTerminal(e.p.state)) => Free(x)',
         Def[x].type = "service" /\ Holds(x)'
           => e.sup \in UsingPhases \/ row'[x].state = "RETRYING"
  PROVE  CoverInv'
<1>1. \A id \in Procs, m \in 1..MaxLaunches : <<id, m>> \in Handles
  BY DEF Handles
<1>2. exec'[<<x, n>>] = e /\ \A g \in Handles : g # <<x, n>> => exec'[g] = exec[g]
  BY <1>1, AttemptAlone DEF DaemonInv
<1>3. \A id \in Procs, m \in 1..MaxLaunches :
        id # x \/ m # n => exec'[<<id, m>>] = exec[<<id, m>>]
  BY <1>1, <1>2
<1>4. \A id \in Procs \ {x} : Calm(id)
  BY <1>3, SameIsCalm DEF NoRevival
<1>5. /\ \A u \in Launchers : launcher'[u].id # x
      /\ \A m \in 1..MaxLaunches : m # n => exec'[<<x, m>>].sup \notin UsingPhases
      /\ stopper'[x].pc \notin {"write", "settle"}
  BY <1>3 DEF OwnedByAttempt, NoLauncher, Attempting, Cancelling
<1>6. Cover(x)'
  <2>1. SlotUser(x)' <=> e.sup \in UsingPhases
    BY <1>2, <1>5 DEF SlotUser
  <2>2. LockUser(x)' => e.sup \in LockPhases
    BY <1>2, <1>5 DEF LockUser, LockPhases, UsingPhases
  <2>3. LetGo(x)'
          => Over(row'[x].state) \/ (e.sup = "classified" /\ IsTerminal(e.p.state))
    BY <1>2, <1>5 DEF LetGo, UsingPhases
  <2>4. QED
    BY <2>1, <2>2, <2>3 DEF Cover, SlotReason
<1>7. QED
  BY <1>4, <1>6, CoverStep

(* beginStop writes down what the owner of the execution will go on from.  *)
LEMMA BeginStopCovers ==
  ASSUME DaemonInv, OwnInv, CoverInv, NEW x \in Procs, NEW n \in 1..MaxLaunches,
         BeginStop(<<x, n>>)
  PROVE  CoverInv'
<1> DEFINE h == <<x, n>>
           p == IF exec[h].p.state = "RUNNING"
                THEN TransitionTo(exec[h].p, "STOPPING", exec[h].intent) ELSE exec[h].p
           e == [exec[h] EXCEPT !.p = p, !.stop = "signal"]
<1>0. /\ Live /\ exec[h].stop = "begin" /\ MuFree(h)
      /\ exec' = [exec EXCEPT ![h] = e] /\ UpdateProcess(x, p)
      /\ UNCHANGED <<locks, launcher, stopper, mode, hungup>> /\ UNCHANGED slotVars
  BY DEF BeginStop
<1>1. h \in Handles /\ exec[h] \in Exec /\ exec[h].p \in Process
  BY DEF Handles, DaemonInv, SuperInv, AttemptsInv, StorableExec, Storable
<1>2. e.p = p /\ e.sup = exec[h].sup
  BY <1>1 DEF Exec
<1>3. exec[h].p.state # "RUNNING" => p = exec[h].p
  OBVIOUS
<1>4. exec[h].p.state = "RUNNING" => p.state = "STOPPING"
  <2>1. "STOPPING" \in States /\ exec[h].intent \in Reasons /\ CanTransition("RUNNING", "STOPPING")
    BY <1>1, Names, EdgesExist DEF Exec
  <2>2. QED
    BY <1>1, <2>1, TransitionArrives
<1>5. Loose(x, n)
  BY <1>0 DEF Loose
<1> HIDE DEF p, e
<1>6. row'[x] = p /\ \A id \in Procs \ {x} : row'[id] = row[id]
  BY <1>0 DEF UpdateProcess, DaemonInv, SuperInv, StoreInv
<1>7. exec' = [exec EXCEPT ![<<x, n>>] = e]
  BY <1>0
<1> HIDE DEF h
<1>8. h = <<x, n>>
  BY DEF h
<1>9. CASE OwnedByAttempt(x, n)
  <2>1. e.sup # "classified" /\ e.sup \in UsingPhases /\ AttemptCopy(exec[h], row[x])
    BY <1>0, <1>2, <1>8, <1>9 DEF OwnedByAttempt, Attempting, MuFree
  <2>2. exec[h].p = row[x]
    BY <1>2, <2>1 DEF AttemptCopy, UsingPhases
  <2>3. Over(row'[x].state) => Over(row[x].state)
    BY <1>3, <1>4, <1>6, <2>2 DEF Over, IsTerminal, NONE
  <2>4. /\ Holds(x)
        /\ exec[<<x, n>>].sup \in LockPhases => HoldsLock(x)
        /\ Over(row[x].state) => Free(x)
        /\ LocksOwn
    BY <1>9, AttemptHas
  <2>5. /\ LocksOwn' /\ LocksStay(x) /\ SlotsStay(x) /\ Holds(x)'
        /\ HoldsLock(x)' <=> HoldsLock(x)
        /\ Free(x)' <=> Free(x)
    BY <1>0, <2>4, LockKept, SlotKept
  <2>6. e.sup = exec[<<x, n>>].sup
    BY <1>2, <1>8
  <2>7. QED
    BY <1>0, <1>6, <1>7, <1>9, <2>1, <2>3, <2>4, <2>5, <2>6, AttemptGoesCovered
<1>10. CASE Unowned(x) /\ exec[h].sup = "done"
  <2>1. exec[h].p = row[x] /\ row[x].state # "RUNNING"
    BY <1>5, <1>8, <1>10 DEF Unowned, Outcomes
  <2>2. p = row[x]
    BY <1>3, <2>1
  <2>3. row' = row
    BY <1>0, <2>2 DEF UpdateProcess, DaemonInv, SuperInv, StoreInv
  <2>4. exec'[h] = e /\ \A g \in Handles : g # h => exec'[g] = exec[g]
    BY <1>1, <1>7, <1>8, AttemptAlone DEF DaemonInv
  <2>5. \A g \in Handles : exec'[g].sup = exec[g].sup /\ exec'[g].p = exec[g].p
    BY <1>2, <2>1, <2>2, <2>4
  <2>6. \A id \in Procs : stopper'[id] = stopper[id]
    BY <1>0
  <2>7. QED
    BY <1>0, <2>3, <2>5, <2>6, QuietCovers DEF NoRevival
<1>11. QED
  BY <1>5, <1>8, <1>9, <1>10, WhoIsLoose

(* Every step of an attempt.                                               *)
LEMMA AttemptCovers ==
  ASSUME DaemonInv, OwnInv, CoverInv, NEW h \in Handles, AttemptNext(h)
  PROVE  CoverInv'
<1>0. PICK x \in Procs, n \in 1..MaxLaunches : h = <<x, n>>
  BY DEF Handles
<1>1. exec[h] \in Exec /\ h[1] = x
  BY <1>0 DEF DaemonInv, SuperInv, AttemptsInv, StorableExec
<1>2. SlotsInv /\ StoreInv /\ LocksOwn
  BY DEF DaemonInv, SuperInv, CoverInv
<1> DEFINE Frame == UNCHANGED <<launcher, stopper, mode, hungup>>
(* A step that leaves the copy and the phase of the attempt alone.         *)
<1>3. ASSUME NEW e, exec' = [exec EXCEPT ![h] = e], Frame, UNCHANGED <<row, locks>>,
             UNCHANGED slotVars, e.p = exec[h].p, e.sup = exec[h].sup
      PROVE  CoverInv'
  <2>1. exec'[h] = e /\ \A g \in Handles : g # h => exec'[g] = exec[g]
    BY <1>3, AttemptAlone DEF DaemonInv
  <2>2. \A g \in Handles : exec'[g].sup = exec[g].sup /\ exec'[g].p = exec[g].p
    BY <1>3, <2>1
  <2>3. \A id \in Procs : stopper'[id] = stopper[id]
    BY <1>3
  <2>4. QED
    BY <1>3, <2>2, <2>3, QuietCovers DEF NoRevival
<1>4. exec[h].sup \in UsingPhases
        => /\ OwnedByAttempt(x, n) /\ AttemptCopy(exec[h], row[x])
           /\ Holds(x)
           /\ exec[h].sup \in LockPhases => HoldsLock(x)
           /\ Over(row[x].state)
                \/ (exec[h].sup = "classified" /\ IsTerminal(exec[h].p.state))
                => Free(x)
  BY <1>0, WhoAttempts, AttemptHas DEF Attempting, OwnedByAttempt
(* A step of the supervise goroutine.                                      *)
<1>5. ASSUME NEW e, exec' = [exec EXCEPT ![h] = e], Frame, Live, exec[h].sup \in UsingPhases,
             \A id \in Procs \ {x} : row'[id] = row[id],
             LocksOwn', LocksStay(x), SlotsStay(x),
             e.sup \in UsingPhases => Holds(x)',
             e.sup \in LockPhases => HoldsLock(x)',
             Over(row'[x].state) \/ (e.sup = "classified" /\ IsTerminal(e.p.state)) => Free(x)',
             Def[x].type = "service" /\ Holds(x)'
               => e.sup \in UsingPhases \/ row'[x].state = "RETRYING"
      PROVE  CoverInv'
  <2>1. exec' = [exec EXCEPT ![<<x, n>>] = e]
    BY <1>0, <1>5
  <2>2. QED
    BY <1>4, <1>5, <2>1, AttemptGoesCovered
<1>6. ASSUME locks' = locks
      PROVE  LocksOwn' /\ LocksStay(x) /\ (Free(x)' <=> Free(x)) /\ (HoldsLock(x)' <=> HoldsLock(x))
  BY <1>2, <1>6, LockKept
<1>7. ASSUME UNCHANGED slotVars
      PROVE  SlotsStay(x) /\ (Holds(x)' <=> Holds(x))
  BY <1>7, SlotKept
<1>8. ASSUME row' = row
      PROVE  row'[x] = row[x] /\ \A id \in Procs \ {x} : row'[id] = row[id]
  BY <1>8
<1>9. {"wait", "reaped", "deleted"} = LockPhases
      /\ {"wait", "reaped", "deleted", "classified", "persisted"} = UsingPhases
      /\ LockPhases \subseteq UsingPhases /\ "classified" \in UsingPhases
      /\ "classified" \notin LockPhases /\ "persisted" \notin LockPhases
      /\ "done" \notin UsingPhases /\ "done" \notin LockPhases
  BY DEF LockPhases, UsingPhases
<1>10. CASE \E result \in Results : ProcExit(h, result)
  <2>1. PICK result \in Results : ProcExit(h, result)
    BY <1>10
  <2> DEFINE e == [exec[h] EXCEPT !.proc = "zombie", !.result = result]
  <2>2. exec' = [exec EXCEPT ![h] = e] /\ Frame /\ UNCHANGED <<row, locks>> /\ UNCHANGED slotVars
    BY <2>1 DEF ProcExit, storeVars
  <2>3. e.p = exec[h].p /\ e.sup = exec[h].sup
    BY <1>1 DEF Exec
  <2> HIDE DEF e
  <2>4. QED
    BY <1>3, <2>2, <2>3
<1>11. CASE OrphanExit(h)
  <2> DEFINE e == [exec[h] EXCEPT !.proc = "gone"]
  <2>2. exec' = [exec EXCEPT ![h] = e] /\ Frame /\ UNCHANGED <<row, locks>> /\ UNCHANGED slotVars
    BY <1>11 DEF OrphanExit, storeVars
  <2>3. e.p = exec[h].p /\ e.sup = exec[h].sup
    BY <1>1 DEF Exec
  <2> HIDE DEF e
  <2>4. QED
    BY <1>3, <2>2, <2>3
<1>12. CASE SignalGroup(h)
  <2> DEFINE e == [exec[h] EXCEPT !.stop = "done"]
  <2>2. exec' = [exec EXCEPT ![h] = e] /\ Frame /\ UNCHANGED <<row, locks>> /\ UNCHANGED slotVars
    BY <1>12 DEF SignalGroup, storeVars
  <2>3. e.p = exec[h].p /\ e.sup = exec[h].sup
    BY <1>1 DEF Exec
  <2> HIDE DEF e
  <2>4. QED
    BY <1>3, <2>2, <2>3
<1>13. CASE TimerFires(h)
  <2> DEFINE e == [exec[h] EXCEPT !.timer = "fired"]
  <2>2. exec' = [exec EXCEPT ![h] = e] /\ Frame /\ UNCHANGED <<row, locks>> /\ UNCHANGED slotVars
    BY <1>13 DEF TimerFires, storeVars
  <2>3. e.p = exec[h].p /\ e.sup = exec[h].sup
    BY <1>1 DEF Exec
  <2> HIDE DEF e
  <2>4. QED
    BY <1>3, <2>2, <2>3
<1>14. CASE TimeoutIntent(h)
  <2> DEFINE d == [exec[h] EXCEPT !.timer = "off"]
             e == setIntent(d, "timeout")
  <2>1. exec' = [exec EXCEPT ![h] = e] /\ Frame /\ UNCHANGED <<row, locks>> /\ UNCHANGED slotVars
    BY <1>14 DEF TimeoutIntent, storeVars
  <2>2. d \in Exec /\ d.p = exec[h].p /\ d.sup = exec[h].sup
    BY <1>1 DEF Exec
  <2> HIDE DEF d
  <2>3. e.p = d.p /\ e.sup = d.sup
    BY <2>2, SetIntentIs
  <2> HIDE DEF e
  <2>4. QED
    BY <1>3, <2>1, <2>2, <2>3
<1>15. CASE WaitReturns(h) \/ Unregister(h)
  <2>1. PICK e : /\ exec' = [exec EXCEPT ![h] = e] /\ e.sup \in {"reaped", "deleted"}
    <3>1. CASE WaitReturns(h)
      <4>1. WITNESS [exec[h] EXCEPT !.proc = "gone", !.sup = "reaped",
                                    !.timer = IF @ = "armed" THEN "off" ELSE @]
      <4>2. QED
        BY <1>1, <3>1, <4>1 DEF WaitReturns, Exec
    <3>2. CASE Unregister(h)
      <4>1. WITNESS [exec[h] EXCEPT !.sup = "deleted"]
      <4>2. QED
        BY <1>1, <3>2, <4>1 DEF Unregister, Exec
    <3>3. QED
      BY <1>15, <3>1, <3>2
  <2>2. /\ Frame /\ Live /\ exec[h].sup \in {"wait", "reaped"}
        /\ UNCHANGED <<row, locks>> /\ UNCHANGED slotVars
    BY <1>15 DEF WaitReturns, Unregister, InPhase, storeVars
  <2>3. e.sup \in LockPhases /\ e.sup \in UsingPhases /\ e.sup # "classified"
        /\ exec[h].sup \in LockPhases /\ exec[h].sup \in UsingPhases
    BY <1>9, <2>1, <2>2
  <2>4. QED
    BY <1>4, <1>5, <1>6, <1>7, <1>8, <2>1, <2>2, <2>3
<1>16. CASE \E reset \in BOOLEAN : Classify(h, reset)
  <2>1. PICK reset \in BOOLEAN : Classify(h, reset)
    BY <1>16
  <2> DEFINE q == Outcome(h, reset)
             e == [exec[h] EXCEPT !.p = q, !.sup = "classified", !.result = "none"]
  <2>2. /\ exec' = [exec EXCEPT ![h] = e] /\ Frame /\ Live /\ exec[h].sup = "deleted"
        /\ row' = row /\ UNCHANGED slotVars
        /\ IF IsTerminal(q.state) THEN ReleaseLock(x) ELSE locks' = locks
    BY <1>1, <2>1 DEF Classify, InPhase
  <2>3. e.p = q /\ e.sup = "classified"
    BY <1>1 DEF Exec
  <2> HIDE DEF e, q
  <2>4. exec[h].sup \in UsingPhases
    BY <1>9, <2>2
  <2>5. Holds(x) /\ ~Over(row[x].state)
    BY <1>4, <2>2, <2>4 DEF AttemptCopy, Supervised, Over, IsTerminal, NONE
  <2>6. /\ LocksOwn' /\ LocksStay(x) /\ (IsTerminal(q.state) => Free(x)')
    BY <1>2, <1>6, <2>2, LockGiven
  <2>7. QED
    BY <1>5, <1>7, <1>8, <1>9, <2>2, <2>3, <2>4, <2>5, <2>6
<1>17. CASE PersistOutcome(h)
  <2> DEFINE e == [exec[h] EXCEPT !.sup = "persisted"]
  <2>1. /\ exec' = [exec EXCEPT ![h] = e] /\ Frame /\ Live /\ exec[h].sup = "classified"
        /\ locks' = locks /\ UNCHANGED slotVars /\ UpdateProcess(x, exec[h].p)
    BY <1>1, <1>17 DEF PersistOutcome, InPhase
  <2>2. e.sup = "persisted"
    BY <1>1 DEF Exec
  <2> HIDE DEF e
  <2>3. exec[h].sup \in UsingPhases /\ e.sup \in UsingPhases /\ e.sup \notin LockPhases
    BY <1>9, <2>1, <2>2
  <2>4. row'[x] = exec[h].p /\ \A id \in Procs \ {x} : row'[id] = row[id]
    BY <1>2, <2>1 DEF UpdateProcess, StoreInv
  <2>5. Over(row'[x].state) => IsTerminal(exec[h].p.state)
    BY <1>4, <2>1, <2>3, <2>4 DEF AttemptCopy, Over, Outcomes, NONE
  <2>6. QED
    BY <1>4, <1>5, <1>6, <1>7, <2>1, <2>2, <2>3, <2>4, <2>5
<1>18. CASE Settle(h)
  <2> DEFINE e == [exec[h] EXCEPT !.sup = "done"]
  <2>1. /\ exec' = [exec EXCEPT ![h] = e] /\ Frame /\ Live /\ exec[h].sup = "persisted"
        /\ UNCHANGED <<row, locks>> /\ OnExecutionSettled(x, exec[h].p.state)
    BY <1>1, <1>18 DEF Settle, InPhase, storeVars
  <2>2. e.sup = "done"
    BY <1>1 DEF Exec
  <2> HIDE DEF e
  <2>3. exec[h].sup \in UsingPhases /\ e.sup \notin UsingPhases /\ e.sup \notin LockPhases
    BY <1>9, <2>1, <2>2
  <2>4. exec[h].p = row[x]
    BY <1>4, <2>1, <2>3 DEF AttemptCopy
  <2>5. SlotsStay(x) /\ (exec[h].p.state = "RETRYING" \/ ~Holds(x)')
    BY <1>2, <2>1, SlotSettled
  <2>6. QED
    BY <1>4, <1>5, <1>6, <1>8, <2>1, <2>2, <2>3, <2>4, <2>5
<1>19. CASE BeginStop(h)
  BY <1>0, <1>19, BeginStopCovers
<1>20. QED
  BY <1>10, <1>11, <1>12, <1>13, <1>14, <1>15, <1>16, <1>17, <1>18, <1>19 DEF AttemptNext

----------------------------------------------------------------------------
(* The steps of a stop request.                                            *)

(* What a stop request that owns the execution must leave.                 *)
LEMMA StopperCovers ==
  ASSUME DaemonInv, OwnInv, CoverInv, Live, NEW x \in Procs, NEW s,
         stopper' = [stopper EXCEPT ![x] = s], OwnedByStop(x),
         UNCHANGED <<exec, launcher, mode, hungup>>,
         \A id \in Procs \ {x} : row'[id] = row[id],
         LocksOwn', LocksStay(x), SlotsStay(x),
         Over(row'[x].state) \/ (s.pc = "write" /\ mode = "up") => Free(x)',
         Def[x].type = "service" /\ Holds(x)' => s.pc = "settle" \/ row'[x].state = "RETRYING"
  PROVE  CoverInv'
<1>1. stopper'[x] = s /\ \A id \in Procs \ {x} : stopper'[id] = stopper[id]
  BY StopperAlone
<1>2. \A id \in Procs \ {x} : Calm(id)
  BY <1>1, SameIsCalm DEF NoRevival
<1>3. ~SlotUser(x)' /\ ~LockUser(x)'
  BY DEF OwnedByStop, NoLauncher, NoAttempt, Attempting, SlotUser, LockUser, LockPhases, UsingPhases
<1>4. LetGo(x)' <=> Over(row'[x].state) \/ (s.pc = "write" /\ mode = "up")
  BY <1>1 DEF OwnedByStop, NoLauncher, NoAttempt, Attempting, UsingPhases, LetGo
<1>5. Cover(x)'
  BY <1>1, <1>3, <1>4 DEF Cover, SlotReason
<1>6. QED
  BY <1>2, <1>5, CoverStep

LEMMA StopCovers ==
  ASSUME DaemonInv, OwnInv, CoverInv, NEW x \in Procs,
         StopNext(x) \/ (CancelGet(x) /\ ~BeingStarted(x) /\ ~Unsettled(x))
  PROVE  CoverInv'
<1>1. /\ stopper[x] \in Stopper /\ StoreInv /\ SlotsInv /\ LocksOwn
  BY DEF DaemonInv, SuperInv, AttemptsInv, StorableStopper, CoverInv
<1>2. DoneStopper.pc = "done"
  BY DEF DoneStopper, IdleStopper
(* A step of a request that owns nothing yet.                              *)
<1>3. ASSUME NEW s, stopper' = [stopper EXCEPT ![x] = s], s.pc \notin {"write", "settle"},
             stopper[x].pc \notin {"write", "settle"},
             UNCHANGED <<row, locks, launcher, mode, hungup>>, UNCHANGED slotVars,
             \A h \in Handles : exec'[h].sup = exec[h].sup /\ exec'[h].p = exec[h].p
      PROVE  CoverInv'
  <2>1. stopper'[x] = s /\ \A id \in Procs \ {x} : stopper'[id] = stopper[id]
    BY <1>3, StopperAlone
  <2>2. \A id \in Procs :
          \/ stopper'[id] = stopper[id]
          \/ stopper[id].pc \notin {"write", "settle"} /\ stopper'[id].pc \notin {"write", "settle"}
    BY <1>3, <2>1
  <2>3. QED
    BY <1>3, <2>2, QuietCovers DEF NoRevival
<1>4. CASE RequestStop(x) \/ StopLookup(x)
  <2>1. /\ stopper[x].pc \in {"idle", "lookup"}
        /\ UNCHANGED <<row, locks, exec, launcher, mode, hungup>> /\ UNCHANGED slotVars
    BY <1>4 DEF RequestStop, StopLookup, storeVars
  <2>2. PICK s : stopper' = [stopper EXCEPT ![x] = s] /\ s.pc \in {"lookup", "get", "intent"}
    <3>1. CASE RequestStop(x)
      <4>1. WITNESS [stopper[x] EXCEPT !.pc = "lookup"]
      <4>2. QED
        BY <1>1, <3>1, <4>1 DEF RequestStop, GotoStopper, Stopper
    <3>2. CASE StopLookup(x)
      <4>1. WITNESS [stopper[x] EXCEPT !.pc = IF running[x] = 0 THEN "get" ELSE "intent",
                                       !.pid = running[x]]
      <4>2. QED
        BY <1>1, <3>2, <4>1 DEF StopLookup, Stopper
    <3>3. QED
      BY <1>4, <3>1, <3>2
  <2>3. \A h \in Handles : exec'[h].sup = exec[h].sup /\ exec'[h].p = exec[h].p
    BY <2>1
  <2>4. QED
    BY <1>3, <2>1, <2>2, <2>3
<1>5. CASE StopIntent(x)
  <2>1. PICK n \in 1..MaxLaunches : n = stopper[x].pid
    BY <1>5 DEF StopIntent, OwnInv, Referenced
  <2>2. /\ stopper[x].pc = "intent" /\ stopper' = [stopper EXCEPT ![x] = DoneStopper]
        /\ exec' = [exec EXCEPT ![<<x, n>>] = setIntent(exec[<<x, n>>], "user_request")]
        /\ UNCHANGED <<row, locks, launcher, mode, hungup>> /\ UNCHANGED slotVars
    BY <1>5, <2>1 DEF StopIntent, ReturnStopper, storeVars
  <2>3. \A h \in Handles : exec'[h].sup = exec[h].sup /\ exec'[h].p = exec[h].p
    <3> DEFINE h == <<x, n>>
               e == setIntent(exec[h], "user_request")
    <3>1. h \in Handles /\ exec[h] \in Exec
      BY DEF Handles, DaemonInv, SuperInv, AttemptsInv, StorableExec
    <3>2. e.sup = exec[h].sup /\ e.p = exec[h].p
      BY <3>1, SetIntentIs
    <3> HIDE DEF e
    <3>3. exec' = [exec EXCEPT ![h] = e]
      BY <2>2 DEF e
    <3> HIDE DEF h
    <3>4. exec'[h] = e /\ \A g \in Handles : g # h => exec'[g] = exec[g]
      BY <3>1, <3>3, AttemptAlone DEF DaemonInv
    <3>5. QED
      BY <3>2, <3>4
  <2>4. QED
    BY <1>2, <1>3, <2>2, <2>3
<1>6. CASE CancelGet(x)
  <2>1. /\ stopper[x].pc = "get"
        /\ UNCHANGED <<row, locks, exec, launcher, mode, hungup>> /\ UNCHANGED slotVars
    BY <1>6 DEF CancelGet, storeVars
  <2>2. PICK s : stopper' = [stopper EXCEPT ![x] = s] /\ s.pc \in {"release", "done"}
    <3>1. CASE ReturnStopper(x)
      <4>1. WITNESS DoneStopper
      <4>2. QED
        BY <1>2, <3>1, <4>1 DEF ReturnStopper
    <3>2. CASE ~ReturnStopper(x)
      <4>1. WITNESS [stopper[x] EXCEPT !.pc = "release",
                                       !.p = TransitionTo(row[x], "CANCELED", "user_request")]
      <4>2. QED
        BY <1>1, <1>6, <3>2, <4>1 DEF CancelGet, Stopper
    <3>3. QED
      BY <3>1, <3>2
  <2>3. \A h \in Handles : exec'[h].sup = exec[h].sup /\ exec'[h].p = exec[h].p
    BY <2>1
  <2>4. QED
    BY <1>3, <2>1, <2>2, <2>3
<1>7. CASE CancelRelease(x) \/ CancelWrite(x) \/ CancelSettle(x)
  <2>0. /\ stopper[x].pc \in {"release", "write", "settle"} /\ Live
        /\ UNCHANGED <<exec, launcher, mode, hungup>>
    BY <1>7 DEF CancelRelease, CancelWrite, CancelSettle
  <2>1. OwnedByStop(x)
    BY <2>0, WhoCancels DEF Cancelling
  <2>2. /\ Over(row[x].state) \/ (stopper[x].pc = "write" /\ mode = "up") => Free(x)
        /\ Def[x].type = "service" /\ Holds(x)
             => stopper[x].pc = "settle" \/ row[x].state = "RETRYING"
    <3>1. Cover(x) /\ ~SlotUser(x)
      BY <2>1 DEF CoverInv, OwnedByStop, NoLauncher, NoAttempt, Attempting, SlotUser
    <3>2. QED
      BY <3>1 DEF Cover, LetGo, SlotReason
  <2>3. \A pc \in {"write", "settle"} : [stopper[x] EXCEPT !.pc = pc].pc = pc
    BY <1>1 DEF Stopper
  <2>4. stopper[x].pc # "settle" => ~Over(row[x].state)
    BY <2>0, <2>1 DEF OwnedByStop, Waiting, Over, IsTerminal, NONE
  <2>5. row' = row => \A id \in Procs : row'[id] = row[id]
    OBVIOUS
  <2>6. CASE CancelRelease(x)
    <3> DEFINE s == [stopper[x] EXCEPT !.pc = "write"]
    <3>1. /\ stopper' = [stopper EXCEPT ![x] = s] /\ row' = row /\ stopper[x].pc = "release"
          /\ UNCHANGED slotVars /\ IF mode = "up" THEN ReleaseLock(x) ELSE locks' = locks
      BY <2>6 DEF CancelRelease, GotoStopper
    <3>2. s.pc = "write"
      BY <2>3
    <3> HIDE DEF s
    <3>3. LocksOwn' /\ LocksStay(x) /\ (mode = "up" => Free(x)')
      BY <1>1, <3>1, LockGiven, LockKept
    <3>4. SlotsStay(x) /\ (Holds(x)' <=> Holds(x))
      BY <3>1, SlotKept
    <3>5. QED
      BY <2>0, <2>1, <2>2, <2>4, <2>5, <3>1, <3>2, <3>3, <3>4, StopperCovers
  <2>7. CASE CancelWrite(x)
    <3>0. stopper[x].pc = "write" /\ locks' = locks /\ UNCHANGED slotVars
      BY <2>7 DEF CancelWrite
    <3>1. LocksOwn' /\ LocksStay(x) /\ (Free(x)' <=> Free(x))
      BY <1>1, <3>0, LockKept
    <3>2. SlotsStay(x) /\ (Holds(x)' <=> Holds(x))
      BY <3>0, SlotKept
    <3>3. CASE mode = "up"
      <4> DEFINE s == [stopper[x] EXCEPT !.pc = "settle"]
      <4>1. stopper' = [stopper EXCEPT ![x] = s] /\ UpdateProcess(x, stopper[x].p)
        BY <2>7, <3>3 DEF CancelWrite, GotoStopper
      <4>2. s.pc = "settle"
        BY <2>3
      <4> HIDE DEF s
      <4>3. \A id \in Procs \ {x} : row'[id] = row[id]
        BY <4>1 DEF UpdateProcess
      <4>4. Free(x)'
        BY <2>2, <3>0, <3>1, <3>3
      <4>5. QED
        BY <2>0, <2>1, <3>1, <3>2, <4>1, <4>2, <4>3, <4>4, StopperCovers
    <3>4. CASE mode # "up"
      <4>1. stopper' = [stopper EXCEPT ![x] = DoneStopper] /\ row' = row
        BY <2>7, <3>4 DEF CancelWrite, ReturnStopper
      <4>2. QED
        BY <1>2, <2>0, <2>1, <2>2, <2>4, <2>5, <3>0, <3>1, <3>2, <4>1, StopperCovers
    <3>5. QED
      BY <3>3, <3>4
  <2>8. CASE CancelSettle(x)
    <3>1. /\ stopper[x].pc = "settle" /\ stopper' = [stopper EXCEPT ![x] = DoneStopper]
          /\ row' = row /\ locks' = locks /\ OnExecutionSettled(x, stopper[x].p.state)
      BY <2>8 DEF CancelSettle, ReturnStopper, storeVars
    <3>2. LocksOwn' /\ LocksStay(x) /\ (Free(x)' <=> Free(x))
      BY <1>1, <3>1, LockKept
    <3>3. stopper[x].p.state = "CANCELED"
      BY <2>1 DEF OwnedByStop
    <3>4. SlotsStay(x) /\ ~Holds(x)'
      BY <1>1, <3>1, <3>3, SlotSettled
    <3>5. QED
      BY <1>2, <2>0, <2>1, <2>2, <2>5, <3>1, <3>2, <3>4, StopperCovers
  <2>9. QED
    BY <1>7, <2>6, <2>7, <2>8
<1>8. QED
  BY <1>4, <1>5, <1>6, <1>7 DEF StopNext

----------------------------------------------------------------------------
(* The steps of the dispatch loop.                                         *)

LEMMA DispatchCovers ==
  ASSUME DaemonInv, OwnInv, CoverInv, DispatchStep
  PROVE  CoverInv'
<1>1. ASSUME NEW due, DispatchScan(due)
      PROVE  CoverInv'
  <2>1. /\ UNCHANGED <<row, locks, launcher, stopper, exec, mode, hungup>> /\ UNCHANGED slotVars
    BY <1>1 DEF DispatchScan, storeVars, superVars
  <2>2. /\ \A h \in Handles : exec'[h].sup = exec[h].sup /\ exec'[h].p = exec[h].p
        /\ \A id \in Procs : stopper'[id] = stopper[id]
    BY <2>1
  <2>3. QED
    BY <2>1, <2>2, QuietCovers DEF NoRevival
<1>2. ASSUME NEW x \in todo, NEW expired \in BOOLEAN, DispatchNext(x, expired)
      PROVE  CoverInv'
  <2>1. /\ launcher[Dispatcher].pc = "idle" /\ Live
        /\ UNCHANGED <<row, locks, exec, stopper, mode, hungup>> /\ UNCHANGED slotVars
    BY <1>2 DEF DispatchNext, At, storeVars
  <2>2. PICK l : /\ launcher' = [launcher EXCEPT ![Dispatcher] = l]
                 /\ l.id = x /\ l.pc \in {"expire", "slot"}
    <3>1. WITNESS [IdleLauncher EXCEPT
                     !.id = x,
                     !.pc = IF expired THEN "expire" ELSE "slot",
                     !.p = IF expired THEN TransitionTo(snap[x], "FAILED", "queue_timeout")
                           ELSE snap[x]]
    <3>2. QED
      BY <1>2, <3>1 DEF DispatchNext, IdleLauncher
  <2>3. x \in Procs
    BY DEF DaemonInv, PassInv
  <2>4. launcher[Dispatcher].id = 0 /\ Dispatcher \in Launchers /\ x # 0
    BY <2>1, <2>3, NobodyIsZero DEF OwnInv, LaunchersShape, Busy, Launchers
  <2>5. launcher'[Dispatcher] = l /\ \A u \in Launchers \ {Dispatcher} : launcher'[u] = launcher[u]
    BY <2>2, <2>4, LauncherAlone DEF DaemonInv, SuperInv
  <2>6. OwnedByPass(x)
    BY <2>1, <2>3, WhoPends DEF Pending, Live
  <2>7. ASSUME NEW id \in Procs \ {x}
        PROVE  Calm(id)
    <3>1. \A u \in Launchers :
            launcher[u].id = id \/ launcher'[u].id = id => launcher'[u] = launcher[u]
      BY <2>2, <2>4, <2>5, NobodyIsZero
    <3>2. QED
      BY <2>1, <3>1, SameIsCalm DEF NoRevival
  <2>8. Calm(x)
    <3>1. \A u \in Launchers : launcher'[u].id = x => u = Dispatcher
      BY <2>5, <2>6 DEF OwnedByPass, NoLauncher
    <3>2. l.pc \notin UsingPCs /\ l.pc \notin LockPCs /\ ~Lockless(Dispatcher, l, x)'
      BY <2>2 DEF UsingPCs, LockPCs, Lockless
    <3>3. (SlotUser(x)' => SlotUser(x)) /\ (LockUser(x)' => LockUser(x))
      BY <2>1, <2>5, <3>1, <3>2 DEF SlotUser, LockUser
    <3>4. LetGo(x)' => LetGo(x)
      <4>1. ASSUME NEW u \in Launchers, launcher'[u].id = x, Lockless(u, launcher[u], x)'
            PROVE  FALSE
        BY <2>5, <3>1, <3>2, <4>1
      <4>2. QED
        BY <2>1, <4>1 DEF LetGo
    <3>5. SlotReason(x) => SlotReason(x)'
      <4>1. SlotUser(x) => SlotUser(x)'
        BY <2>1, <2>6 DEF SlotUser, OwnedByPass, NoLauncher
      <4>2. QED
        BY <2>1, <4>1 DEF SlotReason
    <3>6. QED
      BY <3>3, <3>4, <3>5 DEF Calm
  <2>9. /\ LocksOwn' /\ LocksStay(0) /\ SlotsStay(0)
        /\ (HoldsLock(x)' <=> HoldsLock(x)) /\ (Free(x)' <=> Free(x)) /\ (Holds(x)' <=> Holds(x))
    BY <2>1, <2>3, LockKept, SlotKept DEF CoverInv
  <2>10. \A id \in Procs \ {0} : Calm(id)
    BY <2>7, <2>8
  <2>11. 0 \in Procs => Cover(0)'
    BY NobodyIsZero
  <2>12. QED
    BY <2>1, <2>9, <2>10, <2>11, CoverStep
<1>3. QED
  BY <1>1, <1>2 DEF DispatchStep

----------------------------------------------------------------------------
(* Shutdown, exit, crash and the next start.                               *)

(* With nobody around, only the rows decide what is covered.               *)
Still(id) == NoLauncher(id) /\ NoAttempt(id) /\ ~Cancelling(id)

LEMMA StillCovered ==
  ASSUME NEW id \in Procs, Still(id)', ~Holds(id)', Over(row'[id].state) => Free(id)'
  PROVE  Cover(id)'
<1>1. ~SlotUser(id)' /\ ~LockUser(id)'
  BY DEF Still, NoLauncher, NoAttempt, Attempting, SlotUser, LockUser, LockPhases, UsingPhases
<1>2. LetGo(id)' => Over(row'[id].state)
  BY DEF Still, NoLauncher, NoAttempt, Attempting, Cancelling, UsingPhases, LetGo
<1>3. QED
  BY <1>1, <1>2 DEF Cover

LEMMA NobodyStill ==
  ASSUME OwnInv, mode \in {"down", "boot"}, NEW id \in Procs
  PROVE  Still(id)
BY QuietIs DEF Still, NoAttempt

LEMMA DownCovered ==
  ASSUME OwnInv', mode' \in {"down", "boot"}, LocksOwn',
         \A id \in Procs : ~Holds(id)' /\ (Over(row'[id].state) => Free(id)')
  PROVE  CoverInv'
<1>1. Quiet' /\ LaunchersShape'
  BY DEF OwnInv, ModeInv
<1>2. ASSUME NEW id \in Procs
      PROVE  Cover(id)'
  <2>1. NoLauncher(id)'
    BY <1>1, NobodyIsZero DEF Quiet, NoLauncher, LaunchersShape
  <2>2. ~Cancelling(id)'
    BY <1>1 DEF Quiet, Cancelling
  <2>3. NoAttempt(id)'
    BY <1>1 DEF Quiet, NoAttempt, Attempting, UsingPhases, Handles
  <2>4. QED
    BY <2>1, <2>2, <2>3, StillCovered DEF Still
<1>3. QED
  BY <1>2 DEF CoverInv

(* The end of the daemon: slots are gone, locks are in the store.          *)
LEMMA PowerOffCovers ==
  ASSUME OwnInv', CoverInv, PowerOff
  PROVE  CoverInv'
<1>1. mode' = "down" /\ row' = row /\ locks' = locks /\ holders' = [id \in Procs |-> NoWorker]
  BY DEF PowerOff, storeVars
<1>2. \A id \in Procs : ~Holds(id)'
  BY <1>1 DEF Holds
<1>3. LocksOwn' /\ \A id \in Procs : Free(id)' <=> Free(id)
  BY <1>1, LockKept DEF CoverInv
<1>4. \A id \in Procs : Over(row'[id].state) => Free(id)'
  BY <1>1, <1>3 DEF CoverInv, Cover, LetGo
<1>5. QED
  BY <1>1, <1>2, <1>3, <1>4, DownCovered

(* The next start gives the lock of what it gives up back.                 *)
LEMMA ReconcileCovers ==
  ASSUME DaemonInv, OwnInv, OwnInv', CoverInv, NEW x \in todo, NEW reset \in BOOLEAN,
         reconcileOne(x, reset)
  PROVE  CoverInv'
<1>0. x \in Procs /\ StoreInv /\ LocksOwn /\ row[x] \in Process
  BY DEF DaemonInv, PassInv, SuperInv, CoverInv, StoreInv, Storable
<1>1. mode = "boot" /\ mode' = "boot" /\ UNCHANGED slotVars
  BY DEF reconcileOne
<1>2. \A id \in Procs : ~Holds(id) /\ ~Holds(id)'
  BY <1>1, SlotKept DEF CoverInv
<1>3. \A id \in Procs : Over(row[id].state) => Free(id)
  BY DEF CoverInv, Cover, LetGo
<1>4. ASSUME LocksOwn', LocksStay(x), \A id \in Procs \ {x} : row'[id] = row[id],
             Over(row'[x].state) => Free(x)'
      PROVE  CoverInv'
  <2>1. \A id \in Procs : ~Holds(id)' /\ (Over(row'[id].state) => Free(id)')
    BY <1>2, <1>3, <1>4 DEF LocksStay
  <2>2. QED
    BY <1>1, <1>4, <2>1, DownCovered
<1>5. CASE UNCHANGED storeVars
  BY <1>0, <1>3, <1>4, <1>5, LockKept DEF storeVars
<1>6. CASE /\ row[x].state = "CREATED" /\ UpdateProcess(x, TransitionTo(row[x], "QUEUED", ""))
           /\ locks' = locks
  <2>1. TransitionTo(row[x], "QUEUED", "").state = "QUEUED"
    <3>1. CanTransition(row[x].state, "QUEUED") /\ "QUEUED" \in States /\ "" \in Reasons
      BY <1>6, Names, EdgesExist
    <3>2. QED
      BY <1>0, <3>1, TransitionArrives
  <2>2. row'[x].state = "QUEUED" /\ \A id \in Procs \ {x} : row'[id] = row[id]
    BY <1>0, <1>6, <2>1 DEF UpdateProcess, StoreInv
  <2>3. QED
    BY <1>0, <1>4, <1>6, <2>2, LockKept DEF Over, IsTerminal, NONE
<1>7. CASE LeaveOrphan(x)
  <2>1. ReleaseLock(x) /\ \A id \in Procs \ {x} : row'[id] = row[id]
    BY <1>7 DEF LeaveOrphan, UpdateProcess
  <2>2. QED
    BY <1>0, <1>4, <2>1, LockGiven
<1>8. CASE IsActive(row[x].state) /\ Recover(x, reset)
  <2> DEFINE p == Recovered(x, reset)
  <2>1. Edge(x, row[x], p) /\ row[x].state \in {"STARTING"} \cup Supervised
    BY <1>0, <1>8, RecoveredEdge DEF IsActive, Supervised
  <2>2. UpdateProcess(x, p) /\ IF IsTerminal(p.state) THEN ReleaseLock(x) ELSE locks' = locks
    BY <1>8 DEF Recover
  <2> HIDE DEF p
  <2>3. p.state # NONE
    BY <2>1 DEF Edge, PlainEdge, SettledEdge, Supervised, NONE
  <2>4. row'[x] = p /\ \A id \in Procs \ {x} : row'[id] = row[id]
    BY <1>0, <2>2 DEF UpdateProcess, StoreInv
  <2>5. LocksOwn' /\ LocksStay(x) /\ (IsTerminal(p.state) => Free(x)')
    BY <1>0, <2>2, LockGiven, LockKept
  <2>6. QED
    BY <1>4, <2>3, <2>4, <2>5 DEF Over
<1>9. QED
  BY <1>5, <1>6, <1>7, <1>8 DEF reconcileOne

LEMMA LifecycleCovers ==
  ASSUME DaemonInv, OwnInv, OwnInv', CoverInv, LifecycleStep
  PROVE  CoverInv'
<1>1. ASSUME UNCHANGED <<row, locks, launcher, stopper, hungup>>, UNCHANGED slotVars,
             mode' \notin {"up", "down", "boot"},
             \A h \in Handles : exec'[h].sup = exec[h].sup /\ exec'[h].p = exec[h].p
      PROVE  CoverInv'
  <2>1. NoRevival /\ \A id \in Procs : stopper'[id] = stopper[id]
    BY <1>1 DEF NoRevival
  <2>2. QED
    BY <1>1, <2>1, QuietCovers
<1>2. CASE Sigterm \/ Drain \/ ShutdownEnds \/ ShutdownBegins
  <2>1. /\ UNCHANGED <<row, locks, launcher, stopper, hungup, exec>> /\ UNCHANGED slotVars
        /\ mode' \in {"term", "drain", "exit", "stop"}
    BY <1>2 DEF Sigterm, Drain, ShutdownEnds, ShutdownBegins, OthersUnchanged, storeVars
  <2>2. \A h \in Handles : exec'[h].sup = exec[h].sup /\ exec'[h].p = exec[h].p
    BY <2>1
  <2>3. QED
    BY <1>1, <2>1, <2>2
<1>3. CASE \E h \in Handles : ShutdownIntent(h)
  <2>1. PICK h \in Handles : ShutdownIntent(h)
    BY <1>3
  <2> DEFINE e == setIntent(exec[h], "shutdown")
  <2>2. /\ UNCHANGED <<row, locks, launcher, stopper, hungup>> /\ UNCHANGED slotVars
        /\ mode' = "stop" /\ exec' = [exec EXCEPT ![h] = e]
    BY <2>1 DEF ShutdownIntent, OthersUnchanged, storeVars
  <2>3. exec[h] \in Exec
    BY DEF DaemonInv, SuperInv, AttemptsInv, StorableExec
  <2>4. e.sup = exec[h].sup /\ e.p = exec[h].p
    BY <2>3, SetIntentIs
  <2> HIDE DEF e
  <2>5. exec'[h] = e /\ \A g \in Handles : g # h => exec'[g] = exec[g]
    BY <2>2, AttemptAlone DEF DaemonInv
  <2>6. \A g \in Handles : exec'[g].sup = exec[g].sup /\ exec'[g].p = exec[g].p
    BY <2>4, <2>5
  <2>7. QED
    BY <1>1, <2>2, <2>6
<1>4. CASE Exit \/ Crash
  BY <1>4, PowerOffCovers DEF Exit, Crash
<1>5. CASE Boot
  <2>1. mode = "down" /\ mode' = "boot" /\ UNCHANGED <<row, locks>> /\ UNCHANGED slotVars
    BY <1>5 DEF Boot, storeVars
  <2>2. LocksOwn' /\ \A id \in Procs : (Free(id)' <=> Free(id)) /\ (Holds(id)' <=> Holds(id))
    BY <2>1, LockKept, SlotKept DEF CoverInv
  <2>3. \A id \in Procs : ~Holds(id)' /\ (Over(row'[id].state) => Free(id)')
    BY <2>1, <2>2 DEF CoverInv, Cover, LetGo
  <2>4. QED
    BY <2>1, <2>2, <2>3, DownCovered
<1>6. CASE ReconcileDone
  <2>1. /\ mode = "boot" /\ mode' = "up" /\ UNCHANGED <<row, locks, launcher, stopper, exec>>
        /\ UNCHANGED slotVars
    BY <1>6 DEF ReconcileDone, storeVars
  <2>2. LocksOwn' /\ \A id \in Procs : (Free(id)' <=> Free(id)) /\ (Holds(id)' <=> Holds(id))
    BY <2>1, LockKept, SlotKept DEF CoverInv
  <2>3. \A id \in Procs : ~Holds(id)' /\ (Over(row'[id].state) => Free(id)')
    BY <2>1, <2>2 DEF CoverInv, Cover, LetGo
  <2>4. ASSUME NEW id \in Procs
        PROVE  Cover(id)'
    <3>1. Still(id)
      BY <2>1, NobodyStill
    <3>2. Still(id)'
      BY <2>1, <3>1 DEF Still, NoLauncher, NoAttempt, Attempting, Cancelling
    <3>3. QED
      BY <2>3, <3>2, StillCovered
  <2>5. QED
    BY <2>1, <2>2, <2>4 DEF CoverInv
<1>7. CASE \E id \in todo, reset \in BOOLEAN : reconcileOne(id, reset)
  BY <1>7, ReconcileCovers
<1>8. QED
  BY <1>2, <1>3, <1>4, <1>5, <1>6, <1>7 DEF LifecycleStep

----------------------------------------------------------------------------
(* The invariant.                                                          *)

LEMMA InitCovers == Init => CoverInv /\ ClaimInv
<1> SUFFICES ASSUME Init PROVE CoverInv /\ ClaimInv
  OBVIOUS
<1>1. /\ \A id \in Procs : row[id] = NoProcess /\ stopper[id].pc = "idle"
      /\ \A t \in Launchers : launcher[t].pc = "idle"
      /\ mode = "up" /\ \A k \in LockKeys : locks[k] = 0
      /\ \A id \in Procs : ~Holds(id)
  BY DEF Init, StoreInit, SupervisorInit, IdleLauncher, IdleStopper, NewSlots, Holds
<1>2. \A id \in Procs, n \in 1..MaxLaunches : exec[<<id, n>>].sup = "none"
  <2>1. \A id \in Procs, n \in 1..MaxLaunches : exec[<<id, n>>] = NoExec
    BY DEF Init, SupervisorInit, Handles
  <2>2. QED
    BY <2>1, NoExecIs
<1>3. LocksOwn /\ \A id \in Procs : Free(id)
  BY <1>1, NobodyIsZero DEF LocksOwn, Free
<1>4. ASSUME NEW id \in Procs
      PROVE  ~SlotUser(id) /\ ~LockUser(id)
  BY <1>1, <1>2 DEF SlotUser, LockUser, LockPCs, LockPhases, UsingPCs, UsingPhases
<1>5. CoverInv
  BY <1>1, <1>3, <1>4 DEF CoverInv, Cover
<1>6. ClaimInv
  BY <1>1 DEF ClaimInv
<1>7. QED
  BY <1>5, <1>6

(* Neither a reload nor a stuttering step changes who holds what.          *)
LEMMA RestCovers ==
  ASSUME CoverInv, UNCHANGED <<row, locks, launcher, stopper, exec, mode, hungup, holders>>
  PROVE  CoverInv'
<1>1. \A id \in Procs : Holds(id)' <=> Holds(id)
  BY DEF Holds
<1>2. LocksOwn' /\ \A id \in Procs : (HoldsLock(id)' <=> HoldsLock(id)) /\ (Free(id)' <=> Free(id))
  BY LockKept DEF CoverInv
<1>3. \A id \in Procs : Calm(id)
  BY SameIsCalm DEF NoRevival
<1>4. QED
  BY <1>1, <1>2, <1>3 DEF CoverInv, Cover, Calm

LEMMA NextCovers ==
  ASSUME Timely, DaemonInv, OwnInv, OwnInv', CoverInv, ClaimInv, [Next]_vars
  PROVE  CoverInv'
<1>1. ASSUME NEW t \in Launchers, LauncherStep(t)
      PROVE  CoverInv'
  BY <1>1, StartCovers, AdmitCovers, SubmitCovers DEF LauncherStep
<1>2. ASSUME NEW h \in Handles, AttemptStep(h)
      PROVE  CoverInv'
  BY <1>2, AttemptCovers DEF AttemptStep
<1>3. ASSUME NEW x \in Procs, StopStep(x)
      PROVE  CoverInv'
  <2>1. StopNext(x) \/ (CancelGet(x) /\ ~BeingStarted(x) /\ ~Unsettled(x))
    BY <1>3 DEF StopStep, Timely
  <2>2. QED
    BY <2>1, StopCovers
<1>4. CASE DispatchStep
  BY <1>4, DispatchCovers
<1>5. CASE LifecycleStep
  BY <1>5, LifecycleCovers
<1>6. CASE (\E w \in Workers, limit \in Limits : Reload(w, limit)) \/ UNCHANGED vars
  <2>1. UNCHANGED <<row, locks, launcher, stopper, exec, mode, hungup, holders>>
    BY <1>6 DEF Reload, SetWorkerLimit, vars, storeVars, superVars, slotVars
  <2>2. QED
    BY <2>1, RestCovers
<1>7. QED
  BY <1>1, <1>2, <1>3, <1>4, <1>5, <1>6 DEF Next

(* Every step of every component keeps slot and lock with the owner of the *)
(* row, and gives both back with the row: the lock before an outcome is    *)
(* written, the slot after it.                                             *)
THEOREM OwnersAreCovered ==
  ASSUME Timely
  PROVE  Spec => []CoverInv
<1>1. Init => CoverInv /\ ClaimInv
  BY InitCovers
<1>2. DaemonInv /\ OwnInv /\ OwnInv' /\ CoverInv /\ ClaimInv /\ [Next]_vars
        => (CoverInv /\ ClaimInv)'
  BY NextCovers, ClaimStep
<1>3. Spec => []OwnInv
  BY RowsAreOwned
<1>4. QED
  BY <1>1, <1>2, <1>3, DaemonCorrect, PTL DEF Spec

----------------------------------------------------------------------------
(* What readers of the slot table, of the locks and of the process list    *)
(* may rely on.                                                            *)

(* Who minds a process that is alive.                                      *)
LEMMA AliveIsUsed ==
  ASSUME OwnInv, NEW h \in Alive
  PROVE  /\ h \in Handles /\ h[1] \in Procs
         /\ SlotUser(h[1]) /\ LockUser(h[1])
         /\ \A g \in Alive : g[1] = h[1] => g = h
<1>1. PICK x \in Procs, n \in 1..MaxLaunches : h = <<x, n>>
  BY DEF Alive, Handles
<1>2. ASSUME NEW m \in 1..MaxLaunches, exec[<<x, m>>].proc = "alive"
      PROVE  \/ exec[<<x, m>>].sup = "wait" /\ Attempting(x, m)
             \/ m = launches[x] /\ \E t \in Launchers :
                  /\ launcher[t].id = x /\ launcher[t].pc \in {"running", "register", "abandon"}
                  /\ OwnedByLauncher(x, t)
  <2>1. \/ exec[<<x, m>>].sup = "wait"
        \/ m = launches[x] /\ \E t \in Launchers :
             launcher[t].id = x /\ launcher[t].pc \in {"running", "register", "abandon"}
    BY <1>2 DEF OwnInv, Referenced
  <2>2. QED
    BY <2>1, WhoLaunches DEF Attempting, UsingPhases
<1>3. h \in Handles /\ h[1] = x /\ exec[<<x, n>>].proc = "alive"
  BY <1>1 DEF Alive
<1>4. SlotUser(x) /\ LockUser(x)
  BY <1>2, <1>3 DEF SlotUser, LockUser, UsingPCs, LockPCs, UsingPhases, LockPhases
<1>5. ASSUME NEW g \in Alive, g[1] = h[1]
      PROVE  g = h
  <2>1. PICK m \in 1..MaxLaunches : g = <<x, m>> /\ exec[<<x, m>>].proc = "alive"
    BY <1>3, <1>5 DEF Alive, Handles
  <2>2. CASE Attempting(x, n)
    <3>1. OwnedByAttempt(x, n)
      BY <2>2, WhoAttempts
    <3>2. Attempting(x, m)
      BY <1>2, <2>1, <3>1 DEF OwnedByAttempt, NoLauncher
    <3>3. QED
      BY <1>1, <2>1, <3>1, <3>2 DEF OwnedByAttempt
  <2>3. CASE ~Attempting(x, n)
    <3>1. PICK t \in Launchers : OwnedByLauncher(x, t)
      BY <1>2, <1>3, <2>3
    <3>2. ~Attempting(x, m)
      BY <3>1 DEF OwnedByLauncher, NoAttempt
    <3>3. m = launches[x] /\ n = launches[x]
      BY <1>2, <1>3, <2>1, <2>3, <3>2
    <3>4. QED
      BY <1>1, <2>1, <3>3
  <2>4. QED
    BY <2>2, <2>3
<1>6. QED
  BY <1>3, <1>4, <1>5

(* A process this daemon runs is covered by the slot and by the lock of    *)
(* its execution, from the fork until it is gone: neither a stop, nor a    *)
(* failed start, nor a shutdown gives either back under a live process.    *)
THEOREM ProcessesAreCovered ==
  ASSUME Timely
  PROVE  Spec => []AliveIsCovered
<1>1. OwnInv /\ CoverInv => AliveIsCovered
  BY AliveIsUsed DEF AliveIsCovered, CoverInv, Cover
<1>2. (Spec => []OwnInv) /\ (Spec => []CoverInv)
  BY RowsAreOwned, OwnersAreCovered
<1>3. QED
  BY <1>1, <1>2, PTL

(* Two executions with the same lock key never have a process at the same  *)
(* time: AcquireLock and ReleaseLock are called with the row's owner only. *)
THEOREM LocksExclude ==
  ASSUME Timely
  PROVE  Spec => []LockExclusion
<1>1. AliveIsCovered => LockExclusion
  BY DEF AliveIsCovered, LockExclusion, HoldsLock
<1>2. Spec => []AliveIsCovered
  BY ProcessesAreCovered
<1>3. QED
  BY <1>1, <1>2, PTL

(* The node never runs more processes than max_processes, however limits,  *)
(* retries and stops interleave: every process has a slot of its own.      *)
THEOREM ProcessesAreBounded ==
  ASSUME Timely
  PROVE  Spec => []ProcessBound
<1>1. DaemonInv /\ OwnInv /\ AliveIsCovered => ProcessBound
  <2> SUFFICES ASSUME DaemonInv, OwnInv, AliveIsCovered
               PROVE  ProcessBound
    OBVIOUS
  <2> DEFINE f == [h \in Alive |-> h[1]]
  <2>1. f \in [Alive -> Holders]
    BY AliveIsUsed DEF AliveIsCovered, Holders
  <2>2. \A h, g \in Alive : f[h] = f[g] => h = g
    BY AliveIsUsed
  <2>3. f \in Injection(Alive, Holders)
    BY <2>1, <2>2 DEF Injection, IsInjective
  <2> HIDE DEF f
  <2>4. IsFiniteSet(Holders) /\ IsFiniteSet(Alive) /\ Cardinality(Alive) <= Cardinality(Holders)
    BY <2>3, HoldersFinite, FS_Injection
  <2>5. Cardinality(Holders) \in Nat /\ Cardinality(Alive) \in Nat /\ MaxProcesses \in Nat
    BY <2>4, FS_CardinalityType, LimitsAssumption
  <2>6. Cardinality(Holders) <= MaxProcesses
    BY DEF DaemonInv, SuperInv, SlotsInv, SlotBound
  <2>7. QED
    BY <2>4, <2>5, <2>6 DEF ProcessBound
<1>2. (Spec => []OwnInv) /\ (Spec => []AliveIsCovered)
  BY RowsAreOwned, ProcessesAreCovered
<1>3. QED
  BY <1>1, <1>2, DaemonCorrect, PTL

(* A finished execution holds no lock: every path that writes COMPLETED,   *)
(* FAILED or CANCELED has given the lock back before, or never asked.      *)
THEOREM FinishedHoldNoLock ==
  ASSUME Timely
  PROVE  Spec => []TerminalHoldsNoLock
<1>1. CoverInv => TerminalHoldsNoLock
  BY DEF CoverInv, Cover, LetGo, Over, Free, TerminalHoldsNoLock
<1>2. Spec => []CoverInv
  BY OwnersAreCovered
<1>3. QED
  BY <1>1, <1>2, PTL

(* A service keeps its slot between attempts, but for nothing else: a      *)
(* refusal, a cancellation and a final failure all give it back.           *)
THEOREM NoServiceSlotLeaks ==
  ASSUME Timely
  PROVE  Spec => []ServiceSlotNotLeaked
<1>1. CoverInv => ServiceSlotNotLeaked
  BY DEF CoverInv, Cover, SlotReason, ServiceSlotNotLeaked
<1>2. Spec => []CoverInv
  BY OwnersAreCovered
<1>3. QED
  BY <1>1, <1>2, PTL
=============================================================================
