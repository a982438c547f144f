------------------------------- MODULE Workers -------------------------------
(***************************************************************************)
(* internal/config/workers.go and render.go, and the part of               *)
(* internal/api/handlers.go that builds an execution: workers.d is edited  *)
(* and reloaded, and what is loaded then makes executions for requests,    *)
(* schedules and notifications with nobody there to correct them.          *)
(*                                                                         *)
(* A worker as its file says it is a record; a key the file leaves out has *)
(* the value Go gives it (0, "", {}).  Checks of one field on its own are  *)
(* folded into the fields "plain" and "bad".                               *)
(***************************************************************************)
EXTENDS Backoff, Sequences

CONSTANTS Files,        \* what workers.d can hold at the start: sequences of workers
          Edits,        \* and at a reload
          Requests,     \* what a client can ask for
          NotifyParams, \* the params a notification carries
          ParamShapes,  \* what a worker can declare as its params
          MaxAttempt    \* bound: how long a crash loop is followed

(* What decoding a file leaves, before any check: the type Worker.         *)
Backoffs == [type : STRING, initial : Int, max : Int, multiplier : Int, jitter : Int]
Retries ==
  [enabled : {"absent", "true", "false"}, max : Int, on : SUBSET STRING, success : BOOLEAN,
   rest : BOOLEAN, backoff : Backoffs]
Decoded ==
  [name : STRING, type : STRING, enabled : BOOLEAN, plain : BOOLEAN, timeout : BOOLEAN,
   lock : BOOLEAN, rotate : Int, overridable : SUBSET STRING, placeholders : SUBSET STRING,
   params : ParamShapes, retry : Retries, schedule : [cron : STRING, keys : BOOLEAN],
   notify : [on : STRING, webhook : STRING, exec : STRING]]

ASSUME FilesAssumption ==
  /\ \A files \in Files \cup Edits : \A i \in DOMAIN files : files[i] \in Decoded
  /\ MaxAttempt \in Nat

VARIABLES disk,      \* workers.d as it was read last
          registry,  \* the workers in effect, a set of records
          mode,      \* execution_mode
          built,     \* the execution made last, or why there is none
          crashing, attempt, delay  \* a worker in a crash loop, and its last wait

vars == <<disk, registry, mode, built, crashing, attempt, delay>>

Unlimited == -1
Absent == "absent"

----------------------------------------------------------------------------
(* Defaults.                                                               *)

RetryEnabled(w) == w.retry.enabled = "true"

applyRetryDefaults(r, service) ==
  [r EXCEPT
     !.max = IF @ # 0 THEN @ ELSE IF service THEN Unlimited ELSE 1,
     !.on = IF @ # {} THEN @
            ELSE {"nonzero_exit", "signal", "start_error"} \cup IF service THEN {"exit"} ELSE {},
     !.success = @ \/ ~service,
     !.backoff.type = IF @ = "" THEN "exponential" ELSE @,
     !.backoff.initial = IF @ = 0 THEN 1 ELSE @,
     !.backoff.max = IF @ = 0 THEN 8 ELSE @,
     !.backoff.multiplier = IF @ = 0 THEN 20 ELSE @]

(* applyWorkerDefaults; the defaults of cwd, lock_conflict, kill_grace and *)
(* the webhook's bounds are always valid and decide nothing here.          *)
applyWorkerDefaults(w) ==
  LET named == [w EXCEPT !.type = IF @ = "" THEN "task" ELSE @]
      v == [named EXCEPT !.retry.enabled = IF named.type = "service" /\ @ = Absent THEN "true" ELSE @]
  IN  IF RetryEnabled(v) THEN [v EXCEPT !.retry = applyRetryDefaults(@, v.type = "service")] ELSE v

----------------------------------------------------------------------------
(* Validation.                                                             *)

declaresPolicy(r) ==
  r.max # 0 \/ r.on # {} \/ r.rest \/ r.backoff.type # "" \/ r.backoff.initial # 0
  \/ r.backoff.max # 0 \/ r.backoff.multiplier # 0 \/ r.backoff.jitter # 0

validateRetry(w) ==
  IF ~RetryEnabled(w) THEN ~declaresPolicy(w.retry)
  ELSE LET b == w.retry.backoff
       IN  /\ w.retry.max >= 1 \/ w.retry.max = Unlimited
           /\ b.jitter \in 0..10 /\ b.multiplier >= 0 /\ b.initial >= 0 /\ b.max >= 0
           /\ b.type \in {"exponential", "linear", "fixed"}
           /\ "bad" \notin w.retry.on

(* Patterns compile, and every placeholder names a declared param.         *)
validateParams(w) ==
  /\ \A p \in DOMAIN w.params : ~w.params[p].bad
  /\ w.placeholders \subseteq DOMAIN w.params

(* A firing sends no params, so none may be required.                      *)
validateSchedule(w) ==
  IF w.schedule.cron = "" THEN ~w.schedule.keys
  ELSE /\ w.type # "service" /\ w.schedule.cron # "bad"
       /\ \A p \in DOMAIN w.params : ~w.params[p].required

NotifyIsSet(n) == n.on # "none" \/ n.webhook # "none" \/ n.exec # "none"

validateNotify(n) ==
  NotifyIsSet(n) => n.on = "known" /\ n.webhook # "bad" /\ n.exec # "" /\ (n.webhook # "none" \/ n.exec # "none")

validateService(w) == w.retry.enabled # "false" /\ ~w.timeout /\ ~w.retry.success /\ w.rotate >= 1

(* What only a service may declare is not refused to a task.               *)
validateType_ServiceOnly(w) == w.type = "service" => validateService(w)

validateType(w) ==
  IF w.type = "service" THEN validateService(w)
  ELSE "exit" \notin w.retry.on /\ w.retry.max # Unlimited

Validate(w) ==
  /\ w.plain /\ w.type \in {"task", "service"} /\ w.rotate >= 0
  /\ validateParams(w) /\ validateRetry(w) /\ validateSchedule(w)
  /\ validateNotify(w.notify) /\ validateType(w)

(* A notification runs a task that ends, that does not notify in turn and  *)
(* requires nothing a notification never carries.                          *)
validateNotifyTargets(ws) ==
  \A w \in ws : w.notify.exec # "none" =>
    \E t \in ws :
      /\ t.name = w.notify.exec
      /\ ~NotifyIsSet(t.notify) /\ t.type # "service"
      /\ \A p \in DOMAIN t.params : t.params[p].required => p \in NotifyParams

Loaded(ws) == {applyWorkerDefaults(ws[i]) : i \in DOMAIN ws}

LoadsAll(ws) ==
  /\ \A i, j \in DOMAIN ws : ws[i].name = ws[j].name => i = j
  /\ \A w \in Loaded(ws) : Validate(w)
  /\ validateNotifyTargets(Loaded(ws))

----------------------------------------------------------------------------
(* Executions.                                                             *)

Refused(why) == [made |-> FALSE, why |-> why]

EffectiveAttempts(r) ==
  IF r.enabled # "true" THEN 1 ELSE IF r.max = Unlimited THEN Unlimited ELSE IF r.max < 1 THEN 1 ELSE r.max

(* resolveParams: given maps the params sent to "fits" or "off", whether   *)
(* the value has the declared shape; a default is checked like any value.  *)
resolveParams(w, given) ==
  LET missing == {p \in DOMAIN w.params : p \notin DOMAIN given /\ w.params[p].required}
      value(p) == IF p \in DOMAIN given THEN given[p] ELSE w.params[p].default
  IN  IF ~(DOMAIN given \subseteq DOMAIN w.params) THEN "undeclared"
      ELSE IF missing # {} THEN "required"
      ELSE IF \E p \in DOMAIN w.params : value(p) = "off" THEN "shape" ELSE "resolved"

Instantiate(w, given) ==
  IF resolveParams(w, given) # "resolved" THEN Refused(resolveParams(w, given))
  ELSE [made |-> TRUE, worker |-> w.name, type |-> w.type, timeout |-> w.timeout,
        attempts |-> EffectiveAttempts(w.retry), lock |-> w.lock, overridden |-> {}]

(* applyOverrides: only what the worker lets a request set, and never a    *)
(* deadline on a service.  A duration of zero or less takes the deadline   *)
(* away.                                                                   *)
applyOverrides(p, w, req) ==
  LET asked == {f \in {"env", "timeout", "lock"} :
        CASE f = "env" -> req.env [] f = "timeout" -> req.timeout # "" [] f = "lock" -> req.lock}
  IN  IF ~(asked \subseteq w.overridable) \/ req.timeout = "bad" \/ (req.timeout # "" /\ p.type = "service")
      THEN Refused("override")
      ELSE [p EXCEPT !.timeout = IF req.timeout = "" THEN @ ELSE req.timeout = "good", !.lock = @ \/ req.lock, !.overridden = asked]

buildFromWorker(req) ==
  LET named == {w \in registry : w.name = req.worker}
  IN  IF ~req.token \/ named = {} THEN Refused("worker")
      ELSE LET w == CHOOSE v \in named : TRUE
               p == Instantiate(w, req.params)
           IN  IF ~w.enabled \/ (req.type # "" /\ req.type # w.type) THEN Refused("worker")
               ELSE IF p.made THEN applyOverrides(p, w, req) ELSE p

refuseWorkerFields(req) == req.worker # "" \/ DOMAIN req.params # {} \/ req.timeout # ""

(* applyRawCommand: an allowlisted command, as a task without a worker.    *)
applyRawCommand(req) ==
  IF mode # "raw" \/ req.command # "allowed" \/ req.type = "service" \/ refuseWorkerFields(req)
  THEN Refused("raw")
  ELSE [made |-> TRUE, worker |-> "", type |-> "task", timeout |-> FALSE,
        attempts |-> 1, lock |-> req.lock, overridden |-> {}]

buildProcess(req) ==
  IF req.type \notin {"", "task", "service"} THEN Refused("type")
  ELSE IF req.command # "" THEN applyRawCommand(req)
  ELSE IF req.worker = "" THEN Refused("worker")
  ELSE buildFromWorker(req)

----------------------------------------------------------------------------
Init ==
  /\ disk = <<>> /\ registry = {} /\ mode \in {"workers", "raw"}
  /\ built = Refused("none") /\ crashing = "" /\ attempt = 0 /\ delay = 0

(* At the start and at every reload: all of workers.d or none of it.       *)
LoadWorkers(files) ==
  /\ attempt = 0
  /\ disk' = files /\ registry' = IF LoadsAll(files) THEN Loaded(files) ELSE registry
  /\ built' = Refused("none")
  /\ UNCHANGED <<mode, crashing, attempt, delay>>

(* A request, a firing of the schedule, a notification.                    *)
Create(req) ==
  /\ registry # {} /\ attempt = 0
  /\ built' = buildProcess(req)
  /\ UNCHANGED <<disk, registry, mode, crashing, attempt, delay>>

Fire(w) ==
  /\ w.schedule.cron # "" /\ attempt = 0
  /\ built' = Instantiate(w, <<>>)
  /\ UNCHANGED <<disk, registry, mode, crashing, attempt, delay>>

(* paramsFor: a notification fills in what its target declares, of what it *)
(* has; an attempt that did not exit on its own has no exit_code, and no   *)
(* value need have the shape its target declares.                          *)
Carried(t, exited) ==
  [DOMAIN t.params \cap (IF exited THEN NotifyParams ELSE NotifyParams \ {"exit_code"}) -> {"fits", "off"}]

RunNotification(w) ==
  /\ w.notify.exec # "none" /\ attempt = 0
  /\ \E t \in registry, exited \in BOOLEAN : t.name = w.notify.exec
       /\ \E given \in Carried(t, exited) :
            built' = IF t.enabled THEN Instantiate(t, given) ELSE Refused("disabled")
  /\ UNCHANGED <<disk, registry, mode, crashing, attempt, delay>>

(* The worker crashes again and waits.                                     *)
Crash(w) ==
  /\ RetryEnabled(w) /\ attempt < MaxAttempt /\ crashing \in {"", w.name}
  /\ crashing' = w.name /\ attempt' = attempt + 1
  /\ \E factor \in Factors(w.retry.backoff) : delay' = Delay(w.retry.backoff, attempt', factor)
  /\ built' = Refused("none")
  /\ UNCHANGED <<disk, registry, mode>>

(* A daemon that cannot load workers.d does not start.                     *)
Next ==
  \/ disk = <<>> /\ \E files \in Files : LoadWorkers(files)
  \/ registry # {} /\ \E files \in Edits : LoadWorkers(files)
  \/ \E req \in Requests : Create(req)
  \/ \E w \in registry : Fire(w) \/ RunNotification(w) \/ Crash(w)

Spec == Init /\ [][Next]_vars

----------------------------------------------------------------------------
(* What is loaded is a task or a service, and a crash loop is followed so  *)
(* far.                                                                    *)
WorkersTypeOK ==
  /\ mode \in {"workers", "raw"} /\ built.made \in BOOLEAN
  /\ attempt \in 0..MaxAttempt
  /\ \A w \in registry : w.type \in {"task", "service"}

(* A task ends: whatever made it, it has a bound on its attempts.          *)
TasksEnd == built.made /\ built.type = "task" => built.attempts >= 1

(* A service has no deadline, keeps its logs and comes back after every    *)
(* way of stopping it was declared to survive, wherever it was asked for.  *)
ServicesStay ==
  built.made /\ built.type = "service" =>
    /\ ~built.timeout
    /\ \E w \in registry : w.name = built.worker /\ w.rotate >= 1 /\ RetryEnabled(w) /\ w.retry.on # {}

(* A request changes a worker's execution only where the worker says so.   *)
OnlyAllowedOverrides ==
  built.made /\ built.worker # "" =>
    \E w \in registry :
      /\ w.name = built.worker /\ built.overridden \subseteq w.overridable
      /\ "timeout" \notin built.overridden => built.timeout = w.timeout

(* A notification runs a task that is there and whose own failure is not   *)
(* notified in turn.  The task is sent nothing it does not declare, and    *)
(* lacks nothing it requires but an exit code, when the attempt it is told *)
(* of has none (paramsFor).                                                *)
NotificationsEnd ==
  \A w \in registry : w.notify.exec # "none" =>
    \E t \in registry :
      /\ t.name = w.notify.exec /\ t.notify.exec = "none" /\ t.type = "task"
      /\ \A exited \in BOOLEAN : \A given \in Carried(t, exited) :
           /\ resolveParams(t, given) # "undeclared"
           /\ resolveParams(t, given) = "required" =>
                ~exited /\ "exit_code" \in DOMAIN t.params /\ t.params["exit_code"].required

(* A firing never lacks a param: there is nobody to supply it.             *)
FiringsComplete ==
  \A w \in registry : w.schedule.cron # "" => resolveParams(w, <<>>) # "required"

(* What is loaded, and what it makes, part by part.                        *)
WorkersInv ==
  /\ WorkersTypeOK /\ NotificationsEnd /\ FiringsComplete
  /\ TasksEnd /\ ServicesStay /\ OnlyAllowedOverrides

(* A wait is one a duration can hold, never negative, and never longer     *)
(* than max and its jitter.                                                *)
DelayBounded ==
  /\ delay \in 0..MaxDuration
  /\ \A w \in registry : w.name = crashing =>
       delay <= (w.retry.backoff.max * (10 + w.retry.backoff.jitter)) \div 10

(* However long a crash loop is, its waits stay within bounds, and it is   *)
(* never sped up: without jitter, and with a multiplier of at least one,   *)
(* no wait is shorter than the one before (Delay).                         *)
DelayGrowsInBounds ==
  [][/\ DelayBounded'
     /\ attempt' > attempt /\ attempt > 0 =>
          \A w \in registry : w.name = crashing /\ w.retry.backoff.jitter = 0 /\ w.retry.backoff.multiplier >= 10
            => delay' >= delay]_vars

(* "A notification carries exactly the values in NotifyParams"             *)
(* (validateNotifyTargets): no target is ever short of one.                *)
NotificationsCarryAll ==
  \A w, t \in registry : w.notify.exec = t.name =>
    \A exited \in BOOLEAN : \A given \in Carried(t, exited) : resolveParams(t, given) # "required"

(* Refusing at load time turns a silent daily failure into a reload that   *)
(* does not apply (validateSchedule): what is loaded can be fired.         *)
FiringInstantiates ==
  \A w \in registry : w.schedule.cron # "" => Instantiate(w, <<>>).made
=============================================================================
