---------------------------- MODULE WorkersProofs ----------------------------
(***************************************************************************)
(* Whatever the files of workers.d say, and whatever a client asks for:    *)
(* what the loader accepts makes only executions that keep the promises of *)
(* their type.                                                             *)
(***************************************************************************)
EXTENDS Workers, TLAPS

(* A worker the checks have passed.                                        *)
Accepted(w) ==
  /\ Validate(w) /\ w.timeout \in BOOLEAN
  /\ w.type = "service" => RetryEnabled(w)
  /\ RetryEnabled(w) => w.retry.on # {}

(* All of the registry is, together.                                       *)
RegistryInv == (\A w \in registry : Accepted(w)) /\ validateNotifyTargets(registry)

(* What an execution made of a worker promises.                            *)
Keeps(p) ==
  /\ p.made \in BOOLEAN
  /\ p.made /\ p.type = "task" => p.attempts >= 1
  /\ p.made /\ p.type = "service" =>
       /\ ~p.timeout
       /\ \E w \in registry : w.name = p.worker /\ w.rotate >= 1 /\ RetryEnabled(w) /\ w.retry.on # {}
  /\ p.made /\ p.worker # "" =>
       \E w \in registry :
         /\ w.name = p.worker /\ p.overridden \subseteq w.overridable
         /\ "timeout" \notin p.overridden => p.timeout = w.timeout

LoadedInv ==
  /\ mode \in {"workers", "raw"} /\ attempt \in 0..MaxAttempt
  /\ RegistryInv /\ Keeps(built)

(* applyRetryDefaults leaves a policy that retries on something.           *)
LEMMA RetryDefaultsAre ==
  ASSUME NEW r \in Retries, NEW service
  PROVE  LET d == applyRetryDefaults(r, service)
         IN  d.on # {} /\ d.enabled = r.enabled
<1> DEFINE d == applyRetryDefaults(r, service)
           on == IF r.on # {} THEN r.on
                 ELSE {"nonzero_exit", "signal", "start_error"} \cup IF service THEN {"exit"} ELSE {}
<1>1. d.on = on /\ d.enabled = r.enabled
  BY DEF applyRetryDefaults, Retries, Backoffs
<1>2. on # {}
  OBVIOUS
<1>3. QED
  BY <1>1, <1>2

(* applyWorkerDefaults: a service that does not say so retries.            *)
LEMMA DefaultsAre ==
  ASSUME NEW w \in Decoded
  PROVE  LET d == applyWorkerDefaults(w)
         IN  /\ d.timeout = w.timeout /\ d.rotate = w.rotate
             /\ d.retry.enabled \in {"absent", "true", "false"}
             /\ d.type = "service" => d.retry.enabled # "absent"
             /\ RetryEnabled(d) => d.retry.on # {}
<1> DEFINE type == IF w.type = "" THEN "task" ELSE w.type
           named == [w EXCEPT !.type = type]
           enabled == IF named.type = "service" /\ w.retry.enabled = "absent" THEN "true"
                      ELSE w.retry.enabled
           v == [named EXCEPT !.retry.enabled = enabled]
           retry == applyRetryDefaults(v.retry, v.type = "service")
           d == applyWorkerDefaults(w)
<1>1. d = IF RetryEnabled(v) THEN [v EXCEPT !.retry = retry] ELSE v
  BY DEF applyWorkerDefaults, Absent, Decoded
<1>2. /\ named.type = type /\ named.retry = w.retry /\ named.timeout = w.timeout
      /\ named.rotate = w.rotate /\ w.retry \in Retries /\ DOMAIN named = DOMAIN w
  BY DEF Decoded
<1> HIDE DEF named
<1>3. enabled \in {"absent", "true", "false"} /\ (type = "service" => enabled # "absent")
  BY <1>2 DEF Retries
<1>4. /\ v.type = type /\ v.timeout = w.timeout /\ v.rotate = w.rotate
      /\ v.retry = [w.retry EXCEPT !.enabled = enabled] /\ DOMAIN v = DOMAIN w
  BY <1>2 DEF Decoded
<1> HIDE DEF v, type, enabled
<1>5. v.retry \in Retries /\ v.retry.enabled = enabled
  BY <1>2, <1>3, <1>4 DEF Retries
<1>6. retry.on # {} /\ retry.enabled = enabled
  BY <1>5, RetryDefaultsAre
<1> HIDE DEF retry
<1>7. CASE RetryEnabled(v)
  <2>1. d = [v EXCEPT !.retry = retry]
    BY <1>1, <1>7
  <2>2. d.type = type /\ d.timeout = w.timeout /\ d.rotate = w.rotate /\ d.retry = retry
    BY <1>4, <2>1 DEF Decoded
  <2>3. QED
    BY <1>3, <1>6, <2>2
<1>8. CASE ~RetryEnabled(v)
  BY <1>1, <1>3, <1>4, <1>5, <1>8
<1>9. QED
  BY <1>7, <1>8

(* A file that passes the checks makes accepted workers (LoadWorkers).     *)
LEMMA LoadedAreAccepted ==
  ASSUME NEW files \in Files \cup Edits, LoadsAll(files)
  PROVE  (\A w \in Loaded(files) : Accepted(w)) /\ validateNotifyTargets(Loaded(files))
<1>1. ASSUME NEW w \in Loaded(files)
      PROVE  Accepted(w)
  <2>1. PICK i \in DOMAIN files : w = applyWorkerDefaults(files[i])
    BY DEF Loaded
  <2>2. files[i] \in Decoded
    BY FilesAssumption
  <2>3. /\ w.timeout = files[i].timeout /\ w.retry.enabled \in {"absent", "true", "false"}
        /\ w.type = "service" => w.retry.enabled # "absent"
        /\ RetryEnabled(w) => w.retry.on # {}
    BY <2>1, <2>2, DefaultsAre
  <2>4. Validate(w)
    BY DEF LoadsAll
  <2>5. w.type = "service" => RetryEnabled(w)
    BY <2>3, <2>4 DEF Validate, validateType, validateService, RetryEnabled
  <2>6. w.timeout \in BOOLEAN
    BY <2>2, <2>3 DEF Decoded
  <2>7. QED
    BY <2>3, <2>4, <2>5, <2>6 DEF Accepted
<1>2. QED
  BY <1>1 DEF LoadsAll

(* Nothing that is refused keeps a promise.                                *)
LEMMA RefusedKeeps ==
  ASSUME NEW why
  PROVE  Keeps(Refused(why))
BY DEF Keeps, Refused

(* EffectiveAttempts: what is not a service has a budget.                  *)
LEMMA TasksAreBounded ==
  ASSUME NEW w, Accepted(w), w.type # "service"
  PROVE  EffectiveAttempts(w.retry) >= 1
<1>1. w.retry.max # Unlimited
  BY DEF Accepted, Validate, validateType
<1>2. RetryEnabled(w) => w.retry.max >= 1
  BY <1>1 DEF Accepted, Validate, validateRetry
<1>3. QED
  BY <1>1, <1>2 DEF EffectiveAttempts, RetryEnabled

LEMMA InstantiateKeeps ==
  ASSUME RegistryInv, NEW w \in registry, NEW given
  PROVE  LET p == Instantiate(w, given)
         IN  /\ Keeps(p)
             /\ p.made => p = [made |-> TRUE, worker |-> w.name, type |-> w.type, timeout |-> w.timeout,
                               attempts |-> EffectiveAttempts(w.retry), lock |-> w.lock, overridden |-> {}]
<1> DEFINE p == Instantiate(w, given)
           made == [made |-> TRUE, worker |-> w.name, type |-> w.type, timeout |-> w.timeout,
                    attempts |-> EffectiveAttempts(w.retry), lock |-> w.lock, overridden |-> {}]
<1>1. Accepted(w)
  BY DEF RegistryInv
<1>2. CASE resolveParams(w, given) # "resolved"
  <2>1. p = Refused(resolveParams(w, given)) /\ ~p.made
    BY <1>2 DEF Instantiate, Refused
  <2>2. QED
    BY <2>1, RefusedKeeps
<1>3. CASE resolveParams(w, given) = "resolved"
  <2>1. p = made
    BY <1>3 DEF Instantiate
  <2>2. w.type = "task" => EffectiveAttempts(w.retry) >= 1
    BY <1>1, TasksAreBounded
  <2>3. w.type = "service" => ~w.timeout /\ w.rotate >= 1 /\ RetryEnabled(w) /\ w.retry.on # {}
    BY <1>1 DEF Accepted, Validate, validateType, validateService
  <2>4. w.timeout \in BOOLEAN
    BY <1>1 DEF Accepted
  <2>5. Keeps(made)
    BY <2>2, <2>3, <2>4 DEF Keeps
  <2>6. QED
    BY <2>1, <2>5
<1>4. QED
  BY <1>2, <1>3

(* A request changes only what the worker lets it.                         *)
LEMMA OverridesKeep ==
  ASSUME RegistryInv, NEW w \in registry, NEW given, NEW req, Instantiate(w, given).made
  PROVE  Keeps(applyOverrides(Instantiate(w, given), w, req))
<1> DEFINE p == Instantiate(w, given)
           asked == {f \in {"env", "timeout", "lock"} :
             CASE f = "env" -> req.env [] f = "timeout" -> req.timeout # "" [] f = "lock" -> req.lock}
           late == req.timeout # ""
           timeout == IF late THEN req.timeout = "good" ELSE w.timeout
           lock == w.lock \/ req.lock
           q == applyOverrides(p, w, req)
<1>1. /\ Keeps(p)
      /\ p = [made |-> TRUE, worker |-> w.name, type |-> w.type, timeout |-> w.timeout,
              attempts |-> EffectiveAttempts(w.retry), lock |-> w.lock, overridden |-> {}]
  BY InstantiateKeeps
<1>2. w.timeout \in BOOLEAN
  BY DEF RegistryInv, Accepted
<1>3. late <=> "timeout" \in asked
  OBVIOUS
<1>4. CASE q = Refused("override")
  BY <1>4, RefusedKeeps
<1>5. CASE q # Refused("override")
  <2>1. asked \subseteq w.overridable /\ ~(late /\ w.type = "service")
        /\ q = [p EXCEPT !.timeout = IF late THEN req.timeout = "good" ELSE p.timeout,
                         !.lock = p.lock \/ req.lock, !.overridden = asked]
    <3> DEFINE ok == [p EXCEPT !.timeout = IF late THEN req.timeout = "good" ELSE p.timeout,
                               !.lock = p.lock \/ req.lock, !.overridden = asked]
    <3>1. q = IF ~(asked \subseteq w.overridable) \/ req.timeout = "bad" \/ (late /\ p.type = "service")
              THEN Refused("override") ELSE ok
      BY DEF applyOverrides
    <3>2. p.type = w.type
      BY <1>1
    <3> HIDE DEF asked, late, p, q, ok
    <3>3. QED
      BY <1>5, <3>1, <3>2 DEF ok
  <2> HIDE DEF asked, late, q, p
  <2>2. /\ q.made = p.made /\ q.worker = w.name /\ q.type = w.type
        /\ q.attempts = p.attempts /\ q.timeout = timeout /\ q.overridden = asked
        /\ p.made = TRUE /\ p.type = w.type /\ p.worker = w.name /\ p.timeout = w.timeout
    BY <1>1, <2>1
  <2>3. w.type = "service" => ~q.timeout
    BY <1>1, <2>1, <2>2 DEF Keeps
  <2>4. ("timeout" \notin q.overridden => q.timeout = w.timeout) /\ q.overridden \subseteq w.overridable
    BY <1>3, <2>1, <2>2
  <2>5. Keeps(q)
    BY <1>1, <2>2, <2>3, <2>4 DEF Keeps
  <2>6. QED
    BY <2>5 DEF q, p
<1>6. QED
  BY <1>4, <1>5

(* Whatever a request asks for (buildProcess).                             *)
LEMMA RequestsKeep ==
  ASSUME RegistryInv, NEW req
  PROVE  Keeps(buildProcess(req))
<1>1. CASE buildProcess(req) = applyRawCommand(req)
  <2> DEFINE raw == [made |-> TRUE, worker |-> "", type |-> "task", timeout |-> FALSE,
                     attempts |-> 1, lock |-> req.lock, overridden |-> {}]
  <2>1. applyRawCommand(req) \in {Refused("raw"), raw}
    BY DEF applyRawCommand
  <2>2. Keeps(raw)
    BY DEF Keeps
  <2> HIDE DEF raw
  <2>3. QED
    BY <1>1, <2>1, <2>2, RefusedKeeps
<1>2. CASE buildProcess(req) = buildFromWorker(req)
  <2> DEFINE named == {w \in registry : w.name = req.worker}
             w == CHOOSE v \in named : TRUE
             p == Instantiate(w, req.params)
  <2>1. CASE named = {}
    <3>1. buildFromWorker(req) = Refused("worker")
      BY <2>1 DEF buildFromWorker
    <3>2. QED
      BY <1>2, <3>1, RefusedKeeps
  <2>2. CASE named # {}
    <3>1. w \in registry
      BY <2>2
    <3>2. buildFromWorker(req) \in {Refused("worker"), p, applyOverrides(p, w, req)}
          /\ (buildFromWorker(req) = applyOverrides(p, w, req) => 
                p.made \/ applyOverrides(p, w, req) \in {Refused("worker"), p})
      BY <2>2 DEF buildFromWorker
    <3> HIDE DEF w, named
    <3>3. Keeps(p) /\ (p.made => Keeps(applyOverrides(p, w, req)))
      BY <3>1, InstantiateKeeps, OverridesKeep
    <3>4. QED
      BY <1>2, <3>2, <3>3, RefusedKeeps
  <2>3. QED
    BY <2>1, <2>2
<1>3. CASE buildProcess(req) \in {Refused("type"), Refused("worker")}
  BY <1>3, RefusedKeeps
<1>4. QED
  BY <1>1, <1>2, <1>3 DEF buildProcess

LEMMA MadeStep ==
  ASSUME LoadedInv, NEW p, built' = p, Keeps(p), UNCHANGED <<registry, mode>>,
         attempt' \in 0..MaxAttempt
  PROVE  LoadedInv'
<1>1. RegistryInv'
  BY DEF LoadedInv, RegistryInv
<1>2. Keeps(built)'
  BY DEF Keeps
<1>3. QED
  BY <1>1, <1>2 DEF LoadedInv

LEMMA LoadedStep ==
  ASSUME LoadedInv, [Next]_vars
  PROVE  LoadedInv'
<1>1. RegistryInv /\ attempt \in 0..MaxAttempt /\ MaxAttempt \in Nat
  BY FilesAssumption DEF LoadedInv
<1>2. ASSUME NEW files \in Files \cup Edits, LoadWorkers(files)
      PROVE  LoadedInv'
  <2>1. RegistryInv'
    BY <1>2, LoadedAreAccepted DEF LoadWorkers, LoadedInv, RegistryInv
  <2>2. Keeps(built)'
    BY <1>2 DEF LoadWorkers, Keeps, Refused
  <2>3. QED
    BY <1>1, <1>2, <2>1, <2>2 DEF LoadWorkers, LoadedInv
<1>3. ASSUME NEW req \in Requests, Create(req)
      PROVE  LoadedInv'
  BY <1>1, <1>3, RequestsKeep, MadeStep DEF Create
<1>4. ASSUME NEW w \in registry, Fire(w)
      PROVE  LoadedInv'
  BY <1>1, <1>4, InstantiateKeeps, MadeStep DEF Fire
<1>5. ASSUME NEW w \in registry, RunNotification(w)
      PROVE  LoadedInv'
  <2>1. PICK t \in registry, exited \in BOOLEAN : \E given \in Carried(t, exited) :
          built' = IF t.enabled THEN Instantiate(t, given) ELSE Refused("disabled")
    BY <1>5 DEF RunNotification
  <2>2. PICK given \in Carried(t, exited) :
          built' = IF t.enabled THEN Instantiate(t, given) ELSE Refused("disabled")
    BY <2>1
  <2>3. Keeps(Instantiate(t, given)) /\ Keeps(Refused("disabled"))
    BY <1>1, InstantiateKeeps, RefusedKeeps
  <2>4. built' \in {Instantiate(t, given), Refused("disabled")}
    BY <2>2
  <2>5. UNCHANGED <<registry, mode, attempt>>
    BY <1>5 DEF RunNotification
  <2>6. QED
    BY <1>1, <2>3, <2>4, <2>5, MadeStep
<1>6. ASSUME NEW w \in registry, Crash(w)
      PROVE  LoadedInv'
  <2>1. /\ built' = Refused("none") /\ UNCHANGED <<registry, mode>>
        /\ attempt < MaxAttempt /\ attempt' = attempt + 1
    BY <1>6, Zenon DEF Crash
  <2>2. attempt' \in 0..MaxAttempt
    BY <1>1, <2>1
  <2>3. QED
    BY <2>1, <2>2, RefusedKeeps, MadeStep
<1>7. CASE UNCHANGED vars
  BY <1>1, <1>7, MadeStep DEF vars, LoadedInv
<1>8. QED
  BY <1>2, <1>3, <1>4, <1>5, <1>6, <1>7 DEF Next

(* The checks of the loader are enough for what runs unattended.           *)
LEMMA LoadedIsEnough ==
  ASSUME LoadedInv
  PROVE  WorkersInv
<1>1. /\ \A w \in registry : Accepted(w)
      /\ validateNotifyTargets(registry) /\ Keeps(built)
  BY DEF LoadedInv, RegistryInv
<1>2. \A w \in registry : w.type \in {"task", "service"}
  BY <1>1 DEF Accepted, Validate
<1>3. NotificationsEnd
  <2>1. ASSUME NEW w \in registry, w.notify.exec # "none"
        PROVE  \E t \in registry :
                 /\ t.name = w.notify.exec /\ t.notify.exec = "none" /\ t.type = "task"
                 /\ \A exited \in BOOLEAN : \A given \in Carried(t, exited) :
                      /\ resolveParams(t, given) # "undeclared"
                      /\ resolveParams(t, given) = "required" =>
                           ~exited /\ "exit_code" \in DOMAIN t.params /\ t.params["exit_code"].required
    <3>1. PICK t \in registry :
            /\ t.name = w.notify.exec /\ ~NotifyIsSet(t.notify) /\ t.type # "service"
            /\ \A p \in DOMAIN t.params : t.params[p].required => p \in NotifyParams
      BY <1>1, <2>1 DEF validateNotifyTargets
    <3>2. ASSUME NEW exited \in BOOLEAN, NEW given \in Carried(t, exited)
          PROVE  /\ resolveParams(t, given) # "undeclared"
                 /\ resolveParams(t, given) = "required" =>
                      ~exited /\ "exit_code" \in DOMAIN t.params /\ t.params["exit_code"].required
      <4> DEFINE missing == {p \in DOMAIN t.params : p \notin DOMAIN given /\ t.params[p].required}
      <4>1. DOMAIN given = DOMAIN t.params \cap
              (IF exited THEN NotifyParams ELSE NotifyParams \ {"exit_code"})
        BY DEF Carried
      <4>2. DOMAIN given \subseteq DOMAIN t.params
        BY <4>1
      <4>3. missing # {} => ~exited /\ "exit_code" \in DOMAIN t.params /\ t.params["exit_code"].required
        BY <3>1, <4>1
      <4>4. resolveParams(t, given) # "undeclared" /\ (resolveParams(t, given) = "required" => missing # {})
        BY <4>2 DEF resolveParams
      <4>5. QED
        BY <4>3, <4>4
    <3>3. t.type = "task" /\ t.notify.exec = "none"
      BY <1>2, <3>1 DEF NotifyIsSet
    <3>4. QED
      BY <3>1, <3>2, <3>3
  <2>2. QED
    BY <2>1 DEF NotificationsEnd
<1>4. FiringsComplete
  <2>1. ASSUME NEW w \in registry, w.schedule.cron # ""
        PROVE  resolveParams(w, <<>>) # "required"
    <3>1. \A p \in DOMAIN w.params : ~w.params[p].required
      BY <1>1, <2>1 DEF Accepted, Validate, validateSchedule
    <3>2. {p \in DOMAIN w.params : p \notin DOMAIN <<>> /\ w.params[p].required} = {}
      BY <3>1
    <3>3. QED
      BY <3>2 DEF resolveParams
  <2>2. QED
    BY <2>1 DEF FiringsComplete
<1>5. TasksEnd /\ ServicesStay /\ OnlyAllowedOverrides
  BY <1>1 DEF Keeps, TasksEnd, ServicesStay, OnlyAllowedOverrides
<1>6. WorkersTypeOK
  BY <1>1, <1>2 DEF LoadedInv, WorkersTypeOK, Keeps
<1>7. QED
  BY <1>3, <1>4, <1>5, <1>6 DEF WorkersInv

(* For everything workers.d can say, before and after any number of        *)
(* reloads, and for everything a client can ask for: a task has a bound on *)
(* its attempts, a service has no deadline and comes back, a request       *)
(* changes what it may, a firing has all it needs, and a notification all  *)
(* but the exit code of an attempt that has none (LoadWorkers, Validate,   *)
(* Instantiate, applyOverrides, paramsFor).                                *)
THEOREM LoadedWorkersKeepPromises == Spec => []WorkersInv
<1>1. Init => LoadedInv
  <2>1. SUFFICES ASSUME Init
                 PROVE  LoadedInv
    OBVIOUS
  <2>2. RegistryInv
    BY <2>1 DEF Init, RegistryInv, validateNotifyTargets
  <2>3. Keeps(built)
    BY <2>1, RefusedKeeps DEF Init
  <2>4. attempt \in 0..MaxAttempt
    <3>1. attempt = 0 /\ MaxAttempt \in Nat
      BY <2>1, FilesAssumption DEF Init
    <3>2. QED
      BY <3>1
  <2>5. mode \in {"workers", "raw"}
    BY <2>1 DEF Init
  <2>6. QED
    BY <2>2, <2>3, <2>4, <2>5 DEF LoadedInv
<1>2. LoadedInv /\ [Next]_vars => LoadedInv'
  BY LoadedStep
<1>3. LoadedInv => WorkersInv
  BY LoadedIsEnough
<1>4. QED
  BY <1>1, <1>2, <1>3, PTL DEF Spec
=============================================================================
