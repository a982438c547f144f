----------------------------- MODULE MCWorkers -----------------------------
(* An instance of the worker loader for TLC: one field, or a few that      *)
(* interact, varied at a time around a plain task and a plain service.     *)
EXTENDS Workers

NoBackoff == [type |-> "", initial |-> 0, max |-> 0, multiplier |-> 0, jitter |-> 0]
Task == [name |-> "w", type |-> "task", enabled |-> TRUE, plain |-> TRUE, timeout |-> FALSE, lock |-> FALSE,
         rotate |-> 0, overridable |-> {}, placeholders |-> {}, params |-> <<>>,
         retry |-> [enabled |-> "absent", max |-> 0, on |-> {}, success |-> FALSE, rest |-> FALSE,
                    backoff |-> NoBackoff],
         schedule |-> [cron |-> "", keys |-> FALSE],
         notify |-> [on |-> "none", webhook |-> "none", exec |-> "none"]]
Service == [Task EXCEPT !.type = "service", !.rotate = 1]
Plain == {Task, Service}

Policies == UNION {{[w EXCEPT !.type = t, !.retry.enabled = e, !.retry.max = m, !.retry.on = o,
                       !.retry.success = s, !.timeout = d] :
             t \in {"", "task", "service"}, e \in {"absent", "true", "false"}, m \in {0, 2, -1},
             o \in {{}, {"exit"}, {"bad"}}, s \in BOOLEAN, d \in BOOLEAN} : w \in Plain}
Curves == UNION {{[w EXCEPT !.retry.enabled = "true",
                     !.retry.backoff = [type |-> t, initial |-> i, max |-> m, multiplier |-> x, jitter |-> j]] :
           t \in {"", "linear", "fixed", "bad"}, i \in {-1, 0, 3}, m \in {-1, 0, 20, 80},
           x \in {-1, 0, 5, 30}, j \in {0, 5, 11}} : w \in Plain}
Params == [required: BOOLEAN, default: {"none", "fits", "off"}, bad: BOOLEAN]
Shapes == {<<>>} \cup UNION {[names -> Params] : names \in {{"event"}, {"id"}, {"exit_code"}}}
Templates == {[w EXCEPT !.params = p, !.placeholders = h, !.schedule = [cron |-> c, keys |-> k]] :
               w \in Plain, p \in Shapes, h \in {{}, {"id"}}, c \in {"", "daily", "bad"}, k \in BOOLEAN}
Permits == {[w EXCEPT !.overridable = o, !.plain = p, !.enabled = e, !.lock = l] :
             w \in Plain, o \in SUBSET {"env", "timeout", "lock"}, p \in BOOLEAN, e \in BOOLEAN, l \in BOOLEAN}
Notifying == {[w EXCEPT !.notify = [on |-> o, webhook |-> h, exec |-> x]] :
               w \in Plain, o \in {"none", "known", "bad"}, h \in {"none", "good", "bad"},
               x \in {"none", "", "t", "w"}}
Targets == {[w EXCEPT !.name = n, !.params = p, !.notify.on = o, !.notify.webhook = IF o = "known" THEN "good" ELSE "none"] :
             w \in Plain, n \in {"t", "w"}, p \in Shapes, o \in {"none", "known"}}
           \cup {[Task EXCEPT !.name = "t", !.enabled = FALSE]}

MCFiles ==
  {<<w>> : w \in Policies \cup Curves \cup Templates \cup Permits} \cup {<<w, t>> : w \in Notifying, t \in Targets}
MCEdits == {<<Task>>, <<Service>>, <<Task, Task>>, <<Task, [Service EXCEPT !.name = "t", !.rotate = 0]>>}
Ask == [type |-> "", command |-> "", worker |-> "w", params |-> <<>>, env |-> FALSE, timeout |-> "",
        lock |-> FALSE, token |-> TRUE]
MCRequests ==
  {[Ask EXCEPT !.env = e, !.timeout = d, !.lock = l] : e \in BOOLEAN, d \in {"", "good", "zero", "bad"}, l \in BOOLEAN}
  \cup {[Ask EXCEPT !.type = t, !.worker = n, !.params = p, !.token = k] :
          t \in {"", "task", "service", "batch"}, n \in {"", "w", "x"}, k \in BOOLEAN,
          p \in {<<>>, [x \in {"id"} |-> "fits"], [x \in {"id"} |-> "off"]}}
  \cup {[Ask EXCEPT !.type = t, !.command = c, !.worker = n, !.timeout = d, !.lock = l] :
          t \in {"", "service"}, c \in {"allowed", "other"}, n \in {"", "w"}, d \in {"", "good"}, l \in BOOLEAN}
=============================================================================
