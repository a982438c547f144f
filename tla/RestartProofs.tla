--------------------------- MODULE RestartProofs ---------------------------
(***************************************************************************)
(* Processes outlive the daemon: which of them the store knows of, what    *)
(* the next start does about them, and what a daemon that is not restarted *)
(* guarantees beyond that.                                                 *)
(***************************************************************************)
EXTENDS OwnerProofs

(***************************************************************************)
(* A copy of an execution names a process by its pid.  As long as the      *)
(* process runs, the copy says so; if it was left behind by an earlier     *)
(* daemon, Reconcile has dealt with it or has yet to.                      *)
(***************************************************************************)
DealtWith(id, p, m, d) ==
  \/ OrphanPolicy = "leave" /\ p.state = "FAILED"
  \/ p.state \in Supervised /\ (m = "down" \/ (m = "boot" /\ id \in d))

Fits(id, p, x, m, d) ==
  /\ p.state = "STARTING" => p.pid = 0
  /\ p.pid # 0 =>
       /\ p.pid \in 1..MaxLaunches
       /\ x[<<id, p.pid>>].proc # "none"
       /\ x[<<id, p.pid>>].proc = "alive" => p.state \in Supervised
       /\ x[<<id, p.pid>>].proc = "orphan" => DealtWith(id, p, m, d)

Sound(id, p) == Fits(id, p, exec, mode, todo)

(* A supervised attempt has the pid of its launch.                         *)
Numbered == \A h \in Handles : exec[h].sup # "none" => exec[h].p.pid = h[2]

(* Until the daemon is up, the rows are the only copies.                   *)
Bare ==
  mode \in {"down", "boot"} =>
     /\ \A id \in Procs : snap[id].pid = 0 /\ stopper[id].p.pid = 0
     /\ \A h \in Handles : exec[h].p.pid = 0

(* A launcher that has created the row of its execution has a copy.        *)
Carries(l, id) == l.id = id /\ l.pc # "create"

CopiesInv ==
  /\ \A id \in Procs : Sound(id, row[id]) /\ Sound(id, snap[id]) /\ Sound(id, stopper[id].p)
  /\ \A h \in Handles : Sound(h[1], exec[h].p)
  /\ \A t \in Launchers, id \in Procs : Carries(launcher[t], id) => Sound(id, launcher[t].p)
  /\ Numbered /\ Bare

----------------------------------------------------------------------------
(* Copies and processes, one step later.                                   *)

(* Processes end; only a launch that was not made becomes one.             *)
ProcStep(h) ==
  \/ exec'[h].proc \in {exec[h].proc, "zombie", "gone"}
  \/ exec[h].proc = "none" /\ exec'[h].proc = "alive"

Carried(id, p) == Sound(id, p) \/ Fits(id, p, exec', mode', todo')

(* An execution that failed is not written again.                          *)
FailedStay == \A id \in Procs : row[id].state = "FAILED" => row'[id] = row[id]

Copied ==
  /\ CopiesInv' /\ FailedStay
  /\ \A h \in Handles : exec'[h].proc = "orphan" => exec[h].proc = "orphan"

(* No copy names a launch that was not made, so a fork disturbs none.      *)
LEMMA FitsOn ==
  ASSUME Live, Live', \A h \in Handles : ProcStep(h), NEW id \in Procs, NEW p, Carried(id, p)
  PROVE  Fits(id, p, exec', mode', todo')
<1>1. CASE Sound(id, p)
  <2>1. p.pid \in 1..MaxLaunches => <<id, p.pid>> \in Handles
    BY DEF Handles
  <2>2. DealtWith(id, p, mode, todo) => DealtWith(id, p, mode', todo')
    BY DEF DealtWith, Live
  <2>3. p.pid # 0 => ProcStep(<<id, p.pid>>)
    BY <1>1, <2>1 DEF Sound, Fits
  <2>4. QED
    BY <1>1, <2>2, <2>3 DEF Sound, Fits, ProcStep
<1>2. QED
  BY <1>1 DEF Carried

LEMMA CopiesStep ==
  ASSUME CopiesInv, Live, Live', \A h \in Handles : ProcStep(h), FailedStay,
         \A id \in Procs : /\ Carried(id, row'[id])
                           /\ Carried(id, snap'[id])
                           /\ Carried(id, stopper'[id].p),
         \A h \in Handles : /\ Carried(h[1], exec'[h].p)
                            /\ exec'[h].sup # "none" => exec'[h].p.pid = h[2],
         \A t \in Launchers, id \in Procs : Carries(launcher'[t], id) => Carried(id, launcher'[t].p)
  PROVE  Copied
<1>1. \A id \in Procs : Sound(id, row[id])' /\ Sound(id, snap[id])' /\ Sound(id, stopper[id].p)'
  BY FitsOn DEF Sound
<1>2. \A h \in Handles : h[1] \in Procs
  BY DEF Handles
<1>3. \A h \in Handles : Sound(h[1], exec[h].p)'
  BY <1>2, FitsOn DEF Sound
<1>4. \A t \in Launchers, id \in Procs : Carries(launcher[t], id)' => Sound(id, launcher[t].p)'
  BY FitsOn DEF Sound, Carries
<1>5. Numbered' /\ Bare'
  BY DEF Numbered, Bare, Live
<1>6. CopiesInv'
  BY <1>1, <1>3, <1>4, <1>5 DEF CopiesInv
<1>7. \A h \in Handles : exec'[h].proc = "orphan" => exec[h].proc = "orphan"
  BY DEF ProcStep
<1>8. QED
  BY <1>6, <1>7 DEF Copied

(* Copies that name nobody, or a process that is gone.                     *)
LEMMA FitsSame ==
  ASSUME NEW id, NEW p, NEW q, Sound(id, p), q.pid \in {0, p.pid},
         q.state = "STARTING" => q.pid = 0,
         p.pid # 0 => exec[<<id, p.pid>>].proc \notin {"alive", "orphan"}
  PROVE  Sound(id, q)
BY DEF Sound, Fits

LEMMA FitsNobody ==
  ASSUME NEW id, NEW p, p.pid = 0
  PROVE  Sound(id, p)
BY DEF Sound, Fits

(* A transition of an execution that has no process.                       *)
LEMMA FitsTurned ==
  ASSUME Live, NEW id, NEW p \in Process, Sound(id, p), p.state \notin Supervised,
         NEW to \in States \ {"STARTING"}, NEW reason \in Reasons
  PROVE  Sound(id, TransitionTo(p, to, reason))
<1>1. CASE p.state = "FAILED"
  <2>1. ~CanTransition(p.state, to)
    BY <1>1 DEF CanTransition, allowedTransitions, States
  <2>2. QED
    BY <2>1 DEF TransitionTo
<1>2. CASE p.state # "FAILED"
  <2> DEFINE q == TransitionTo(p, to, reason)
  <2>1. q.pid = p.pid /\ q.state \in {p.state, to}
    BY TransitionToType
  <2>2. ~DealtWith(id, p, mode, todo)
    BY <1>2 DEF DealtWith
  <2>3. p.pid # 0 => exec[<<id, p.pid>>].proc \notin {"alive", "orphan"}
    BY <2>2 DEF Sound, Fits
  <2>4. q.state = "STARTING" => q.pid = 0
    BY <2>1 DEF Sound, Fits
  <2> HIDE DEF q
  <2>5. Sound(id, q)
    BY <2>1, <2>3, <2>4, FitsSame
  <2>6. QED
    BY <2>5 DEF q
<1>3. QED
  BY <1>1, <1>2

----------------------------------------------------------------------------
(* The steps of a launcher.                                                *)

LEMMA SoundHere ==
  ASSUME CopiesInv
  PROVE  /\ \A id \in Procs : /\ Carried(id, row[id]) /\ Carried(id, snap[id])
                              /\ Carried(id, stopper[id].p)
         /\ \A h \in Handles : /\ Carried(h[1], exec[h].p)
                               /\ exec[h].sup # "none" => exec[h].p.pid = h[2]
         /\ \A t \in Launchers, id \in Procs : Carries(launcher[t], id) => Carried(id, launcher[t].p)
BY DEF CopiesInv, Numbered, Carried

LEMMA LauncherCopies ==
  ASSUME DaemonInv, CopiesInv, Live, NEW t \in Launchers, NEW x \in Procs, NEW l,
         launcher' = [launcher EXCEPT ![t] = l], Carries(l, x) => Carried(x, l.p), l.id \in {0, x},
         UNCHANGED <<stopper, snap, mode>>, \A h \in Handles : ProcStep(h),
         \A id \in Procs \ {x} : row'[id] = row[id],
         Carried(x, row'[x]), row[x].state # "FAILED" \/ row'[x] = row[x],
         \A h \in Handles : /\ exec'[h].p = exec[h].p \/ (h[1] = x /\ Carried(x, exec'[h].p))
                            /\ exec'[h].sup # "none" => exec'[h].p.pid = h[2]
  PROVE  Copied
<1>1. launcher'[t] = l /\ \A u \in Launchers \ {t} : launcher'[u] = launcher[u]
  BY LauncherAlone DEF DaemonInv, SuperInv
<1>2. \A u \in Launchers, id \in Procs : Carries(launcher'[u], id) => Carried(id, launcher'[u].p)
  BY <1>1, SoundHere, NobodyIsZero DEF Carries
<1>3. \A id \in Procs : /\ Carried(id, row'[id]) /\ Carried(id, snap'[id])
                        /\ Carried(id, stopper'[id].p)
  BY SoundHere
<1>4. \A h \in Handles : /\ Carried(h[1], exec'[h].p)
                         /\ exec'[h].sup # "none" => exec'[h].p.pid = h[2]
  BY SoundHere
<1>5. FailedStay
  BY DEF FailedStay
<1>6. Live'
  BY DEF Live
<1>7. QED
  BY <1>2, <1>3, <1>4, <1>5, <1>6, CopiesStep

(* A step that leaves the attempts alone.                                  *)
LEMMA LauncherWrites ==
  ASSUME DaemonInv, CopiesInv, Live, NEW t \in Launchers, NEW x \in Procs, NEW l,
         launcher' = [launcher EXCEPT ![t] = l], Carries(l, x) => Sound(x, l.p), l.id \in {0, x},
         UNCHANGED <<stopper, snap, mode, exec>>,
         \A id \in Procs \ {x} : row'[id] = row[id],
         Sound(x, row'[x]), row[x].state # "FAILED" \/ row'[x] = row[x]
  PROVE  Copied
<1>1. \A h \in Handles : ProcStep(h)
  BY DEF ProcStep
<1>2. \A h \in Handles : /\ exec'[h].p = exec[h].p
                         /\ exec'[h].sup # "none" => exec'[h].p.pid = h[2]
  BY SoundHere
<1>3. (Carries(l, x) => Carried(x, l.p)) /\ Carried(x, row'[x])
  BY DEF Carried
<1>4. QED
  BY <1>1, <1>2, <1>3, LauncherCopies

LEMMA LandsSound ==
  ASSUME DaemonInv, CopiesInv, Live, NEW t \in Launchers, NEW x \in Procs, launcher[t].id = x,
         NEW pc, NEW p, NEW d, LandsWith(t, pc, p, d), Sound(x, p),
         UNCHANGED <<stopper, snap, mode, exec>>,
         \A id \in Procs \ {x} : row'[id] = row[id],
         Sound(x, row'[x]), row[x].state # "FAILED" \/ row'[x] = row[x]
  PROVE  Copied
<1>1. PICK l : launcher' = [launcher EXCEPT ![t] = l] /\ l.id = x /\ l.p = p
  BY DEF LandsWith
<1>2. QED
  BY <1>1, LauncherWrites

LEMMA ReturnsSound ==
  ASSUME DaemonInv, CopiesInv, Live, NEW t \in Launchers, NEW x \in Procs, Return(t),
         UNCHANGED <<stopper, snap, mode, exec>>,
         \A id \in Procs \ {x} : row'[id] = row[id],
         Sound(x, row'[x]), row[x].state # "FAILED" \/ row'[x] = row[x]
  PROVE  Copied
<1>1. PICK l : launcher' = [launcher EXCEPT ![t] = l] /\ l.id = 0
  <2>1. WITNESS IF t = Dispatcher THEN IdleLauncher ELSE DoneLauncher
  <2>2. QED
    BY <2>1 DEF Return, IdleLauncher, DoneLauncher
<1>2. ~Carries(l, x)
  BY <1>1, NobodyIsZero DEF Carries
<1>3. QED
  BY <1>1, <1>2, LauncherWrites

(* A start failure keeps the pid of the copy it is given.                  *)
LEMMA StartFailurePid ==
  ASSUME NEW id, NEW p \in Process, p.pid = 0
  PROVE  StartFailure(id, p).pid = 0
<1> DEFINE c == TransitionTo(p, "CRASHED", "start_error")
<1>1. /\ {"CRASHED", "RETRYING", "FAILED"} \subseteq States
      /\ {"start_error", ""} \subseteq Reasons
  BY Names
<1>2. c \in Process /\ c.pid = 0
  BY <1>1, TransitionToType
<1>3. TransitionTo(c, "RETRYING", "").pid = 0 /\ TransitionTo(c, "FAILED", "start_error").pid = 0
  BY <1>1, <1>2, TransitionToType
<1>4. QED
  BY <1>3 DEF StartFailure, settle

LEMMA LaunchedPid ==
  ASSUME NEW p \in Process
  PROVE  Launched(p).pid = 0
<1> DEFINE q == ClearAttempt([p EXCEPT !.attempt = @ + 1])
<1>1. q.pid = 0
  BY DEF ClearAttempt, Process
<1>2. QED
  BY <1>1 DEF Launched, TransitionTo
(* Supervisor.Start, with startFailed and abandonStart.                    *)
LEMMA StartCopies ==
  ASSUME DaemonInv, OwnInv, CopiesInv, NEW t \in Launchers, StartNext(t), UNCHANGED snap
  PROVE  Copied
<1>0. launcher[t].pc \notin {"idle", "done", "create"} /\ Live /\ UNCHANGED <<stopper, snap, mode>>
  BY DEF StartNext, StartDraining, StartAccepted, Fork, ForkFails, PersistRunning,
         PersistRunningFails, Register, AbandonStart, FailUnlock, FailWrite, FailSettle, At
<1>1. PICK x \in Procs :
        /\ launcher[t].id = x
        /\ LauncherCopy(t, launcher[t], row[x], exec[<<x, launches[x]>>], launches[x])
        /\ launcher[t].p \in Process
        /\ row[x] \in Process /\ launches[x] \in 0..MaxLaunches
  BY <1>0, InHand
<1>2. LaunchersInv /\ StoreInv /\ exec \in [Handles -> StorableExec]
  BY DEF DaemonInv, SuperInv, AttemptsInv
<1>3. launches[x] # 0 => <<x, launches[x]>> \in Handles
  BY <1>1, SupervisorAssumption DEF Handles
<1>4. Sound(x, row[x]) /\ Sound(x, launcher[t].p)
  BY <1>0, <1>1 DEF CopiesInv, Carries
<1> DEFINE p == launcher[t].p
           d == launcher[t].detached
<1>5. ASSUME NEW pc, LandsWith(t, pc, p, d), UNCHANGED <<row, exec>>
      PROVE  Copied
  <2> HIDE DEF d
  <2>1. QED
    BY <1>0, <1>1, <1>4, <1>5, LandsSound
<1>6. CASE StartDraining(t) \/ StartAccepted(t) \/ PersistRunningFails(t) \/ FailUnlock(t)
  <2>1. PICK pc : LandsWith(t, pc, p, d)
    BY <1>2, <1>6, LandingWith DEF StartDraining, StartAccepted, PersistRunningFails, FailUnlock
  <2>2. UNCHANGED <<row, exec>>
    BY <1>6 DEF StartDraining, StartAccepted, PersistRunningFails, FailUnlock, storeVars
  <2>3. QED
    BY <1>5, <2>1, <2>2
<1>7. CASE Fork(t)
  <2> DEFINE n == launches[x]
             r == TransitionTo(p, "RUNNING", "")
             q == [r EXCEPT !.pid = n]
             e == [NoExec EXCEPT !.proc = "alive", !.p = q]
  <2>0. p.state = "STARTING" /\ n # 0 /\ exec[<<x, n>>] = NoExec /\ row' = row
    BY <1>1, <1>7 DEF Fork, At, LauncherCopy, storeVars
  <2>1. exec' = [exec EXCEPT ![<<x, n>>] = e] /\ LandsWith(t, "running", q, d)
    BY <1>1, <1>2, <1>7, LandingWith DEF Fork
  <2>2. r \in Process /\ r.state = "RUNNING"
    <3>1. CanTransition(p.state, "RUNNING") /\ "RUNNING" \in States /\ "" \in Reasons
      BY <2>0, EdgesExist, Names
    <3>2. QED
      BY <1>1, <3>1, TransitionArrives
  <2>3. q.state = "RUNNING" /\ q.pid = n
    <3> HIDE DEF r
    <3>1. QED
      BY <2>2 DEF Process
  <2> HIDE DEF q
  <2>4. e.proc = "alive" /\ e.p = q /\ e.sup = "none"
    BY DEF NoExec
  <2> HIDE DEF e
  <2>5. exec'[<<x, n>>] = e /\ \A h \in Handles \ {<<x, n>>} : exec'[h] = exec[h]
    BY <1>2, <1>3, <2>0, <2>1
  <2>6. n \in 1..MaxLaunches
    BY <1>1, <2>0, SupervisorAssumption
  <2>7. Fits(x, q, exec', mode', todo')
    BY <2>3, <2>4, <2>5, <2>6 DEF Fits, Supervised
  <2>8. \A h \in Handles : ProcStep(h)
    <3>1. exec[<<x, n>>].proc = "none"
      BY <2>0, NoExecIs
    <3>2. QED
      BY <2>4, <2>5, <3>1 DEF ProcStep
  <2>9. \A h \in Handles : /\ exec'[h].p = exec[h].p \/ (h[1] = x /\ Carried(x, exec'[h].p))
                           /\ exec'[h].sup # "none" => exec'[h].p.pid = h[2]
    <3>1. ASSUME NEW h \in Handles
          PROVE  /\ exec'[h].p = exec[h].p \/ (h[1] = x /\ Carried(x, exec'[h].p))
                 /\ exec'[h].sup # "none" => exec'[h].p.pid = h[2]
      <4>1. CASE h = <<x, n>>
        BY <2>4, <2>5, <2>7, <4>1 DEF Carried
      <4>2. CASE h # <<x, n>>
        BY <2>5, <4>2, SoundHere
      <4>3. QED
        BY <4>1, <4>2
    <3>2. QED
      BY <3>1
  <2>10. PICK l : launcher' = [launcher EXCEPT ![t] = l] /\ l.id = x /\ l.p = q
    BY <1>1, <2>1 DEF LandsWith
  <2>11. Carried(x, l.p) /\ Carried(x, row'[x])
    BY <1>4, <2>0, <2>7, <2>10 DEF Carried
  <2>12. QED
    BY <1>0, <2>0, <2>8, <2>9, <2>10, <2>11, LauncherCopies
<1>8. CASE ForkFails(t)
  <2>1. /\ GotoFailed(t, p, d) /\ p.state = "STARTING" /\ UNCHANGED <<row, exec>>
    BY <1>1, <1>8 DEF ForkFails, At, LauncherCopy, storeVars
  <2>2. p.pid = 0
    BY <1>4, <2>1 DEF Sound, Fits
  <2>3. StartFailure(x, p).pid = 0
    BY <1>1, <2>2, StartFailurePid
  <2>4. PICK pc, f : LandsWith(t, pc, f, d) /\ f.pid = 0
    BY <1>1, <1>2, <2>1, <2>3, LandingWith
  <2>5. Sound(x, f)
    BY <2>4, FitsNobody
  <2> HIDE DEF d
  <2>6. QED
    BY <1>0, <1>1, <1>4, <2>1, <2>4, <2>5, LandsSound
<1>9. CASE AbandonStart(t)
  <2> DEFINE n == launches[x]
             e == [NoExec EXCEPT !.proc = "gone"]
             q == [p EXCEPT !.pid = 0]
  <2>0. n # 0 /\ p.pid = n /\ row' = row
    BY <1>1, <1>9 DEF AbandonStart, At, LauncherCopy, Forked, storeVars
  <2>1. exec' = [exec EXCEPT ![<<x, n>>] = e] /\ GotoFailed(t, q, TRUE)
    BY <1>1, <1>9, <2>0 DEF AbandonStart, Handle
  <2>2. e.proc = "gone" /\ e.p.pid = 0 /\ e.sup = "none"
    BY DEF NoExec, NoProcess
  <2> HIDE DEF e
  <2>3. exec'[<<x, n>>] = e /\ \A h \in Handles \ {<<x, n>>} : exec'[h] = exec[h]
    BY <1>2, <1>3, <2>0, <2>1
  <2>4. \A h \in Handles : ProcStep(h)
    BY <2>2, <2>3 DEF ProcStep
  <2>5. Sound(x, e.p)
    BY <2>2, FitsNobody
  <2>6. \A h \in Handles : /\ exec'[h].p = exec[h].p \/ (h[1] = x /\ Carried(x, exec'[h].p))
                           /\ exec'[h].sup # "none" => exec'[h].p.pid = h[2]
    <3>1. ASSUME NEW h \in Handles
          PROVE  /\ exec'[h].p = exec[h].p \/ (h[1] = x /\ Carried(x, exec'[h].p))
                 /\ exec'[h].sup # "none" => exec'[h].p.pid = h[2]
      <4>1. CASE h = <<x, n>>
        BY <2>2, <2>3, <2>5, <4>1 DEF Carried
      <4>2. CASE h # <<x, n>>
        BY <2>3, <4>2, SoundHere
      <4>3. QED
        BY <4>1, <4>2
    <3>2. QED
      BY <3>1
  <2>7. StartFailure(x, q).pid = 0
    <3>1. q \in Process /\ q.pid = 0
      BY <1>1 DEF Process
    <3> HIDE DEF q
    <3>2. QED
      BY <3>1, StartFailurePid
  <2>8. PICK pc, f : LandsWith(t, pc, f, TRUE) /\ f.pid = 0
    BY <1>1, <1>2, <2>1, <2>7, LandingWith
  <2>9. PICK l : launcher' = [launcher EXCEPT ![t] = l] /\ l.id = x /\ l.p.pid = 0
    BY <1>1, <2>8 DEF LandsWith
  <2>10. Carried(x, l.p) /\ Carried(x, row'[x])
    BY <1>4, <2>0, <2>9, FitsNobody DEF Carried
  <2>11. QED
    BY <1>0, <2>0, <2>4, <2>6, <2>9, <2>10, LauncherCopies
<1>10. CASE PersistRunning(t) \/ FailWrite(t)
  <2>1. exec' = exec /\ row[x].state = "STARTING"
        /\ (row' = row \/ UpdateProcess(x, p))
    BY <1>1, <1>10 DEF PersistRunning, FailWrite, At, LauncherCopy
  <2>2. PICK pc : LandsWith(t, pc, p, d)
    BY <1>2, <1>10, LandingWith DEF PersistRunning, FailWrite
  <2>3. /\ row'[x] \in {row[x], p} /\ \A id \in Procs \ {x} : row'[id] = row[id]
    BY <1>2, <2>1 DEF UpdateProcess, StoreInv
  <2>4. Sound(x, row'[x])
    BY <1>4, <2>3
  <2> HIDE DEF p, d
  <2>5. Sound(x, p)
    BY <1>4 DEF p
  <2>6. QED
    BY <1>0, <1>1, <2>1, <2>2, <2>3, <2>4, <2>5, LandsSound
<1>11. CASE FailSettle(t)
  <2>1. Return(t) /\ UNCHANGED <<row, exec>>
    BY <1>11 DEF FailSettle, storeVars
  <2>2. QED
    BY <1>0, <1>4, <2>1, ReturnsSound
<1>12. CASE Register(t)
  <2> DEFINE n == launches[x]
             g == IF Def[x].timeout THEN "armed" ELSE "off"
  <2>0. n # 0 /\ p.pid = n /\ exec[<<x, n>>].p = p /\ Return(t) /\ row' = row
    BY <1>1, <1>12 DEF Register, At, LauncherCopy, Forked, storeVars
  <2>1. exec' = [exec EXCEPT ![<<x, n>>].sup = "wait", ![<<x, n>>].timer = g]
    BY <1>1, <1>12, <2>0 DEF Register, Handle
  <2>2. \A h \in Handles : /\ exec'[h].p = exec[h].p /\ exec'[h].proc = exec[h].proc
                           /\ h # <<x, n>> => exec'[h].sup = exec[h].sup
    <3>1. PICK e : e = [exec[<<x, n>>] EXCEPT !.sup = "wait", !.timer = g]
      OBVIOUS
    <3>2. exec[<<x, n>>] \in Exec
      BY <1>2, <1>3, <2>0 DEF StorableExec
    <3>3. e.p = exec[<<x, n>>].p /\ e.proc = exec[<<x, n>>].proc
      BY <3>1, <3>2 DEF Exec
    <3>4. exec' = [exec EXCEPT ![<<x, n>>] = e]
      BY <1>2, <1>3, <2>0, <2>1, <3>1
    <3>5. exec'[<<x, n>>] = e /\ \A h \in Handles \ {<<x, n>>} : exec'[h] = exec[h]
      BY <1>2, <1>3, <2>0, <3>4
    <3>6. QED
      BY <3>3, <3>5
  <2>3. \A h \in Handles : exec'[h].sup # "none" => exec'[h].p.pid = h[2]
    <3>1. ASSUME NEW h \in Handles, exec'[h].sup # "none"
          PROVE  exec'[h].p.pid = h[2]
      <4>1. CASE h = <<x, n>>
        BY <2>0, <2>2, <4>1
      <4>2. CASE h # <<x, n>>
        BY <2>2, <3>1, <4>2, SoundHere
      <4>3. QED
        BY <4>1, <4>2
    <3>2. QED
      BY <3>1
  <2>4. \A h \in Handles : ProcStep(h)
    BY <2>2 DEF ProcStep
  <2>5. PICK l : launcher' = [launcher EXCEPT ![t] = l] /\ l.id = 0
    <3>1. WITNESS IF t = Dispatcher THEN IdleLauncher ELSE DoneLauncher
    <3>2. QED
      BY <2>0, <3>1 DEF Return, IdleLauncher, DoneLauncher
  <2>6. ~Carries(l, x) /\ Carried(x, row'[x])
    BY <1>4, <2>0, <2>5, NobodyIsZero DEF Carried, Carries
  <2>7. QED
    BY <1>0, <2>0, <2>2, <2>3, <2>4, <2>5, <2>6, LauncherCopies
<1>13. QED
  BY <1>6, <1>7, <1>8, <1>9, <1>10, <1>11, <1>12 DEF StartNext
(* Before an attempt is started, no copy of the execution has a process.   *)
LEMMA ParkedSound ==
  ASSUME Live, NEW id, NEW p \in Process, Sound(id, p), p.state = "CREATED"
  PROVE  Sound(id, Parked(id, p))
<1>1. {"CANCELED", "QUEUED"} \subseteq States \ {"STARTING"} /\ {"no_capacity", ""} \subseteq Reasons
  BY Names
<1>2. p.state \notin Supervised
  BY DEF Supervised
<1>3. Sound(id, TransitionTo(p, "CANCELED", "no_capacity")) /\ Sound(id, TransitionTo(p, "QUEUED", ""))
  BY <1>1, <1>2, FitsTurned
<1>4. QED
  BY <1>3 DEF Parked

(* From a slot to STARTING.                                                *)
LEMMA AdmitCopies ==
  ASSUME DaemonInv, OwnInv, CopiesInv, NEW t \in Launchers, AdmitNext(t), UNCHANGED snap
  PROVE  Copied
<1>0. /\ launcher[t].pc \notin {"idle", "done", "create"} /\ Live
      /\ UNCHANGED <<stopper, snap, mode, exec>>
  BY DEF AdmitNext, TakeSlot, TakeLock, YieldSlot, WriteStarting, ReleaseSlot, Unlock, At
<1>1. PICK x \in Procs :
        /\ launcher[t].id = x
        /\ LauncherCopy(t, launcher[t], row[x], exec[<<x, launches[x]>>], launches[x])
        /\ launcher[t].p \in Process
        /\ row[x] \in Process
        /\ t # Dispatcher => t = x
  BY <1>0, InHand
<1>2. LaunchersInv /\ StoreInv
  BY DEF DaemonInv, SuperInv
<1>3. Sound(x, row[x]) /\ Sound(x, launcher[t].p)
  BY <1>0, <1>1 DEF CopiesInv, Carries
<1> DEFINE p == launcher[t].p
           d == launcher[t].detached
<1>4. ASSUME NEW pc, Goto(t, pc), row' = row
      PROVE  Copied
  <2>1. LandsWith(t, pc, p, d)
    BY <1>2, <1>4, LandingWith
  <2> HIDE DEF d
  <2>2. QED
    BY <1>0, <1>1, <1>3, <1>4, <2>1, LandsSound
<1>5. ASSUME Return(t), row' = row
      PROVE  Copied
  BY <1>0, <1>3, <1>5, ReturnsSound
<1>6. ASSUME GotoPark(t), row' = row, launcher[t].pc \in {"slot", "yield"}, t # Dispatcher
      PROVE  Copied
  <2>1. p.state = "CREATED"
    BY <1>1, <1>6 DEF LauncherCopy, Startable
  <2>2. Sound(x, Parked(x, p))
    BY <1>0, <1>1, <1>3, <2>1, ParkedSound
  <2>3. LandsWith(t, "park", Parked(x, p), d)
    BY <1>1, <1>2, <1>6, LandingWith DEF GotoPark
  <2> HIDE DEF d
  <2>4. QED
    BY <1>0, <1>1, <1>3, <1>6, <2>2, <2>3, LandsSound
<1>7. CASE TakeSlot(t)
  <2>1. row' = row /\ launcher[t].pc = "slot"
    BY <1>7 DEF TakeSlot, At, storeVars
  <2>2. \/ Goto(t, "lock") \/ Return(t) \/ Goto(t, "unclaim")
        \/ GotoPark(t) /\ t # Dispatcher
    BY <1>7 DEF TakeSlot
  <2>3. QED
    BY <1>4, <1>5, <1>6, <2>1, <2>2
<1>8. CASE TakeLock(t)
  <2>1. row' = row /\ \E pc : Goto(t, pc)
    BY <1>8 DEF TakeLock
  <2>2. QED
    BY <1>4, <2>1
<1>9. CASE YieldSlot(t)
  <2>1. row' = row /\ ((GotoPark(t) /\ launcher[t].pc = "yield") \/ Return(t))
    BY <1>9 DEF YieldSlot, storeVars
  <2>2. launcher[t].pc = "yield" => t # Dispatcher
    BY <1>1 DEF LauncherCopy
  <2>3. QED
    BY <1>5, <1>6, <2>1, <2>2
<1>10. CASE ReleaseSlot(t) \/ Unlock(t)
  <2>1. row' = row /\ (Goto(t, "unlock") \/ Return(t))
    BY <1>10 DEF ReleaseSlot, Unlock, storeVars
  <2>2. QED
    BY <1>4, <1>5, <2>1
<1>11. CASE WriteStarting(t)
  <2>1. \/ Goto(t, "release") /\ row' = row
        \/ UpdateProcess(x, Launched(p)) /\ GotoWith(t, "start", Launched(p))
    BY <1>1, <1>11 DEF WriteStarting
  <2>2. CASE UpdateProcess(x, Launched(p)) /\ GotoWith(t, "start", Launched(p))
    <3>1. PICK q : q = Launched(p) /\ Sound(x, q)
      BY <1>1, LaunchedPid, FitsNobody
    <3>2. LandsWith(t, "start", q, d)
      BY <1>2, <2>2, <3>1, LandingWith
    <3>3. row'[x] = q /\ \A id \in Procs \ {x} : row'[id] = row[id]
      BY <1>2, <2>2, <3>1 DEF UpdateProcess, StoreInv
    <3>4. row[x].state # "FAILED"
      BY <1>1, <1>11 DEF WriteStarting, At, LauncherCopy, Startable
    <3> HIDE DEF d
    <3>5. QED
      BY <1>0, <1>1, <3>1, <3>2, <3>3, <3>4, LandsSound
  <2>3. QED
    BY <1>4, <2>1, <2>2
<1>12. QED
  BY <1>7, <1>8, <1>9, <1>10, <1>11 DEF AdmitNext

(* A submission, or a row that expired.                                    *)
LEMMA SubmitCopies ==
  ASSUME DaemonInv, OwnInv, CopiesInv, NEW t \in Launchers, UNCHANGED snap,
         (t \in Procs /\ SubmitNext(t)) \/ (t = Dispatcher /\ (ExpireUnlock(t) \/ ExpireWrite(t)))
  PROVE  Copied
<1>0. LaunchersInv /\ StoreInv /\ Live /\ UNCHANGED <<stopper, snap, mode, exec>>
  BY DEF DaemonInv, SuperInv, SubmitNext, Submit, Hangup, Create, Claim, Unclaim, ExpireUnlock,
         rejectLocked, park, ExpireWrite, WriteAndReturn, At
<1>1. CASE t \in Procs /\ Submit(t)
  <2>1. launcher[t] \in Launcher /\ row' = row
    BY <1>0, <1>1 DEF Submit, LaunchersInv, LauncherOK, StorableLauncher, storeVars
  <2>2. CASE Return(t)
    <3>1. Sound(t, row[t])
      BY <1>1 DEF CopiesInv
    <3>2. QED
      BY <1>0, <1>1, <2>1, <2>2, <3>1, ReturnsSound
  <2>3. CASE launcher' = [launcher EXCEPT ![t].pc = "create", ![t].id = t]
    <3>1. PICK l : launcher' = [launcher EXCEPT ![t] = l] /\ l.id = t /\ l.pc = "create"
      <4>1. WITNESS [launcher[t] EXCEPT !.pc = "create", !.id = t]
      <4>2. QED
        BY <2>1, <2>3, <4>1 DEF Launcher
    <3>2. ~Carries(l, t) /\ Sound(t, row[t])
      BY <1>1, <3>1 DEF CopiesInv, Carries
    <3>3. QED
      BY <1>0, <1>1, <2>1, <3>1, <3>2, LauncherWrites
  <2>4. QED
    BY <1>1, <2>2, <2>3 DEF Submit
<1>2. CASE Hangup(t)
  <2>1. UNCHANGED <<row, launcher>>
    BY <1>2 DEF Hangup, storeVars
  <2>2. \A h \in Handles : ProcStep(h)
    BY <1>0 DEF ProcStep
  <2>3. FailedStay /\ Live'
    BY <1>0, <2>1 DEF FailedStay, Live
  <2>4. QED
    BY <1>0, <2>1, <2>2, <2>3, SoundHere, CopiesStep
<1>3. CASE \/ Create(t) \/ Claim(t) \/ Unclaim(t) \/ ExpireUnlock(t)
           \/ rejectLocked(t) \/ park(t) \/ ExpireWrite(t)
  <2>0. launcher[t].pc \notin {"idle", "done"}
        /\ launcher[t].pc \in {"create", "claim", "unclaim", "expire", "conflict", "park", "expired"}
    BY <1>3 DEF Create, Claim, Unclaim, ExpireUnlock, rejectLocked, park, ExpireWrite,
                WriteAndReturn, At
  <2>1. PICK x \in Procs :
          /\ launcher[t].id = x
          /\ LauncherCopy(t, launcher[t], row[x], exec[<<x, launches[x]>>], launches[x])
          /\ launcher[t].p \in Process
          /\ row[x] \in Process
          /\ t # Dispatcher => t = x
    BY <2>0, InHand
  <2> DEFINE p == launcher[t].p
             d == launcher[t].detached
  <2>2. Sound(x, row[x]) /\ (launcher[t].pc # "create" => Sound(x, p))
    BY <2>1 DEF CopiesInv, Carries
  <2>3. row[x].state # "FAILED"
    BY <2>0, <2>1 DEF LauncherCopy, Startable, NONE
  <2>4. ASSUME Return(t), \/ row' = row
                          \/ UpdateProcess(x, p) /\ launcher[t].pc # "create"
        PROVE  Copied
    <3>1. /\ row'[x] = row[x] \/ (row'[x] = p /\ launcher[t].pc # "create")
          /\ \A id \in Procs \ {x} : row'[id] = row[id]
      BY <1>0, <2>4 DEF UpdateProcess, StoreInv
    <3>2. Sound(x, row'[x])
      BY <2>2, <3>1
    <3> HIDE DEF p
    <3>3. QED
      BY <1>0, <2>3, <2>4, <3>1, <3>2, ReturnsSound
  <2>5. CASE rejectLocked(t) \/ park(t) \/ ExpireWrite(t)
    BY <2>1, <2>4, <2>5 DEF rejectLocked, park, ExpireWrite, WriteAndReturn, At
  <2>6. CASE Create(t)
    <3>1. \/ Return(t) /\ row' = row
          \/ CreateProcess(t) /\ \E pc : GotoWith(t, pc, NewProcess)
      BY <2>6 DEF Create
    <3>2. CASE CreateProcess(t) /\ \E pc : GotoWith(t, pc, NewProcess)
      <4>1. PICK pc : GotoWith(t, pc, NewProcess)
        BY <3>2
      <4>2. t = x
        BY <2>1, <2>6 DEF Create, At, LauncherCopy
      <4>3. PICK q : q = NewProcess /\ q.pid = 0
        <5>1. NewProcess.pid = 0
          BY DEF NewProcess, NoProcess
        <5>2. QED
          BY <5>1
      <4>4. LandsWith(t, pc, q, d)
        BY <1>0, <4>1, <4>3, LandingWith
      <4>5. row'[x] = q /\ \A id \in Procs \ {x} : row'[id] = row[id]
        BY <1>0, <3>2, <4>2, <4>3 DEF CreateProcess, StoreInv
      <4>6. Sound(x, q)
        BY <4>3, FitsNobody
      <4> HIDE DEF d
      <4>7. QED
        BY <1>0, <2>1, <2>3, <4>4, <4>5, <4>6, LandsSound
    <3>3. QED
      BY <2>4, <3>1, <3>2
  <2>7. ASSUME NEW pc, NEW q, LandsWith(t, pc, q, d), Sound(x, q), row' = row
        PROVE  Copied
    <3> HIDE DEF d
    <3>1. QED
      BY <1>0, <2>1, <2>2, <2>7, LandsSound
  <2>8. CASE Claim(t)
    <3>1. row' = row /\ launcher[t].pc = "claim" /\ p.state = "CREATED" /\ t # Dispatcher
      BY <2>1, <2>8 DEF Claim, At, LauncherCopy, Startable
    <3>2. PICK q : q = TransitionTo(p, "CANCELED", "lock_conflict")
      OBVIOUS
    <3>3. Sound(x, q)
      <4>1. "CANCELED" \in States \ {"STARTING"} /\ "lock_conflict" \in Reasons
        BY Names
      <4>2. p.state \notin Supervised
        BY <3>1 DEF Supervised
      <4>3. QED
        BY <1>0, <2>1, <2>2, <3>1, <3>2, <4>1, <4>2, FitsTurned
    <3>4. \/ Return(t) \/ LandsWith(t, "slot", p, d) \/ LandsWith(t, "conflict", q, d)
      BY <1>0, <2>8, <3>2, LandingWith DEF Claim
    <3>5. QED
      BY <2>2, <2>4, <2>7, <3>1, <3>3, <3>4
  <2>9. CASE Unclaim(t)
    <3>1. row' = row /\ p.state = "CREATED" /\ launcher[t].pc = "unclaim"
      BY <2>1, <2>9 DEF Unclaim, At, LauncherCopy, Startable
    <3>2. Sound(x, Parked(x, p))
      BY <1>0, <2>1, <2>2, <3>1, ParkedSound
    <3>3. LandsWith(t, "park", Parked(x, p), d)
      BY <1>0, <2>1, <2>9, LandingWith DEF Unclaim, GotoPark
    <3>4. QED
      BY <2>7, <3>1, <3>2, <3>3
  <2>10. CASE ExpireUnlock(t)
    <3>1. row' = row /\ LandsWith(t, "expired", p, d) /\ launcher[t].pc = "expire"
      BY <1>0, <2>10, LandingWith DEF ExpireUnlock, At
    <3>2. QED
      BY <2>2, <2>7, <3>1
  <2>11. QED
    BY <1>3, <2>5, <2>6, <2>8, <2>9, <2>10
<1>4. QED
  BY <1>1, <1>2, <1>3 DEF SubmitNext

----------------------------------------------------------------------------
(* The steps of an attempt.                                                *)

LEMMA SettlePid ==
  ASSUME NEW p \in Process, NEW r, NEW trigger, NEW why \in Reasons, NEW reset \in BOOLEAN
  PROVE  settle(p, r, trigger, why, reset).pid = p.pid
<1> DEFINE q == IF reset THEN [p EXCEPT !.attempt = 0] ELSE p
<1>1. q \in Process /\ q.pid = p.pid
  BY DEF Process
<1>2. {"RETRYING", "FAILED"} \subseteq States /\ "" \in Reasons
  BY Names
<1> HIDE DEF q
<1>3. TransitionTo(q, "RETRYING", "").pid = p.pid /\ TransitionTo(q, "FAILED", why).pid = p.pid
  BY <1>1, <1>2, TransitionToType
<1>4. QED
  BY <1>3 DEF settle, q

LEMMA ClassifyPid ==
  ASSUME NEW p \in Process, NEW type, NEW r, NEW intent \in Reasons, NEW result, NEW reset \in BOOLEAN
  PROVE  classify(p, type, r, intent, result, reset).pid = p.pid
<1> DEFINE q == viaStopping(p, intent)
           out == classify(p, type, r, intent, result, reset)
           none == ""
<1>0. /\ "STOPPING" \in States /\ "CRASHED" \in States /\ "CANCELED" \in States
      /\ "QUEUED" \in States /\ "FAILED" \in States /\ "COMPLETED" \in States
      /\ none \in Reasons /\ "timeout" \in Reasons /\ "shutdown" \in Reasons
      /\ "user_request" \in Reasons /\ "no_retry_exit_code" \in Reasons
      /\ "max_attempts" \in Reasons
  BY Names
<1> HIDE DEF none
<1>1. q \in Process /\ q.pid = p.pid
  <2>1. /\ TransitionTo(p, "STOPPING", intent) \in Process
        /\ TransitionTo(p, "STOPPING", intent).pid = p.pid
    BY <1>0, TransitionToType
  <2>2. q = p \/ q = TransitionTo(p, "STOPPING", intent)
    BY DEF viaStopping
  <2>3. QED
    BY <2>1, <2>2
<1> HIDE DEF q
<1>2. ASSUME NEW to \in States, NEW why \in Reasons
      PROVE  TransitionTo(q, to, why) \in Process /\ TransitionTo(q, to, why).pid = p.pid
  BY <1>1, TransitionToType
<1>3. ASSUME NEW c, c = TransitionTo(q, "CRASHED", none) \/ c = TransitionTo(q, "CRASHED", "timeout")
      PROVE  /\ c \in Process /\ c.pid = p.pid
             /\ TransitionTo(c, "FAILED", "no_retry_exit_code").pid = p.pid
             /\ \A trigger : /\ settle(c, r, trigger, "timeout", reset).pid = p.pid
                             /\ settle(c, r, trigger, "max_attempts", reset).pid = p.pid
  <2>1. c \in Process /\ c.pid = p.pid
    BY <1>0, <1>2, <1>3
  <2>2. TransitionTo(c, "FAILED", "no_retry_exit_code").pid = p.pid
    BY <1>0, <2>1, TransitionToType
  <2>3. ASSUME NEW trigger
        PROVE  /\ settle(c, r, trigger, "timeout", reset).pid = c.pid
               /\ settle(c, r, trigger, "max_attempts", reset).pid = c.pid
    BY <1>0, <2>1, SettlePid
  <2>4. QED
    BY <2>1, <2>2, <2>3
<1>4. classifyShutdown(q, r).pid = p.pid
  BY <1>0, <1>2 DEF classifyShutdown
<1>5. CASE intent = "user_request"
  <2>1. out = TransitionTo(q, "CANCELED", "user_request")
    BY <1>5 DEF classify, q
  <2>2. QED
    BY <1>0, <1>2, <2>1
<1>6. CASE intent = "shutdown"
  <2>1. out = classifyShutdown(q, r)
    BY <1>6 DEF classify, q
  <2>2. QED
    BY <1>4, <2>1
<1>7. CASE intent = "timeout"
  <2>1. \/ out = settle(TransitionTo(q, "CRASHED", "timeout"), r, "timeout", "timeout", reset)
        \/ out = TransitionTo(q, "FAILED", "timeout")
    BY <1>7 DEF classify, q
  <2>2. QED
    BY <1>0, <1>2, <1>3, <2>1
<1>8. CASE intent \notin {"user_request", "shutdown", "timeout"}
  <2>1. \/ out = TransitionTo(q, "COMPLETED", none)
        \/ out = TransitionTo(TransitionTo(q, "CRASHED", none), "FAILED", "no_retry_exit_code")
        \/ out = settle(TransitionTo(q, "CRASHED", none), r, exitTrigger(type, result),
                       "max_attempts", reset)
    BY <1>8 DEF classify, q, none
  <2>2. QED
    BY <1>0, <1>2, <1>3, <2>1
<1>9. QED
  BY <1>5, <1>6, <1>7, <1>8

LEMMA AttemptCopied ==
  ASSUME DaemonInv, CopiesInv, Live, NEW h \in Handles, NEW e,
         exec' = [exec EXCEPT ![h] = e], UNCHANGED <<launcher, stopper, snap, mode>>,
         e.proc \in {exec[h].proc, "zombie", "gone"},
         Sound(h[1], e.p), e.sup # "none" => e.p.pid = h[2],
         \A id \in Procs \ {h[1]} : row'[id] = row[id],
         Sound(h[1], row'[h[1]]), row[h[1]].state # "FAILED" \/ row'[h[1]] = row[h[1]]
  PROVE  Copied
<1>1. exec'[h] = e /\ \A g \in Handles : g # h => exec'[g] = exec[g]
  BY AttemptAlone DEF DaemonInv
<1>2. \A g \in Handles : ProcStep(g)
  BY <1>1 DEF ProcStep
<1>3. \A g \in Handles : /\ Carried(g[1], exec'[g].p)
                         /\ exec'[g].sup # "none" => exec'[g].p.pid = g[2]
  <2>1. ASSUME NEW g \in Handles
        PROVE  /\ Carried(g[1], exec'[g].p)
               /\ exec'[g].sup # "none" => exec'[g].p.pid = g[2]
    <3>1. CASE g = h
      BY <1>1, <3>1 DEF Carried
    <3>2. CASE g # h
      BY <1>1, <3>2, SoundHere
    <3>3. QED
      BY <3>1, <3>2
  <2>2. QED
    BY <2>1
<1>4. \A id \in Procs : /\ Carried(id, row'[id])
                        /\ Carried(id, snap'[id])
                        /\ Carried(id, stopper'[id].p)
  <2>1. ASSUME NEW id \in Procs
        PROVE  Carried(id, row'[id])
    <3>1. CASE id = h[1]
      BY <3>1 DEF Carried
    <3>2. CASE id # h[1]
      BY <3>2, SoundHere
    <3>3. QED
      BY <3>1, <3>2
  <2>2. QED
    BY <2>1, SoundHere
<1>5. \A t \in Launchers, id \in Procs : Carries(launcher'[t], id) => Carried(id, launcher'[t].p)
  BY SoundHere
<1>6. FailedStay /\ Live'
  BY DEF FailedStay, Live
<1>7. QED
  BY <1>2, <1>3, <1>4, <1>5, <1>6, CopiesStep

(* Processes that are gone name nothing to deal with.                      *)
LEMMA FewerProcesses ==
  ASSUME CopiesInv, UNCHANGED <<row, snap, mode, todo>>,
         \A h \in Handles : /\ exec'[h].p = exec[h].p /\ exec'[h].sup = exec[h].sup
                            /\ exec'[h].proc = exec[h].proc \/ exec'[h].proc = "gone",
         \A id \in Procs : stopper'[id] = stopper[id],
         \A t \in Launchers : launcher'[t] = launcher[t]
  PROVE  Copied
<1>1. ASSUME NEW id \in Procs, NEW p, Sound(id, p)
      PROVE  Fits(id, p, exec', mode', todo')
  <2>1. p.pid \in 1..MaxLaunches => <<id, p.pid>> \in Handles
    BY DEF Handles
  <2>2. QED
    BY <1>1, <2>1 DEF Sound, Fits
<1>2. \A h \in Handles : h[1] \in Procs
  BY DEF Handles
<1>3. \A id \in Procs : Sound(id, row[id])' /\ Sound(id, snap[id])' /\ Sound(id, stopper[id].p)'
  BY <1>1 DEF Sound, CopiesInv
<1>4. \A h \in Handles : Sound(h[1], exec[h].p)'
  BY <1>1, <1>2 DEF Sound, CopiesInv
<1>5. \A t \in Launchers, id \in Procs : Carries(launcher[t], id)' => Sound(id, launcher[t].p)'
  BY <1>1 DEF Sound, CopiesInv, Carries
<1>6. Numbered' /\ Bare'
  BY DEF Numbered, Bare, CopiesInv
<1>7. CopiesInv'
  BY <1>3, <1>4, <1>5, <1>6 DEF CopiesInv
<1>8. FailedStay /\ \A h \in Handles : exec'[h].proc = "orphan" => exec[h].proc = "orphan"
  BY DEF FailedStay
<1>9. QED
  BY <1>7, <1>8 DEF Copied

(* A process that is alive has a daemon that is up.                        *)
LEMMA AliveIsLive ==
  ASSUME OwnInv, NEW h \in Handles, exec[h].proc \in {"alive", "zombie"}
  PROVE  Live
<1>1. PICK x \in Procs, n \in 1..MaxLaunches : h = <<x, n>>
  BY DEF Handles
<1>2. CASE mode \in {"down", "boot"}
  <2>1. NoLauncher(x) /\ ~Attempting(x, n)
    BY <1>1, <1>2, QuietIs
  <2>2. Referenced(x)
    BY DEF OwnInv
  <2>3. exec[<<x, n>>].sup = "wait" \/ \E t \in Launchers : launcher[t].id = x
    BY <1>1, <2>2 DEF Referenced
  <2>4. QED
    BY <2>1, <2>3 DEF NoLauncher, Attempting, UsingPhases
<1>3. QED
  BY <1>2 DEF Live

(* A stop that begins leaves the attempt its pid and its process.          *)
LEMMA BeginStopCopies ==
  ASSUME DaemonInv, OwnInv, CopiesInv, NEW x \in Procs, NEW n \in 1..MaxLaunches,
         BeginStop(<<x, n>>), UNCHANGED snap
  PROVE  Copied
<1> DEFINE h == <<x, n>>
           p == IF exec[h].p.state = "RUNNING"
                THEN TransitionTo(exec[h].p, "STOPPING", exec[h].intent) ELSE exec[h].p
           e == [exec[h] EXCEPT !.p = p, !.stop = "signal"]
<1>0. /\ Live /\ exec[h].stop = "begin" /\ MuFree(h)
      /\ exec' = [exec EXCEPT ![h] = e] /\ UpdateProcess(x, p)
      /\ UNCHANGED <<launcher, stopper, mode, snap>>
  BY DEF BeginStop
<1>1. h \in Handles /\ exec[h] \in Exec /\ exec[h].p \in Process
  BY DEF Handles, DaemonInv, SuperInv, AttemptsInv, StorableExec, Storable
<1>2. e.p = p /\ e.sup = exec[h].sup /\ e.proc = exec[h].proc
  BY <1>1 DEF Exec
<1>3. exec[h].p.state # "RUNNING" => p = exec[h].p
  OBVIOUS
<1>4. exec[h].p.state = "RUNNING" => p.state = "STOPPING" /\ p.pid = exec[h].p.pid
  <2>1. "STOPPING" \in States /\ exec[h].intent \in Reasons /\ CanTransition("RUNNING", "STOPPING")
    BY <1>1, Names, EdgesExist DEF Exec
  <2>2. QED
    BY <1>1, <2>1, TransitionArrives
<1>5. Loose(x, n)
  BY <1>0 DEF Loose
<1> HIDE DEF p, e
<1>6. row'[x] = p /\ \A id \in Procs \ {x} : row'[id] = row[id]
  BY <1>0 DEF UpdateProcess, DaemonInv, SuperInv, StoreInv
<1>7. exec[h].p = row[x]
  BY <1>0, <1>5, WhoIsLoose DEF Unowned, OwnedByAttempt, Attempting, AttemptCopy, MuFree, UsingPhases
<1>8. Sound(x, exec[h].p)
  BY <1>7 DEF CopiesInv
<1>9. Sound(x, p)
  <2>1. CASE exec[h].p.state = "RUNNING"
    <3>1. ~DealtWith(x, exec[h].p, mode, todo)
      BY <1>0, <2>1 DEF DealtWith, Live
    <3>2. QED
      BY <1>4, <1>8, <2>1, <3>1 DEF Sound, Fits, Supervised
  <2>2. QED
    BY <1>3, <1>8, <2>1
<1>10. row[x].state # "FAILED" \/ row'[x] = row[x]
  BY <1>3, <1>6, <1>7
<1>11. e.sup # "none" => e.p.pid = n
  BY <1>1, <1>2, <1>3, <1>4 DEF CopiesInv, Numbered
<1>12. h[1] = x /\ h[2] = n
  OBVIOUS
<1> HIDE DEF h
<1>13. QED
  BY <1>0, <1>1, <1>2, <1>6, <1>9, <1>10, <1>11, <1>12, AttemptCopied

(* Every step of an attempt.                                               *)
LEMMA AttemptCopies ==
  ASSUME DaemonInv, OwnInv, CopiesInv, NEW h \in Handles, AttemptNext(h),
         UNCHANGED <<snap, todo>>
  PROVE  Copied
<1>0. PICK x \in Procs, n \in 1..MaxLaunches : h = <<x, n>>
  BY DEF Handles
<1>1. exec[h] \in Exec /\ exec[h].p \in Process /\ h[1] = x /\ h[2] = n /\ StoreInv
  BY <1>0 DEF DaemonInv, SuperInv, AttemptsInv, StorableExec, Storable
<1> DEFINE Frame == UNCHANGED <<launcher, stopper, mode, snap>>
<1>2. /\ Sound(x, row[x]) /\ Sound(x, exec[h].p)
      /\ exec[h].sup # "none" => exec[h].p.pid = n
  BY <1>1 DEF CopiesInv, Numbered
(* A step that leaves the copy and the phase of the attempt alone.         *)
<1>3. ASSUME NEW e, exec' = [exec EXCEPT ![h] = e], Frame, row' = row, Live,
             e.p = exec[h].p, e.sup # "none" => exec[h].sup # "none",
             e.proc \in {exec[h].proc, "zombie", "gone"}
      PROVE  Copied
  BY <1>1, <1>2, <1>3, AttemptCopied
<1>4. exec[h].sup \in UsingPhases
        => AttemptCopy(exec[h], row[x])
  BY <1>0, WhoAttempts DEF Attempting, OwnedByAttempt
<1>10. CASE \E result \in Results : ProcExit(h, result)
  <2>1. PICK result \in Results : ProcExit(h, result)
    BY <1>10
  <2> DEFINE e == [exec[h] EXCEPT !.proc = "zombie", !.result = result]
  <2>2. exec' = [exec EXCEPT ![h] = e] /\ Frame /\ row' = row /\ Live
    BY <2>1, AliveIsLive DEF ProcExit, storeVars
  <2>3. e.p = exec[h].p /\ e.sup = exec[h].sup /\ e.proc = "zombie"
    BY <1>1 DEF Exec
  <2> HIDE DEF e
  <2>4. QED
    BY <1>3, <2>2, <2>3
<1>11. CASE OrphanExit(h)
  <2> DEFINE e == [exec[h] EXCEPT !.proc = "gone"]
  <2>2. exec' = [exec EXCEPT ![h] = e] /\ Frame /\ row' = row
    BY <1>11 DEF OrphanExit, storeVars
  <2>3. e.p = exec[h].p /\ e.sup = exec[h].sup /\ e.proc = "gone"
    BY <1>1 DEF Exec
  <2> HIDE DEF e
  <2>4. exec'[h] = e /\ \A g \in Handles : g # h => exec'[g] = exec[g]
    BY <2>2, AttemptAlone DEF DaemonInv
  <2>5. \A g \in Handles : /\ exec'[g].p = exec[g].p /\ exec'[g].sup = exec[g].sup
                           /\ exec'[g].proc = exec[g].proc \/ exec'[g].proc = "gone"
    BY <2>3, <2>4
  <2>6. /\ \A id \in Procs : stopper'[id] = stopper[id]
        /\ \A t \in Launchers : launcher'[t] = launcher[t]
    BY <2>2
  <2>7. QED
    BY <2>2, <2>5, <2>6, FewerProcesses
<1>12. CASE SignalGroup(h)
  <2> DEFINE e == [exec[h] EXCEPT !.stop = "done"]
  <2>2. exec' = [exec EXCEPT ![h] = e] /\ Frame /\ row' = row /\ Live
    BY <1>12 DEF SignalGroup, storeVars
  <2>3. e.p = exec[h].p /\ e.sup = exec[h].sup /\ e.proc = exec[h].proc
    BY <1>1 DEF Exec
  <2> HIDE DEF e
  <2>4. QED
    BY <1>3, <2>2, <2>3
<1>13. CASE TimerFires(h)
  <2> DEFINE e == [exec[h] EXCEPT !.timer = "fired"]
  <2>2. exec' = [exec EXCEPT ![h] = e] /\ Frame /\ row' = row /\ Live
    BY <1>13 DEF TimerFires, storeVars
  <2>3. e.p = exec[h].p /\ e.sup = exec[h].sup /\ e.proc = exec[h].proc
    BY <1>1 DEF Exec
  <2> HIDE DEF e
  <2>4. QED
    BY <1>3, <2>2, <2>3
<1>14. CASE TimeoutIntent(h)
  <2> DEFINE d == [exec[h] EXCEPT !.timer = "off"]
             e == setIntent(d, "timeout")
  <2>1. exec' = [exec EXCEPT ![h] = e] /\ Frame /\ row' = row /\ Live
    BY <1>14 DEF TimeoutIntent, storeVars
  <2>2. d \in Exec /\ d.p = exec[h].p /\ d.sup = exec[h].sup /\ d.proc = exec[h].proc
    BY <1>1 DEF Exec
  <2> HIDE DEF d
  <2>3. e.p = d.p /\ e.sup = d.sup /\ e.proc = d.proc
    BY <2>2, SetIntentIs
  <2> HIDE DEF e
  <2>4. QED
    BY <1>3, <2>1, <2>2, <2>3
<1>15. CASE WaitReturns(h) \/ Unregister(h)
  <2>1. PICK e : /\ exec' = [exec EXCEPT ![h] = e] /\ e.p = exec[h].p
                 /\ e.proc \in {exec[h].proc, "gone"}
    <3>1. CASE WaitReturns(h)
      <4>1. WITNESS [exec[h] EXCEPT !.proc = "gone", !.sup = "reaped",
                                    !.timer = IF @ = "armed" THEN "off" ELSE @]
      <4>2. QED
        BY <1>1, <3>1, <4>1 DEF WaitReturns, Exec
    <3>2. CASE Unregister(h)
      <4>1. WITNESS [exec[h] EXCEPT !.sup = "deleted"]
      <4>2. QED
        BY <1>1, <3>2, <4>1 DEF Unregister, Exec
    <3>3. QED
      BY <1>15, <3>1, <3>2
  <2>2. Frame /\ Live /\ row' = row /\ exec[h].sup # "none"
    BY <1>15 DEF WaitReturns, Unregister, InPhase, storeVars
  <2>3. QED
    BY <1>3, <2>1, <2>2
<1>16. CASE \E reset \in BOOLEAN : Classify(h, reset)
  <2>1. PICK reset \in BOOLEAN : Classify(h, reset)
    BY <1>16
  <2> DEFINE p == exec[h].p
             q == Outcome(h, reset)
             e == [exec[h] EXCEPT !.p = q, !.sup = "classified", !.result = "none"]
  <2>2. /\ exec' = [exec EXCEPT ![h] = e] /\ Frame /\ Live /\ exec[h].sup = "deleted"
        /\ row' = row
    BY <1>1, <2>1 DEF Classify, InPhase
  <2>3. e.p = q /\ e.proc = exec[h].proc
    BY <1>1 DEF Exec
  <2>4. AttemptCopy(exec[h], row[x])
    BY <1>4, <2>2 DEF UsingPhases
  <2>5. p.state \in Supervised /\ exec[h].proc \notin {"alive", "zombie"}
        /\ (p.state = "STOPPING" => exec[h].intent # "")
    BY <2>2, <2>4 DEF AttemptCopy
  <2>6. q.pid = p.pid /\ q.state \in Outcomes
    <3>0. exec[h].intent \in Reasons
      BY <1>1, Names DEF Exec
    <3>1. exec[h].intent \in {"", "user_request", "timeout", "shutdown"}
      BY <1>1, Names DEF Exec
    <3>2. classify(p, Def[x].type, Def[x].retry, exec[h].intent, exec[h].result, reset).pid = p.pid
      BY <1>1, <3>0, ClassifyPid
    <3>3. classify(p, Def[x].type, Def[x].retry, exec[h].intent, exec[h].result, reset).state
            \in Outcomes
      BY <1>1, <2>5, <3>1, ClassifyEdge
    <3>4. QED
      BY <1>1, <3>2, <3>3 DEF Outcome
  <2> HIDE DEF e, q
  <2>7. p.pid = n /\ exec[<<x, n>>].proc \notin {"alive", "orphan"}
    <3>1. p.pid = n /\ n # 0
      BY <1>2, <2>2
    <3>2. ~DealtWith(x, p, mode, todo)
      BY <2>2, <2>5 DEF DealtWith, Live, Supervised
    <3>3. QED
      BY <1>0, <1>2, <2>5, <3>1, <3>2 DEF Sound, Fits
  <2>8. q.state # "STARTING"
    BY <2>6 DEF Outcomes
  <2>9. Sound(x, q)
    BY <1>2, <2>6, <2>7, <2>8, FitsSame
  <2>10. QED
    BY <1>1, <1>2, <2>2, <2>3, <2>6, <2>7, <2>9, AttemptCopied
<1>17. CASE PersistOutcome(h)
  <2> DEFINE e == [exec[h] EXCEPT !.sup = "persisted"]
  <2>1. /\ exec' = [exec EXCEPT ![h] = e] /\ Frame /\ Live /\ exec[h].sup = "classified"
        /\ UpdateProcess(x, exec[h].p)
    BY <1>1, <1>17 DEF PersistOutcome, InPhase
  <2>2. e.p = exec[h].p /\ e.proc = exec[h].proc
    BY <1>1 DEF Exec
  <2> HIDE DEF e
  <2>3. row'[x] = exec[h].p /\ \A id \in Procs \ {x} : row'[id] = row[id]
    BY <1>1, <2>1 DEF UpdateProcess, StoreInv
  <2>4. row[x].state # "FAILED"
    BY <1>4, <2>1 DEF AttemptCopy, UsingPhases, Supervised
  <2>5. QED
    BY <1>1, <1>2, <2>1, <2>2, <2>3, <2>4, AttemptCopied
<1>18. CASE Settle(h)
  <2> DEFINE e == [exec[h] EXCEPT !.sup = "done"]
  <2>1. /\ exec' = [exec EXCEPT ![h] = e] /\ Frame /\ Live /\ exec[h].sup # "none" /\ row' = row
    BY <1>1, <1>18 DEF Settle, InPhase, storeVars
  <2>2. e.p = exec[h].p /\ e.proc = exec[h].proc
    BY <1>1 DEF Exec
  <2> HIDE DEF e
  <2>3. QED
    BY <1>3, <2>1, <2>2
<1>19. CASE BeginStop(h)
  BY <1>0, <1>19, BeginStopCopies
<1>20. QED
  BY <1>10, <1>11, <1>12, <1>13, <1>14, <1>15, <1>16, <1>17, <1>18, <1>19 DEF AttemptNext

----------------------------------------------------------------------------
(* The steps of stop requests and of the dispatch loop.                    *)

(* A step that leaves the attempts alone, but for their intents.           *)
LEMMA CopiesMove ==
  ASSUME CopiesInv, Live, Live', FailedStay,
         \A h \in Handles : /\ exec'[h].p = exec[h].p /\ exec'[h].sup = exec[h].sup
                            /\ exec'[h].proc = exec[h].proc,
         \A id \in Procs : Sound(id, row'[id]) /\ Sound(id, snap'[id]) /\ Sound(id, stopper'[id].p),
         \A t \in Launchers, id \in Procs : Carries(launcher'[t], id) => Sound(id, launcher'[t].p)
  PROVE  Copied
<1>1. \A h \in Handles : ProcStep(h)
  BY DEF ProcStep
<1>2. \A h \in Handles : /\ Carried(h[1], exec'[h].p)
                         /\ exec'[h].sup # "none" => exec'[h].p.pid = h[2]
  BY SoundHere
<1>3. /\ \A id \in Procs : /\ Carried(id, row'[id])
                           /\ Carried(id, snap'[id])
                           /\ Carried(id, stopper'[id].p)
      /\ \A t \in Launchers, id \in Procs : Carries(launcher'[t], id) => Carried(id, launcher'[t].p)
  BY DEF Carried
<1>4. QED
  BY <1>1, <1>2, <1>3, CopiesStep

LEMMA NobodysCopies ==
  /\ NoProcess.pid = 0 /\ DoneStopper.p.pid = 0 /\ IdleStopper.p.pid = 0
  /\ NoExec.p.pid = 0 /\ IdleLauncher.id = 0
BY DEF NoProcess, DoneStopper, IdleStopper, NoExec, IdleLauncher

LEMMA IntentKeeps ==
  ASSUME DaemonInv, NEW h \in Handles, NEW reason \in {"user_request", "timeout", "shutdown"},
         exec' = [exec EXCEPT ![h] = setIntent(exec[h], reason)]
  PROVE  \A g \in Handles : /\ exec'[g].p = exec[g].p /\ exec'[g].sup = exec[g].sup
                            /\ exec'[g].proc = exec[g].proc
<1> DEFINE e == setIntent(exec[h], reason)
<1>1. exec[h] \in Exec
  BY DEF DaemonInv, SuperInv, AttemptsInv, StorableExec
<1>2. e.sup = exec[h].sup /\ e.p = exec[h].p /\ e.proc = exec[h].proc
  BY <1>1, SetIntentIs
<1>3. exec' = [exec EXCEPT ![h] = e]
  OBVIOUS
<1> HIDE DEF e
<1>4. exec'[h] = e /\ \A g \in Handles : g # h => exec'[g] = exec[g]
  BY <1>3, AttemptAlone DEF DaemonInv
<1>5. QED
  BY <1>2, <1>4

LEMMA StopCopies ==
  ASSUME DaemonInv, OwnInv, CopiesInv, NEW x \in Procs, StopNext(x) \/ CancelGet(x),
         UNCHANGED <<snap, todo>>
  PROVE  Copied
<1>1. /\ stopper[x] \in Stopper /\ row[x] \in Process /\ StoreInv
      /\ Sound(x, row[x]) /\ Sound(x, stopper[x].p)
  BY DEF DaemonInv, SuperInv, AttemptsInv, StorableStopper, StoreInv, Storable, CopiesInv
<1>2. Live /\ Live' /\ UNCHANGED <<launcher, mode>>
  BY DEF StopNext, RequestStop, StopLookup, StopIntent, CancelGet, CancelRelease, CancelWrite,
         CancelSettle, Live
<1>3. ASSUME NEW s, stopper' = [stopper EXCEPT ![x] = s], Sound(x, s.p),
             \A id \in Procs \ {x} : row'[id] = row[id],
             Sound(x, row'[x]), row[x].state # "FAILED" \/ row'[x] = row[x],
             \A h \in Handles : /\ exec'[h].p = exec[h].p /\ exec'[h].sup = exec[h].sup
                                /\ exec'[h].proc = exec[h].proc
      PROVE  Copied
  <2>1. stopper'[x] = s /\ \A id \in Procs \ {x} : stopper'[id] = stopper[id]
    BY <1>3, StopperAlone
  <2>2. \A id \in Procs : Sound(id, row'[id]) /\ Sound(id, snap'[id]) /\ Sound(id, stopper'[id].p)
    BY <1>3, <2>1 DEF CopiesInv
  <2>3. \A t \in Launchers, id \in Procs : Carries(launcher'[t], id) => Sound(id, launcher'[t].p)
    BY <1>2 DEF CopiesInv
  <2>4. FailedStay
    BY <1>3 DEF FailedStay
  <2>5. QED
    BY <1>2, <1>3, <2>2, <2>3, <2>4, CopiesMove
<1>4. ASSUME NEW s, stopper' = [stopper EXCEPT ![x] = s], Sound(x, s.p), UNCHANGED <<row, exec>>
      PROVE  Copied
  BY <1>1, <1>3, <1>4
<1>5. Sound(x, DoneStopper.p)
  BY NobodysCopies, FitsNobody
<1>6. CASE RequestStop(x) \/ StopLookup(x) \/ CancelRelease(x)
  <2>1. UNCHANGED <<row, exec>>
    BY <1>6 DEF RequestStop, StopLookup, CancelRelease, storeVars
  <2>2. PICK s : stopper' = [stopper EXCEPT ![x] = s] /\ s.p = stopper[x].p
    <3>1. CASE RequestStop(x)
      <4>1. WITNESS [stopper[x] EXCEPT !.pc = "lookup"]
      <4>2. QED
        BY <1>1, <3>1, <4>1 DEF RequestStop, GotoStopper, Stopper
    <3>2. CASE StopLookup(x)
      <4>1. WITNESS [stopper[x] EXCEPT !.pc = IF running[x] = 0 THEN "get" ELSE "intent",
                                       !.pid = running[x]]
      <4>2. QED
        BY <1>1, <3>2, <4>1 DEF StopLookup, Stopper
    <3>3. CASE CancelRelease(x)
      <4>1. WITNESS [stopper[x] EXCEPT !.pc = "write"]
      <4>2. QED
        BY <1>1, <3>3, <4>1 DEF CancelRelease, GotoStopper, Stopper
    <3>4. QED
      BY <1>6, <3>1, <3>2, <3>3
  <2>3. QED
    BY <1>1, <1>4, <2>1, <2>2
<1>7. CASE StopIntent(x)
  <2>1. PICK n \in 1..MaxLaunches : n = stopper[x].pid
    BY <1>7 DEF StopIntent, OwnInv, Referenced
  <2>2. /\ stopper' = [stopper EXCEPT ![x] = DoneStopper] /\ row' = row
        /\ exec' = [exec EXCEPT ![<<x, n>>] = setIntent(exec[<<x, n>>], "user_request")]
    BY <1>7, <2>1 DEF StopIntent, ReturnStopper, storeVars
  <2>3. PICK h \in Handles : exec' = [exec EXCEPT ![h] = setIntent(exec[h], "user_request")]
    BY <2>2 DEF Handles
  <2>4. \A g \in Handles : /\ exec'[g].p = exec[g].p /\ exec'[g].sup = exec[g].sup
                           /\ exec'[g].proc = exec[g].proc
    BY <2>3, IntentKeeps
  <2>5. QED
    BY <1>1, <1>3, <1>5, <2>2, <2>4
<1>8. CASE CancelGet(x)
  <2>1. UNCHANGED <<row, exec>>
    BY <1>8 DEF CancelGet, storeVars
  <2>2. CASE ReturnStopper(x)
    <3>1. stopper' = [stopper EXCEPT ![x] = DoneStopper]
      BY <2>2 DEF ReturnStopper
    <3>2. QED
      BY <1>4, <1>5, <2>1, <3>1
  <2>3. CASE ~ReturnStopper(x)
    <3> DEFINE q == TransitionTo(row[x], "CANCELED", "user_request")
               s == [stopper[x] EXCEPT !.pc = "release", !.p = q]
    <3>1. /\ row[x].state \in {"CREATED", "QUEUED", "RETRYING"}
          /\ stopper' = [stopper EXCEPT ![x] = s]
      BY <1>1, <1>8, <2>3 DEF CancelGet
    <3>2. Sound(x, q)
      <4>1. "CANCELED" \in States \ {"STARTING"} /\ "user_request" \in Reasons
        BY Names
      <4>2. row[x].state \notin Supervised
        BY <3>1 DEF Supervised
      <4>3. QED
        BY <1>1, <1>2, <4>1, <4>2, FitsTurned
    <3> HIDE DEF q
    <3>3. s.p = q
      BY <1>1 DEF Stopper
    <3> HIDE DEF s
    <3>4. QED
      BY <1>4, <2>1, <3>1, <3>2, <3>3
  <2>4. QED
    BY <2>2, <2>3
<1>9. CASE CancelWrite(x)
  <2>1. exec' = exec /\ stopper[x].pc = "write"
    BY <1>9 DEF CancelWrite
  <2>2. row[x].state # "FAILED"
    BY <2>1, WhoCancels DEF Cancelling, OwnedByStop, Waiting
  <2>3. PICK s : stopper' = [stopper EXCEPT ![x] = s] /\ Sound(x, s.p)
    <3>1. CASE mode = "up"
      <4>1. WITNESS [stopper[x] EXCEPT !.pc = "settle"]
      <4>2. QED
        BY <1>1, <1>9, <3>1, <4>1 DEF CancelWrite, GotoStopper, Stopper
    <3>2. CASE mode # "up"
      <4>1. WITNESS DoneStopper
      <4>2. QED
        BY <1>5, <1>9, <3>2, <4>1 DEF CancelWrite, ReturnStopper
    <3>3. QED
      BY <3>1, <3>2
  <2>4. row'[x] \in {row[x], stopper[x].p} /\ \A id \in Procs \ {x} : row'[id] = row[id]
    BY <1>1, <1>9 DEF CancelWrite, UpdateProcess, StoreInv
  <2>5. QED
    BY <1>1, <1>3, <2>1, <2>2, <2>3, <2>4
<1>10. CASE CancelSettle(x)
  <2>1. UNCHANGED <<row, exec>> /\ stopper' = [stopper EXCEPT ![x] = DoneStopper]
    BY <1>10 DEF CancelSettle, ReturnStopper, storeVars
  <2>2. QED
    BY <1>4, <1>5, <2>1
<1>11. QED
  BY <1>6, <1>7, <1>8, <1>9, <1>10 DEF StopNext

(* The pass reads rows, and its launcher is given one of them.             *)
LEMMA DispatchCopies ==
  ASSUME DaemonInv, OwnInv, CopiesInv, DispatchStep
  PROVE  Copied
<1>1. ASSUME NEW due, DispatchScan(due)
      PROVE  Copied
  <2>1. Live /\ Live' /\ UNCHANGED <<row, exec, stopper, launcher>>
    BY <1>1 DEF DispatchScan, storeVars, superVars, Live
  <2>2. \A id \in Procs : snap'[id] \in {row[id], NoProcess}
    BY <1>1 DEF DispatchScan
  <2>3. \A id \in Procs : Sound(id, NoProcess)
    BY NobodysCopies, FitsNobody
  <2>4. \A id \in Procs : Sound(id, row'[id]) /\ Sound(id, snap'[id]) /\ Sound(id, stopper'[id].p)
    BY <2>1, <2>2, <2>3 DEF CopiesInv
  <2>5. \A t \in Launchers, id \in Procs : Carries(launcher'[t], id) => Sound(id, launcher'[t].p)
    BY <2>1 DEF CopiesInv
  <2>6. FailedStay
    BY <2>1 DEF FailedStay
  <2>7. QED
    BY <2>1, <2>4, <2>5, <2>6, CopiesMove
<1>2. ASSUME NEW x \in todo, NEW expired \in BOOLEAN, DispatchNext(x, expired)
      PROVE  Copied
  <2>1. /\ launcher[Dispatcher].pc = "idle" /\ Live /\ Live'
        /\ UNCHANGED <<row, exec, stopper>> /\ snap' = [snap EXCEPT ![x] = NoProcess]
    BY <1>2 DEF DispatchNext, At, storeVars, Live
  <2>2. x \in Procs /\ snap[x] \in Process /\ snap \in [Procs -> Storable]
    BY DEF DaemonInv, PassInv, Storable
  <2>3. Sound(x, snap[x])
    BY <2>2 DEF CopiesInv
  <2> DEFINE q == IF expired THEN TransitionTo(snap[x], "FAILED", "queue_timeout") ELSE snap[x]
  <2>4. Sound(x, q)
    <3>1. CASE expired
      <4>1. snap[x].state \notin Supervised
        BY <1>2, <3>1 DEF DispatchNext, Supervised
      <4>2. "FAILED" \in States \ {"STARTING"} /\ "queue_timeout" \in Reasons
        BY Names
      <4>3. Sound(x, TransitionTo(snap[x], "FAILED", "queue_timeout"))
        BY <2>1, <2>2, <2>3, <4>1, <4>2, FitsTurned
      <4>4. QED
        BY <3>1, <4>3
    <3>2. CASE ~expired
      BY <2>3, <3>2
    <3>3. QED
      BY <3>1, <3>2
  <2>5. PICK l : launcher' = [launcher EXCEPT ![Dispatcher] = l] /\ l.id = x /\ l.p = q
    <3>1. WITNESS [IdleLauncher EXCEPT
                     !.id = x,
                     !.pc = IF expired THEN "expire" ELSE "slot",
                     !.p = IF expired THEN TransitionTo(snap[x], "FAILED", "queue_timeout")
                           ELSE snap[x]]
    <3>2. QED
      BY <1>2, <3>1 DEF DispatchNext, IdleLauncher
  <2> HIDE DEF q
  <2>6. Dispatcher \in Launchers
    BY DEF Launchers
  <2>7. launcher'[Dispatcher] = l /\ \A u \in Launchers \ {Dispatcher} : launcher'[u] = launcher[u]
    BY <2>5, <2>6, LauncherAlone DEF DaemonInv, SuperInv
  <2>8. \A t \in Launchers, id \in Procs : Carries(launcher'[t], id) => Sound(id, launcher'[t].p)
    BY <2>4, <2>5, <2>7 DEF CopiesInv, Carries
  <2>9. \A id \in Procs : Sound(id, row'[id]) /\ Sound(id, snap'[id]) /\ Sound(id, stopper'[id].p)
    <3>1. \A id \in Procs : Sound(id, NoProcess)
      BY NobodysCopies, FitsNobody
    <3>2. \A id \in Procs : snap'[id] \in {snap[id], NoProcess}
      BY <2>1, <2>2
    <3>3. QED
      BY <2>1, <3>1, <3>2 DEF CopiesInv
  <2>10. FailedStay
    BY <2>1 DEF FailedStay
  <2>11. QED
    BY <2>1, <2>8, <2>9, <2>10, CopiesMove
<1>3. QED
  BY <1>1, <1>2 DEF DispatchStep

----------------------------------------------------------------------------
(* The end of the daemon and its next start.                               *)

(* Without goroutines, the rows are all there is to keep.                  *)
LEMMA RowsOnly ==
  ASSUME OwnInv', mode' \in {"down", "boot"},
         \A id \in Procs : snap'[id].pid = 0 /\ stopper'[id].p.pid = 0,
         \A h \in Handles : exec'[h].p.pid = 0,
         \A id \in Procs : Fits(id, row'[id], exec', mode', todo')
  PROVE  CopiesInv'
<1>1. Quiet' /\ LaunchersShape'
  BY DEF OwnInv, ModeInv
<1>2. \A id \in Procs, t \in Launchers : ~Carries(launcher'[t], id)
  BY <1>1, NobodyIsZero DEF Quiet, LaunchersShape, Carries
<1>3. \A h \in Handles : h[1] \in Procs
  BY DEF Handles
<1>4. \A id \in Procs : \A p : p.pid = 0 => Fits(id, p, exec', mode', todo')
  BY DEF Fits
<1>5. Numbered' /\ Bare'
  BY <1>1 DEF Quiet, Numbered, Bare
<1>6. /\ \A id \in Procs : Sound(id, row[id])' /\ Sound(id, snap[id])' /\ Sound(id, stopper[id].p)'
      /\ \A h \in Handles : Sound(h[1], exec[h].p)'
  BY <1>3, <1>4 DEF Sound
<1>7. QED
  BY <1>2, <1>5, <1>6 DEF CopiesInv, Carries

(* A process that is left behind is one its row says is running.           *)
LEMMA PowerOffCopies ==
  ASSUME DaemonInv, CopiesInv, OwnInv', PowerOff
  PROVE  CopiesInv' /\ FailedStay
<1>1. ASSUME NEW h \in Handles
      PROVE  /\ exec'[h].p.pid = 0
             /\ exec'[h].proc = CASE exec[h].proc \in {"alive", "orphan"} -> "orphan"
                                  [] exec[h].proc \in {"zombie", "gone"} -> "gone"
                                  [] OTHER -> "none"
  <2>1. NoExec.p.pid = 0 /\ NoExec.proc = "none"
    BY DEF NoExec, NoProcess
  <2>2. /\ [NoExec EXCEPT !.proc = "orphan"].p = NoExec.p
        /\ [NoExec EXCEPT !.proc = "orphan"].proc = "orphan"
        /\ [NoExec EXCEPT !.proc = "gone"].p = NoExec.p
        /\ [NoExec EXCEPT !.proc = "gone"].proc = "gone"
    BY DEF NoExec
  <2>3. exec'[h] = CASE exec[h].proc \in {"alive", "orphan"} -> [NoExec EXCEPT !.proc = "orphan"]
                     [] exec[h].proc \in {"zombie", "gone"} -> [NoExec EXCEPT !.proc = "gone"]
                     [] OTHER -> NoExec
    BY DEF PowerOff
  <2>4. QED
    BY <2>1, <2>2, <2>3
<1>2. mode' = "down" /\ row' = row
  BY DEF PowerOff, storeVars
<1>3. \A id \in Procs : snap'[id].pid = 0 /\ stopper'[id].p.pid = 0
  BY NobodysCopies DEF PowerOff
<1>4. ASSUME NEW id \in Procs
      PROVE  Fits(id, row'[id], exec', mode', todo')
  <2> DEFINE p == row[id]
  <2>1. Sound(id, p)
    BY DEF CopiesInv
  <2>2. CASE p.pid = 0
    BY <1>2, <2>2 DEF Fits
  <2>3. CASE p.pid # 0
    <3> DEFINE h == <<id, p.pid>>
    <3>1. h \in Handles /\ p.pid \in 1..MaxLaunches /\ exec[h].proc # "none"
      BY <2>1, <2>3 DEF Sound, Fits, Handles
    <3>2. exec[h] \in Exec
      BY <3>1 DEF DaemonInv, SuperInv, AttemptsInv, StorableExec
    <3>3. exec[h].proc \in {"alive", "orphan", "zombie", "gone"}
      BY <3>1, <3>2 DEF Exec
    <3>4. /\ exec'[h].proc \in {"orphan", "gone"}
          /\ exec'[h].proc = "orphan" => exec[h].proc \in {"alive", "orphan"}
      BY <1>1, <3>1, <3>3
    <3>5. exec[h].proc \in {"alive", "orphan"} => DealtWith(id, p, "down", todo')
      BY <2>1, <2>3 DEF Sound, Fits, DealtWith
    <3>6. p.state = "STARTING" => p.pid = 0
      BY <2>1 DEF Sound, Fits
    <3>7. QED
      BY <1>2, <3>1, <3>4, <3>5, <3>6 DEF Fits
  <2>4. QED
    BY <2>2, <2>3
<1>5. QED
  BY <1>1, <1>2, <1>3, <1>4, RowsOnly DEF FailedStay

(* Every row that is not over is visited.                                  *)
LEMMA BootCopies ==
  ASSUME CopiesInv, OwnInv', Boot
  PROVE  CopiesInv' /\ FailedStay
<1>1. /\ mode = "down" /\ mode' = "boot" /\ todo' = UnfinishedProcesses
      /\ UNCHANGED <<row, exec, stopper, snap>>
  BY DEF Boot, storeVars
<1>2. Bare /\ \A id \in Procs : Sound(id, row[id])
  BY DEF CopiesInv
<1>3. \A id \in Procs : row[id].state \in Supervised => id \in todo'
  BY <1>1 DEF UnfinishedProcesses, Supervised, IsTerminal, States
<1>4. \A id \in Procs : DealtWith(id, row[id], mode, todo) => DealtWith(id, row'[id], mode', todo')
  BY <1>1, <1>3 DEF DealtWith
<1>5. \A id \in Procs : Fits(id, row'[id], exec', mode', todo')
  BY <1>1, <1>2, <1>4 DEF Sound, Fits
<1>6. (\A id \in Procs : snap'[id].pid = 0 /\ stopper'[id].p.pid = 0)
      /\ \A h \in Handles : exec'[h].p.pid = 0
  BY <1>1, <1>2 DEF Bare
<1>7. QED
  BY <1>1, <1>5, <1>6, RowsOnly DEF FailedStay

(* What Reconcile makes of a row and of the process it names.              *)
LEMMA RecoveredPid ==
  ASSUME NEW id \in Procs, row[id] \in Process, NEW reset \in BOOLEAN
  PROVE  Recovered(id, reset).pid = row[id].pid
<1> DEFINE c == TransitionTo(row[id], "CRASHED", "daemon_restart")
<1>1. "CRASHED" \in States /\ "daemon_restart" \in Reasons
  BY Names
<1>2. c \in Process /\ c.pid = row[id].pid
  BY <1>1, TransitionToType
<1> HIDE DEF c
<1>3. settle(c, Def[id].retry, exitTrigger(Def[id].type, "failure"), "daemon_restart", reset).pid
        = c.pid
  BY <1>1, <1>2, SettlePid
<1>4. QED
  BY <1>2, <1>3 DEF Recovered, c

LEMMA LeftPid ==
  ASSUME NEW p \in Process, p.state \in Supervised
  PROVE  LET q == TransitionTo(TransitionTo(p, "CRASHED", "daemon_restart"), "FAILED", "orphaned")
         IN  q.pid = p.pid /\ q.state = "FAILED"
<1> DEFINE c == TransitionTo(p, "CRASHED", "daemon_restart")
<1>1. CanTransition(p.state, "CRASHED") /\ CanTransition("CRASHED", "FAILED")
  BY EdgesExist DEF Supervised
<1>2. /\ "CRASHED" \in States /\ "FAILED" \in States
      /\ "daemon_restart" \in Reasons /\ "orphaned" \in Reasons
  BY Names
<1>3. c \in Process /\ c.state = "CRASHED" /\ c.pid = p.pid
  BY <1>1, <1>2, TransitionArrives
<1> HIDE DEF c
<1>4. TransitionTo(c, "FAILED", "orphaned").pid = p.pid
      /\ TransitionTo(c, "FAILED", "orphaned").state = "FAILED"
  BY <1>1, <1>2, <1>3, TransitionArrives
<1>5. QED
  BY <1>4 DEF c

(* A visit ends with the process killed, given up on, or never found.      *)
LEMMA ReconcileCopies ==
  ASSUME DaemonInv, OwnInv, OwnInv', CopiesInv, NEW x \in todo, NEW reset \in BOOLEAN,
         reconcileOne(x, reset)
  PROVE  CopiesInv' /\ FailedStay
<1>0. /\ x \in Procs /\ StoreInv /\ row[x] \in Process
  BY DEF DaemonInv, PassInv, SuperInv, StoreInv, Storable
<1>1. /\ mode = "boot" /\ mode' = "boot" /\ todo' = todo \ {x} /\ UNCHANGED <<stopper, snap>>
  BY DEF reconcileOne
<1>2. Sound(x, row[x]) /\ Bare
  BY <1>0 DEF CopiesInv
<1>3. \A h \in Handles : exec[h].proc \notin {"alive", "zombie"}
  BY <1>1, AliveIsLive DEF Live
<1> DEFINE p == row[x]
(* Where the row is left with nothing to deal with.                        *)
<1>4. ASSUME \A id \in Procs \ {x} : row'[id] = row[id],
             p.state # "FAILED" \/ row'[x] = p,
             \A h \in Handles : /\ exec'[h].p = exec[h].p
                                /\ h[1] # x => exec'[h].proc = exec[h].proc,
             Fits(x, row'[x], exec', mode', todo')
      PROVE  CopiesInv' /\ FailedStay
  <2>1. ASSUME NEW id \in Procs \ {x}
        PROVE  Fits(id, row'[id], exec', mode', todo')
    <3>1. Sound(id, row[id])
      BY DEF CopiesInv
    <3>2. DealtWith(id, row[id], mode, todo) => DealtWith(id, row[id], mode', todo')
      BY <1>1 DEF DealtWith
    <3>3. row[id].pid \in 1..MaxLaunches
            => exec'[<<id, row[id].pid>>].proc = exec[<<id, row[id].pid>>].proc
      BY <1>4 DEF Handles
    <3>4. QED
      BY <1>4, <3>1, <3>2, <3>3 DEF Sound, Fits
  <2>2. \A id \in Procs : Fits(id, row'[id], exec', mode', todo')
    BY <1>4, <2>1
  <2>3. (\A id \in Procs : snap'[id].pid = 0 /\ stopper'[id].p.pid = 0)
        /\ \A h \in Handles : exec'[h].p.pid = 0
    BY <1>1, <1>2, <1>4 DEF Bare
  <2>4. FailedStay
    BY <1>4 DEF FailedStay
  <2>5. QED
    BY <1>1, <2>2, <2>3, <2>4, RowsOnly
<1>5. p.pid # 0 => <<x, p.pid>> \in Handles /\ exec[<<x, p.pid>>].proc # "none"
  BY <1>0, <1>2 DEF Sound, Fits, Handles
(* The row may change, and its process was gone before.                    *)
<1>6. ASSUME NEW q, row'[x] = q, \A id \in Procs \ {x} : row'[id] = row[id], exec' = exec,
             q.pid = p.pid, q.state = "STARTING" => q.pid = 0,
             p.state # "FAILED", p.pid # 0 => exec[<<x, p.pid>>].proc # "orphan"
      PROVE  CopiesInv' /\ FailedStay
  <2>1. p.pid # 0 => p.pid \in 1..MaxLaunches
    BY <1>2 DEF Sound, Fits
  <2>2. Fits(x, q, exec', mode', todo')
    BY <1>3, <1>5, <1>6, <2>1 DEF Fits
  <2>3. QED
    BY <1>4, <1>6, <2>2
<1>7. CASE p.state \in Waiting
  <2>1. ~DealtWith(x, p, mode, todo)
    BY <1>7 DEF DealtWith, Waiting, Supervised
  <2>2. p.pid # 0 => exec[<<x, p.pid>>].proc # "orphan"
    BY <1>2, <2>1 DEF Sound, Fits
  <2>3. exec' = exec
    BY <1>7 DEF reconcileOne, IsActive, Waiting
  <2>4. row' = row \/ UpdateProcess(x, TransitionTo(p, "QUEUED", ""))
    BY <1>7 DEF reconcileOne, IsActive, Waiting, storeVars
  <2>5. "QUEUED" \in States /\ "" \in Reasons
    BY Names
  <2>6. PICK q : /\ row'[x] = q /\ \A id \in Procs \ {x} : row'[id] = row[id]
                 /\ q \in {p, TransitionTo(p, "QUEUED", "")}
    BY <1>0, <2>4 DEF UpdateProcess, StoreInv
  <2>7. TransitionTo(p, "QUEUED", "").pid = p.pid
        /\ TransitionTo(p, "QUEUED", "").state \in {p.state, "QUEUED"}
    BY <1>0, <2>5, TransitionToType
  <2>8. q.pid = p.pid /\ q.state # "STARTING" /\ p.state # "FAILED"
    BY <1>7, <2>6, <2>7 DEF Waiting
  <2>9. QED
    BY <1>6, <2>2, <2>3, <2>6, <2>8
<1>8. CASE IsActive(p.state) /\ SameProcess(x) /\ OrphanPolicy = "leave" /\ LeaveOrphan(x)
  <2> DEFINE q == TransitionTo(TransitionTo(p, "CRASHED", "daemon_restart"), "FAILED", "orphaned")
  <2>1. p.state \in Supervised
    <3>1. p.state # "STARTING"
      BY <1>2, <1>8 DEF SameProcess, Sound, Fits
    <3>2. QED
      BY <1>8, <3>1 DEF IsActive, Supervised
  <2>2. q.pid = p.pid /\ q.state = "FAILED"
    BY <1>0, <2>1, LeftPid
  <2>3. UpdateProcess(x, q) /\ exec' = exec
    BY <1>8 DEF LeaveOrphan
  <2> HIDE DEF q
  <2>4. row'[x] = q /\ \A id \in Procs \ {x} : row'[id] = row[id]
    BY <1>0, <2>3 DEF UpdateProcess, StoreInv
  <2>5. p.pid \in 1..MaxLaunches /\ exec[<<x, p.pid>>].proc = "orphan"
    BY <1>8 DEF SameProcess
  <2>6. Fits(x, q, exec', mode', todo')
    BY <1>8, <2>2, <2>3, <2>5 DEF Fits, DealtWith
  <2>7. p.state # "FAILED"
    BY <2>1 DEF Supervised
  <2>8. QED
    BY <1>4, <2>3, <2>4, <2>6, <2>7
<1>9. CASE IsActive(p.state) /\ Recover(x, reset)
  <2> DEFINE q == Recovered(x, reset)
  <2>1. p.state \in {"STARTING"} \cup Supervised
    BY <1>9 DEF IsActive, Supervised
  <2>2. q.pid = p.pid /\ Edge(x, p, q)
    BY <1>0, <2>1, RecoveredPid, RecoveredEdge
  <2>3. UpdateProcess(x, q)
    BY <1>9 DEF Recover
  <2> HIDE DEF q
  <2>4. row'[x] = q /\ \A id \in Procs \ {x} : row'[id] = row[id]
    BY <1>0, <2>3 DEF UpdateProcess, StoreInv
  <2>5. q.state = "STARTING" => q.pid = 0
    <3>1. q.state = "STARTING" => p.state = "STARTING"
      BY <2>1, <2>2 DEF Edge, PlainEdge, SettledEdge, Waiting, Supervised
    <3>2. QED
      BY <1>2, <2>2, <3>1 DEF Sound, Fits
  <2>6. p.state # "FAILED"
    BY <2>1 DEF Supervised
  <2>7. CASE SameProcess(x)
    <3>1. PICK g : g = <<x, p.pid>>
      OBVIOUS
    <3>2. g \in Handles /\ p.pid \in 1..MaxLaunches /\ g[1] = x
      BY <1>0, <2>7, <3>1 DEF SameProcess, Handles
    <3>3. exec[g] \in Exec
      BY <3>2 DEF DaemonInv, SuperInv, AttemptsInv, StorableExec
    <3>4. PICK e : e = [exec[g] EXCEPT !.proc = "gone"]
      OBVIOUS
    <3>5. exec' = [exec EXCEPT ![g] = e]
      BY <1>9, <2>7, <3>1, <3>4 DEF Recover
    <3>6. e.p = exec[g].p /\ e.proc = "gone"
      BY <3>3, <3>4 DEF Exec
    <3>7. exec'[g] = e /\ \A h \in Handles : h # g => exec'[h] = exec[h]
      BY <3>2, <3>5, AttemptAlone DEF DaemonInv
    <3>8. \A h \in Handles : /\ exec'[h].p = exec[h].p
                             /\ h[1] # x => exec'[h].proc = exec[h].proc
      BY <3>2, <3>6, <3>7
    <3>9. exec'[<<x, q.pid>>].proc = "gone"
      BY <2>2, <3>1, <3>6, <3>7
    <3>10. Fits(x, q, exec', mode', todo')
      BY <2>2, <2>5, <3>2, <3>9 DEF Fits
    <3>11. QED
      BY <1>4, <2>4, <2>6, <3>8, <3>10
  <2>8. CASE ~SameProcess(x)
    <3>1. exec' = exec
      BY <1>9, <2>8 DEF Recover
    <3>2. p.pid # 0 => exec[<<x, p.pid>>].proc # "orphan"
      BY <1>2, <2>8 DEF SameProcess, Sound, Fits
    <3>3. QED
      BY <1>6, <2>2, <2>4, <2>5, <2>6, <3>1, <3>2
  <2>9. QED
    BY <2>7, <2>8
<1>10. QED
  BY <1>7, <1>8, <1>9 DEF reconcileOne, Waiting

LEMMA LifecycleCopies ==
  ASSUME DaemonInv, OwnInv, OwnInv', CopiesInv, LifecycleStep
  PROVE  CopiesInv' /\ FailedStay
<1>1. CASE Sigterm \/ Drain \/ ShutdownEnds \/ ShutdownBegins \/ (\E h \in Handles : ShutdownIntent(h))
  <2>1. Live /\ Live' /\ UNCHANGED <<row, stopper, snap, launcher>>
    BY <1>1 DEF Sigterm, Drain, ShutdownEnds, ShutdownBegins, ShutdownIntent, OthersUnchanged,
                storeVars, schedulerVars, Live
  <2>2. \A h \in Handles : /\ exec'[h].p = exec[h].p /\ exec'[h].sup = exec[h].sup
                           /\ exec'[h].proc = exec[h].proc
    <3>1. CASE Sigterm \/ Drain \/ ShutdownEnds \/ ShutdownBegins
      <4>1. exec' = exec
        BY <3>1 DEF Sigterm, Drain, ShutdownEnds, ShutdownBegins
      <4>2. QED
        BY <4>1
    <3>2. CASE \E h \in Handles : ShutdownIntent(h)
      <4>1. PICK h \in Handles : exec' = [exec EXCEPT ![h] = setIntent(exec[h], "shutdown")]
        BY <3>2 DEF ShutdownIntent
      <4>2. QED
        BY <4>1, IntentKeeps
    <3>3. QED
      BY <1>1, <3>1, <3>2
  <2>3. /\ \A id \in Procs : /\ Sound(id, row'[id]) /\ Sound(id, snap'[id])
                             /\ Sound(id, stopper'[id].p)
        /\ \A t \in Launchers, id \in Procs : Carries(launcher'[t], id) => Sound(id, launcher'[t].p)
    BY <2>1 DEF CopiesInv
  <2>4. FailedStay
    BY <2>1 DEF FailedStay
  <2>5. Copied
    BY <2>1, <2>2, <2>3, <2>4, CopiesMove
  <2>6. QED
    BY <2>4, <2>5 DEF Copied
<1>2. CASE Exit \/ Crash
  BY <1>2, PowerOffCopies DEF Exit, Crash
<1>3. CASE Boot
  BY <1>3, BootCopies
<1>4. CASE \E id \in todo, reset \in BOOLEAN : reconcileOne(id, reset)
  BY <1>4, ReconcileCopies
<1>5. CASE ReconcileDone
  <2>1. /\ mode = "boot" /\ mode' = "up" /\ todo = {}
        /\ UNCHANGED <<row, exec, stopper, snap, launcher, todo>>
    BY <1>5 DEF ReconcileDone, storeVars, schedulerVars
  <2>2. ASSUME NEW id, NEW p, Sound(id, p)
        PROVE  Fits(id, p, exec', mode', todo')
    <3>1. DealtWith(id, p, mode, todo) => DealtWith(id, p, mode', todo')
      BY <2>1 DEF DealtWith
    <3>2. QED
      BY <2>1, <2>2, <3>1 DEF Sound, Fits
  <2>3. /\ \A id \in Procs : Sound(id, row[id])' /\ Sound(id, snap[id])' /\ Sound(id, stopper[id].p)'
        /\ \A h \in Handles : Sound(h[1], exec[h].p)'
        /\ \A t \in Launchers, id \in Procs : Carries(launcher[t], id)' => Sound(id, launcher[t].p)'
    BY <2>1, <2>2 DEF CopiesInv, Sound, Carries
  <2>4. Numbered' /\ Bare'
    BY <2>1 DEF CopiesInv, Numbered, Bare
  <2>5. QED
    BY <2>1, <2>3, <2>4 DEF CopiesInv, FailedStay
<1>6. QED
  BY <1>1, <1>2, <1>3, <1>4, <1>5 DEF LifecycleStep

----------------------------------------------------------------------------
(* The invariant.                                                          *)

LEMMA InitCopies == Init => CopiesInv
<1> SUFFICES ASSUME Init PROVE CopiesInv
  OBVIOUS
<1>1. /\ \A id \in Procs : row[id] = NoProcess /\ stopper[id] = IdleStopper /\ snap[id] = NoProcess
      /\ \A t \in Launchers : launcher[t].id = 0
      /\ \A h \in Handles : exec[h] = NoExec
      /\ mode = "up"
  BY DEF Init, StoreInit, SupervisorInit, SchedulerInit, IdleLauncher
<1>2. /\ \A id \in Procs : row[id].pid = 0 /\ stopper[id].p.pid = 0 /\ snap[id].pid = 0
      /\ \A h \in Handles : exec[h].p.pid = 0
  BY <1>1, NobodysCopies
<1>3. /\ \A id \in Procs : Sound(id, row[id]) /\ Sound(id, snap[id]) /\ Sound(id, stopper[id].p)
      /\ \A h \in Handles : Sound(h[1], exec[h].p)
  BY <1>2, FitsNobody
<1>4. \A h \in Handles : exec[h].sup = "none"
  BY <1>1, NoExecIs
<1>5. \A t \in Launchers, id \in Procs : ~Carries(launcher[t], id)
  BY <1>1, NobodyIsZero DEF Carries
<1>6. QED
  BY <1>2, <1>3, <1>4, <1>5 DEF CopiesInv, Numbered, Bare

LEMMA NextCopies ==
  ASSUME Timely, DaemonInv, OwnInv, OwnInv', CopiesInv, [Next]_vars
  PROVE  Copied \/ (LifecycleStep /\ CopiesInv' /\ FailedStay)
<1>1. ASSUME NEW t \in Launchers, LauncherStep(t)
      PROVE  Copied
  <2>1. UNCHANGED snap
    BY <1>1 DEF LauncherStep, schedulerVars
  <2>2. CASE StartNext(t)
    BY <2>1, <2>2, StartCopies
  <2>3. CASE AdmitNext(t)
    BY <2>1, <2>3, AdmitCopies
  <2>4. CASE \/ t \in Procs /\ SubmitNext(t)
             \/ t = Dispatcher /\ (ExpireUnlock(t) \/ ExpireWrite(t))
    BY <2>1, <2>4, SubmitCopies
  <2>5. QED
    BY <1>1, <2>2, <2>3, <2>4 DEF LauncherStep
<1>2. ASSUME NEW h \in Handles, AttemptStep(h)
      PROVE  Copied
  BY <1>2, AttemptCopies DEF AttemptStep, schedulerVars
<1>3. ASSUME NEW x \in Procs, StopStep(x)
      PROVE  Copied
  BY <1>3, StopCopies DEF StopStep, schedulerVars
<1>4. CASE DispatchStep
  BY <1>4, DispatchCopies
<1>5. CASE LifecycleStep
  BY <1>5, LifecycleCopies
<1>6. CASE (\E w \in Workers, limit \in Limits : Reload(w, limit)) \/ UNCHANGED vars
  <2>1. UNCHANGED <<row, launcher, exec, stopper, mode, todo, snap>>
    BY <1>6 DEF Reload, vars, storeVars, superVars, schedulerVars, daemonVars
  <2>2. /\ \A h \in Handles : /\ exec'[h].p = exec[h].p /\ exec'[h].sup = exec[h].sup
                              /\ exec'[h].proc = exec[h].proc
        /\ \A id \in Procs : stopper'[id] = stopper[id]
        /\ \A t \in Launchers : launcher'[t] = launcher[t]
    BY <2>1
  <2>3. QED
    BY <2>1, <2>2, FewerProcesses
<1>7. QED
  BY <1>1, <1>2, <1>3, <1>4, <1>5, <1>6 DEF Next

(* Every copy of an execution that anything in the daemon holds names no   *)
(* process, one of its own, or one that Reconcile has still to deal with:  *)
(* Start, supervise, cancelPending and reconcileOne write no other.        *)
THEOREM CopiesAreSound ==
  ASSUME Timely
  PROVE  Spec => []CopiesInv
<1>1. Init => CopiesInv
  BY InitCopies
<1>2. DaemonInv /\ OwnInv /\ OwnInv' /\ CopiesInv /\ [Next]_vars => CopiesInv'
  BY NextCopies DEF Copied
<1>3. Spec => []OwnInv
  BY RowsAreOwned
<1>4. QED
  BY <1>1, <1>2, <1>3, DaemonCorrect, PTL DEF Spec

(* A process the store knows of outlives a restart only under orphan_policy *)
(* leave, and its execution has failed: handleOrphan and recoverInterrupted *)
(* (reconcile.go) see every row that names one before anything else runs.   *)
THEOREM OrphansAreSettled ==
  ASSUME Timely
  PROVE  Spec => []KnownOrphansSettled
<1>1. CopiesInv => KnownOrphansSettled
  BY DEF CopiesInv, Sound, Fits, DealtWith, Live, KnownOrphansSettled
<1>2. Spec => []CopiesInv
  BY CopiesAreSound
<1>3. QED
  BY <1>1, <1>2, PTL

----------------------------------------------------------------------------
(***************************************************************************)
(* An execution and its processes, over all starts of the daemon.          *)
(***************************************************************************)

(* The daemon does not die, and its shutdown waits for what it began: the  *)
(* two ways in which a fork outlives the daemon before its pid is stored.  *)
Orderly == "crash" \notin Faults /\ "slowstop" \notin Faults

(* The store names every process an earlier daemon has left.               *)
OrphansKnown == \A h \in Handles : exec[h].proc = "orphan" => row[h[1]].pid = h[2]

(* Drain begins after the last request was answered.                       *)
Calmed == SchedulerDraining => \A id \in Procs : ~Busy(launcher[id])

OrphansInv == OrphansKnown /\ Calmed

(* A launcher moves itself only, and what is not running does not write.   *)
LEMMA LauncherCalm ==
  ASSUME DaemonInv, Calmed, NEW t \in Launchers, LauncherStep(t)
  PROVE  Calmed' /\ (~Live => row' = row)
<1>0. launcher = [u \in Launchers |-> launcher[u]] /\ Procs \subseteq Launchers
  BY DEF DaemonInv, SuperInv, LaunchersInv, Launchers
<1>1. \A u \in Launchers \ {t} : launcher'[u] = launcher[u]
  <2>1. CASE StartNext(t)
    BY <1>0, <2>1 DEF StartNext, StartDraining, StartAccepted, Fork, ForkFails, PersistRunning,
       PersistRunningFails, Register, AbandonStart, FailUnlock, FailWrite, FailSettle,
       Goto, GotoWith, GotoFailed, Return
  <2>2. CASE AdmitNext(t)
    BY <1>0, <2>2 DEF AdmitNext, TakeSlot, TakeLock, YieldSlot, WriteStarting, ReleaseSlot, Unlock,
       Goto, GotoWith, GotoPark, Return
  <2>3. CASE SubmitNext(t)
    BY <1>0, <2>3 DEF SubmitNext, Submit, Create, Claim, rejectLocked, Unclaim, park, Hangup,
       WriteAndReturn, Goto, GotoWith, GotoPark, Return
  <2>4. CASE ExpireUnlock(t) \/ ExpireWrite(t)
    BY <1>0, <2>4 DEF ExpireUnlock, ExpireWrite, WriteAndReturn, Goto, Return
  <2>5. QED
    BY <2>1, <2>2, <2>3, <2>4 DEF LauncherStep
<1>2. mode' = mode /\ Live
  <2>1. CASE StartNext(t)
    BY <2>1 DEF StartNext, StartDraining, StartAccepted, Fork, ForkFails, PersistRunning,
       PersistRunningFails, Register, AbandonStart, FailUnlock, FailWrite, FailSettle, At
  <2>2. CASE AdmitNext(t)
    BY <2>2 DEF AdmitNext, TakeSlot, TakeLock, YieldSlot, WriteStarting, ReleaseSlot, Unlock, At
  <2>3. CASE SubmitNext(t)
    BY <2>3 DEF SubmitNext, Submit, Create, Claim, rejectLocked, Unclaim, park, Hangup,
       WriteAndReturn, At
  <2>4. CASE ExpireUnlock(t) \/ ExpireWrite(t)
    BY <2>4 DEF ExpireUnlock, ExpireWrite, WriteAndReturn, At
  <2>5. QED
    BY <2>1, <2>2, <2>3, <2>4 DEF LauncherStep
<1>3. ASSUME SchedulerDraining, t \in Procs
      PROVE  ~Busy(launcher'[t])
  <2>1. launcher[t].pc \in {"idle", "done"}
    BY <1>3 DEF Calmed, Busy
  <2>2. Submit(t)
    <3>1. ~StartNext(t)
      BY <2>1 DEF StartNext, StartDraining, StartAccepted, Fork, ForkFails, PersistRunning,
         PersistRunningFails, Register, AbandonStart, FailUnlock, FailWrite, FailSettle, At
    <3>2. ~AdmitNext(t)
      BY <2>1 DEF AdmitNext, TakeSlot, TakeLock, YieldSlot, WriteStarting, ReleaseSlot, Unlock, At
    <3>3. t # Dispatcher
      BY <1>3, NobodyIsZero DEF Dispatcher
    <3>4. SubmitNext(t)
      BY <3>1, <3>2, <3>3 DEF LauncherStep
    <3>5. QED
      BY <2>1, <3>4 DEF SubmitNext, Create, Claim, rejectLocked, Unclaim, park, Hangup,
         WriteAndReturn, At
  <2>3. Return(t) /\ t # Dispatcher
    BY <1>3, <2>2, NobodyIsZero DEF Submit, Dispatcher
  <2>4. launcher'[t] = DoneLauncher
    BY <1>0, <1>3, <2>3 DEF Return
  <2>5. QED
    BY <2>4 DEF Busy, DoneLauncher, IdleLauncher
<1>4. Calmed'
  BY <1>0, <1>1, <1>2, <1>3 DEF Calmed, SchedulerDraining, Busy
<1>5. QED
  BY <1>2, <1>4

(* Any step but those of the daemon as a whole.                            *)
LEMMA OrdinaryCalm ==
  ASSUME DaemonInv, Calmed, [Next]_vars, ~LifecycleStep
  PROVE  Calmed' /\ (~Live => row' = row)
<1>1. ASSUME NEW t \in Launchers, LauncherStep(t)
      PROVE  Calmed' /\ (~Live => row' = row)
  BY <1>1, LauncherCalm
<1>2. ASSUME NEW h \in Handles, AttemptStep(h)
      PROVE  UNCHANGED <<launcher, mode>> /\ (~Live => row' = row)
  BY <1>2 DEF AttemptStep, AttemptNext, ProcExit, OrphanExit, WaitReturns, Unregister, Classify,
     PersistOutcome, Settle, TimerFires, TimeoutIntent, BeginStop, SignalGroup, InPhase, storeVars
<1>3. ASSUME NEW x \in Procs, StopStep(x)
      PROVE  UNCHANGED <<launcher, mode>> /\ (~Live => row' = row)
  BY <1>3 DEF StopStep, StopNext, RequestStop, StopLookup, StopIntent, CancelGet, CancelRelease,
     CancelWrite, CancelSettle, storeVars
<1>4. ASSUME DispatchStep
      PROVE  /\ mode' = mode /\ row' = row
             /\ \A id \in Procs : launcher'[id] = launcher[id]
  <2>1. Dispatcher \notin Procs
    BY NobodyIsZero DEF Dispatcher
  <2>2. launcher = [u \in Launchers |-> launcher[u]] /\ Procs \subseteq Launchers
    BY DEF DaemonInv, SuperInv, LaunchersInv, Launchers
  <2>3. QED
    BY <1>4, <2>1, <2>2 DEF DispatchStep, DispatchScan, DispatchNext, storeVars, superVars
<1>5. CASE (\E w \in Workers, limit \in Limits : Reload(w, limit)) \/ UNCHANGED vars
  BY <1>5 DEF Reload, vars, storeVars, superVars, Calmed, SchedulerDraining, Busy
<1>6. ASSUME mode' = mode, \A id \in Procs : launcher'[id] = launcher[id]
      PROVE  Calmed'
  BY <1>6 DEF Calmed, SchedulerDraining, Busy
<1>7. Calmed' /\ (~Live => row' = row)
  BY <1>1, <1>2, <1>3, <1>4, <1>5, <1>6 DEF Next
<1>8. QED
  BY <1>7

(* A process that outlives the daemon on exit is one the store names.      *)
LEMMA ExitKnows ==
  ASSUME Orderly, DaemonInv, OwnInv, CopiesInv, OrphansInv, Exit
  PROVE  OrphansInv'
<1>1. /\ mode = "exit" /\ launcher[Dispatcher].pc = "idle" /\ mode' = "down" /\ row' = row
      /\ \A h \in Handles : exec'[h].proc = "orphan" => exec[h].proc \in {"alive", "orphan"}
  BY NoExecIs DEF Exit, PowerOff, storeVars, NoExec
<1>2. \A t \in Launchers : ~Busy(launcher[t])
  BY <1>1 DEF OrphansInv, Calmed, SchedulerDraining, Busy, Launchers
<1>3. ASSUME NEW h \in Handles, exec[h].proc = "alive"
      PROVE  row[h[1]].pid = h[2]
  <2>1. PICK x \in Procs, n \in 1..MaxLaunches : h = <<x, n>>
    BY DEF Handles
  <2>2. exec[<<x, n>>].sup = "wait"
    BY <1>2, <1>3, <2>1 DEF OwnInv, Referenced, Busy
  <2>3. OwnedByAttempt(x, n)
    BY <2>2, WhoAttempts DEF Attempting, UsingPhases
  <2>4. exec[<<x, n>>].p = row[x]
    BY <2>2, <2>3 DEF OwnedByAttempt, AttemptCopy
  <2>5. exec[h].p.pid = h[2]
    BY <2>1, <2>2 DEF CopiesInv, Numbered
  <2>6. QED
    BY <2>1, <2>4, <2>5
<1>4. OrphansKnown'
  BY <1>1, <1>3 DEF OrphansInv, OrphansKnown
<1>5. QED
  BY <1>1, <1>4 DEF OrphansInv, Calmed, SchedulerDraining

(* Reconcile writes no other pid, and kills what it recovers from.         *)
LEMMA ReconcileKnows ==
  ASSUME DaemonInv, CopiesInv, OrphansInv, NEW x \in todo, NEW reset \in BOOLEAN,
         reconcileOne(x, reset)
  PROVE  OrphansInv'
<1>0. /\ x \in Procs /\ row[x] \in Process /\ mode' = mode /\ launcher' = launcher
      /\ row \in [Procs -> Storable] /\ exec \in [Handles -> StorableExec]
  BY DEF reconcileOne, DaemonInv, PassInv, SuperInv, StoreInv, AttemptsInv, Storable
<1>1. CASE /\ row[x].state = "CREATED" /\ UpdateProcess(x, TransitionTo(row[x], "QUEUED", ""))
           /\ exec' = exec
  <2>1. "QUEUED" \in States /\ "" \in Reasons
    BY Names
  <2>2. TransitionTo(row[x], "QUEUED", "").pid = row[x].pid
    BY <1>0, <2>1, TransitionToType
  <2> DEFINE q == TransitionTo(row[x], "QUEUED", "")
  <2> HIDE DEF q
  <2>3. row' = [row EXCEPT ![x] = q] /\ q.pid = row[x].pid
    BY <1>1, <2>2 DEF UpdateProcess, q
  <2>4. \A id \in Procs : row'[id].pid = row[id].pid
    BY <1>0, <2>3
  <2>5. OrphansKnown'
    BY <1>1, <2>4 DEF OrphansInv, OrphansKnown, Handles
  <2>6. QED
    BY <1>0, <2>5 DEF OrphansInv, Calmed, SchedulerDraining, Busy
<1>2. CASE UNCHANGED <<row, exec>>
  BY <1>0, <1>2 DEF OrphansInv, OrphansKnown, Calmed, SchedulerDraining, Busy
<1>3. CASE IsActive(row[x].state) /\ SameProcess(x) /\ LeaveOrphan(x)
  <2> DEFINE q == TransitionTo(TransitionTo(row[x], "CRASHED", "daemon_restart"),
                               "FAILED", "orphaned")
  <2>1. q.pid = row[x].pid
    <3> DEFINE c == TransitionTo(row[x], "CRASHED", "daemon_restart")
    <3>1. /\ "CRASHED" \in States /\ "FAILED" \in States
          /\ "daemon_restart" \in Reasons /\ "orphaned" \in Reasons
      BY Names
    <3>2. c \in Process /\ c.pid = row[x].pid
      BY <1>0, <3>1, TransitionToType
    <3> HIDE DEF c
    <3>3. TransitionTo(c, "FAILED", "orphaned").pid = c.pid
      BY <3>1, <3>2, TransitionToType
    <3>4. QED
      BY <3>2, <3>3 DEF c
  <2> HIDE DEF q
  <2>2. row' = [row EXCEPT ![x] = q] /\ exec' = exec
    BY <1>3 DEF LeaveOrphan, UpdateProcess, q
  <2>3. \A id \in Procs : row'[id].pid = row[id].pid
    BY <1>0, <2>1, <2>2
  <2>4. OrphansKnown'
    BY <2>2, <2>3 DEF OrphansInv, OrphansKnown, Handles
  <2>5. QED
    BY <1>0, <2>4 DEF OrphansInv, Calmed, SchedulerDraining, Busy
<1>4. CASE Recover(x, reset)
  <2> DEFINE q == Recovered(x, reset)
  <2>1. q.pid = row[x].pid
    BY <1>0, RecoveredPid
  <2> HIDE DEF q
  <2>2. /\ row' = [row EXCEPT ![x] = q]
        /\ IF SameProcess(x) THEN exec' = [exec EXCEPT ![<<x, row[x].pid>>].proc = "gone"]
           ELSE exec' = exec
    BY <1>4 DEF Recover, UpdateProcess, q
  <2>3. \A id \in Procs : row'[id].pid = row[id].pid
    BY <1>0, <2>1, <2>2
  <2>4. \A h \in Handles : exec[h] \in Exec
    BY <1>0 DEF StorableExec
  <2>5. \A h \in Handles : exec'[h].proc = "orphan" => exec[h].proc = "orphan"
    BY <1>0, <2>2, <2>4 DEF Exec
  <2>6. OrphansKnown'
    BY <2>3, <2>5 DEF OrphansInv, OrphansKnown, Handles
  <2>7. QED
    BY <1>0, <2>6 DEF OrphansInv, Calmed, SchedulerDraining, Busy
<1>5. QED
  BY <1>1, <1>2, <1>3, <1>4 DEF reconcileOne, storeVars

LEMMA LifecycleKnows ==
  ASSUME Orderly, DaemonInv, OwnInv, CopiesInv, OrphansInv, LifecycleStep
  PROVE  OrphansInv'
<1>1. CASE Sigterm \/ Drain \/ ShutdownBegins \/ ShutdownEnds \/ Boot \/ ReconcileDone
  <2>1. UNCHANGED <<row, exec, launcher>>
    BY <1>1 DEF Sigterm, Drain, ShutdownBegins, ShutdownEnds, Boot, ReconcileDone,
       OthersUnchanged, storeVars
  <2>2. SchedulerDraining' => SchedulerDraining \/ \A id \in Procs : ~Busy(launcher[id])
    BY <1>1 DEF Orderly, Sigterm, Drain, ShutdownBegins, ShutdownEnds, Boot, ReconcileDone,
       SchedulerDraining, Busy
  <2>3. QED
    BY <2>1, <2>2 DEF OrphansInv, OrphansKnown, Calmed, Busy
<1>2. ASSUME NEW g \in Handles, ShutdownIntent(g)
      PROVE  OrphansInv'
  <2>1. UNCHANGED <<row, launcher, mode>> /\ exec' = [exec EXCEPT ![g] = setIntent(@, "shutdown")]
    BY <1>2 DEF ShutdownIntent, OthersUnchanged, storeVars
  <2>2. exec \in [Handles -> StorableExec]
    BY DEF DaemonInv, SuperInv, AttemptsInv
  <2>3. setIntent(exec[g], "shutdown").proc = exec[g].proc
    BY <1>2, <2>2, SetIntentIs DEF setIntent, StorableExec, Exec
  <2>4. \A h \in Handles : exec'[h].proc = exec[h].proc
    BY <2>1, <2>2, <2>3
  <2>5. QED
    BY <2>1, <2>4 DEF OrphansInv, OrphansKnown, Calmed, SchedulerDraining, Busy
<1>3. CASE Exit
  BY <1>3, ExitKnows
<1>4. ~Crash
  BY DEF Orderly, Crash
<1>5. ASSUME NEW x \in todo, NEW reset \in BOOLEAN, reconcileOne(x, reset)
      PROVE  OrphansInv'
  BY <1>5, ReconcileKnows
<1>6. QED
  BY <1>1, <1>2, <1>3, <1>4, <1>5 DEF LifecycleStep

(* An orphan the store names belongs to an execution that failed, once the *)
(* daemon is up.                                                           *)
LEMMA OrphanFailed ==
  ASSUME CopiesInv, NEW x \in Procs, NEW n \in 1..MaxLaunches, row[x].pid = n,
         exec[<<x, n>>].proc = "orphan", Live
  PROVE  row[x].state = "FAILED"
<1>1. Sound(x, row[x])
  BY DEF CopiesInv
<1>2. row[x].pid # 0
  OBVIOUS
<1>3. DealtWith(x, row[x], mode, todo)
  BY <1>1, <1>2 DEF Sound, Fits
<1>4. QED
  BY <1>3 DEF DealtWith, Live

LEMMA NextKnows ==
  ASSUME Timely, Orderly, DaemonInv, OwnInv, OwnInv', CopiesInv, OrphansInv, [Next]_vars
  PROVE  OrphansInv'
<1>1. CASE LifecycleStep
  BY <1>1, LifecycleKnows
<1>2. CASE ~LifecycleStep
  <2>1. Calmed' /\ (~Live => row' = row)
    BY <1>2, OrdinaryCalm DEF OrphansInv
  <2>2. FailedStay /\ \A h \in Handles : exec'[h].proc = "orphan" => exec[h].proc = "orphan"
    BY <1>2, NextCopies DEF Copied
  <2>3. ASSUME NEW h \in Handles, exec[h].proc = "orphan"
        PROVE  row'[h[1]].pid = h[2]
    <3>1. PICK x \in Procs, n \in 1..MaxLaunches : h = <<x, n>>
      BY DEF Handles
    <3>2. row[x].pid = n
      BY <2>3, <3>1 DEF OrphansInv, OrphansKnown
    <3>3. Live => row[x].state = "FAILED"
      BY <2>3, <3>1, <3>2, OrphanFailed
    <3>4. row'[x] = row[x]
      BY <2>1, <2>2, <3>3 DEF FailedStay
    <3>5. QED
      BY <3>1, <3>2, <3>4
  <2>4. QED
    BY <2>1, <2>2, <2>3 DEF OrphansInv, OrphansKnown
<1>3. QED
  BY <1>1, <1>2

(* Neither two processes of this daemon, nor two it left, nor one of each. *)
LEMMA KnownIsOne ==
  ASSUME OwnInv, CopiesInv, OrphansKnown
  PROVE  OneProcess
<1>1. ASSUME NEW x \in Procs, NEW n \in 1..MaxLaunches, NEW m \in 1..MaxLaunches,
             exec[<<x, n>>].proc = "alive", exec[<<x, m>>].proc = "orphan"
      PROVE  FALSE
  <2>1. <<x, n>> \in Handles /\ <<x, m>> \in Handles
    BY DEF Handles
  <2>2. Live /\ row[x].pid = m
    BY <1>1, <2>1, AliveIsLive DEF OrphansKnown
  <2>3. row[x].state = "FAILED"
    BY <1>1, <2>2, OrphanFailed
  <2>4. CASE exec[<<x, n>>].sup = "wait"
    <3>1. OwnedByAttempt(x, n)
      BY <2>4, WhoAttempts DEF Attempting, UsingPhases
    <3>2. QED
      BY <2>3, <2>4, <3>1 DEF OwnedByAttempt, AttemptCopy, Supervised
  <2>5. CASE exec[<<x, n>>].sup # "wait"
    <3>1. PICK t \in Launchers : /\ launcher[t].id = x
                                 /\ launcher[t].pc \in {"running", "register", "abandon"}
      BY <1>1, <2>5 DEF OwnInv, Referenced
    <3>2. OwnedByLauncher(x, t)
      BY <3>1, WhoLaunches
    <3>3. row[x].state \in {"STARTING", "RUNNING"}
      BY <3>1, <3>2 DEF OwnedByLauncher, LauncherCopy, Forked
    <3>4. QED
      BY <2>3, <3>3
  <2>6. QED
    BY <2>4, <2>5
<1>2. ASSUME NEW h \in Handles, NEW g \in Handles, Exists(h), Exists(g), h[1] = g[1]
      PROVE  h = g
  <2>1. PICK x \in Procs, n \in 1..MaxLaunches : h = <<x, n>>
    BY DEF Handles
  <2>2. PICK m \in 1..MaxLaunches : g = <<x, m>>
    BY <1>2, <2>1 DEF Handles
  <2>3. CASE exec[h].proc = "alive" /\ exec[g].proc = "alive"
    BY <1>2, <2>3, AliveIsUsed DEF Alive
  <2>4. CASE exec[h].proc = "orphan" /\ exec[g].proc = "orphan"
    BY <2>1, <2>2, <2>4 DEF OrphansKnown
  <2>5. QED
    BY <1>1, <1>2, <2>1, <2>2, <2>3, <2>4 DEF Exists
<1>3. QED
  BY <1>2 DEF OneProcess

(* An execution has at most one process, those an earlier daemon left      *)
(* behind included: launch, retry and Reconcile never start work that may  *)
(* still be running, as long as no fork outlives the daemon before Start   *)
(* has stored its pid (supervisor.go:203).                                 *)
THEOREM NeverTwice ==
  ASSUME Timely, Orderly
  PROVE  Spec => []OneProcess
<1>1. Init => OrphansInv
  <2> SUFFICES ASSUME Init PROVE OrphansInv
    OBVIOUS
  <2>1. mode = "up" /\ \A h \in Handles : exec[h] = NoExec
    BY DEF Init, SupervisorInit
  <2>2. QED
    BY <2>1, NoExecIs DEF OrphansInv, OrphansKnown, Calmed, SchedulerDraining
<1>2. DaemonInv /\ OwnInv /\ OwnInv' /\ CopiesInv /\ OrphansInv /\ [Next]_vars => OrphansInv'
  BY NextKnows
<1>3. OwnInv /\ CopiesInv /\ OrphansInv => OneProcess
  BY KnownIsOne DEF OrphansInv
<1>4. (Spec => []OwnInv) /\ (Spec => []CopiesInv)
  BY RowsAreOwned, CopiesAreSound
<1>5. QED
  BY <1>1, <1>2, <1>3, <1>4, DaemonCorrect, PTL DEF Spec

----------------------------------------------------------------------------
(***************************************************************************)
(* What one life of the daemon guarantees beyond that.  A daemon that dies *)
(* leaves locks that nobody uses until the next start, and Reconcile,      *)
(* which decides on rows alone, retries what a user stopped and does not   *)
(* take back the slots of services (README, section 4).                    *)
(***************************************************************************)

NoRestart == "term" \notin Faults /\ "crash" \notin Faults

Up == mode = "up"

LEMMA NextStaysUp ==
  ASSUME NoRestart, Up, [Next]_vars
  PROVE  Up' /\ ~LifecycleStep
<1>1. ~LifecycleStep
  BY DEF NoRestart, Up, LifecycleStep, Sigterm, Drain, ShutdownBegins, ShutdownEnds, Exit, Crash,
     ShutdownIntent, Boot, ReconcileDone, reconcileOne
<1>2. ASSUME NEW t \in Launchers, LauncherStep(t)
      PROVE  mode' = mode
  <2>1. CASE StartNext(t)
    BY <2>1 DEF StartNext, StartDraining, StartAccepted, Fork, ForkFails, PersistRunning,
       PersistRunningFails, Register, AbandonStart, FailUnlock, FailWrite, FailSettle
  <2>2. CASE AdmitNext(t)
    BY <2>2 DEF AdmitNext, TakeSlot, TakeLock, YieldSlot, WriteStarting, ReleaseSlot, Unlock
  <2>3. CASE SubmitNext(t)
    BY <2>3 DEF SubmitNext, Submit, Create, Claim, rejectLocked, Unclaim, park, Hangup,
       WriteAndReturn
  <2>4. CASE ExpireUnlock(t) \/ ExpireWrite(t)
    BY <2>4 DEF ExpireUnlock, ExpireWrite, WriteAndReturn
  <2>5. QED
    BY <1>2, <2>1, <2>2, <2>3, <2>4 DEF LauncherStep
<1>3. ASSUME NEW h \in Handles, AttemptStep(h)
      PROVE  mode' = mode
  BY <1>3 DEF AttemptStep, AttemptNext, ProcExit, OrphanExit, WaitReturns, Unregister, Classify,
     PersistOutcome, Settle, TimerFires, TimeoutIntent, BeginStop, SignalGroup
<1>4. ASSUME NEW x \in Procs, StopStep(x)
      PROVE  mode' = mode
  BY <1>4 DEF StopStep, StopNext, RequestStop, StopLookup, StopIntent, CancelGet, CancelRelease,
     CancelWrite, CancelSettle
<1>5. DispatchStep => mode' = mode
  BY DEF DispatchStep, DispatchScan, DispatchNext, superVars
<1>6. (\E w \in Workers, limit \in Limits : Reload(w, limit)) \/ UNCHANGED vars => mode' = mode
  BY DEF Reload, vars, superVars
<1>7. QED
  BY <1>1, <1>2, <1>3, <1>4, <1>5, <1>6 DEF Next, Up

(***************************************************************************)
(* A stop that was asked for is what supervise decides on: the row says    *)
(* STOPPING for the reason the attempt was stopped for, and classify, of   *)
(* an attempt a user stopped, leads to CANCELED.                           *)
(***************************************************************************)
Minded(e, r) ==
  /\ e.sup \in LockPhases /\ e.p.state = "STOPPING" => e.p.reason = e.intent
  /\ e.sup = "classified" /\ e.intent = "user_request" => e.p.state = "CANCELED"
  /\ e.sup = "classified" /\ r.state = "STOPPING" => r.reason = e.intent

StopInv == \A h \in Handles : Minded(exec[h], row[h[1]])

StopObeyed == \A id \in Procs : StopTaken(id) => row'[id].state # "RETRYING"

(* Who was stopped is not waiting for a retry already.                     *)
LEMMA TakenRuns ==
  ASSUME OwnInv, NEW id \in Procs, StopTaken(id)
  PROVE  /\ row[id].state # "RETRYING"
         /\ row[id].state = "STOPPING" \/ ~NoAttempt(id)
<1>1. CASE row[id].state = "STOPPING"
  BY <1>1
<1>2. CASE row[id].state # "STOPPING"
  <2>1. PICK n \in 1..MaxLaunches :
          exec[<<id, n>>].sup \in {"wait", "reaped", "deleted", "classified"}
    BY <1>2 DEF StopTaken
  <2>2. Attempting(id, n)
    BY <2>1 DEF Attempting, UsingPhases
  <2>3. OwnedByAttempt(id, n)
    BY <2>2, WhoAttempts
  <2>4. row[id].state \in Supervised
    BY <2>1, <2>3 DEF OwnedByAttempt, AttemptCopy
  <2>5. QED
    BY <2>2, <2>4 DEF NoAttempt, Supervised
<1>3. QED
  BY <1>1, <1>2

(* A step that writes no row.                                              *)
LEMMA RowsStay ==
  ASSUME OwnInv, row' = row
  PROVE  StopObeyed
BY TakenRuns DEF StopObeyed

(* An attempt that is as it was, that begins, or that is over.             *)
MindedStill(h) ==
  \/ exec'[h].sup \notin LockPhases \cup {"classified"}
  \/ exec'[h].sup \in LockPhases /\ exec'[h].p.state # "STOPPING"
  \/ /\ exec'[h].sup = exec[h].sup /\ exec'[h].p = exec[h].p /\ exec'[h].intent = exec[h].intent
     /\ exec[h].sup = "classified" => row'[h[1]] = row[h[1]]

LEMMA StillMinded ==
  ASSUME StopInv, NEW h \in Handles, MindedStill(h)
  PROVE  Minded(exec'[h], row'[h[1]])
BY DEF StopInv, Minded, MindedStill, LockPhases

(* The row of an execution that is being started does not say STOPPING.    *)
LEMMA LauncherMinds ==
  ASSUME DaemonInv, OwnInv, StopInv, NEW t \in Launchers, LauncherStep(t)
  PROVE  StopInv' /\ StopObeyed
<1>1. row \in [Procs -> Storable] /\ exec \in [Handles -> StorableExec]
  BY DEF DaemonInv, SuperInv, StoreInv, AttemptsInv
<1>2. \A h \in Handles : exec[h] \in Exec
  BY <1>1 DEF StorableExec
<1>3. Busy(launcher[t]) \/ UNCHANGED <<row, exec>>
  <2>1. CASE StartNext(t)
    BY <2>1 DEF Busy, StartNext, StartDraining, StartAccepted, Fork, ForkFails, PersistRunning,
       PersistRunningFails, Register, AbandonStart, FailUnlock, FailWrite, FailSettle, At
  <2>2. CASE AdmitNext(t)
    BY <2>2 DEF Busy, AdmitNext, TakeSlot, TakeLock, YieldSlot, WriteStarting, ReleaseSlot,
       Unlock, At
  <2>3. CASE SubmitNext(t)
    BY <2>3 DEF Busy, SubmitNext, Submit, Create, Claim, rejectLocked, Unclaim, park, Hangup,
       WriteAndReturn, At, storeVars
  <2>4. CASE ExpireUnlock(t) \/ ExpireWrite(t)
    BY <2>4 DEF Busy, ExpireUnlock, ExpireWrite, WriteAndReturn, At
  <2>5. QED
    BY <2>1, <2>2, <2>3, <2>4 DEF LauncherStep
<1>4. CASE Busy(launcher[t])
  <2>1. PICK x \in Procs :
          /\ launcher[t].id = x
          /\ LauncherCopy(t, launcher[t], row[x], exec[<<x, launches[x]>>], launches[x])
          /\ t # Dispatcher => t = x
    BY <1>4, InHand DEF Busy
  <2>2. OwnedByLauncher(x, t) /\ launcher[t].pc \in LauncherPCs \ {"idle", "done"}
    BY <1>4, <2>1, WhoLaunches DEF Busy, DaemonInv, SuperInv, LaunchersInv, LauncherOK,
       StorableLauncher, Launcher
  <2>3. \A n \in 1..MaxLaunches : exec[<<x, n>>].sup \notin UsingPhases
    BY <2>2 DEF OwnedByLauncher, NoAttempt, Attempting
  <2>4. row[x].state # "STOPPING"
    <3>1. launcher[t].pc = "register" => row[x].state = "RUNNING"
      BY <2>1 DEF LauncherCopy, Forked
    <3>2. launcher[t].pc # "register" => row[x].state # "STOPPING"
      BY <2>1, <2>2 DEF LauncherCopy, LauncherPCs, Startable, NONE
    <3>3. QED
      BY <3>1, <3>2
  <2>5. \A id \in Procs \ {x} : row'[id] = row[id]
    <3>1. CASE StartNext(t)
      BY <1>1, <2>1, <3>1 DEF StartNext, StartDraining, StartAccepted, Fork, ForkFails,
         PersistRunning, PersistRunningFails, Register, AbandonStart, FailUnlock, FailWrite,
         FailSettle, storeVars, UpdateProcess
    <3>2. CASE AdmitNext(t)
      BY <1>1, <2>1, <3>2 DEF AdmitNext, TakeSlot, TakeLock, YieldSlot, WriteStarting,
         ReleaseSlot, Unlock, storeVars, UpdateProcess
    <3>3. CASE t \in Procs /\ SubmitNext(t)
      <4>1. t = x
        BY <2>1, <3>3, NobodyIsZero DEF Dispatcher
      <4>2. QED
        BY <1>1, <2>1, <3>3, <4>1 DEF SubmitNext, Submit, Create, Claim, rejectLocked, Unclaim,
           park, Hangup, WriteAndReturn, storeVars, UpdateProcess, CreateProcess
    <3>4. CASE ExpireUnlock(t) \/ ExpireWrite(t)
      BY <1>1, <2>1, <3>4 DEF ExpireUnlock, ExpireWrite, WriteAndReturn, storeVars, UpdateProcess
    <3>5. QED
      BY <3>1, <3>2, <3>3, <3>4 DEF LauncherStep
  <2>6. ASSUME NEW h \in Handles
        PROVE  \/ exec'[h] = exec[h] \/ exec'[h].sup = "none"
               \/ exec'[h].sup = "wait" /\ exec'[h].p.state = "RUNNING"
    <3>1. CASE Fork(t)
      <4>1. PICK e : /\ e.sup = "none"
                     /\ exec' = [exec EXCEPT ![<<launcher[t].id, launches[launcher[t].id]>>] = e]
        <5>1. WITNESS [NoExec EXCEPT !.proc = "alive",
                         !.p = [TransitionTo(launcher[t].p, "RUNNING", "") EXCEPT
                                  !.pid = launches[launcher[t].id]]]
        <5>2. QED
          BY <3>1, <5>1 DEF Fork, NoExec
      <4>2. QED
        BY <1>1, <4>1
    <3>2. CASE Register(t)
      <4>1. launcher[t].pc = "register"
        BY <3>2 DEF Register, At
      <4>2. Forked(launcher[t], exec[<<x, launches[x]>>], launches[x])
        BY <2>1, <4>1 DEF LauncherCopy
      <4>3. Handle(t) = <<x, launches[x]>> /\ exec[Handle(t)].p.state = "RUNNING"
        BY <2>1, <4>2 DEF Forked, Handle
      <4> DEFINE e == [exec[Handle(t)] EXCEPT !.sup = "wait",
                         !.timer = IF Def[launcher[t].id].timeout THEN "armed" ELSE "off"]
      <4>4. exec' = [exec EXCEPT ![Handle(t)] = e]
        BY <3>2 DEF Register
      <4>5. CASE Handle(t) = h
        <5>1. e.sup = "wait" /\ e.p.state = "RUNNING"
          BY <1>2, <4>3, <4>5 DEF Exec
        <5> HIDE DEF e
        <5>2. exec'[h] = e
          BY <1>1, <4>4, <4>5
        <5>3. QED
          BY <5>1, <5>2
      <4>6. CASE Handle(t) # h
        BY <1>1, <4>4, <4>6
      <4>7. QED
        BY <4>5, <4>6
    <3>3. CASE AbandonStart(t)
      <4>1. PICK e : e.sup = "none" /\ exec' = [exec EXCEPT ![Handle(t)] = e]
        <5>1. WITNESS [NoExec EXCEPT !.proc = "gone"]
        <5>2. QED
          BY <3>3, <5>1 DEF AbandonStart, NoExec
      <4>2. QED
        BY <1>1, <4>1
    <3>4. CASE ~Fork(t) /\ ~Register(t) /\ ~AbandonStart(t)
      <4>1. CASE StartNext(t)
        BY <3>4, <4>1 DEF StartNext, StartDraining, StartAccepted, ForkFails, PersistRunning,
           PersistRunningFails, FailUnlock, FailWrite, FailSettle
      <4>2. CASE AdmitNext(t)
        BY <4>2 DEF AdmitNext, TakeSlot, TakeLock, YieldSlot, WriteStarting, ReleaseSlot, Unlock
      <4>3. CASE SubmitNext(t)
        BY <4>3 DEF SubmitNext, Submit, Create, Claim, rejectLocked, Unclaim, park, Hangup,
           WriteAndReturn
      <4>4. CASE ExpireUnlock(t) \/ ExpireWrite(t)
        BY <4>4 DEF ExpireUnlock, ExpireWrite, WriteAndReturn
      <4>5. QED
        BY <4>1, <4>2, <4>3, <4>4 DEF LauncherStep
    <3>5. QED
      BY <3>1, <3>2, <3>3, <3>4
  <2>7. ASSUME NEW h \in Handles
        PROVE  Minded(exec'[h], row'[h[1]])
    <3>1. h[1] \in Procs /\ (h[1] = x => exec[h].sup # "classified")
      BY <2>3 DEF Handles, UsingPhases
    <3>2. MindedStill(h)
      BY <2>5, <2>6, <3>1 DEF MindedStill, LockPhases
    <3>3. QED
      BY <3>2, StillMinded
  <2>8. StopObeyed
    <3>1. ~StopTaken(x)
      BY <2>3, <2>4, TakenRuns DEF NoAttempt, Attempting
    <3>2. QED
      BY <2>5, <3>1, TakenRuns DEF StopObeyed
  <2>9. QED
    BY <2>7, <2>8 DEF StopInv
<1>5. CASE UNCHANGED <<row, exec>>
  BY <1>5, RowsStay DEF StopInv
<1>6. QED
  BY <1>3, <1>4, <1>5

(* An attempt changes, and what is written is about it.                    *)
LEMMA AttemptMinded ==
  ASSUME DaemonInv, OwnInv, StopInv, NEW x \in Procs, NEW n \in 1..MaxLaunches, NEW e,
         exec' = [exec EXCEPT ![<<x, n>>] = e],
         \A id \in Procs \ {x} : row'[id] = row[id],
         row' = row \/ \A m \in (1..MaxLaunches) \ {n} : exec[<<x, m>>].sup # "classified",
         Minded(e, row'[x]),
         StopTaken(x) => row'[x].state # "RETRYING"
  PROVE  StopInv' /\ StopObeyed
<1>1. exec'[<<x, n>>] = e /\ \A g \in Handles : g # <<x, n>> => exec'[g] = exec[g]
  <2>1. <<x, n>> \in Handles
    BY DEF Handles
  <2>2. QED
    BY <2>1, AttemptAlone DEF DaemonInv
<1>2. ASSUME NEW g \in Handles
      PROVE  Minded(exec'[g], row'[g[1]])
  <2>1. PICK y \in Procs, m \in 1..MaxLaunches : g = <<y, m>>
    BY DEF Handles
  <2>2. CASE g = <<x, n>>
    BY <1>1, <2>2
  <2>3. CASE g # <<x, n>>
    <3>1. exec'[g] = exec[g]
      BY <1>1, <2>3
    <3>2. exec[g].sup = "classified" => row'[g[1]] = row[g[1]]
      BY <2>1, <2>3
    <3>3. QED
      BY <3>1, <3>2, StillMinded DEF MindedStill
  <2>4. QED
    BY <2>2, <2>3
<1>3. StopObeyed
  BY TakenRuns DEF StopObeyed
<1>4. QED
  BY <1>2, <1>3 DEF StopInv

(* setIntent, of an attempt whose outcome is not being written: the first  *)
(* reason wins, so a stop that has begun keeps its own.                    *)
LEMMA IntentMinded ==
  ASSUME DaemonInv, OwnInv, StopInv, NEW x \in Procs, NEW n \in 1..MaxLaunches,
         MuFree(<<x, n>>), NEW d \in Exec, d.p = exec[<<x, n>>].p,
         d.sup = exec[<<x, n>>].sup, d.intent = exec[<<x, n>>].intent,
         NEW why \in {"user_request", "timeout"}
  PROVE  Minded(setIntent(d, why), row[x])
<1> DEFINE e == setIntent(d, why)
<1>1. e.p = d.p /\ e.sup = d.sup /\ e.sup # "classified"
  BY SetIntentIs DEF MuFree
<1>2. ASSUME d.sup \in LockPhases, d.p.state = "STOPPING"
      PROVE  e.p.reason = e.intent
  <2>1. OwnedByAttempt(x, n)
    BY <1>2, WhoAttempts DEF Attempting, UsingPhases, LockPhases
  <2>2. AttemptCopy(exec[<<x, n>>], row[x]) /\ d.sup \in {"wait", "reaped", "deleted"}
    BY <1>2, <2>1 DEF OwnedByAttempt, LockPhases
  <2>3. d.intent # ""
    BY <1>2, <2>2 DEF AttemptCopy
  <2>4. e = d
    BY <2>3 DEF setIntent
  <2>5. exec[<<x, n>>].p.reason = exec[<<x, n>>].intent
    <3>1. <<x, n>> \in Handles
      BY DEF Handles
    <3>2. QED
      BY <1>2, <3>1 DEF StopInv, Minded
  <2> HIDE DEF e
  <2>6. QED
    BY <2>4, <2>5
<1> HIDE DEF e
<1>3. Minded(e, row[x])
  BY <1>1, <1>2 DEF Minded
<1>4. QED
  BY <1>3 DEF e

(* classify, of an attempt a user asked to stop.                           *)
LEMMA UserStopCancels ==
  ASSUME NEW p \in Process, p.state \in Supervised, NEW type, NEW r, NEW result, NEW reset
  PROVE  classify(p, type, r, "user_request", result, reset).state = "CANCELED"
<1> DEFINE q == viaStopping(p, "user_request")
<1>1. /\ "STOPPING" \in States /\ "CANCELED" \in States /\ "user_request" \in Reasons
      /\ CanTransition("RUNNING", "STOPPING") /\ CanTransition("STOPPING", "CANCELED")
  BY Names, EdgesExist
<1>2. q \in Process /\ q.state = "STOPPING"
  <2>1. CASE p.state = "RUNNING"
    <3>1. q = TransitionTo(p, "STOPPING", "user_request")
      BY <2>1 DEF viaStopping
    <3> HIDE DEF q
    <3>2. QED
      BY <1>1, <2>1, <3>1, TransitionArrives
  <2>2. CASE p.state # "RUNNING"
    BY <2>2 DEF viaStopping, Supervised
  <2>3. QED
    BY <2>1, <2>2
<1>3. classify(p, type, r, "user_request", result, reset)
        = TransitionTo(q, "CANCELED", "user_request")
  BY DEF classify
<1> HIDE DEF q
<1>4. TransitionTo(q, "CANCELED", "user_request").state = "CANCELED"
  BY <1>1, <1>2, TransitionArrives
<1>5. QED
  BY <1>3, <1>4

(* beginStop writes the reason of the attempt it stops.                    *)
LEMMA BeginStopMinds ==
  ASSUME DaemonInv, OwnInv, StopInv, NEW x \in Procs, NEW n \in 1..MaxLaunches,
         BeginStop(<<x, n>>)
  PROVE  StopInv' /\ StopObeyed
<1> DEFINE h == <<x, n>>
           p == IF exec[h].p.state = "RUNNING"
                THEN TransitionTo(exec[h].p, "STOPPING", exec[h].intent) ELSE exec[h].p
           e == [exec[h] EXCEPT !.p = p, !.stop = "signal"]
<1>0. /\ exec[h].stop = "begin" /\ MuFree(h)
      /\ exec' = [exec EXCEPT ![h] = e] /\ UpdateProcess(x, p)
  BY DEF BeginStop
<1>1. h \in Handles /\ exec[h] \in Exec /\ exec[h].p \in Process
  BY DEF Handles, DaemonInv, SuperInv, AttemptsInv, StorableExec, Storable
<1>2. e.p = p /\ e.sup = exec[h].sup /\ e.intent = exec[h].intent
  BY <1>1 DEF Exec
<1>3. exec[h].p.state # "RUNNING" => p = exec[h].p
  OBVIOUS
<1>4. exec[h].p.state = "RUNNING" => p.state = "STOPPING" /\ p.reason = exec[h].intent
  <2>1. CanTransition("RUNNING", "STOPPING")
    BY EdgesExist
  <2>2. exec[h].intent # ""
    BY <1>0 DEF OwnInv, Referenced
  <2>3. exec[h].p.state = "RUNNING"
          => p = [exec[h].p EXCEPT !.state = "STOPPING", !.reason = exec[h].intent]
    BY <2>1, <2>2 DEF TransitionTo
  <2> HIDE DEF p, h
  <2>4. QED
    BY <1>1, <2>3 DEF Process
<1>5. Loose(x, n)
  BY <1>0 DEF Loose
<1> HIDE DEF p, e
<1>6. row'[x] = p /\ \A id \in Procs \ {x} : row'[id] = row[id]
  BY <1>0 DEF UpdateProcess, DaemonInv, SuperInv, StoreInv
<1>7. exec[h].p = row[x]
  BY <1>0, <1>5, WhoIsLoose DEF Unowned, OwnedByAttempt, Attempting, AttemptCopy, MuFree, UsingPhases
<1>8. \A m \in (1..MaxLaunches) \ {n} : exec[<<x, m>>].sup # "classified"
  BY <1>5, WhoIsLoose DEF Unowned, NoAttempt, OwnedByAttempt, Attempting, UsingPhases
<1>9. exec[h].sup \in LockPhases /\ exec[h].p.state = "STOPPING"
        => exec[h].p.reason = exec[h].intent
  BY <1>1 DEF StopInv, Minded
<1>10. Minded(e, row'[x])
  BY <1>0, <1>2, <1>3, <1>4, <1>9 DEF Minded, MuFree
<1>11. StopTaken(x) => row'[x].state # "RETRYING"
  BY <1>3, <1>4, <1>6, <1>7, TakenRuns
<1>12. QED
  BY <1>0, <1>6, <1>8, <1>10, <1>11, AttemptMinded DEF h

LEMMA AttemptMinds ==
  ASSUME DaemonInv, OwnInv, StopInv, NEW h \in Handles, AttemptNext(h)
  PROVE  StopInv' /\ StopObeyed
<1>0. PICK x \in Procs, n \in 1..MaxLaunches : h = <<x, n>>
  BY DEF Handles
<1>1. exec[h] \in Exec /\ exec[h].p \in Process /\ h[1] = x /\ StoreInv
  BY <1>0 DEF DaemonInv, SuperInv, AttemptsInv, StorableExec, Storable
<1>2. Minded(exec[h], row[x])
  BY <1>1 DEF StopInv
<1>3. exec[h].sup \in UsingPhases
        => /\ AttemptCopy(exec[h], row[x])
           /\ \A m \in (1..MaxLaunches) \ {n} : exec[<<x, m>>].sup # "classified"
  BY <1>0, WhoAttempts DEF Attempting, OwnedByAttempt, UsingPhases
(* A step that leaves the row, the copy and the reason alone.              *)
<1>4. ASSUME NEW e, exec' = [exec EXCEPT ![h] = e], row' = row, Minded(e, row[x])
      PROVE  StopInv' /\ StopObeyed
  BY <1>0, <1>4, AttemptMinded, TakenRuns
<1>5. ASSUME NEW e, exec' = [exec EXCEPT ![h] = e], row' = row,
             e.p = exec[h].p, e.intent = exec[h].intent,
             \/ e.sup = exec[h].sup
             \/ e.sup \in LockPhases /\ exec[h].sup \in LockPhases
             \/ e.sup = "done"
      PROVE  StopInv' /\ StopObeyed
  BY <1>2, <1>4, <1>5 DEF Minded, LockPhases
<1>10. CASE \/ \E result \in Results : ProcExit(h, result)
            \/ OrphanExit(h) \/ SignalGroup(h) \/ TimerFires(h)
            \/ WaitReturns(h) \/ Unregister(h) \/ Settle(h)
  <2>1. PICK e : /\ exec' = [exec EXCEPT ![h] = e] /\ e.p = exec[h].p
                 /\ e.intent = exec[h].intent
                 /\ \/ e.sup = exec[h].sup
                    \/ e.sup \in LockPhases /\ exec[h].sup \in LockPhases
                    \/ e.sup = "done"
    <3>1. CASE \E result \in Results : ProcExit(h, result)
      <4>1. PICK result \in Results : ProcExit(h, result)
        BY <3>1
      <4>2. WITNESS [exec[h] EXCEPT !.proc = "zombie", !.result = result]
      <4>3. QED
        BY <1>1, <4>1, <4>2 DEF ProcExit, Exec
    <3>2. CASE OrphanExit(h)
      <4>1. WITNESS [exec[h] EXCEPT !.proc = "gone"]
      <4>2. QED
        BY <1>1, <3>2, <4>1 DEF OrphanExit, Exec
    <3>3. CASE SignalGroup(h)
      <4>1. WITNESS [exec[h] EXCEPT !.stop = "done"]
      <4>2. QED
        BY <1>1, <3>3, <4>1 DEF SignalGroup, Exec
    <3>4. CASE TimerFires(h)
      <4>1. WITNESS [exec[h] EXCEPT !.timer = "fired"]
      <4>2. QED
        BY <1>1, <3>4, <4>1 DEF TimerFires, Exec
    <3>5. CASE WaitReturns(h)
      <4>1. WITNESS [exec[h] EXCEPT !.proc = "gone", !.sup = "reaped",
                                    !.timer = IF @ = "armed" THEN "off" ELSE @]
      <4>2. QED
        BY <1>1, <3>5, <4>1 DEF WaitReturns, InPhase, Exec, LockPhases
    <3>6. CASE Unregister(h)
      <4>1. WITNESS [exec[h] EXCEPT !.sup = "deleted"]
      <4>2. QED
        BY <1>1, <3>6, <4>1 DEF Unregister, InPhase, Exec, LockPhases
    <3>7. CASE Settle(h)
      <4>1. WITNESS [exec[h] EXCEPT !.sup = "done"]
      <4>2. QED
        BY <1>1, <3>7, <4>1 DEF Settle, Exec
    <3>8. QED
      BY <1>10, <3>1, <3>2, <3>3, <3>4, <3>5, <3>6, <3>7
  <2>2. row' = row
    BY <1>10 DEF ProcExit, OrphanExit, SignalGroup, TimerFires, WaitReturns, Unregister, Settle,
       storeVars
  <2>3. QED
    BY <1>5, <2>1, <2>2
<1>11. CASE TimeoutIntent(h)
  <2> DEFINE d == [exec[h] EXCEPT !.timer = "off"]
  <2>1. exec' = [exec EXCEPT ![h] = setIntent(d, "timeout")] /\ row' = row /\ MuFree(h)
    BY <1>11 DEF TimeoutIntent, storeVars
  <2>2. d \in Exec /\ d.p = exec[h].p /\ d.sup = exec[h].sup /\ d.intent = exec[h].intent
    BY <1>1 DEF Exec
  <2> HIDE DEF d
  <2>3. Minded(setIntent(d, "timeout"), row[x])
    BY <1>0, <2>1, <2>2, IntentMinded
  <2>4. QED
    BY <1>4, <2>1, <2>3
<1>12. CASE \E reset \in BOOLEAN : Classify(h, reset)
  <2>1. PICK reset \in BOOLEAN : Classify(h, reset)
    BY <1>12
  <2> DEFINE q == Outcome(h, reset)
             e == [exec[h] EXCEPT !.p = q, !.sup = "classified", !.result = "none"]
  <2>2. exec' = [exec EXCEPT ![h] = e] /\ exec[h].sup = "deleted" /\ row' = row
    BY <1>1, <2>1 DEF Classify, InPhase
  <2>3. e.p = q /\ e.sup = "classified" /\ e.intent = exec[h].intent
    BY <1>1 DEF Exec
  <2>4. AttemptCopy(exec[h], row[x])
    BY <1>3, <2>2 DEF UsingPhases
  <2>5. exec[h].p = row[x] /\ exec[h].p.state \in Supervised
    BY <2>2, <2>4 DEF AttemptCopy
  <2>6. exec[h].intent = "user_request" => q.state = "CANCELED"
    BY <1>1, <2>5, UserStopCancels DEF Outcome
  <2>7. row[x].state = "STOPPING" => row[x].reason = exec[h].intent
    BY <1>2, <2>2, <2>5 DEF Minded, LockPhases
  <2> HIDE DEF e, q
  <2>8. Minded(e, row[x])
    BY <2>3, <2>6, <2>7 DEF Minded, LockPhases
  <2>9. QED
    BY <1>4, <2>2, <2>8
<1>13. CASE PersistOutcome(h)
  <2> DEFINE e == [exec[h] EXCEPT !.sup = "persisted"]
  <2>1. /\ exec' = [exec EXCEPT ![h] = e] /\ exec[h].sup = "classified"
        /\ UpdateProcess(x, exec[h].p)
    BY <1>1, <1>13 DEF PersistOutcome, InPhase
  <2>2. e.sup = "persisted"
    BY <1>1 DEF Exec
  <2> HIDE DEF e
  <2>3. row'[x] = exec[h].p /\ \A id \in Procs \ {x} : row'[id] = row[id]
    BY <1>1, <2>1 DEF UpdateProcess, StoreInv
  <2>4. \A m \in (1..MaxLaunches) \ {n} : exec[<<x, m>>].sup # "classified"
    BY <1>3, <2>1 DEF UsingPhases
  <2>5. Minded(e, row'[x])
    BY <2>2 DEF Minded, LockPhases
  <2>6. StopTaken(x) => row'[x].state # "RETRYING"
    <3>1. CASE row[x].state = "STOPPING" /\ row[x].reason = "user_request"
      BY <1>2, <2>1, <2>3, <3>1 DEF Minded
    <3>2. ASSUME NEW m \in 1..MaxLaunches, exec[<<x, m>>].intent = "user_request",
                 exec[<<x, m>>].sup \in {"wait", "reaped", "deleted", "classified"}
          PROVE  row'[x].state # "RETRYING"
      <4>1. m = n
        BY <1>0, <2>1, <3>2, WhoAttempts DEF Attempting, OwnedByAttempt, UsingPhases
      <4>2. exec[h].intent = "user_request"
        BY <1>0, <3>2, <4>1
      <4>3. QED
        BY <1>2, <2>1, <2>3, <4>2 DEF Minded
    <3>3. QED
      BY <3>1, <3>2 DEF StopTaken
  <2>7. QED
    BY <1>0, <2>1, <2>3, <2>4, <2>5, <2>6, AttemptMinded
<1>14. CASE BeginStop(h)
  BY <1>0, <1>14, BeginStopMinds
<1>15. QED
  BY <1>10, <1>11, <1>12, <1>13, <1>14 DEF AttemptNext

(* A stop request: cancelPending writes no row that an attempt runs under. *)
LEMMA StopMinds ==
  ASSUME DaemonInv, OwnInv, StopInv, NEW x \in Procs, StopStep(x)
  PROVE  StopInv' /\ StopObeyed
<1>1. CASE StopIntent(x)
  <2> DEFINE n == stopper[x].pid
             h == <<x, n>>
  <2>1. n \in 1..MaxLaunches /\ MuFree(h) /\ row' = row
        /\ exec' = [exec EXCEPT ![h] = setIntent(exec[h], "user_request")]
    BY <1>1 DEF StopIntent, storeVars, OwnInv, Referenced
  <2>2. exec[h] \in Exec
    BY <2>1 DEF Handles, DaemonInv, SuperInv, AttemptsInv, StorableExec
  <2>3. Minded(setIntent(exec[h], "user_request"), row[x])
    BY <2>1, <2>2, IntentMinded
  <2>4. QED
    BY <2>1, <2>3, AttemptMinded, TakenRuns
<1>2. CASE CancelWrite(x)
  <2>1. exec' = exec /\ stopper[x].pc = "write"
        /\ (row' = row \/ UpdateProcess(x, stopper[x].p))
    BY <1>2 DEF CancelWrite
  <2>2. OwnedByStop(x)
    BY <2>1, WhoCancels DEF Cancelling
  <2>3. row[x].state # "STOPPING" /\ \A m \in 1..MaxLaunches : exec[<<x, m>>].sup # "classified"
    BY <2>1, <2>2 DEF OwnedByStop, Waiting, NoAttempt, Attempting, UsingPhases
  <2>4. \A id \in Procs \ {x} : row'[id] = row[id]
    BY <2>1 DEF UpdateProcess, DaemonInv, SuperInv, StoreInv
  <2>5. \A h \in Handles : MindedStill(h)
    BY <2>1, <2>3, <2>4 DEF MindedStill, Handles
  <2>6. ~StopTaken(x)
    BY <2>2, <2>3, TakenRuns DEF OwnedByStop
  <2>7. StopObeyed
    BY <2>4, <2>6, TakenRuns DEF StopObeyed
  <2>8. QED
    BY <2>5, <2>7, StillMinded DEF StopInv
<1>3. CASE ~StopIntent(x) /\ ~CancelWrite(x)
  <2>1. UNCHANGED <<row, exec>>
    BY <1>3 DEF StopStep, StopNext, RequestStop, StopLookup, CancelGet, CancelRelease,
       CancelSettle, storeVars
  <2>2. QED
    BY <2>1, RowsStay DEF StopInv
<1>4. QED
  BY <1>1, <1>2, <1>3

LEMMA NextMinds ==
  ASSUME NoRestart, Up, DaemonInv, OwnInv, StopInv, [Next]_vars
  PROVE  StopInv' /\ StopObeyed
<1>1. CASE DispatchStep \/ (\E w \in Workers, limit \in Limits : Reload(w, limit)) \/ UNCHANGED vars
  <2>1. UNCHANGED <<row, exec>>
    BY <1>1 DEF DispatchStep, DispatchScan, DispatchNext, Reload, vars, storeVars, superVars
  <2>2. QED
    BY <2>1, RowsStay DEF StopInv
<1>2. ~LifecycleStep
  BY NextStaysUp
<1>3. QED
  BY <1>1, <1>2, LauncherMinds, AttemptMinds, StopMinds DEF Next, AttemptStep

(* A user-requested stop never triggers a retry (control.go:12), once it   *)
(* was taken: in one life of the daemon, from the step that makes it the   *)
(* attempt's first reason, before the outcome is decided, the process, its *)
(* timeout and its retry policy cannot lead to RETRYING any more.  A stop  *)
(* that finds a timeout's reason there, or comes after classify, is        *)
(* answered with success too; of that one nothing is said.                 *)
THEOREM StopsAreFinal ==
  ASSUME Timely, NoRestart
  PROVE  Spec => UserStopNeverRetries
<1>1. Init => Up /\ StopInv
  <2> SUFFICES ASSUME Init PROVE Up /\ StopInv
    OBVIOUS
  <2>1. mode = "up" /\ \A h \in Handles : exec[h] = NoExec
    BY DEF Init, SupervisorInit
  <2>2. QED
    BY <2>1, NoExecIs DEF Up, StopInv, Minded, LockPhases
<1>2. Up /\ DaemonInv /\ OwnInv /\ StopInv /\ [Next]_vars => Up' /\ StopInv'
  BY NextStaysUp, NextMinds
<1>3. Up /\ DaemonInv /\ OwnInv /\ StopInv /\ [Next]_vars
        => [\A id \in Procs : StopTaken(id) => row'[id].state # "RETRYING"]_row
  BY NextMinds DEF StopObeyed
<1>4. Spec => []OwnInv
  BY RowsAreOwned
<1>5. QED
  BY <1>1, <1>2, <1>3, <1>4, DaemonCorrect, PTL DEF Spec, UserStopNeverRetries

----------------------------------------------------------------------------
(***************************************************************************)
(* An execution that waits for its retry keeps what the retry needs: the   *)
(* lock, which nobody takes in between, and, of a service, the slot.  And  *)
(* a lock that is held has a reason: an attempt, a retry, or a launcher    *)
(* that will use the lock or give it back, unless its client hangs up.     *)
(***************************************************************************)
Connected == "hangup" \notin Faults

Rests(s, p) == s \in {"classified", "failwrite"} /\ p.state = "RETRYING"

Resting(id) ==
  \/ row[id].state = "RETRYING"
  \/ \E n \in 1..MaxLaunches : Rests(exec[<<id, n>>].sup, exec[<<id, n>>].p)
  \/ \E t \in Launchers : launcher[t].id = id /\ Rests(launcher[t].pc, launcher[t].p)

NeedsLock(t, pc) ==
  \/ pc \in LockPCs \cup {"failunlock", "failwrite", "release", "unlock"}
  \/ t # Dispatcher /\ pc \in {"slot", "lock", "unclaim"}

LockReason(id) ==
  \/ row[id].state = "RETRYING"
  \/ \E n \in 1..MaxLaunches : Attempting(id, n)
  \/ \E t \in Launchers : launcher[t].id = id /\ NeedsLock(t, launcher[t].pc)

(* A launcher gives back the slot or the lock of no retry.                 *)
SparesRetry(pc, p, r) ==
  /\ pc = "failunlock" => p.state # "RETRYING"
  /\ pc \in {"unslot", "release", "unlock"} => r.state # "RETRYING"

Keeps(id) ==
  /\ Resting(id) => HoldsLock(id) \/ stopper[id].pc = "write"
  /\ row[id].state = "RETRYING" /\ Def[id].type = "service" => Holds(id)
  /\ Connected => Free(id) \/ LockReason(id)
  /\ \A t \in Launchers :
       launcher[t].id = id => SparesRetry(launcher[t].pc, launcher[t].p, row[id])

KeepsInv ==
  /\ \A id \in Procs : Keeps(id)
  /\ Connected => hungup = {}

(* Nothing a retry depends on changes.                                     *)
Undisturbed(id) ==
  /\ row'[id] = row[id] /\ (stopper[id].pc = "write" => stopper'[id].pc = "write")
  /\ \A n \in 1..MaxLaunches :
       exec'[<<id, n>>].sup = exec[<<id, n>>].sup /\ exec'[<<id, n>>].p = exec[<<id, n>>].p
  /\ \A t \in Launchers :
       launcher[t].id = id \/ launcher'[t].id = id => launcher'[t] = launcher[t]

LEMMA KeepStep ==
  ASSUME KeepsInv, NEW x, Connected => hungup' = hungup, LocksStay(x), SlotsStay(x),
         \A id \in Procs \ {x} : Undisturbed(id), x \in Procs => Keeps(x)'
  PROVE  KeepsInv'
<1>1. ASSUME NEW id \in Procs \ {x}
      PROVE  Keeps(id)'
  <2>1. Keeps(id) /\ Undisturbed(id)
    BY DEF KeepsInv
  <2>2. Resting(id)' => Resting(id)
    BY <2>1 DEF Resting, Undisturbed
  <2>3. LockReason(id) => LockReason(id)'
    BY <2>1 DEF LockReason, NeedsLock, Attempting, Undisturbed
  <2>4. \A t \in Launchers :
          launcher'[t].id = id => SparesRetry(launcher'[t].pc, launcher'[t].p, row'[id])
    BY <2>1 DEF Keeps, Undisturbed
  <2>5. /\ HoldsLock(id) => HoldsLock(id)'
        /\ Free(id) => Free(id)'
        /\ Holds(id)' <=> Holds(id)
    BY DEF LocksStay, SlotsStay
  <2>6. QED
    BY <2>1, <2>2, <2>3, <2>4, <2>5 DEF Keeps, Undisturbed
<1>2. Connected => hungup' = {}
  BY DEF KeepsInv
<1>3. QED
  BY <1>1, <1>2 DEF KeepsInv

(* A step nothing of this depends on.                                      *)
LEMMA QuietKeeps ==
  ASSUME CoverInv, KeepsInv, Connected => hungup' = hungup, UNCHANGED <<row, locks, launcher, holders>>,
         \A id \in Procs : stopper[id].pc = "write" => stopper'[id].pc = "write",
         \A h \in Handles : exec'[h].sup = exec[h].sup /\ exec'[h].p = exec[h].p
  PROVE  KeepsInv'
<1>1. \A id \in Procs, n \in 1..MaxLaunches : <<id, n>> \in Handles
  BY DEF Handles
<1>2. \A id \in Procs \ {0} : Undisturbed(id)
  BY <1>1 DEF Undisturbed
<1>3. LocksStay(0) /\ SlotsStay(0)
  BY DEF LocksStay, SlotsStay, HoldsLock, Free, Holds
<1>4. QED
  BY <1>2, <1>3, NobodyIsZero, KeepStep

(* What a launcher keeps.                                                  *)
LEMMA LauncherKept ==
  ASSUME Up, DaemonInv, OwnInv, KeepsInv, NEW t \in Launchers, NEW x \in Procs, launcher[t].id = x
  PROVE  /\ row[x].state = "RETRYING" \/ Rests(launcher[t].pc, launcher[t].p) => HoldsLock(x)
         /\ row[x].state = "RETRYING" /\ Def[x].type = "service" => Holds(x)
         /\ Connected => Free(x) \/ row[x].state = "RETRYING" \/ NeedsLock(t, launcher[t].pc)
         /\ SparesRetry(launcher[t].pc, launcher[t].p, row[x])
         /\ Connected \/ t = Dispatcher => ~Cut(t, launcher[t])
<1>1. Keeps(x) /\ OwnedByLauncher(x, t) /\ (Connected => hungup = {})
  BY WhoLaunches DEF KeepsInv
<1>2. stopper[x].pc # "write" /\ \A n \in 1..MaxLaunches : ~Attempting(x, n)
  BY <1>1 DEF OwnedByLauncher, Cancelling, NoAttempt
<1>3. row[x].state = "RETRYING" \/ Rests(launcher[t].pc, launcher[t].p) => HoldsLock(x)
  BY <1>1, <1>2 DEF Keeps, Resting
<1>4. Connected => Free(x) \/ row[x].state = "RETRYING" \/ NeedsLock(t, launcher[t].pc)
  BY <1>1, <1>2 DEF Keeps, LockReason, OwnedByLauncher
<1>5. Connected \/ t = Dispatcher => ~Cut(t, launcher[t])
  BY <1>1, NobodyIsZero DEF Cut, Up, DaemonInv, SuperInv, AttemptsInv, Dispatcher
<1>6. QED
  BY <1>1, <1>3, <1>4, <1>5 DEF Keeps

(* What it must keep when it goes on, or is done.                          *)
LEMMA LauncherSpares ==
  ASSUME DaemonInv, OwnInv, KeepsInv, NEW t \in Launchers, NEW x \in Procs, NEW l,
         launcher[t].id = x, launcher' = [launcher EXCEPT ![t] = l], l.id \in {0, x},
         UNCHANGED <<stopper, hungup>>,
         \A id \in Procs \ {x} : row'[id] = row[id],
         \A h \in Handles : /\ exec'[h].sup = exec[h].sup
                            /\ h[1] # x => exec'[h].p = exec[h].p,
         LocksStay(x), SlotsStay(x),
         row'[x].state = "RETRYING" \/ (l.id = x /\ Rests(l.pc, l.p)) => HoldsLock(x)',
         row'[x].state = "RETRYING" /\ Def[x].type = "service" => Holds(x)',
         Connected => \/ Free(x)' \/ row'[x].state = "RETRYING"
                      \/ l.id = x /\ NeedsLock(t, l.pc),
         l.id = x => SparesRetry(l.pc, l.p, row'[x])
  PROVE  KeepsInv'
<1>1. launcher'[t] = l /\ \A u \in Launchers \ {t} : launcher'[u] = launcher[u]
  BY LauncherAlone DEF DaemonInv, SuperInv
<1>2. OwnedByLauncher(x, t)
  BY WhoLaunches
<1>3. \A u \in Launchers \ {t} : launcher'[u].id # x
  BY <1>1, <1>2 DEF OwnedByLauncher
<1>4. \A id \in Procs, n \in 1..MaxLaunches : <<id, n>> \in Handles /\ <<id, n>>[1] = id
  BY DEF Handles
<1>5. \A n \in 1..MaxLaunches : exec'[<<x, n>>].sup \notin UsingPhases
  BY <1>2, <1>4 DEF OwnedByLauncher, NoAttempt, Attempting
<1>6. ASSUME NEW id \in Procs \ {x}
      PROVE  Undisturbed(id)
  <2>1. \A u \in Launchers :
          launcher[u].id = id \/ launcher'[u].id = id => launcher'[u] = launcher[u]
    BY <1>1, NobodyIsZero
  <2>2. QED
    BY <1>4, <2>1 DEF Undisturbed
<1>7. Keeps(x)'
  <2>1. Resting(x)' => row'[x].state = "RETRYING" \/ (l.id = x /\ Rests(l.pc, l.p))
    <3>1. \A n \in 1..MaxLaunches : exec'[<<x, n>>].sup \notin {"classified", "failwrite"}
      <4>1. \A n \in 1..MaxLaunches : exec'[<<x, n>>].sup = exec[<<x, n>>].sup
                                      /\ exec[<<x, n>>] \in Exec
        BY <1>4 DEF DaemonInv, SuperInv, AttemptsInv, StorableExec
      <4>2. QED
        BY <1>5, <4>1 DEF UsingPhases, Exec
    <3>2. QED
      BY <1>1, <1>3, <3>1 DEF Resting, Rests
  <2>2. row'[x].state = "RETRYING" \/ (l.id = x /\ NeedsLock(t, l.pc)) => LockReason(x)'
    BY <1>1 DEF LockReason, NeedsLock
  <2>3. \A u \in Launchers :
          launcher'[u].id = x => SparesRetry(launcher'[u].pc, launcher'[u].p, row'[x])
    BY <1>1, <1>3
  <2>4. QED
    BY <2>1, <2>2, <2>3 DEF Keeps
<1>8. QED
  BY <1>6, <1>7, KeepStep

(* Goto, GotoWith and GotoFailed, of an execution that is not waiting for  *)
(* its retry.                                                              *)
LEMMA LandsSparing ==
  ASSUME DaemonInv, OwnInv, KeepsInv, NEW t \in Launchers, NEW x \in Procs, launcher[t].id = x,
         NEW pc, NEW p, NEW d, LandsWith(t, pc, p, d), UNCHANGED <<stopper, hungup>>,
         \A id \in Procs \ {x} : row'[id] = row[id],
         \A h \in Handles : /\ exec'[h].sup = exec[h].sup
                            /\ h[1] # x => exec'[h].p = exec[h].p,
         LocksStay(x), SlotsStay(x),
         row'[x].state = "RETRYING" \/ Rests(pc, p) => HoldsLock(x)',
         row'[x].state = "RETRYING" /\ Def[x].type = "service" => Holds(x)',
         Connected => Free(x)' \/ row'[x].state = "RETRYING" \/ NeedsLock(t, pc),
         SparesRetry(pc, p, row'[x])
  PROVE  KeepsInv'
<1>1. PICK l : /\ launcher' = [launcher EXCEPT ![t] = l]
               /\ l.id = x /\ l.pc = pc /\ l.p = p /\ l.detached = d
  BY DEF LandsWith
<1>2. QED
  BY <1>1, LauncherSpares

(* The launcher returns.                                                   *)
LEMMA ReturnSparing ==
  ASSUME DaemonInv, OwnInv, KeepsInv, NEW t \in Launchers, NEW x \in Procs, launcher[t].id = x,
         Return(t), UNCHANGED <<stopper, hungup, exec>>,
         \A id \in Procs \ {x} : row'[id] = row[id],
         LocksStay(x), SlotsStay(x),
         row'[x].state = "RETRYING" => HoldsLock(x)',
         row'[x].state = "RETRYING" /\ Def[x].type = "service" => Holds(x)',
         Connected => Free(x)' \/ row'[x].state = "RETRYING"
  PROVE  KeepsInv'
<1>1. PICK l : launcher' = [launcher EXCEPT ![t] = l] /\ l.id = 0
  <2>1. WITNESS IF t = Dispatcher THEN IdleLauncher ELSE DoneLauncher
  <2>2. QED
    BY <2>1 DEF Return, IdleLauncher, DoneLauncher
<1>2. x # 0 /\ \A h \in Handles : exec'[h] = exec[h]
  BY NobodyIsZero
<1>3. QED
  BY <1>1, <1>2, LauncherSpares

(* Supervisor.Start: a start that fails gives the lock back only with the  *)
(* outcome no retry follows.                                               *)
LEMMA StartSpares ==
  ASSUME Up, DaemonInv, OwnInv, CoverInv, KeepsInv, NEW t \in Launchers, StartNext(t)
  PROVE  KeepsInv'
<1>0. launcher[t].pc \notin {"idle", "done"}
  BY DEF StartNext, StartDraining, StartAccepted, Fork, ForkFails, PersistRunning,
         PersistRunningFails, Register, AbandonStart, FailUnlock, FailWrite, FailSettle, At
<1>1. PICK x \in Procs :
        /\ launcher[t].id = x
        /\ LauncherCopy(t, launcher[t], row[x], exec[<<x, launches[x]>>], launches[x])
        /\ launches[x] \in 0..MaxLaunches
  BY <1>0, InHand
<1>2. LaunchersInv /\ StoreInv /\ SlotsInv /\ LocksOwn
  BY DEF DaemonInv, SuperInv, CoverInv
<1>3. launches[x] # 0 => <<x, launches[x]>> \in Handles
  BY <1>1, SupervisorAssumption DEF Handles
<1>4. /\ launcher[t].pc \in LockPCs => HoldsLock(x)
      /\ launcher[t].pc \in UsingPCs => Holds(x)
      /\ Over(row[x].state) \/ Lockless(t, launcher[t], x) => Free(x)
      /\ row[x].state = "RETRYING" \/ Rests(launcher[t].pc, launcher[t].p) => HoldsLock(x)
      /\ row[x].state = "RETRYING" /\ Def[x].type = "service" => Holds(x)
      /\ Connected => Free(x) \/ row[x].state = "RETRYING" \/ NeedsLock(t, launcher[t].pc)
      /\ SparesRetry(launcher[t].pc, launcher[t].p, row[x])
      /\ Connected => ~Cut(t, launcher[t])
  BY <1>1, LauncherHas, LauncherKept
<1> DEFINE p == launcher[t].p
           d == launcher[t].detached
           Frame == UNCHANGED <<stopper, hungup>>
(* A step that leads on to pc and leaves slots and locks alone.            *)
<1>5. ASSUME NEW pc, NEW q, NEW c, LandsWith(t, pc, q, c), Frame, UNCHANGED <<row, locks>>,
             UNCHANGED slotVars, row[x].state # "RETRYING",
             \A h \in Handles : /\ exec'[h].sup = exec[h].sup
                                /\ h[1] # x => exec'[h].p = exec[h].p,
             Rests(pc, q) => HoldsLock(x), NeedsLock(t, pc),
             pc = "failunlock" => q.state # "RETRYING"
      PROVE  KeepsInv'
  <2>1. /\ LocksStay(x) /\ SlotsStay(x) /\ (HoldsLock(x)' <=> HoldsLock(x))
        /\ row'[x] = row[x] /\ \A id \in Procs \ {x} : row'[id] = row[id]
    BY <1>2, <1>5, LockKept, SlotKept
  <2>2. SparesRetry(pc, q, row'[x])
    BY <1>5, <2>1 DEF SparesRetry
  <2> HIDE DEF p, d
  <2>3. QED
    BY <1>1, <1>5, <2>1, <2>2, LandsSparing
<1>6. launcher[t].pc \in {"start", "fork", "running", "register", "abandon", "failunlock",
                          "failwrite"}
        => row[x].state # "RETRYING"
  BY <1>1 DEF LauncherCopy, Forked
<1>7. /\ \A pc \in {"release", "fork", "abandon", "running", "register", "failunlock",
                    "failwrite"} : NeedsLock(t, pc)
      /\ {"start", "fork", "running", "register", "abandon"} \subseteq LockPCs
      /\ {"failwrite", "failsettle"} \subseteq UsingPCs
  BY DEF NeedsLock, LockPCs, UsingPCs
<1>8. CASE StartDraining(t) \/ StartAccepted(t) \/ PersistRunningFails(t)
  <2>1. Frame /\ UNCHANGED <<row, exec, locks>> /\ UNCHANGED slotVars
    BY <1>8 DEF StartDraining, StartAccepted, PersistRunningFails, storeVars
  <2>2. PICK pc : /\ LandsWith(t, pc, p, d) /\ pc \in {"release", "fork", "abandon"}
                  /\ launcher[t].pc \in {"start", "running"}
    BY <1>2, <1>8, LandingWith DEF StartDraining, StartAccepted, PersistRunningFails, At
  <2>3. ~Rests(pc, p) /\ \A h \in Handles : exec'[h] = exec[h]
    BY <2>1, <2>2 DEF Rests
  <2> HIDE DEF p, d
  <2>4. QED
    BY <1>5, <1>6, <1>7, <2>1, <2>2, <2>3
<1>9. CASE Fork(t)
  <2> DEFINE n == launches[x]
             q == [TransitionTo(p, "RUNNING", "") EXCEPT !.pid = n]
             e == [NoExec EXCEPT !.proc = "alive", !.p = q]
  <2>0. launcher[t].pc = "fork" /\ n # 0 /\ exec[<<x, n>>] = NoExec
    BY <1>1, <1>9 DEF Fork, At, LauncherCopy
  <2>1. /\ exec' = [exec EXCEPT ![<<x, n>>] = e] /\ LandsWith(t, "running", q, d)
        /\ Frame /\ UNCHANGED <<row, locks>> /\ UNCHANGED slotVars
    BY <1>1, <1>2, <1>9, LandingWith DEF Fork, storeVars
  <2>2. e.sup = NoExec.sup /\ ~Rests("running", q)
    BY DEF NoExec, Rests
  <2> HIDE DEF e, q
  <2>3. \A h \in Handles : /\ exec'[h].sup = exec[h].sup
                           /\ h[1] # x => exec'[h].p = exec[h].p
    BY <1>3, <2>0, <2>1, <2>2 DEF DaemonInv, SuperInv, AttemptsInv
  <2> HIDE DEF d
  <2>4. QED
    BY <1>5, <1>6, <1>7, <2>0, <2>1, <2>2, <2>3
<1>10. ASSUME NEW q, NEW c, GotoFailed(t, q, c), launcher[t].pc \in {"fork", "abandon"}, Frame,
              UNCHANGED <<row, locks>>, UNCHANGED slotVars,
              \A h \in Handles : /\ exec'[h].sup = exec[h].sup
                                 /\ h[1] # x => exec'[h].p = exec[h].p
       PROVE  KeepsInv'
  <2> DEFINE f == StartFailure(x, q)
             pc == IF IsTerminal(f.state) THEN "failunlock" ELSE "failwrite"
  <2>1. LandsWith(t, pc, f, c)
    BY <1>1, <1>2, <1>10, LandingWith
  <2>2. HoldsLock(x) /\ NeedsLock(t, pc) /\ (pc = "failunlock" => f.state # "RETRYING")
    BY <1>4, <1>7, <1>10 DEF IsTerminal
  <2> HIDE DEF pc, f
  <2>3. QED
    BY <1>5, <1>6, <1>10, <2>1, <2>2
<1>11. CASE ForkFails(t)
  <2>1. GotoFailed(t, p, d) /\ launcher[t].pc = "fork" /\ exec' = exec
        /\ Frame /\ UNCHANGED <<row, locks>> /\ UNCHANGED slotVars
    BY <1>11 DEF ForkFails, At, storeVars
  <2> HIDE DEF p, d
  <2>2. QED
    BY <1>10, <2>1
<1>12. CASE AbandonStart(t)
  <2> DEFINE n == launches[x]
             e == [NoExec EXCEPT !.proc = "gone"]
  <2>0. launcher[t].pc = "abandon" /\ n # 0 /\ p.pid = n /\ exec[<<x, n>>].sup = "none"
    BY <1>1, <1>12 DEF AbandonStart, At, LauncherCopy, Forked
  <2>1. /\ exec' = [exec EXCEPT ![<<x, n>>] = e] /\ GotoFailed(t, [p EXCEPT !.pid = 0], TRUE)
        /\ Frame /\ UNCHANGED <<row, locks>> /\ UNCHANGED slotVars
    BY <1>1, <1>12, <2>0 DEF AbandonStart, Handle, storeVars
  <2>2. e.sup = "none"
    BY DEF NoExec
  <2> HIDE DEF e
  <2>3. \A h \in Handles : /\ exec'[h].sup = exec[h].sup
                           /\ h[1] # x => exec'[h].p = exec[h].p
    BY <1>3, <2>0, <2>1, <2>2 DEF DaemonInv, SuperInv, AttemptsInv
  <2> HIDE DEF p
  <2>4. QED
    BY <1>10, <2>0, <2>1, <2>3
<1>13. CASE PersistRunning(t)
  <2>1. /\ launcher[t].pc = "running" /\ LandsWith(t, "register", p, d) /\ exec' = exec
        /\ Frame /\ locks' = locks /\ UNCHANGED slotVars /\ UpdateProcess(x, p)
    BY <1>1, <1>2, <1>13, LandingWith DEF PersistRunning, At
  <2>2. p.state = "RUNNING"
    BY <1>1, <2>1 DEF LauncherCopy, Forked
  <2>3. row'[x] = p /\ \A id \in Procs \ {x} : row'[id] = row[id]
    BY <1>2, <2>1 DEF UpdateProcess, StoreInv
  <2>4. LocksStay(x) /\ SlotsStay(x) /\ \A h \in Handles : exec'[h] = exec[h]
    BY <1>2, <2>1, LockKept, SlotKept
  <2>5. /\ row'[x].state # "RETRYING" /\ ~Rests("register", p) /\ NeedsLock(t, "register")
        /\ SparesRetry("register", p, row'[x])
    BY <1>7, <2>2, <2>3 DEF Rests, SparesRetry
  <2> HIDE DEF p, d
  <2>6. QED
    BY <1>1, <2>1, <2>3, <2>4, <2>5, LandsSparing
<1>14. CASE FailUnlock(t)
  <2>1. /\ launcher[t].pc = "failunlock" /\ LandsWith(t, "failwrite", p, d)
        /\ exec' = exec /\ Frame /\ row' = row /\ UNCHANGED slotVars
        /\ (locks' = locks \/ ReleaseLock(x))
    BY <1>1, <1>2, <1>14, LandingWith DEF FailUnlock, At
  <2>2. LocksStay(x) /\ SlotsStay(x) /\ \A h \in Handles : exec'[h] = exec[h]
    BY <1>2, <2>1, LockKept, LockGiven, SlotKept
  <2>3. /\ row'[x].state # "RETRYING" /\ ~Rests("failwrite", p) /\ NeedsLock(t, "failwrite")
        /\ SparesRetry("failwrite", p, row'[x]) /\ \A id \in Procs \ {x} : row'[id] = row[id]
    BY <1>4, <1>6, <1>7, <2>1 DEF Rests, SparesRetry
  <2> HIDE DEF p, d
  <2>4. QED
    BY <1>1, <2>1, <2>2, <2>3, LandsSparing
<1>15. CASE FailWrite(t)
  <2>1. /\ launcher[t].pc = "failwrite" /\ exec' = exec /\ Frame /\ locks' = locks
        /\ UNCHANGED slotVars
        /\ \/ LandsWith(t, "release", p, d) /\ row' = row
           \/ ~Cut(t, launcher[t]) /\ LandsWith(t, "failsettle", p, d) /\ UpdateProcess(x, p)
    BY <1>1, <1>2, <1>15, LandingWith DEF FailWrite, At, Cut, CtxDone
  <2>2. \A h \in Handles : exec'[h] = exec[h]
    BY <2>1
  <2>3. CASE LandsWith(t, "release", p, d) /\ row' = row
    <3>1. ~Rests("release", p)
      BY DEF Rests
    <3> HIDE DEF p, d
    <3>2. QED
      BY <1>5, <1>6, <1>7, <2>1, <2>2, <2>3, <3>1
  <2>4. CASE ~Cut(t, launcher[t]) /\ LandsWith(t, "failsettle", p, d) /\ UpdateProcess(x, p)
    <3>1. row'[x] = p /\ \A id \in Procs \ {x} : row'[id] = row[id]
      BY <1>2, <2>4 DEF UpdateProcess, StoreInv
    <3>2. /\ LocksStay(x) /\ SlotsStay(x) /\ (HoldsLock(x)' <=> HoldsLock(x))
          /\ (Free(x)' <=> Free(x)) /\ (Holds(x)' <=> Holds(x))
      BY <1>2, <2>1, LockKept, SlotKept
    <3>3. p.state = "RETRYING" => HoldsLock(x)
      BY <1>4, <2>1 DEF Rests
    <3>4. p.state # "RETRYING" => Free(x)
      <4>1. p.state \in {"RETRYING", "FAILED"}
        BY <1>1, <2>1 DEF LauncherCopy
      <4>2. QED
        BY <1>4, <2>1, <2>4, <4>1 DEF Lockless, IsTerminal
    <3>5. Holds(x) /\ ~Rests("failsettle", p) /\ SparesRetry("failsettle", p, row'[x])
      BY <1>4, <1>7, <2>1 DEF Rests, SparesRetry
    <3> HIDE DEF p, d
    <3>6. QED
      BY <1>1, <2>1, <2>2, <2>4, <3>1, <3>2, <3>3, <3>4, <3>5, LandsSparing
  <2>5. QED
    BY <2>1, <2>3, <2>4
<1>16. CASE FailSettle(t)
  <2>1. /\ launcher[t].pc = "failsettle" /\ UNCHANGED <<exec, locks>> /\ Frame /\ row' = row
        /\ OnExecutionSettled(x, p.state) /\ Return(t)
    BY <1>1, <1>16 DEF FailSettle, At, storeVars
  <2>2. p = row[x] /\ row[x].state \in {"RETRYING", "FAILED"}
    BY <1>1, <2>1 DEF LauncherCopy
  <2>3. SlotsStay(x) /\ (Def[x].type = "service" /\ p.state = "RETRYING" => UNCHANGED slotVars)
    BY <1>2, <2>1, SlotSettled DEF OnExecutionSettled
  <2>4. row'[x].state = "RETRYING" /\ Def[x].type = "service" => Holds(x)'
    BY <1>4, <2>1, <2>2, <2>3, SlotKept
  <2>5. LocksStay(x) /\ (HoldsLock(x)' <=> HoldsLock(x)) /\ (Free(x)' <=> Free(x))
    BY <1>2, <2>1, LockKept
  <2>6. row[x].state # "RETRYING" => Free(x)
    BY <1>4, <2>2 DEF Over, IsTerminal
  <2>7. UNCHANGED <<stopper, hungup, exec>> /\ \A id \in Procs \ {x} : row'[id] = row[id]
    BY <2>1
  <2>8. QED
    BY <1>1, <1>4, <2>1, <2>3, <2>4, <2>5, <2>6, <2>7, ReturnSparing
<1>17. CASE Register(t)
  <2> DEFINE n == launches[x]
             e == [exec[<<x, n>>] EXCEPT !.sup = "wait",
                                         !.timer = IF Def[x].timeout THEN "armed" ELSE "off"]
  <2>0. launcher[t].pc = "register" /\ n # 0 /\ p.pid = n /\ row[x].state = "RUNNING"
    BY <1>1, <1>17 DEF Register, At, LauncherCopy, Forked
  <2>1. /\ exec' = [exec EXCEPT ![<<x, n>>] = e]
        /\ Return(t) /\ Frame /\ UNCHANGED <<row, locks>> /\ UNCHANGED slotVars
    BY <1>1, <1>17, <2>0 DEF Register, Handle, storeVars
  <2>2. exec[<<x, n>>] \in Exec
    BY <1>3, <2>0 DEF DaemonInv, SuperInv, AttemptsInv, StorableExec
  <2>3. e.sup = "wait"
    BY <2>2 DEF Exec
  <2> HIDE DEF e
  <2>4. exec'[<<x, n>>].sup = "wait" /\ \A h \in Handles : h # <<x, n>> => exec'[h] = exec[h]
    BY <1>3, <2>0, <2>1, <2>3 DEF DaemonInv, SuperInv, AttemptsInv
  <2>5. PICK l : launcher' = [launcher EXCEPT ![t] = l] /\ l.id = 0
    <3>1. WITNESS IF t = Dispatcher THEN IdleLauncher ELSE DoneLauncher
    <3>2. QED
      BY <2>1, <3>1 DEF Return, IdleLauncher, DoneLauncher
  <2>6. launcher'[t].id = 0 /\ \A u \in Launchers \ {t} : launcher'[u] = launcher[u]
    BY <1>2, <2>5, LauncherAlone
  <2>7. \A id \in Procs, m \in 1..MaxLaunches : <<id, m>> \in Handles
    BY DEF Handles
  <2>8. OwnedByLauncher(x, t)
    BY <1>1, WhoLaunches
  <2>9. n \in 1..MaxLaunches
    BY <1>1, <2>0, SupervisorAssumption
  <2> HIDE DEF n
  <2>10. ASSUME NEW id \in Procs \ {x}
         PROVE  Undisturbed(id)
    <3>1. \A m \in 1..MaxLaunches : exec'[<<id, m>>] = exec[<<id, m>>]
      BY <2>4, <2>7
    <3>2. \A u \in Launchers :
            launcher[u].id = id \/ launcher'[u].id = id => launcher'[u] = launcher[u]
      BY <1>1, <2>6, NobodyIsZero
    <3>3. QED
      BY <2>1, <3>1, <3>2 DEF Undisturbed
  <2>11. Keeps(x)'
    <3>1. \A u \in Launchers : launcher'[u].id # x
      BY <2>6, <2>8, NobodyIsZero DEF OwnedByLauncher
    <3>2. \A m \in 1..MaxLaunches : exec'[<<x, m>>].sup \notin {"classified", "failwrite"}
      <4>1. ASSUME NEW m \in 1..MaxLaunches, m # n
            PROVE  exec'[<<x, m>>].sup \notin {"classified", "failwrite"}
        <5>1. exec'[<<x, m>>] = exec[<<x, m>>] /\ exec[<<x, m>>].sup \notin UsingPhases
              /\ exec[<<x, m>>] \in Exec
          BY <2>4, <2>7, <2>8, <4>1 DEF OwnedByLauncher, NoAttempt, Attempting, DaemonInv, SuperInv,
             AttemptsInv, StorableExec
        <5>2. QED
          BY <5>1 DEF UsingPhases, Exec
      <4>2. QED
        BY <2>4, <4>1
    <3>3. ~Resting(x)'
      BY <2>0, <2>1, <3>1, <3>2 DEF Resting, Rests
    <3>4. LockReason(x)'
      BY <2>4, <2>9 DEF LockReason, Attempting, UsingPhases
    <3>5. row'[x].state # "RETRYING"
      BY <2>0, <2>1
    <3>6. QED
      BY <3>1, <3>3, <3>4, <3>5 DEF Keeps
  <2>12. LocksStay(x) /\ SlotsStay(x)
    BY <1>2, <2>1, LockKept, SlotKept
  <2>13. QED
    BY <2>1, <2>10, <2>11, <2>12, KeepStep
<1>18. QED
  BY <1>8, <1>9, <1>11, <1>12, <1>13, <1>14, <1>15, <1>16, <1>17 DEF StartNext

(* admit and launch: the dispatch loop finds the lock of a retry its own,  *)
(* and its slot, if the retry is a service's.                              *)
LEMMA AdmitSpares ==
  ASSUME Up, DaemonInv, OwnInv, CoverInv, KeepsInv, NEW t \in Launchers, AdmitNext(t)
  PROVE  KeepsInv'
<1>0. launcher[t].pc \notin {"idle", "done"}
  BY DEF AdmitNext, TakeSlot, TakeLock, YieldSlot, WriteStarting, ReleaseSlot, Unlock, At
<1>1. PICK x \in Procs :
        /\ launcher[t].id = x
        /\ LauncherCopy(t, launcher[t], row[x], exec[<<x, launches[x]>>], launches[x])
        /\ row[x] \in Process
  BY <1>0, InHand
<1>2. LaunchersInv /\ StoreInv /\ SlotsInv /\ LocksOwn
  BY DEF DaemonInv, SuperInv, CoverInv
<1>3. /\ launcher[t].pc \in LockPCs => HoldsLock(x)
      /\ Over(row[x].state) \/ Lockless(t, launcher[t], x) => Free(x)
      /\ row[x].state = "RETRYING" => HoldsLock(x)
      /\ row[x].state = "RETRYING" /\ Def[x].type = "service" => Holds(x)
      /\ Connected => Free(x) \/ row[x].state = "RETRYING" \/ NeedsLock(t, launcher[t].pc)
      /\ SparesRetry(launcher[t].pc, launcher[t].p, row[x])
      /\ Connected \/ t = Dispatcher => ~Cut(t, launcher[t])
  BY <1>1, LauncherHas, LauncherKept
<1> DEFINE p == launcher[t].p
           d == launcher[t].detached
           Frame == UNCHANGED <<exec, stopper, hungup>>
<1>4. launcher[t].pc \in {"slot", "lock", "starting"} /\ t # Dispatcher => row[x].state = "CREATED"
  BY <1>1 DEF LauncherCopy, Startable
(* A step that leaves the row alone and leads on, to pc.                    *)
<1>5. ASSUME Frame, row' = row, NEW pc \in LauncherPCs \ {"failwrite"}, NEW q, LandsWith(t, pc, q, d),
             LocksStay(x), SlotsStay(x),
             row[x].state = "RETRYING"
               => HoldsLock(x)' /\ (Def[x].type = "service" => Holds(x)'),
             Connected => Free(x)' \/ row[x].state = "RETRYING" \/ NeedsLock(t, pc),
             SparesRetry(pc, q, row[x])
      PROVE  KeepsInv'
  <2>1. /\ row'[x] = row[x] /\ ~Rests(pc, q)
        /\ \A id \in Procs \ {x} : row'[id] = row[id]
        /\ \A h \in Handles : exec'[h] = exec[h]
    BY <1>5 DEF Rests, LauncherPCs
  <2> HIDE DEF p, d
  <2>2. QED
    BY <1>1, <1>5, <2>1, LandsSparing
(* One that leaves the locks and what a retry holds alone too.             *)
<1>6. ASSUME Frame, row' = row, locks' = locks, SlotsStay(x),
             row[x].state = "RETRYING" /\ Def[x].type = "service" => Holds(x)',
             NEW pc \in LauncherPCs \ {"failwrite"}, NEW q, LandsWith(t, pc, q, d),
             NeedsLock(t, launcher[t].pc) => NeedsLock(t, pc) \/ Free(x),
             SparesRetry(pc, q, row[x])
      PROVE  KeepsInv'
  <2>1. LocksStay(x) /\ (HoldsLock(x)' <=> HoldsLock(x)) /\ (Free(x)' <=> Free(x))
    BY <1>2, <1>6, LockKept
  <2> HIDE DEF p, d
  <2>2. QED
    BY <1>3, <1>5, <1>6, <2>1
<1>7. ASSUME Frame, row' = row, locks' = locks, Return(t), SlotsStay(x),
             row[x].state = "RETRYING" /\ Def[x].type = "service" => Holds(x)',
             ~NeedsLock(t, launcher[t].pc)
      PROVE  KeepsInv'
  <2>1. LocksStay(x) /\ (HoldsLock(x)' <=> HoldsLock(x)) /\ (Free(x)' <=> Free(x))
    BY <1>2, <1>7, LockKept
  <2>2. row'[x] = row[x] /\ \A id \in Procs \ {x} : row'[id] = row[id]
    BY <1>7
  <2> HIDE DEF p, d
  <2>3. QED
    BY <1>1, <1>3, <1>7, <2>1, <2>2, ReturnSparing
<1>8. /\ \A pc \in {"starting", "start", "release", "unlock"} : NeedsLock(t, pc)
      /\ t # Dispatcher => NeedsLock(t, "lock") /\ NeedsLock(t, "unclaim")
      /\ t = Dispatcher => ~NeedsLock(t, "slot") /\ ~NeedsLock(t, "lock")
      /\ ~NeedsLock(t, "unslot") /\ ~NeedsLock(t, "yield") /\ ~NeedsLock(t, "park")
  BY DEF NeedsLock, LockPCs
<1>9. \A pc \in LauncherPCs : \A q : pc \notin {"failunlock", "unslot", "release", "unlock"}
        => SparesRetry(pc, q, row[x])
  BY DEF SparesRetry
<1>a. {"lock", "unclaim", "park", "starting", "yield", "unslot", "release", "start",
       "unlock"} \subseteq LauncherPCs
  BY DEF LauncherPCs
<1>10. CASE TakeSlot(t)
  <2>1. launcher[t].pc = "slot" /\ Frame /\ row' = row /\ locks' = locks
    BY <1>10 DEF TakeSlot, At, storeVars
  <2>2. CASE Acquire(x, Def[x].worker) /\ Goto(t, "lock")
    <3>1. Holds(x)' /\ SlotsStay(x)
      BY <1>2, <2>2, SupervisorAssumption, SlotTaken
    <3>2. LandsWith(t, "lock", p, d)
      BY <1>2, <2>2, LandingWith
    <3> HIDE DEF p, d
    <3>3. QED
      BY <1>6, <1>8, <1>9, <1>a, <2>1, <3>1, <3>2
  <2>3. CASE ~CanAcquire(x, Def[x].worker) /\ UNCHANGED slotVars
    <3>1. SlotsStay(x) /\ (Holds(x)' <=> Holds(x))
      BY <2>3, SlotKept
    <3>2. CASE t = Dispatcher /\ Return(t)
      BY <1>3, <1>7, <1>8, <2>1, <3>1, <3>2
    <3>3. CASE t # Dispatcher /\ Goto(t, "unclaim")
      <4>1. LandsWith(t, "unclaim", p, d)
        BY <1>2, <3>3, LandingWith
      <4> HIDE DEF p, d
      <4>2. QED
        BY <1>3, <1>6, <1>8, <1>9, <1>a, <2>1, <3>1, <3>3, <4>1
    <3>4. CASE GotoPark(t) /\ t # Dispatcher /\ ~(Def[x].lock # NoLock /\ Def[x].reject)
      <4>1. LandsWith(t, "park", Parked(x, p), d)
        BY <1>1, <1>2, <3>4, LandingWith DEF GotoPark
      <4>2. Free(x)
        BY <1>3, <2>1, <3>4, DefAssumption DEF Lockless
      <4> HIDE DEF p, d
      <4>3. QED
        BY <1>3, <1>6, <1>9, <1>a, <2>1, <3>1, <4>1, <4>2
    <3>5. QED
      BY <1>1, <1>10, <2>1, <2>3, <3>2, <3>3, <3>4 DEF TakeSlot
  <2>4. QED
    BY <1>1, <1>10, <2>2, <2>3 DEF TakeSlot
<1>11. CASE TakeLock(t)
  <2>1. launcher[t].pc = "lock" /\ Frame /\ row' = row /\ UNCHANGED slotVars
    BY <1>11 DEF TakeLock, At
  <2>2. SlotsStay(x) /\ (Holds(x)' <=> Holds(x))
    BY <2>1, SlotKept
  <2>3. CASE LockAvailable(x) /\ AcquireLock(x) /\ Goto(t, "starting")
    <3>1. HoldsLock(x)' /\ LocksStay(x)
      BY <1>2, <2>3, LockTaken
    <3>2. LandsWith(t, "starting", p, d)
      BY <1>2, <2>3, LandingWith
    <3> HIDE DEF p, d
    <3>3. QED
      BY <1>3, <1>5, <1>8, <1>9, <1>a, <2>1, <2>2, <3>1, <3>2
  <2>4. ASSUME ~LockAvailable(x)
        PROVE  Free(x) /\ row[x].state # "RETRYING"
    <3>1. Free(x) /\ ~HoldsLock(x)
      BY <1>2, <2>4, NobodyIsZero DEF LockAvailable, LocksOwn, Free, HoldsLock
    <3>2. QED
      BY <1>3, <3>1
  <2>5. CASE ~LockAvailable(x) /\ locks' = locks /\ Goto(t, IF t = Dispatcher THEN "unslot" ELSE "yield")
    <3> DEFINE pc == IF t = Dispatcher THEN "unslot" ELSE "yield"
    <3>1. LandsWith(t, pc, p, d) /\ pc \in LauncherPCs \ {"failwrite"}
      BY <1>2, <1>a, <2>5, LandingWith
    <3>2. SparesRetry(pc, p, row[x])
      BY <2>4, <2>5 DEF SparesRetry
    <3> HIDE DEF p, d, pc
    <3>3. QED
      BY <1>6, <2>1, <2>2, <2>4, <2>5, <3>1, <3>2
  <2>6. CASE CtxDone(t) /\ locks' = locks /\ Goto(t, "unslot")
    <3>1. LandsWith(t, "unslot", p, d)
      BY <1>2, <2>6, LandingWith
    <3>2. ~Connected /\ t # Dispatcher
      BY <1>3, <2>6 DEF CtxDone, Cut
    <3>3. row[x].state # "RETRYING"
      BY <1>4, <2>1, <3>2
    <3>4. SparesRetry("unslot", p, row[x])
      BY <3>3 DEF SparesRetry
    <3>5. LocksStay(x)
      BY <1>2, <2>6, LockKept
    <3> HIDE DEF p, d
    <3>6. QED
      BY <1>5, <1>a, <2>1, <2>2, <3>1, <3>2, <3>3, <3>4, <3>5
  <2>7. QED
    BY <1>1, <1>11, <2>3, <2>5, <2>6 DEF TakeLock
<1>12. CASE YieldSlot(t)
  <2>1. launcher[t].pc \in {"yield", "unslot"} /\ Frame /\ row' = row /\ locks' = locks
        /\ Release(x)
    BY <1>1, <1>12 DEF YieldSlot, At, storeVars
  <2>2. SlotsStay(x)
    BY <1>2, <2>1, SlotGiven
  <2>3. row[x].state # "RETRYING" /\ ~NeedsLock(t, launcher[t].pc)
    <3>1. launcher[t].pc = "yield" => row[x].state = "CREATED"
      BY <1>1 DEF LauncherCopy, Startable
    <3>2. QED
      BY <1>3, <1>8, <2>1, <3>1 DEF SparesRetry
  <2>4. CASE GotoPark(t)
    <3>1. LandsWith(t, "park", Parked(x, p), d)
      BY <1>1, <1>2, <2>4, LandingWith DEF GotoPark
    <3> HIDE DEF p, d
    <3>2. QED
      BY <1>6, <1>9, <1>a, <2>1, <2>2, <2>3, <3>1
  <2>5. CASE Return(t)
    BY <1>7, <2>1, <2>2, <2>3, <2>5
  <2>6. QED
    BY <1>12, <2>4, <2>5 DEF YieldSlot
<1>13. CASE WriteStarting(t)
  <2>1. launcher[t].pc = "starting" /\ Frame /\ locks' = locks /\ UNCHANGED slotVars
    BY <1>13 DEF WriteStarting, At
  <2>2. SlotsStay(x) /\ (Holds(x)' <=> Holds(x))
    BY <2>1, SlotKept
  <2>3. CASE CtxDone(t) /\ Goto(t, "release") /\ row' = row
    <3>1. LandsWith(t, "release", p, d)
      BY <1>2, <2>3, LandingWith
    <3>2. row[x].state # "RETRYING"
      BY <1>3, <1>4, <2>1, <2>3 DEF CtxDone, Cut
    <3>3. SparesRetry("release", p, row[x])
      BY <3>2 DEF SparesRetry
    <3> HIDE DEF p, d
    <3>4. QED
      BY <1>3, <1>6, <1>8, <1>a, <2>1, <2>2, <2>3, <3>1, <3>3
  <2>4. CASE UpdateProcess(x, Launched(p)) /\ GotoWith(t, "start", Launched(p))
    <3> DEFINE q == Launched(p)
    <3>1. p = row[x] /\ row[x].state \in Waiting
      BY <1>1, <2>1 DEF LauncherCopy, Startable, Waiting
    <3>2. q.state = "STARTING"
      BY <1>1, <3>1, LaunchedEdge
    <3> HIDE DEF q
    <3>3. row'[x] = q /\ \A id \in Procs \ {x} : row'[id] = row[id]
      BY <1>2, <2>4 DEF UpdateProcess, StoreInv, q
    <3>4. LandsWith(t, "start", q, d)
      BY <1>2, <2>4, LandingWith DEF q
    <3>5. /\ row'[x].state # "RETRYING" /\ ~Rests("start", q) /\ SparesRetry("start", q, row'[x])
          /\ \A h \in Handles : exec'[h] = exec[h]
      BY <2>1, <3>2, <3>3 DEF Rests, SparesRetry
    <3>6. LocksStay(x)
      BY <1>2, <2>1, LockKept
    <3> HIDE DEF p, d
    <3>7. QED
      BY <1>1, <1>8, <2>1, <2>2, <3>3, <3>4, <3>5, <3>6, LandsSparing
  <2>5. QED
    BY <1>1, <1>13, <2>3, <2>4 DEF WriteStarting
<1>14. CASE ReleaseSlot(t)
  <2>1. launcher[t].pc = "release" /\ Frame /\ row' = row /\ locks' = locks
        /\ Release(x) /\ LandsWith(t, "unlock", p, d)
    BY <1>1, <1>2, <1>14, LandingWith DEF ReleaseSlot, At, storeVars
  <2>2. SlotsStay(x)
    BY <1>2, <2>1, SlotGiven
  <2>3. row[x].state # "RETRYING" /\ SparesRetry("unlock", p, row[x])
    BY <1>3, <2>1 DEF SparesRetry
  <2> HIDE DEF p, d
  <2>4. QED
    BY <1>6, <1>8, <1>a, <2>1, <2>2, <2>3
<1>15. CASE Unlock(t)
  <2>1. launcher[t].pc = "unlock" /\ Frame /\ row' = row /\ UNCHANGED slotVars /\ Return(t)
        /\ IF Cut(t, launcher[t]) THEN locks' = locks ELSE ReleaseLock(x)
    BY <1>1, <1>15 DEF Unlock, At, Cut, CtxDone
  <2>2. LocksStay(x) /\ (Connected => Free(x)')
    BY <1>2, <1>3, <2>1, LockKept, LockGiven
  <2>3. row'[x].state # "RETRYING" /\ \A id \in Procs \ {x} : row'[id] = row[id]
    BY <1>3, <2>1 DEF SparesRetry
  <2>4. SlotsStay(x)
    BY <2>1, SlotKept
  <2> HIDE DEF p, d
  <2>5. QED
    BY <1>1, <2>1, <2>2, <2>3, <2>4, ReturnSparing
<1>16. QED
  BY <1>10, <1>11, <1>12, <1>13, <1>14, <1>15 DEF AdmitNext

(* The other steps of a submission, and expiry.                            *)
LEMMA SubmitSpares ==
  ASSUME Up, DaemonInv, OwnInv, CoverInv, KeepsInv, NEW t \in Launchers,
         (t \in Procs /\ SubmitNext(t)) \/ (t = Dispatcher /\ (ExpireUnlock(t) \/ ExpireWrite(t)))
  PROVE  KeepsInv'
<1>0. LaunchersInv /\ StoreInv /\ SlotsInv /\ LocksOwn
  BY DEF DaemonInv, SuperInv, CoverInv
<1>1. CASE t \in Procs /\ Submit(t)
  <2>1. launcher[t].pc = "idle" /\ launcher[t] \in Launcher
    BY <1>1 DEF Submit, At, DaemonInv, SuperInv, LaunchersInv, LauncherOK, StorableLauncher
  <2>2. launcher[t].id = 0 /\ row[t].state = NONE /\ t # 0
    BY <1>1, <2>1, NobodyIsZero DEF OwnInv, LaunchersShape, Busy, Fresh, Dispatcher
  <2>3. UNCHANGED <<row, locks, exec, stopper, hungup>> /\ UNCHANGED slotVars
    BY <1>1 DEF Submit, storeVars
  <2>4. PICK l : launcher' = [launcher EXCEPT ![t] = l] /\ l.id \in {0, t} /\ l.pc \in {"done", "create"}
    <3>1. CASE Return(t)
      <4>1. WITNESS DoneLauncher
      <4>2. QED
        BY <2>2, <3>1, <4>1 DEF Return, Dispatcher, DoneLauncher, IdleLauncher
    <3>2. CASE launcher' = [launcher EXCEPT ![t].pc = "create", ![t].id = t]
      <4>1. WITNESS [launcher[t] EXCEPT !.pc = "create", !.id = t]
      <4>2. QED
        BY <2>1, <3>2, <4>1 DEF Launcher
    <3>3. QED
      BY <1>1, <3>1, <3>2 DEF Submit
  <2>5. launcher'[t] = l /\ \A u \in Launchers \ {t} : launcher'[u] = launcher[u]
    BY <1>0, <2>4, LauncherAlone
  <2>6. \A id \in Procs \ {t} : Undisturbed(id)
    BY <2>2, <2>3, <2>4, <2>5, NobodyIsZero DEF Undisturbed
  <2>7. LocksStay(t) /\ SlotsStay(t) /\ \A id \in Procs : Free(id)' <=> Free(id)
    BY <1>0, <2>3, LockKept, SlotKept
  <2>8. Keeps(t)'
    <3>1. Keeps(t) /\ Cover(t) /\ LetGo(t)
      BY <1>1, <2>2 DEF KeepsInv, CoverInv, LetGo, Over
    <3>2. \A u \in Launchers : launcher[u].id = t => launcher[u].pc = "create"
      BY <1>1, <2>2, NobodysYet
    <3>3. \A u \in Launchers : launcher'[u].id = t => launcher'[u].pc \in {"done", "create"}
      BY <2>4, <2>5, <3>2
    <3>4. Resting(t)' => Resting(t)
      BY <2>3, <3>3 DEF Resting, Rests
    <3>5. HoldsLock(t)' <=> HoldsLock(t)
      BY <2>3 DEF HoldsLock
    <3>6. row'[t].state # "RETRYING" /\ Free(t)'
      BY <1>1, <2>2, <2>3, <2>7, <3>1 DEF Cover, NONE
    <3>7. \A u \in Launchers :
            launcher'[u].id = t => SparesRetry(launcher'[u].pc, launcher'[u].p, row'[t])
      BY <3>3 DEF SparesRetry
    <3>8. QED
      BY <2>3, <3>1, <3>4, <3>5, <3>6, <3>7 DEF Keeps
  <2>9. QED
    BY <2>3, <2>6, <2>7, <2>8, KeepStep
<1>2. CASE Hangup(t)
  <2>1. UNCHANGED <<row, locks, exec, stopper, launcher, holders>> /\ ~Connected
    BY <1>2 DEF Hangup, storeVars, slotVars, Connected
  <2>2. QED
    BY <2>1, QuietKeeps
<1>3. CASE \/ Create(t) \/ Claim(t) \/ Unclaim(t) \/ ExpireUnlock(t)
           \/ rejectLocked(t) \/ park(t) \/ ExpireWrite(t)
  <2>0. launcher[t].pc \notin {"idle", "done"}
        /\ launcher[t].pc \in {"create", "claim", "unclaim", "expire", "conflict", "park", "expired"}
    BY <1>3 DEF Create, Claim, Unclaim, ExpireUnlock, rejectLocked, park, ExpireWrite,
                WriteAndReturn, At
  <2>1. PICK x \in Procs :
          /\ launcher[t].id = x
          /\ LauncherCopy(t, launcher[t], row[x], exec[<<x, launches[x]>>], launches[x])
          /\ row[x] \in Process
          /\ t # Dispatcher => t = x
    BY <2>0, InHand
  <2> DEFINE p == launcher[t].p
             d == launcher[t].detached
  <2>2. /\ UNCHANGED <<exec, stopper, hungup>> /\ SlotsStay(x)
        /\ \A h \in Handles : exec'[h] = exec[h]
    BY <1>3, SlotKept DEF Create, Claim, Unclaim, ExpireUnlock, rejectLocked, park, ExpireWrite,
                WriteAndReturn
  <2>3. /\ row[x].state # "RETRYING"
        /\ Connected => Free(x) \/ launcher[t].pc = "unclaim"
        /\ Connected => ~Cut(t, launcher[t])
    <3>1. row[x].state # "RETRYING"
      BY <2>0, <2>1 DEF LauncherCopy, Startable, NONE
    <3>2. NeedsLock(t, launcher[t].pc) => launcher[t].pc = "unclaim"
      BY <2>0 DEF NeedsLock, LockPCs
    <3>3. QED
      BY <2>1, <3>1, <3>2, LauncherKept
  <2>4. ASSUME Return(t), locks' = locks, \A id \in Procs \ {x} : row'[id] = row[id],
               row'[x].state # "RETRYING", launcher[t].pc # "unclaim"
        PROVE  KeepsInv'
    <3>1. LocksStay(x) /\ (Free(x)' <=> Free(x))
      BY <1>0, <2>4, LockKept
    <3>2. QED
      BY <2>1, <2>2, <2>3, <2>4, <3>1, ReturnSparing
  <2>5. ASSUME NEW pc \in {"slot", "claim", "conflict", "park", "expired"}, NEW q,
               LandsWith(t, pc, q, d), LocksStay(x),
               row'[x].state # "RETRYING", \A id \in Procs \ {x} : row'[id] = row[id],
               Connected => Free(x)' \/ NeedsLock(t, pc)
        PROVE  KeepsInv'
    <3>1. ~Rests(pc, q) /\ SparesRetry(pc, q, row'[x])
      BY DEF Rests, SparesRetry
    <3> HIDE DEF p, d
    <3>2. QED
      BY <2>1, <2>2, <2>5, <3>1, LandsSparing
  <2>6. ASSUME NEW pc \in {"conflict", "park", "expired"}, WriteAndReturn(t, pc)
        PROVE  KeepsInv'
    <3>1. Return(t) /\ launcher[t].pc = pc /\ locks' = locks
          /\ (row' = row \/ UpdateProcess(x, p))
      BY <2>1, <2>6 DEF WriteAndReturn, At
    <3>2. p.state # "RETRYING"
      BY <2>1, <3>1 DEF LauncherCopy
    <3>3. row'[x].state # "RETRYING" /\ \A id \in Procs \ {x} : row'[id] = row[id]
      BY <1>0, <2>3, <3>1, <3>2 DEF UpdateProcess, StoreInv
    <3>4. QED
      BY <2>4, <3>1, <3>3
  <2>10. CASE rejectLocked(t) \/ park(t) \/ ExpireWrite(t)
    BY <2>6, <2>10 DEF rejectLocked, park, ExpireWrite
  <2>11. CASE Create(t)
    <3>0. launcher[t].pc = "create" /\ locks' = locks
      BY <2>11 DEF Create, At
    <3>1. LocksStay(x) /\ (Free(x)' <=> Free(x))
      BY <1>0, <3>0, LockKept
    <3>2. CASE Return(t) /\ UNCHANGED row
      BY <2>3, <2>4, <3>0, <3>2
    <3>3. CASE CreateProcess(t) /\ \E pc \in {"claim", "slot"} : GotoWith(t, pc, NewProcess)
      <4>1. PICK pc \in {"claim", "slot"} : GotoWith(t, pc, NewProcess)
        BY <3>3
      <4>2. LandsWith(t, pc, NewProcess, d)
        BY <1>0, <4>1, LandingWith
      <4>3. t = x /\ row'[x] = NewProcess /\ \A id \in Procs \ {x} : row'[id] = row[id]
        <5>1. t # Dispatcher
          BY <2>1, <3>0 DEF LauncherCopy
        <5>2. QED
          BY <1>0, <2>1, <3>3, <5>1 DEF CreateProcess, StoreInv
      <4>4. NewProcess.state # "RETRYING"
        BY DEF NewProcess
      <4> HIDE DEF p, d
      <4>5. QED
        BY <2>3, <2>5, <3>0, <3>1, <4>2, <4>3, <4>4
    <3>4. QED
      BY <2>11, <3>2, <3>3 DEF Create
  <2>12. CASE Claim(t)
    <3>0. launcher[t].pc = "claim" /\ row' = row /\ t # Dispatcher /\ t = x
      BY <2>1, <2>12 DEF Claim, At, LauncherCopy
    <3>1. CASE Return(t) /\ UNCHANGED locks
      BY <2>3, <2>4, <3>0, <3>1
    <3>2. CASE Goto(t, "slot") /\ LockAvailable(x) /\ AcquireLock(x)
      <4>1. LandsWith(t, "slot", p, d) /\ NeedsLock(t, "slot")
        BY <1>0, <3>0, <3>2, LandingWith DEF NeedsLock
      <4>2. LocksStay(x)
        BY <1>0, <3>2, LockTaken
      <4> HIDE DEF p, d
      <4>3. QED
        BY <2>3, <2>5, <3>0, <4>1, <4>2
    <3>3. CASE UNCHANGED locks /\ GotoWith(t, "conflict", TransitionTo(p, "CANCELED", "lock_conflict"))
      <4>1. LandsWith(t, "conflict", TransitionTo(p, "CANCELED", "lock_conflict"), d)
        BY <1>0, <3>3, LandingWith
      <4>2. LocksStay(x) /\ (Free(x)' <=> Free(x))
        BY <1>0, <3>3, LockKept
      <4> HIDE DEF p, d
      <4>3. QED
        BY <2>3, <2>5, <3>0, <4>1, <4>2
    <3>4. QED
      BY <2>12, <3>0, <3>1, <3>2, <3>3 DEF Claim
  <2>13. CASE Unclaim(t) \/ ExpireUnlock(t)
    <3>1. /\ row' = row
          /\ IF Cut(t, launcher[t]) THEN locks' = locks ELSE ReleaseLock(x)
          /\ GotoPark(t) \/ Goto(t, "expired")
      BY <2>1, <2>13 DEF Unclaim, ExpireUnlock, Cut, CtxDone
    <3>2. PICK pc \in {"park", "expired"}, q \in {p, Parked(x, p)} : LandsWith(t, pc, q, d)
      BY <1>0, <2>1, <3>1, LandingWith DEF GotoPark
    <3>3. LocksStay(x) /\ (Connected => Free(x)')
      BY <1>0, <2>3, <3>1, LockKept, LockGiven
    <3> HIDE DEF p, d
    <3>4. QED
      BY <2>3, <2>5, <3>1, <3>2, <3>3
  <2>14. QED
    BY <1>3, <2>10, <2>11, <2>12, <2>13
<1>4. QED
  BY <1>1, <1>2, <1>3 DEF SubmitNext

(* The dispatch pass only reads.                                           *)
LEMMA DispatchSpares ==
  ASSUME DaemonInv, OwnInv, CoverInv, KeepsInv, DispatchStep
  PROVE  KeepsInv'
<1>1. ASSUME NEW due, DispatchScan(due)
      PROVE  KeepsInv'
  <2>1. UNCHANGED <<row, locks, launcher, holders, stopper, exec, hungup>>
    BY <1>1 DEF DispatchScan, storeVars, superVars, slotVars
  <2>2. QED
    BY <2>1, QuietKeeps
<1>2. ASSUME NEW x \in todo, NEW expired \in BOOLEAN, DispatchNext(x, expired)
      PROVE  KeepsInv'
  <2>1. /\ launcher[Dispatcher].pc = "idle" /\ Live
        /\ UNCHANGED <<row, locks, exec, stopper, hungup>> /\ UNCHANGED slotVars
    BY <1>2 DEF DispatchNext, At, storeVars
  <2>2. PICK l : /\ launcher' = [launcher EXCEPT ![Dispatcher] = l]
                 /\ l.id = x /\ l.pc \in {"expire", "slot"}
    <3>1. WITNESS [IdleLauncher EXCEPT
                     !.id = x,
                     !.pc = IF expired THEN "expire" ELSE "slot",
                     !.p = IF expired THEN TransitionTo(snap[x], "FAILED", "queue_timeout")
                           ELSE snap[x]]
    <3>2. QED
      BY <1>2, <3>1 DEF DispatchNext, IdleLauncher
  <2>3. x \in Procs
    BY DEF DaemonInv, PassInv
  <2>4. launcher[Dispatcher].id = 0 /\ Dispatcher \in Launchers /\ x # 0
    BY <2>1, <2>3, NobodyIsZero DEF OwnInv, LaunchersShape, Busy, Launchers
  <2>5. launcher'[Dispatcher] = l /\ \A u \in Launchers \ {Dispatcher} : launcher'[u] = launcher[u]
    BY <2>2, <2>4, LauncherAlone DEF DaemonInv, SuperInv
  <2>6. OwnedByPass(x)
    BY <2>1, <2>3, WhoPends DEF Pending, Live
  <2>7. ASSUME NEW id \in Procs \ {x}
        PROVE  Undisturbed(id)
    <3>1. \A u \in Launchers :
            launcher[u].id = id \/ launcher'[u].id = id => launcher'[u] = launcher[u]
      BY <2>2, <2>4, <2>5, NobodyIsZero
    <3>2. QED
      BY <2>1, <3>1 DEF Undisturbed
  <2>8. /\ LocksStay(x) /\ SlotsStay(x)
        /\ (HoldsLock(x)' <=> HoldsLock(x)) /\ (Free(x)' <=> Free(x)) /\ (Holds(x)' <=> Holds(x))
    BY <2>1, <2>3, LockKept, SlotKept DEF CoverInv
  <2>9. Keeps(x)'
    <3>1. Keeps(x) /\ stopper[x].pc # "write" /\ stopper'[x] = stopper[x] /\ row'[x] = row[x]
      BY <2>1, <2>3, <2>6 DEF KeepsInv, OwnedByPass, Cancelling
    <3>2. \A u \in Launchers : launcher'[u].id = x => launcher'[u] = l
      BY <2>5, <2>6 DEF OwnedByPass, NoLauncher
    <3>3. Resting(x)' => Resting(x)
      BY <2>1, <2>2, <3>1, <3>2 DEF Resting, Rests
    <3>4. LockReason(x) => row[x].state = "RETRYING"
      BY <2>6 DEF LockReason, OwnedByPass, NoLauncher, NoAttempt
    <3>5. LockReason(x) => LockReason(x)'
      BY <3>1, <3>4 DEF LockReason
    <3>6. \A u \in Launchers :
            launcher'[u].id = x => SparesRetry(launcher'[u].pc, launcher'[u].p, row'[x])
      BY <2>2, <3>2 DEF SparesRetry
    <3>7. QED
      BY <2>8, <3>1, <3>3, <3>5, <3>6 DEF Keeps
  <2>10. Connected => hungup' = hungup
    BY <2>1
  <2>11. QED
    BY <2>7, <2>8, <2>9, <2>10, KeepStep
<1>3. QED
  BY <1>1, <1>2 DEF DispatchStep

(* What an attempt must keep when it goes on, or is done.                  *)
LEMMA AttemptGoesSparing ==
  ASSUME DaemonInv, OwnInv, KeepsInv, NEW x \in Procs, NEW n \in 1..MaxLaunches, NEW e,
         OwnedByAttempt(x, n), exec' = [exec EXCEPT ![<<x, n>>] = e],
         UNCHANGED <<launcher, stopper, hungup>>,
         \A id \in Procs \ {x} : row'[id] = row[id],
         LocksStay(x), SlotsStay(x),
         row'[x].state = "RETRYING" \/ Rests(e.sup, e.p) => HoldsLock(x)',
         row'[x].state = "RETRYING" /\ Def[x].type = "service" => Holds(x)',
         Free(x)' \/ row'[x].state = "RETRYING" \/ e.sup \in UsingPhases
  PROVE  KeepsInv'
<1>1. \A id \in Procs, m \in 1..MaxLaunches : <<id, m>> \in Handles
  BY DEF Handles
<1>2. exec'[<<x, n>>] = e /\ \A g \in Handles : g # <<x, n>> => exec'[g] = exec[g]
  BY <1>1, AttemptAlone DEF DaemonInv
<1>3. \A id \in Procs, m \in 1..MaxLaunches :
        id # x \/ m # n => exec'[<<id, m>>] = exec[<<id, m>>]
  BY <1>1, <1>2
<1>4. \A id \in Procs \ {x} : Undisturbed(id)
  BY <1>3 DEF Undisturbed
<1>5. \A u \in Launchers : launcher'[u].id # x
  BY DEF OwnedByAttempt, NoLauncher
<1>6. Keeps(x)'
  <2>1. \A m \in (1..MaxLaunches) \ {n} : exec'[<<x, m>>].sup \notin {"classified"}
    BY <1>3 DEF OwnedByAttempt, Attempting, UsingPhases
  <2>2. \A m \in (1..MaxLaunches) \ {n} : exec'[<<x, m>>].sup # "failwrite"
    <3>1. \A m \in (1..MaxLaunches) \ {n} : exec'[<<x, m>>] = exec[<<x, m>>]
                                             /\ exec[<<x, m>>] \in Exec
      BY <1>1, <1>3 DEF DaemonInv, SuperInv, AttemptsInv, StorableExec
    <3>2. QED
      BY <3>1 DEF Exec
  <2>3. Resting(x)' => row'[x].state = "RETRYING" \/ Rests(e.sup, e.p)
    BY <1>2, <1>5, <2>1, <2>2 DEF Resting, Rests
  <2>4. row'[x].state = "RETRYING" \/ e.sup \in UsingPhases => LockReason(x)'
    BY <1>2 DEF LockReason, Attempting
  <2>5. QED
    BY <1>5, <2>3, <2>4 DEF Keeps
<1>7. Connected => hungup' = hungup
  OBVIOUS
<1>8. QED
  BY <1>4, <1>6, <1>7, KeepStep

(* An attempt keeps the lock of the retry it has settled on, and the slot. *)
LEMMA AttemptKept ==
  ASSUME OwnInv, CoverInv, KeepsInv, NEW x \in Procs, NEW n \in 1..MaxLaunches,
         OwnedByAttempt(x, n)
  PROVE  /\ Holds(x)
         /\ row[x].state = "RETRYING" \/ Rests(exec[<<x, n>>].sup, exec[<<x, n>>].p)
              => HoldsLock(x)
BY AttemptHas DEF KeepsInv, Keeps, Resting, OwnedByAttempt, Cancelling

LEMMA BeginStopSpares ==
  ASSUME DaemonInv, OwnInv, CoverInv, KeepsInv, NEW x \in Procs, NEW n \in 1..MaxLaunches,
         BeginStop(<<x, n>>)
  PROVE  KeepsInv'
<1> DEFINE h == <<x, n>>
           p == IF exec[h].p.state = "RUNNING"
                THEN TransitionTo(exec[h].p, "STOPPING", exec[h].intent) ELSE exec[h].p
           e == [exec[h] EXCEPT !.p = p, !.stop = "signal"]
<1>0. /\ Live /\ exec[h].stop = "begin" /\ MuFree(h)
      /\ exec' = [exec EXCEPT ![h] = e] /\ UpdateProcess(x, p)
      /\ UNCHANGED <<locks, launcher, stopper, hungup>> /\ UNCHANGED slotVars
  BY DEF BeginStop
<1>1. h \in Handles /\ exec[h] \in Exec /\ exec[h].p \in Process
  BY DEF Handles, DaemonInv, SuperInv, AttemptsInv, StorableExec, Storable
<1>2. e.p = p /\ e.sup = exec[h].sup
  BY <1>1 DEF Exec
<1>3. exec[h].p.state # "RUNNING" => p = exec[h].p
  OBVIOUS
<1>4. exec[h].p.state = "RUNNING" => p.state = "STOPPING"
  <2>1. "STOPPING" \in States /\ exec[h].intent \in Reasons /\ CanTransition("RUNNING", "STOPPING")
    BY <1>1, Names, EdgesExist DEF Exec
  <2>2. QED
    BY <1>1, <2>1, TransitionArrives
<1>5. Loose(x, n)
  BY <1>0 DEF Loose
<1> HIDE DEF p, e
<1>6. row'[x] = p /\ \A id \in Procs \ {x} : row'[id] = row[id]
  BY <1>0 DEF UpdateProcess, DaemonInv, SuperInv, StoreInv
<1>7. exec' = [exec EXCEPT ![<<x, n>>] = e]
  BY <1>0
<1> HIDE DEF h
<1>8. h = <<x, n>>
  BY DEF h
<1>9. CASE OwnedByAttempt(x, n)
  <2>1. e.sup # "classified" /\ e.sup # "failwrite" /\ e.sup \in UsingPhases
        /\ AttemptCopy(exec[h], row[x])
    BY <1>0, <1>2, <1>8, <1>9 DEF OwnedByAttempt, Attempting, MuFree, UsingPhases
  <2>2. exec[h].p = row[x]
    BY <1>2, <2>1 DEF AttemptCopy, UsingPhases
  <2>3. row'[x].state = "RETRYING" \/ Rests(e.sup, e.p) => row[x].state = "RETRYING"
    BY <1>3, <1>4, <1>6, <2>1, <2>2 DEF Rests
  <2>4. Holds(x) /\ (row[x].state = "RETRYING" => HoldsLock(x)) /\ LocksOwn
    BY <1>9, AttemptKept DEF CoverInv
  <2>5. LocksStay(x) /\ SlotsStay(x) /\ Holds(x)' /\ (HoldsLock(x)' <=> HoldsLock(x))
    BY <1>0, <2>4, LockKept, SlotKept
  <2>6. UNCHANGED <<launcher, stopper, hungup>>
    BY <1>0
  <2>7. QED
    BY <1>6, <1>7, <1>9, <2>1, <2>3, <2>4, <2>5, <2>6, AttemptGoesSparing
<1>10. CASE Unowned(x) /\ exec[h].sup = "done"
  <2>1. exec[h].p = row[x] /\ row[x].state # "RUNNING"
    BY <1>5, <1>8, <1>10 DEF Unowned, Outcomes
  <2>2. p = row[x]
    BY <1>3, <2>1
  <2>3. row' = row /\ holders' = holders
    BY <1>0, <2>2 DEF UpdateProcess, DaemonInv, SuperInv, StoreInv, slotVars
  <2>4. exec'[h] = e /\ \A g \in Handles : g # h => exec'[g] = exec[g]
    BY <1>1, <1>7, <1>8, AttemptAlone DEF DaemonInv
  <2>5. \A g \in Handles : exec'[g].sup = exec[g].sup /\ exec'[g].p = exec[g].p
    BY <1>2, <2>1, <2>2, <2>4
  <2>6. /\ UNCHANGED <<row, locks, launcher, holders>> /\ (Connected => hungup' = hungup)
        /\ \A id \in Procs : stopper[id].pc = "write" => stopper'[id].pc = "write"
    BY <1>0, <2>3
  <2>7. QED
    BY <2>5, <2>6, QuietKeeps
<1>11. QED
  BY <1>5, <1>8, <1>9, <1>10, WhoIsLoose

(* Every step of an attempt: finish gives the lock back with the outcome   *)
(* no retry follows, and onSettle the slot.                                *)
LEMMA AttemptSpares ==
  ASSUME Up, DaemonInv, OwnInv, CoverInv, KeepsInv, NEW h \in Handles, AttemptNext(h)
  PROVE  KeepsInv'
<1>0. PICK x \in Procs, n \in 1..MaxLaunches : h = <<x, n>>
  BY DEF Handles
<1>1. exec[h] \in Exec /\ h[1] = x
  BY <1>0 DEF DaemonInv, SuperInv, AttemptsInv, StorableExec
<1>2. SlotsInv /\ StoreInv /\ LocksOwn
  BY DEF DaemonInv, SuperInv, CoverInv
<1> DEFINE Frame == UNCHANGED <<launcher, stopper, hungup>>
(* A step that leaves the copy and the phase of the attempt alone.         *)
<1>3. ASSUME NEW e, exec' = [exec EXCEPT ![h] = e], Frame, UNCHANGED <<row, locks>>,
             UNCHANGED slotVars, e.p = exec[h].p, e.sup = exec[h].sup
      PROVE  KeepsInv'
  <2>1. exec'[h] = e /\ \A g \in Handles : g # h => exec'[g] = exec[g]
    BY <1>3, AttemptAlone DEF DaemonInv
  <2>2. \A g \in Handles : exec'[g].sup = exec[g].sup /\ exec'[g].p = exec[g].p
    BY <1>3, <2>1
  <2>3. /\ UNCHANGED <<row, locks, launcher, holders>> /\ (Connected => hungup' = hungup)
        /\ \A id \in Procs : stopper[id].pc = "write" => stopper'[id].pc = "write"
    BY <1>3 DEF slotVars
  <2>4. QED
    BY <2>2, <2>3, QuietKeeps
<1>4. exec[h].sup \in UsingPhases
        => /\ OwnedByAttempt(x, n) /\ AttemptCopy(exec[h], row[x])
           /\ Holds(x)
           /\ exec[h].sup \in LockPhases => HoldsLock(x)
           /\ row[x].state = "RETRYING" \/ Rests(exec[h].sup, exec[h].p) => HoldsLock(x)
           /\ Over(row[x].state) => Free(x)
  BY <1>0, WhoAttempts, AttemptHas, AttemptKept DEF Attempting, OwnedByAttempt
(* A step of the supervise goroutine.                                      *)
<1>5. ASSUME NEW e, exec' = [exec EXCEPT ![h] = e], Frame, exec[h].sup \in UsingPhases,
             \A id \in Procs \ {x} : row'[id] = row[id], LocksStay(x), SlotsStay(x),
             row'[x].state = "RETRYING" \/ Rests(e.sup, e.p) => HoldsLock(x)',
             row'[x].state = "RETRYING" /\ Def[x].type = "service" => Holds(x)',
             Free(x)' \/ row'[x].state = "RETRYING" \/ e.sup \in UsingPhases
      PROVE  KeepsInv'
  <2>1. exec' = [exec EXCEPT ![<<x, n>>] = e]
    BY <1>0, <1>5
  <2>2. OwnedByAttempt(x, n)
    BY <1>4, <1>5
  <2>3. QED
    BY <1>5, <2>1, <2>2, AttemptGoesSparing
<1>6. ASSUME locks' = locks
      PROVE  LocksStay(x) /\ (Free(x)' <=> Free(x)) /\ (HoldsLock(x)' <=> HoldsLock(x))
  BY <1>2, <1>6, LockKept
<1>7. ASSUME UNCHANGED slotVars
      PROVE  SlotsStay(x) /\ (Holds(x)' <=> Holds(x))
  BY <1>7, SlotKept
<1>9. {"wait", "reaped", "deleted"} = LockPhases
      /\ {"wait", "reaped", "deleted", "classified", "persisted"} = UsingPhases
  BY DEF LockPhases, UsingPhases
<1>10. CASE \/ \E result \in Results : ProcExit(h, result)
            \/ OrphanExit(h) \/ SignalGroup(h) \/ TimerFires(h)
  <2>1. PICK e : exec' = [exec EXCEPT ![h] = e] /\ e.p = exec[h].p /\ e.sup = exec[h].sup
    <3>1. CASE \E result \in Results : ProcExit(h, result)
      <4>1. PICK result \in Results : ProcExit(h, result)
        BY <3>1
      <4>2. WITNESS [exec[h] EXCEPT !.proc = "zombie", !.result = result]
      <4>3. QED
        BY <1>1, <4>1, <4>2 DEF ProcExit, Exec
    <3>2. CASE OrphanExit(h)
      <4>1. WITNESS [exec[h] EXCEPT !.proc = "gone"]
      <4>2. QED
        BY <1>1, <3>2, <4>1 DEF OrphanExit, Exec
    <3>3. CASE SignalGroup(h)
      <4>1. WITNESS [exec[h] EXCEPT !.stop = "done"]
      <4>2. QED
        BY <1>1, <3>3, <4>1 DEF SignalGroup, Exec
    <3>4. CASE TimerFires(h)
      <4>1. WITNESS [exec[h] EXCEPT !.timer = "fired"]
      <4>2. QED
        BY <1>1, <3>4, <4>1 DEF TimerFires, Exec
    <3>5. QED
      BY <1>10, <3>1, <3>2, <3>3, <3>4
  <2>2. Frame /\ UNCHANGED <<row, locks>> /\ UNCHANGED slotVars
    BY <1>10 DEF ProcExit, OrphanExit, SignalGroup, TimerFires, storeVars
  <2>3. QED
    BY <1>3, <2>1, <2>2
<1>14. CASE TimeoutIntent(h)
  <2> DEFINE d == [exec[h] EXCEPT !.timer = "off"]
             e == setIntent(d, "timeout")
  <2>1. exec' = [exec EXCEPT ![h] = e] /\ Frame /\ UNCHANGED <<row, locks>> /\ UNCHANGED slotVars
    BY <1>14 DEF TimeoutIntent, storeVars
  <2>2. d \in Exec /\ d.p = exec[h].p /\ d.sup = exec[h].sup
    BY <1>1 DEF Exec
  <2> HIDE DEF d
  <2>3. e.p = d.p /\ e.sup = d.sup
    BY <2>2, SetIntentIs
  <2> HIDE DEF e
  <2>4. QED
    BY <1>3, <2>1, <2>2, <2>3
<1>15. CASE WaitReturns(h) \/ Unregister(h)
  <2>1. PICK e : exec' = [exec EXCEPT ![h] = e] /\ e.sup \in {"reaped", "deleted"}
    <3>1. CASE WaitReturns(h)
      <4>1. WITNESS [exec[h] EXCEPT !.proc = "gone", !.sup = "reaped",
                                    !.timer = IF @ = "armed" THEN "off" ELSE @]
      <4>2. QED
        BY <1>1, <3>1, <4>1 DEF WaitReturns, Exec
    <3>2. CASE Unregister(h)
      <4>1. WITNESS [exec[h] EXCEPT !.sup = "deleted"]
      <4>2. QED
        BY <1>1, <3>2, <4>1 DEF Unregister, Exec
    <3>3. QED
      BY <1>15, <3>1, <3>2
  <2>2. /\ Frame /\ exec[h].sup \in {"wait", "reaped"}
        /\ UNCHANGED <<row, locks>> /\ UNCHANGED slotVars
    BY <1>15 DEF WaitReturns, Unregister, InPhase, storeVars
  <2>3. e.sup \in UsingPhases /\ ~Rests(e.sup, e.p)
        /\ exec[h].sup \in LockPhases /\ exec[h].sup \in UsingPhases
    BY <1>9, <2>1, <2>2 DEF Rests
  <2>4. row'[x] = row[x] /\ \A id \in Procs \ {x} : row'[id] = row[id]
    BY <2>2
  <2>5. /\ LocksStay(x) /\ SlotsStay(x) /\ Holds(x)' /\ HoldsLock(x)'
    BY <1>4, <1>6, <1>7, <2>2, <2>3
  <2>6. QED
    BY <1>5, <2>1, <2>2, <2>3, <2>4, <2>5
<1>16. CASE \E reset \in BOOLEAN : Classify(h, reset)
  <2>1. PICK reset \in BOOLEAN : Classify(h, reset)
    BY <1>16
  <2> DEFINE q == Outcome(h, reset)
             e == [exec[h] EXCEPT !.p = q, !.sup = "classified", !.result = "none"]
  <2>2. /\ exec' = [exec EXCEPT ![h] = e] /\ Frame /\ exec[h].sup = "deleted"
        /\ row' = row /\ UNCHANGED slotVars
        /\ IF IsTerminal(q.state) THEN ReleaseLock(x) ELSE locks' = locks
    BY <1>1, <2>1 DEF Classify, InPhase
  <2>3. e.p = q /\ e.sup = "classified"
    BY <1>1 DEF Exec
  <2> HIDE DEF e, q
  <2>4. exec[h].sup \in UsingPhases /\ exec[h].sup \in LockPhases /\ e.sup \in UsingPhases
    BY <1>9, <2>2, <2>3
  <2>5. row'[x].state # "RETRYING" /\ \A id \in Procs \ {x} : row'[id] = row[id]
    BY <1>4, <2>2, <2>4 DEF AttemptCopy, Supervised
  <2>6. LocksStay(x) /\ (~IsTerminal(q.state) => HoldsLock(x)')
    BY <1>2, <1>4, <1>6, <2>2, <2>4, LockGiven
  <2>7. Rests(e.sup, e.p) => HoldsLock(x)'
    BY <2>3, <2>6 DEF Rests, IsTerminal
  <2>8. SlotsStay(x)
    BY <1>7, <2>2
  <2>9. QED
    BY <1>5, <2>2, <2>4, <2>5, <2>6, <2>7, <2>8
<1>17. CASE PersistOutcome(h)
  <2> DEFINE e == [exec[h] EXCEPT !.sup = "persisted"]
  <2>1. /\ exec' = [exec EXCEPT ![h] = e] /\ Frame /\ exec[h].sup = "classified"
        /\ locks' = locks /\ UNCHANGED slotVars /\ UpdateProcess(x, exec[h].p)
    BY <1>1, <1>17 DEF PersistOutcome, InPhase
  <2>2. e.sup = "persisted"
    BY <1>1 DEF Exec
  <2> HIDE DEF e
  <2>3. exec[h].sup \in UsingPhases /\ e.sup \in UsingPhases /\ ~Rests(e.sup, e.p)
    BY <1>9, <2>1, <2>2 DEF Rests
  <2>4. row'[x] = exec[h].p /\ \A id \in Procs \ {x} : row'[id] = row[id]
    BY <1>2, <2>1 DEF UpdateProcess, StoreInv
  <2>5. row'[x].state = "RETRYING" => HoldsLock(x)
    BY <1>4, <2>1, <2>3, <2>4 DEF Rests
  <2>6. LocksStay(x) /\ SlotsStay(x) /\ Holds(x)' /\ (HoldsLock(x)' <=> HoldsLock(x))
    BY <1>4, <1>6, <1>7, <2>1, <2>3
  <2>7. QED
    BY <1>5, <2>1, <2>3, <2>4, <2>5, <2>6
<1>18. CASE Settle(h)
  <2> DEFINE e == [exec[h] EXCEPT !.sup = "done"]
  <2>1. /\ exec' = [exec EXCEPT ![h] = e] /\ Frame /\ exec[h].sup = "persisted"
        /\ UNCHANGED <<row, locks>> /\ OnExecutionSettled(x, exec[h].p.state)
    BY <1>1, <1>18 DEF Settle, InPhase, storeVars
  <2>2. e.sup = "done"
    BY <1>1 DEF Exec
  <2> HIDE DEF e
  <2>3. exec[h].sup \in UsingPhases /\ ~Rests(e.sup, e.p)
    BY <1>9, <2>1, <2>2 DEF Rests
  <2>4. exec[h].p = row[x] /\ row[x].state \in Outcomes /\ Requeued(row[x])
    BY <1>4, <2>1, <2>3 DEF AttemptCopy
  <2>5. row[x].state = "RETRYING" \/ Free(x)
    BY <1>4, <2>3, <2>4 DEF Outcomes, Requeued, Up, Over, IsTerminal
  <2>6. row'[x] = row[x] /\ \A id \in Procs \ {x} : row'[id] = row[id]
    BY <2>1
  <2>7. SlotsStay(x) /\ (row[x].state = "RETRYING" /\ Def[x].type = "service" => Holds(x)')
    <3>1. CASE row[x].state = "RETRYING" /\ Def[x].type = "service"
      BY <1>4, <1>7, <2>1, <2>3, <2>4, <3>1 DEF OnExecutionSettled
    <3>2. QED
      BY <1>2, <2>1, <3>1, SlotSettled
  <2>8. LocksStay(x) /\ (HoldsLock(x)' <=> HoldsLock(x)) /\ (Free(x)' <=> Free(x))
    BY <1>6, <2>1
  <2>9. QED
    BY <1>4, <1>5, <2>1, <2>3, <2>5, <2>6, <2>7, <2>8
<1>19. CASE BeginStop(h)
  BY <1>0, <1>19, BeginStopSpares
<1>20. QED
  BY <1>10, <1>14, <1>15, <1>16, <1>17, <1>18, <1>19 DEF AttemptNext

(* What a stop request must leave.                                         *)
LEMMA StopperSpares ==
  ASSUME DaemonInv, OwnInv, KeepsInv, NEW x \in Procs, NEW s,
         stopper' = [stopper EXCEPT ![x] = s], OwnedByStop(x),
         UNCHANGED <<exec, launcher, hungup>>,
         \A id \in Procs \ {x} : row'[id] = row[id],
         LocksStay(x), SlotsStay(x), Free(x)',
         row'[x].state = "RETRYING" => s.pc = "write",
         row'[x].state = "RETRYING" /\ Def[x].type = "service" => Holds(x)'
  PROVE  KeepsInv'
<1>1. stopper'[x] = s /\ \A id \in Procs \ {x} : stopper'[id] = stopper[id]
  BY StopperAlone
<1>2. \A id \in Procs \ {x} : Undisturbed(id)
  BY <1>1 DEF Undisturbed
<1>3. \A u \in Launchers : launcher'[u].id # x
  BY DEF OwnedByStop, NoLauncher
<1>4. \A m \in 1..MaxLaunches : ~Rests(exec'[<<x, m>>].sup, exec'[<<x, m>>].p)
  <2>1. ASSUME NEW m \in 1..MaxLaunches
        PROVE  exec'[<<x, m>>].sup \notin {"classified", "failwrite"}
    <3>1. <<x, m>> \in Handles /\ exec'[<<x, m>>] = exec[<<x, m>>]
          /\ exec[<<x, m>>].sup \notin UsingPhases
      BY DEF Handles, OwnedByStop, NoAttempt, Attempting
    <3>2. exec[<<x, m>>] \in Exec
      BY <3>1 DEF DaemonInv, SuperInv, AttemptsInv, StorableExec
    <3>3. QED
      BY <3>1, <3>2 DEF UsingPhases, Exec
  <2>2. QED
    BY <2>1 DEF Rests
<1>5. Keeps(x)'
  BY <1>1, <1>3, <1>4 DEF Keeps, Resting
<1>6. Connected => hungup' = hungup
  OBVIOUS
<1>7. QED
  BY <1>2, <1>5, <1>6, KeepStep

(* cancelPending, of an execution in its backoff: the lock goes first,     *)
(* then the row, and the slot of a service last.                           *)
LEMMA StopSpares ==
  ASSUME Up, DaemonInv, OwnInv, CoverInv, KeepsInv, NEW x \in Procs, StopStep(x)
  PROVE  KeepsInv'
<1>1. /\ stopper[x] \in Stopper /\ StoreInv /\ SlotsInv /\ LocksOwn
  BY DEF DaemonInv, SuperInv, AttemptsInv, StorableStopper, CoverInv
(* A step of a request that owns nothing yet.                              *)
<1>2. CASE RequestStop(x) \/ StopLookup(x) \/ StopIntent(x) \/ CancelGet(x)
  <2>0. stopper \in [Procs -> StorableStopper]
    BY DEF DaemonInv, SuperInv, AttemptsInv
  <2>1. /\ stopper[x].pc # "write" /\ UNCHANGED <<row, locks, launcher, holders, hungup>>
        /\ \A id \in Procs \ {x} : stopper'[id] = stopper[id]
    <3>1. CASE RequestStop(x)
      BY <2>0, <3>1 DEF RequestStop, GotoStopper, storeVars, slotVars
    <3>2. CASE StopLookup(x)
      BY <2>0, <3>2 DEF StopLookup, storeVars, slotVars
    <3>3. CASE StopIntent(x)
      BY <2>0, <3>3 DEF StopIntent, ReturnStopper, storeVars, slotVars
    <3>4. CASE CancelGet(x)
      BY <2>0, <3>4 DEF CancelGet, ReturnStopper, storeVars, slotVars
    <3>5. QED
      BY <1>2, <3>1, <3>2, <3>3, <3>4
  <2>2. \A h \in Handles : exec'[h].sup = exec[h].sup /\ exec'[h].p = exec[h].p
    <3>1. CASE StopIntent(x)
      <4>1. PICK n \in 1..MaxLaunches : n = stopper[x].pid
        BY <3>1 DEF StopIntent, OwnInv, Referenced
      <4> DEFINE h == <<x, n>>
                 e == setIntent(exec[h], "user_request")
      <4>2. h \in Handles /\ exec[h] \in Exec
        BY DEF Handles, DaemonInv, SuperInv, AttemptsInv, StorableExec
      <4>3. e.sup = exec[h].sup /\ e.p = exec[h].p
        BY <4>2, SetIntentIs
      <4>4. exec' = [exec EXCEPT ![h] = e]
        BY <3>1, <4>1 DEF StopIntent
      <4> HIDE DEF e, h
      <4>5. exec'[h] = e /\ \A g \in Handles : g # h => exec'[g] = exec[g]
        BY <4>2, <4>4, AttemptAlone DEF DaemonInv
      <4>6. QED
        BY <4>3, <4>5
    <3>2. CASE ~StopIntent(x)
      BY <1>2, <3>2 DEF RequestStop, StopLookup, CancelGet
    <3>3. QED
      BY <3>1, <3>2
  <2>3. \A id \in Procs : stopper[id].pc = "write" => stopper'[id].pc = "write"
    BY <2>1
  <2>4. QED
    BY <2>1, <2>2, <2>3, QuietKeeps
<1>3. CASE CancelRelease(x) \/ CancelWrite(x) \/ CancelSettle(x)
  <2>0. /\ stopper[x].pc \in {"release", "write", "settle"}
        /\ UNCHANGED <<exec, launcher, hungup>>
    BY <1>3 DEF CancelRelease, CancelWrite, CancelSettle
  <2>1. OwnedByStop(x)
    BY <2>0, WhoCancels DEF Cancelling
  <2>2. /\ Over(row[x].state) \/ stopper[x].pc = "write" => Free(x)
        /\ row[x].state = "RETRYING" /\ Def[x].type = "service" => Holds(x)
    BY DEF CoverInv, Cover, LetGo, Up, KeepsInv, Keeps
  <2>3. \A pc \in {"write", "settle"} : [stopper[x] EXCEPT !.pc = pc].pc = pc
    BY <1>1 DEF Stopper
  <2>6. CASE CancelRelease(x)
    <3> DEFINE s == [stopper[x] EXCEPT !.pc = "write"]
    <3>1. /\ stopper' = [stopper EXCEPT ![x] = s] /\ row' = row
          /\ UNCHANGED slotVars /\ ReleaseLock(x)
      BY <2>6 DEF CancelRelease, GotoStopper, Up
    <3>2. s.pc = "write"
      BY <2>3
    <3> HIDE DEF s
    <3>3. LocksStay(x) /\ Free(x)'
      BY <1>1, <3>1, LockGiven
    <3>4. SlotsStay(x) /\ (Holds(x)' <=> Holds(x))
      BY <3>1, SlotKept
    <3>5. row'[x] = row[x] /\ \A id \in Procs \ {x} : row'[id] = row[id]
      BY <3>1
    <3>6. QED
      BY <2>0, <2>1, <2>2, <3>1, <3>2, <3>3, <3>4, <3>5, StopperSpares
  <2>7. CASE CancelWrite(x)
    <3> DEFINE s == [stopper[x] EXCEPT !.pc = "settle"]
    <3>1. /\ stopper' = [stopper EXCEPT ![x] = s] /\ stopper[x].pc = "write"
          /\ locks' = locks /\ UNCHANGED slotVars /\ UpdateProcess(x, stopper[x].p)
      BY <2>7 DEF CancelWrite, GotoStopper, Up
    <3> HIDE DEF s
    <3>2. LocksStay(x) /\ Free(x)' /\ SlotsStay(x)
      BY <1>1, <2>2, <3>1, LockKept, SlotKept
    <3>3. row'[x].state = "CANCELED" /\ \A id \in Procs \ {x} : row'[id] = row[id]
      BY <1>1, <2>1, <3>1 DEF UpdateProcess, StoreInv, OwnedByStop
    <3>4. QED
      BY <2>0, <2>1, <3>1, <3>2, <3>3, StopperSpares
  <2>8. CASE CancelSettle(x)
    <3>1. /\ stopper[x].pc = "settle" /\ stopper' = [stopper EXCEPT ![x] = DoneStopper]
          /\ row' = row /\ locks' = locks /\ OnExecutionSettled(x, stopper[x].p.state)
      BY <2>8 DEF CancelSettle, ReturnStopper, storeVars
    <3>2. row[x].state = "CANCELED"
      BY <2>1, <3>1 DEF OwnedByStop
    <3>3. LocksStay(x) /\ Free(x)' /\ SlotsStay(x)
      BY <1>1, <2>2, <3>1, <3>2, LockKept, SlotSettled DEF Over, IsTerminal
    <3>4. row'[x].state = "CANCELED" /\ \A id \in Procs \ {x} : row'[id] = row[id]
      BY <3>1, <3>2
    <3>5. QED
      BY <2>0, <2>1, <3>1, <3>3, <3>4, StopperSpares
  <2>9. QED
    BY <1>3, <2>6, <2>7, <2>8
<1>4. QED
  BY <1>2, <1>3 DEF StopStep, StopNext

LEMMA NextSpares ==
  ASSUME Timely, NoRestart, Up, DaemonInv, OwnInv, CoverInv, KeepsInv, [Next]_vars
  PROVE  KeepsInv'
<1>1. ASSUME NEW t \in Launchers, LauncherStep(t)
      PROVE  KeepsInv'
  BY <1>1, StartSpares, AdmitSpares, SubmitSpares DEF LauncherStep
<1>2. ASSUME NEW h \in Handles, AttemptStep(h)
      PROVE  KeepsInv'
  BY <1>2, AttemptSpares DEF AttemptStep
<1>3. ASSUME NEW x \in Procs, StopStep(x)
      PROVE  KeepsInv'
  BY <1>3, StopSpares
<1>4. CASE DispatchStep
  BY <1>4, DispatchSpares
<1>5. ~LifecycleStep
  BY NextStaysUp
<1>6. CASE (\E w \in Workers, limit \in Limits : Reload(w, limit)) \/ UNCHANGED vars
  <2>1. UNCHANGED <<row, locks, launcher, stopper, exec, hungup, holders>>
    BY <1>6 DEF Reload, SetWorkerLimit, vars, storeVars, superVars, slotVars
  <2>2. QED
    BY <2>1, QuietKeeps
<1>7. QED
  BY <1>1, <1>2, <1>3, <1>4, <1>5, <1>6 DEF Next

LEMMA InitSpares == Init => KeepsInv
<1> SUFFICES ASSUME Init PROVE KeepsInv
  OBVIOUS
<1>1. /\ \A id \in Procs : row[id] = NoProcess
      /\ \A t \in Launchers : launcher[t].pc = "idle"
      /\ hungup = {} /\ \A k \in LockKeys : locks[k] = 0
  BY DEF Init, StoreInit, SupervisorInit, IdleLauncher
<1>2. \A id \in Procs, n \in 1..MaxLaunches : exec[<<id, n>>].sup = "none"
  <2>1. \A id \in Procs, n \in 1..MaxLaunches : exec[<<id, n>>] = NoExec
    BY DEF Init, SupervisorInit, Handles
  <2>2. QED
    BY <2>1, NoExecIs
<1>3. \A id \in Procs : Free(id) /\ row[id].state # "RETRYING"
  <2>1. \A id \in Procs : Free(id)
    BY <1>1, NobodyIsZero DEF Free
  <2>2. \A id \in Procs : row[id].state # "RETRYING"
    <3>1. NoProcess.state = NONE
      BY Zenon DEF NoProcess
    <3>2. QED
      BY <1>1, <3>1 DEF NONE
  <2>3. QED
    BY <2>1, <2>2
<1>4. ASSUME NEW id \in Procs
      PROVE  Keeps(id)
  BY <1>1, <1>2, <1>3 DEF Keeps, Resting, Rests, SparesRetry
<1>5. QED
  BY <1>1, <1>4 DEF KeepsInv

(* Every step of one life of the daemon leaves a retry its lock and slot,  *)
(* and no lock behind.                                                     *)
THEOREM RetriesAreKept ==
  ASSUME Timely, NoRestart
  PROVE  Spec => []KeepsInv
<1>1. Init => Up /\ KeepsInv
  BY InitSpares DEF Init, SupervisorInit, Up
<1>2. Up /\ DaemonInv /\ OwnInv /\ CoverInv /\ KeepsInv /\ [Next]_vars => Up' /\ KeepsInv'
  BY NextStaysUp, NextSpares
<1>3. (Spec => []OwnInv) /\ (Spec => []CoverInv)
  BY RowsAreOwned, OwnersAreCovered
<1>4. QED
  BY <1>1, <1>2, <1>3, DaemonCorrect, PTL DEF Spec

(* A slot is held by an execution, not by one of its attempts              *)
(* (queue/slots.go:11): a service in its backoff still has its slot, as    *)
(* neither OnExecutionSettled nor a failed start, a stop or a reload gives *)
(* it back.                                                                *)
THEOREM ServicesKeepSlots ==
  ASSUME Timely, NoRestart
  PROVE  Spec => []ServiceKeepsSlot
<1>1. KeepsInv => ServiceKeepsSlot
  BY DEF KeepsInv, Keeps, ServiceKeepsSlot
<1>2. Spec => []KeepsInv
  BY RetriesAreKept
<1>3. QED
  BY <1>1, <1>2, PTL

(* A lock is never left behind: every path of the scheduler that takes one *)
(* hands it to an attempt or gives it back, and what supervise does not    *)
(* retry gives it back too, so what holds a lock is being started, is      *)
(* supervised, or will be retried.                                         *)
THEOREM LocksHaveReasons ==
  ASSUME Timely, NoRestart, Connected
  PROVE  Spec => []LockNotStranded
<1>1. DaemonInv /\ KeepsInv => LockNotStranded
  <2> SUFFICES ASSUME DaemonInv, KeepsInv, NEW k \in LockKeys, locks[k] # 0,
                      NEW id, id = locks[k]
               PROVE  BeingStarted(id) \/ SlotUser(id) \/ row[id].state = "RETRYING"
    BY DEF LockNotStranded
  <2>1. id \in Procs /\ ~Free(id)
    BY DEF DaemonInv, SuperInv, StoreInv, Free
  <2>2. LockReason(id)
    BY <2>1 DEF KeepsInv, Keeps
  <2>3. ASSUME NEW t \in Launchers, launcher[t].id = id, NeedsLock(t, launcher[t].pc)
        PROVE  BeingStarted(id)
    BY <2>3 DEF NeedsLock, LockPCs, BeingStarted
  <2>4. (\E n \in 1..MaxLaunches : Attempting(id, n)) => SlotUser(id)
    BY DEF Attempting, SlotUser
  <2>5. QED
    BY <2>2, <2>3, <2>4 DEF LockReason
<1>2. Spec => []KeepsInv
  BY RetriesAreKept
<1>3. QED
  BY <1>1, <1>2, DaemonCorrect, PTL
=============================================================================
