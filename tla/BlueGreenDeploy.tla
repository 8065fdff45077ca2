-------------------------- MODULE BlueGreenDeploy --------------------------
(***************************************************************************)
(* scripts/deploy-blue-green.sh: one production host, two slots, one nginx *)
(* in front of them.  A run of the script builds the idle slot, starts and *)
(* checks it, points nginx at it, drains the old slot and removes it.  Any *)
(* command of the script may fail, the script may receive a signal between *)
(* any two commands or be killed outright, and nginx may (re)load its      *)
(* upstream file at any time: after `nginx -s reload`, when its container  *)
(* restarts (docker-compose.prod.yml, restart: always), or from            *)
(* renew-ssl.sh.                                                           *)
(*                                                                         *)
(* Runs are serialised by flock on filmott-ops.lock, so one program        *)
(* counter is enough; the background observers inherit the lock's          *)
(* descriptor, so a run killed outright keeps the lock until they end.     *)
(* The frontend and the backend of a slot are created and removed by one   *)
(* compose command and are modelled as one container; the deploy SHA is    *)
(* the only thing about an image that the script compares.                 *)
(***************************************************************************)

CONSTANTS
    Shas,        \* the commits that main may point to
    Absent       \* no container, no image, no file

Slots  == {"blue", "green"}
Routes == [slot : Slots, sha : Shas]                  \* slot=, sha= of a file
Configs == [slot : Slots, sha : Shas, prev : Slots]   \* upstreams.conf

ASSUME AbsentAssumption == Absent \notin Shas /\ Absent \notin Configs

VARIABLES
    \* what survives the script
    origin,      \* refs/heads/main of the remote
    release,     \* the active-release file
    uncertain,   \* the deployment-uncertain marker exists
    upstream,    \* nginx/upstreams.conf
    candidate,   \* nginx/candidate.conf
    rollback,    \* nginx/rollback.conf
    nginx,       \* the upstream configuration nginx has loaded
    image,       \* image[s]: commit of the image tagged filmott-*:s
    container,   \* container[s]: commit of the running containers of slot s
    probe, sse,  \* the two background observers
    \* the script
    pc, active, target, inactiveStarted, cutoverStarted, committed,
    requireSse,  \* FILMOTT_REQUIRE_SSE_SMOKE = 1 (deploy.yml: a manual run)
    trapped,     \* the signal traps are armed
    outcome      \* how the last run ended

disk    == <<origin, release, uncertain, upstream, candidate, rollback, nginx,
             image, container>>
observers == <<probe, sse>>
locals  == <<active, target, requireSse, inactiveStarted, cutoverStarted,
             committed>>
vars    == <<disk, observers, locals, pc, trapped, outcome>>

ProbeStates == {"off", "on", "failed", "done"}
SseStates   == {"off", "on", "cut", "failed", "done"}   \* "cut": told of the cutover
Outcomes == {"none", "ok", "failed", "rollback_failed", "signalled", "crashed"}

\* program points, in the order of blue_green_deploy
BeforeStart == {"build"}
BeforeMark  == {"start_rm", "start_up", "wait", "fresh", "candidate", "test",
                "capture", "snapshot", "probe", "sse", "verify", "mark"}
Cutover     == {"activate", "reload", "sse_signal", "identity", "static",
                "revalidate", "drain", "final_write", "final_reload",
                "final_identity", "finish_probe", "finish_sse", "commit"}
AfterCommit == {"write_release", "clear_marker", "retire"}
Recovery    == {"fail_before", "remove_inactive", "fail_after", "rb_copy",
                "rb_reload", "rb_identity", "rb_clear", "rb_remove"}
Labels == {"idle", "cutover"} \cup BeforeStart \cup BeforeMark \cup Cutover
             \cup AfterCommit \cup Recovery

-----------------------------------------------------------------------------
Other(s)    == IF s = "blue" THEN "green" ELSE "blue"
RouteOf(c)  == [slot |-> c.slot, sha |-> c.sha]
Config(r, previous) == [slot |-> r.slot, sha |-> r.sha, prev |-> previous]
inactive    == Other(active.slot)
NewRoute    == [slot |-> inactive, sha |-> target]

\* The origin answers with the slot and SHA headers of route r.
Serves(r) == RouteOf(nginx) = r /\ container[nginx.slot] = nginx.sha

\* The slot's running containers carry the image of that slot and that commit.
SlotRuns(s, sha) == container[s] = sha /\ image[s] = sha

Init ==
    /\ origin \in Shas
    /\ \E s \in Slots, sha \in Shas :
         /\ release = [slot |-> s, sha |-> sha]
         /\ active = release
         /\ target = sha
         /\ upstream = Config(release, s)
         /\ container = [t \in Slots |-> IF t = s THEN sha ELSE Absent]
    /\ image = container
    /\ nginx = upstream
    /\ uncertain = FALSE
    /\ candidate = Absent /\ rollback = Absent
    /\ probe = "off" /\ sse = "off"
    /\ pc = "idle" /\ trapped = FALSE /\ outcome = "none"
    /\ inactiveStarted = FALSE /\ cutoverStarted = FALSE /\ committed = FALSE
    /\ requireSse = FALSE

-----------------------------------------------------------------------------
(* Steps shared by the script: go to the next label, or leave the run.     *)
Goto(l) == pc' = l /\ UNCHANGED <<trapped, outcome>>
Exit(o) == pc' = "idle" /\ trapped' = FALSE /\ outcome' = o

\* A command that only looks: it goes on when it passes, and it may always fail.
Check(from, passes, next, onFailure) ==
    /\ pc = from
    /\ \/ passes /\ Goto(next)
       \/ Goto(onFailure)
    /\ UNCHANGED <<disk, observers, locals>>

\* docker compose rm -sf of a slot; a failure may or may not have removed it.
RemoveSlot(s) == container' = [container EXCEPT ![s] = Absent]
RemoveSlotFails(s) == UNCHANGED container \/ RemoveSlot(s)

-----------------------------------------------------------------------------
(* blue_green_main: the lock is free (no orphan observer holds it), the    *)
(* target is the head of main, and preflight accepts the recorded release. *)
(* Every other case leaves everything as it was.                           *)
Preflight ==
    /\ ~uncertain
    /\ upstream = Config(release, release.slot)
    /\ SlotRuns(release.slot, release.sha)
    /\ Serves(release)

LockFree == probe \notin {"on", "failed"} /\ sse \notin {"on", "cut"}

Start ==
    /\ pc = "idle"
    /\ LockFree
    /\ Preflight
    /\ origin # release.sha
    /\ active' = release
    /\ target' = origin
    /\ requireSse' \in BOOLEAN
    /\ inactiveStarted' = FALSE /\ cutoverStarted' = FALSE /\ committed' = FALSE
    /\ probe' = "off" /\ sse' = "off"
    /\ pc' = "build"
    /\ trapped' = TRUE
    /\ outcome' = "none"
    /\ UNCHANGED disk

BuildInactive ==
    /\ pc = "build"
    /\ \/ /\ image' = [image EXCEPT ![inactive] = target]
          /\ inactiveStarted' = TRUE
          /\ Goto("start_rm")
       \/ /\ \/ UNCHANGED image
             \/ image' = [image EXCEPT ![inactive] = target]
          /\ UNCHANGED inactiveStarted
          /\ Exit("failed")
    /\ UNCHANGED <<origin, release, uncertain, upstream, candidate, rollback,
                   nginx, container, observers, active, target, requireSse,
                   cutoverStarted, committed>>

\* blue_green_start_inactive: rm -sf, then up -d --force-recreate.
StartInactive ==
    /\ \/ /\ pc = "start_rm"
          /\ \/ RemoveSlot(inactive) /\ Goto("start_up")
             \/ RemoveSlotFails(inactive) /\ Goto("fail_before")
       \/ /\ pc = "start_up"
          /\ \/ /\ container' = [container EXCEPT ![inactive] = image[inactive]]
                /\ Goto("wait")
             \/ /\ \/ UNCHANGED container
                   \/ container' = [container EXCEPT ![inactive] = image[inactive]]
                /\ Goto("fail_before")
    /\ UNCHANGED <<origin, release, uncertain, upstream, candidate, rollback,
                   nginx, image, observers, locals>>

WaitInactive == Check("wait", SlotRuns(inactive, target), "fresh", "fail_before")
CheckFresh   == Check("fresh", origin = target, "candidate", "fail_before")

\* Fault: the candidate file is never written.
WriteCandidateSkipped == pc = "candidate" /\ Goto("test") /\ UNCHANGED <<disk, observers, locals>>

WriteCandidate ==
    /\ pc = "candidate"
    /\ \/ candidate' = Config(NewRoute, active.slot) /\ Goto("test")
       \/ UNCHANGED candidate /\ Goto("fail_before")
    /\ UNCHANGED <<origin, release, uncertain, upstream, rollback, nginx, image,
                   container, observers, locals>>

TestCandidate == Check("test", TRUE, "capture", "fail_before")
CaptureStatic == Check("capture", TRUE, "snapshot", "fail_before")

\* cp upstreams.conf rollback.conf, then cmp.
SnapshotUpstream ==
    /\ pc = "snapshot"
    /\ \/ rollback' = upstream /\ Goto("probe")
       \/ rollback' \in {rollback, upstream} /\ Goto("fail_before")
    /\ UNCHANGED <<origin, release, uncertain, upstream, candidate, nginx, image,
                   container, observers, locals>>

StartProbe ==
    /\ pc = "probe"
    /\ \/ probe' = "on" /\ Goto("sse")
       \/ probe' \in {"off", "on", "failed"} /\ Goto("fail_before")
    /\ UNCHANGED <<disk, sse, locals>>

\* blue_green_start_sse_smoke aborts its own child when it fails.
StartSse ==
    /\ pc = "sse"
    /\ IF requireSse
         THEN \/ sse' = "on" /\ Goto("verify")
              \/ sse' = "off" /\ Goto("fail_before")
         ELSE UNCHANGED sse /\ Goto("verify")
    /\ UNCHANGED <<disk, probe, locals>>

ObserversHealthy == probe = "on" /\ (requireSse => sse = "on")
VerifyObservers == Check("verify", ObserversHealthy, "mark", "fail_before")

\* Fault: the cutover begins without the marker.
MarkUncertainSkipped == pc = "mark" /\ Goto("cutover") /\ UNCHANGED <<disk, observers, locals>>

MarkUncertain ==
    /\ pc = "mark"
    /\ \/ uncertain' = TRUE /\ Goto("cutover")
       \/ UNCHANGED uncertain /\ Goto("fail_before")
    /\ UNCHANGED <<origin, release, upstream, candidate, rollback, nginx, image,
                   container, observers, locals>>

BeginCutover ==
    /\ pc = "cutover"
    /\ cutoverStarted' = TRUE
    /\ Goto("activate")
    /\ UNCHANGED <<disk, observers, active, target, requireSse, inactiveStarted,
                   committed>>

\* cp candidate.conf to a temporary file, then mv it over upstreams.conf.
ActivateCandidate ==
    /\ pc = "activate"
    /\ \/ upstream' = candidate /\ Goto("reload")
       \/ UNCHANGED upstream /\ Goto("fail_after")
    /\ UNCHANGED <<origin, release, uncertain, candidate, rollback, nginx, image,
                   container, observers, locals>>

\* nginx -t and the reload signal; nginx applies it in NginxLoad.
ReloadNginx == Check("reload", TRUE, "sse_signal", "fail_after")

SignalSseCutover ==
    /\ pc = "sse_signal"
    /\ \/ /\ sse' = IF requireSse /\ sse = "on" THEN "cut" ELSE sse
          /\ Goto("identity")
       \/ requireSse /\ UNCHANGED sse /\ Goto("fail_after")
    /\ UNCHANGED <<disk, probe, locals>>

ConfirmNewSlot == Check("identity", Serves(NewRoute), "static", "fail_after")
CheckStatic    == Check("static", TRUE, "revalidate", "fail_after")
Revalidate     == Check("revalidate", TRUE, "drain", "fail_after")
WaitDrain      == Check("drain", probe = "on" /\ (requireSse => sse # "failed"),
                        "final_write", "fail_after")

\* Fault: the final upstream file keeps the old slot as fallback.
FinalizeUpstreamKeepsFallback ==
    /\ pc = "final_write"
    /\ candidate' = Config(NewRoute, active.slot)
    /\ upstream' = candidate'
    /\ Goto("final_reload")
    /\ UNCHANGED <<origin, release, uncertain, rollback, nginx, image, container,
                   observers, locals>>

\* blue_green_finalize_upstream: the new slot becomes its own fallback.
FinalizeUpstream ==
    /\ pc = "final_write"
    /\ \/ /\ candidate' = Config(NewRoute, inactive)
          /\ upstream' = candidate'
          /\ Goto("final_reload")
       \/ /\ candidate' \in {candidate, Config(NewRoute, inactive)}
          /\ UNCHANGED upstream
          /\ Goto("fail_after")
    /\ UNCHANGED <<origin, release, uncertain, rollback, nginx, image, container,
                   observers, locals>>

FinalizeReload   == Check("final_reload", TRUE, "final_identity", "fail_after")
FinalizeIdentity == Check("final_identity", Serves(NewRoute), "finish_probe",
                          "fail_after")

FinishProbe ==
    /\ pc = "finish_probe"
    /\ \/ probe \in {"on", "done"} /\ probe' = "off" /\ Goto("finish_sse")
       \/ probe' \in {probe, "off"} /\ Goto("fail_after")
    /\ UNCHANGED <<disk, sse, locals>>

\* The script waits for the SSE child, whose own time limit ends it.
FinishSse ==
    /\ pc = "finish_sse"
    /\ IF requireSse
         THEN /\ sse \in {"done", "failed"}
              /\ sse' = "off"
              /\ \/ sse = "done" /\ Goto("commit")
                 \/ Goto("fail_after")
         ELSE UNCHANGED sse /\ Goto("commit")
    /\ UNCHANGED <<disk, probe, locals>>

\* Fault: the old slot is removed at the commit, before the record is written.
CommitRetiresFirst ==
    /\ pc = "commit"
    /\ committed' = TRUE
    /\ RemoveSlot(active.slot)
    /\ Goto("write_release")
    /\ UNCHANGED <<origin, release, uncertain, upstream, candidate, rollback, nginx,
                   image, observers, active, target, requireSse, inactiveStarted,
                   cutoverStarted>>

Commit ==
    /\ pc = "commit"
    /\ committed' = TRUE
    /\ Goto("write_release")
    /\ UNCHANGED <<disk, observers, active, target, requireSse, inactiveStarted,
                   cutoverStarted>>

\* Fault: the head of main is recorded instead of the commit that was deployed.
WriteReleaseOfHead ==
    /\ pc = "write_release"
    /\ release' = [slot |-> inactive, sha |-> origin]
    /\ Goto("clear_marker")
    /\ UNCHANGED <<origin, uncertain, upstream, candidate, rollback, nginx, image,
                   container, observers, locals>>

WriteRelease ==
    /\ pc = "write_release"
    /\ \/ release' = NewRoute /\ UNCHANGED committed /\ Goto("clear_marker")
       \/ UNCHANGED release /\ committed' = FALSE /\ Goto("fail_after")
    /\ UNCHANGED <<origin, uncertain, upstream, candidate, rollback, nginx, image,
                   container, observers, active, target, requireSse,
                   inactiveStarted, cutoverStarted>>

\* Fault: the marker stays although the release was recorded.
ClearMarkerSkipped == pc = "clear_marker" /\ Goto("retire") /\ UNCHANGED <<disk, observers, locals>>

\* rm of the marker, then of the SSE files; a failure of either ends the run.
ClearMarker ==
    /\ pc = "clear_marker"
    /\ \/ uncertain' = FALSE /\ Goto("retire")
       \/ (UNCHANGED uncertain \/ uncertain' = FALSE) /\ Exit("failed")
    /\ UNCHANGED <<origin, release, upstream, candidate, rollback, nginx, image,
                   container, observers, locals>>

RetireOldSlot ==
    /\ pc = "retire"
    /\ \/ RemoveSlot(active.slot) /\ Exit("ok")
       \/ RemoveSlotFails(active.slot) /\ Exit("failed")
    /\ UNCHANGED <<origin, release, uncertain, upstream, candidate, rollback,
                   nginx, image, observers, locals>>

-----------------------------------------------------------------------------
(* Failure paths.  The signal handler runs the same recovery with the      *)
(* traps disarmed and leaves with its own status.                          *)
Leave(o) == Exit(IF trapped THEN o ELSE "signalled")

AbortObservers == probe' = "off" /\ sse' = "off"

\* Fault: the observers are not stopped.
FailBeforeCutoverNoAbort ==
    /\ pc = "fail_before"
    /\ IF inactiveStarted THEN Goto("remove_inactive") ELSE Exit("failed")
    /\ UNCHANGED <<disk, observers, locals>>

FailBeforeCutover ==
    /\ pc = "fail_before"
    /\ AbortObservers
    /\ IF inactiveStarted THEN Goto("remove_inactive") ELSE Exit("failed")
    /\ UNCHANGED <<disk, locals>>

RemoveInactive ==
    /\ pc = "remove_inactive"
    /\ RemoveSlotFails(inactive)
    /\ Leave("failed")
    /\ UNCHANGED <<origin, release, uncertain, upstream, candidate, rollback,
                   nginx, image, observers, locals>>

FailAfterCutover ==
    /\ pc = "fail_after"
    /\ AbortObservers
    /\ Goto("rb_copy")
    /\ UNCHANGED <<disk, locals>>

\* A step of blue_green_rollback that fails ends the recovery.
RollbackFails == Leave("rollback_failed")

RollbackCopy ==
    /\ pc = "rb_copy"
    /\ \/ upstream' = rollback /\ Goto("rb_reload")
       \/ UNCHANGED upstream /\ RollbackFails
    /\ UNCHANGED <<origin, release, uncertain, candidate, rollback, nginx, image,
                   container, observers, locals>>

RollbackReload ==
    /\ pc = "rb_reload"
    /\ Goto("rb_identity") \/ RollbackFails
    /\ UNCHANGED <<disk, observers, locals>>

\* Fault: the rollback does not wait for the old slot to answer.
RollbackIdentitySkipped == pc = "rb_identity" /\ Goto("rb_clear") /\ UNCHANGED <<disk, observers, locals>>

RollbackIdentity ==
    /\ pc = "rb_identity"
    /\ \/ Serves(active) /\ Goto("rb_clear")
       \/ RollbackFails
    /\ UNCHANGED <<disk, observers, locals>>

\* Fault: a rollback that worked leaves the marker.
RollbackClearSkipped == pc = "rb_clear" /\ Goto("rb_remove") /\ UNCHANGED <<disk, observers, locals>>

RollbackClear ==
    /\ pc = "rb_clear"
    /\ \/ uncertain' = FALSE /\ Goto("rb_remove")
       \/ UNCHANGED uncertain /\ RollbackFails
    /\ UNCHANGED <<origin, release, upstream, candidate, rollback, nginx, image,
                   container, observers, locals>>

\* Fault: the rollback removes the slot it has just rolled back to.
RollbackRemovesActive ==
    /\ pc = "rb_remove"
    /\ RemoveSlot(active.slot)
    /\ Leave("failed")
    /\ UNCHANGED <<origin, release, uncertain, upstream, candidate, rollback,
                   nginx, image, observers, locals>>

RollbackRemove ==
    /\ pc = "rb_remove"
    /\ \/ RemoveSlot(inactive) /\ Leave("failed")
       \/ RemoveSlotFails(inactive) /\ RollbackFails
    /\ UNCHANGED <<origin, release, uncertain, upstream, candidate, rollback,
                   nginx, image, observers, locals>>

\* Fault: the handler forgets that the run may have committed.
OnSignalIgnoresCommit ==
    /\ pc # "idle"
    /\ trapped
    /\ AbortObservers
    /\ trapped' = FALSE
    /\ IF cutoverStarted
         THEN pc' = "rb_copy" /\ UNCHANGED outcome
         ELSE pc' = "idle" /\ outcome' = "signalled"
    /\ UNCHANGED <<disk, locals>>

\* blue_green_on_signal: the traps are disarmed, so a second signal kills.
OnSignal ==
    /\ pc # "idle"
    /\ trapped
    /\ AbortObservers
    /\ trapped' = FALSE
    /\ IF cutoverStarted /\ ~committed
         THEN pc' = "rb_copy" /\ UNCHANGED outcome
         ELSE IF inactiveStarted /\ ~cutoverStarted
           THEN pc' = "remove_inactive" /\ UNCHANGED outcome
           ELSE pc' = "idle" /\ outcome' = "signalled"
    /\ UNCHANGED <<disk, locals>>

\* SIGKILL, a second signal, or the loss of the host's shell: nothing runs.
Crash ==
    /\ pc # "idle"
    /\ Exit("crashed")
    /\ UNCHANGED <<disk, observers, locals>>

Run ==
    \/ BuildInactive \/ StartInactive \/ WaitInactive \/ CheckFresh
    \/ WriteCandidate \/ TestCandidate \/ CaptureStatic \/ SnapshotUpstream
    \/ StartProbe \/ StartSse \/ VerifyObservers \/ MarkUncertain \/ BeginCutover
    \/ ActivateCandidate \/ ReloadNginx \/ SignalSseCutover \/ ConfirmNewSlot
    \/ CheckStatic \/ Revalidate \/ WaitDrain \/ FinalizeUpstream
    \/ FinalizeReload \/ FinalizeIdentity \/ FinishProbe \/ FinishSse \/ Commit
    \/ WriteRelease \/ ClearMarker \/ RetireOldSlot \/ FailBeforeCutover
    \/ RemoveInactive \/ FailAfterCutover \/ RollbackCopy \/ RollbackReload
    \/ RollbackIdentity \/ RollbackClear \/ RollbackRemove

-----------------------------------------------------------------------------
(* Around the script: main moves, nginx loads its file, observers end.     *)
Push ==
    /\ origin' \in Shas
    /\ UNCHANGED <<release, uncertain, upstream, candidate, rollback, nginx, image,
                   container, observers, locals, pc, trapped, outcome>>

NginxLoad ==
    /\ nginx' = upstream
    /\ UNCHANGED <<origin, release, uncertain, upstream, candidate, rollback, image,
                   container, observers, locals, pc, trapped, outcome>>

\* The probe sees a failed request and goes on, or reaches its time limit.
ProbeStep ==
    /\ \/ probe = "on" /\ probe' \in {"failed", "done"}
       \/ probe = "failed" /\ pc = "idle" /\ probe' = "off"
    /\ UNCHANGED <<disk, sse, locals, pc, trapped, outcome>>

\* Fault: once told of the cutover the SSE child has no time limit.
SseStepUnlimited == sse = "on" /\ sse' = "failed" /\ UNCHANGED <<disk, probe, locals, pc, trapped, outcome>>

\* The SSE child fails, or ends well when it was told of the cutover.
SseStep ==
    /\ \/ sse \in {"on", "cut"} /\ sse' = "failed"
       \/ sse = "cut" /\ sse' = "done"
    /\ UNCHANGED <<disk, probe, locals, pc, trapped, outcome>>

Next == Start \/ Run \/ OnSignal \/ Crash \/ Push \/ NginxLoad \/ ProbeStep \/ SseStep

\* The shell runs the next command, nginx answers its reload, children end.
Fairness == WF_vars(Run) /\ WF_vars(NginxLoad) /\ WF_vars(ProbeStep)
              /\ WF_vars(SseStep)
Spec == Init /\ [][Next]_vars /\ Fairness

-----------------------------------------------------------------------------
(* Properties.                                                             *)

FlagsTypeOK ==
    /\ uncertain \in BOOLEAN /\ inactiveStarted \in BOOLEAN
    /\ cutoverStarted \in BOOLEAN /\ committed \in BOOLEAN
    /\ requireSse \in BOOLEAN /\ trapped \in BOOLEAN

\* Every variable holds a value the script can give it.
TypeOK ==
    /\ FlagsTypeOK
    /\ origin \in Shas /\ release \in Routes
    /\ upstream \in Configs /\ nginx \in Configs
    /\ candidate \in Configs \cup {Absent} /\ rollback \in Configs \cup {Absent}
    /\ image \in [Slots -> Shas \cup {Absent}]
    /\ container \in [Slots -> Shas \cup {Absent}]
    /\ probe \in ProbeStates /\ sse \in SseStates
    /\ pc \in Labels /\ active \in Routes /\ target \in Shas
    /\ outcome \in Outcomes

\* Whatever nginx has loaded, and whatever it would load if it restarted now,
\* names a slot whose containers run that very commit: no failure, signal or
\* kill leaves traffic pointing at a slot that was removed or rebuilt.
ServingSlotsRun ==
    /\ container[nginx.slot] = nginx.sha
    /\ container[upstream.slot] = upstream.sha

\* The recorded release keeps running until another one is recorded, so there
\* is always a slot to roll back to (lines 350-360 and 397).
ReleaseRuns == SlotRuns(release.slot, release.sha)

\* Without the marker the record is the truth: the upstream file and nginx
\* both route to the recorded release.
MarkerCoversDoubt ==
    ~uncertain => RouteOf(upstream) = release /\ RouteOf(nginx) = release

\* A finished run that left no marker never makes the next preflight refuse
\* (lines 165-195): its record, its upstream file byte for byte, its slot and
\* the headers of the origin agree.
NextRunAccepted == pc = "idle" /\ ~uncertain => Preflight

\* A run that ends with a plain failure, not a failed rollback, leaves the
\* marker only when the new release was already recorded (line 542).
PlainFailureUnblocked ==
    pc = "idle" /\ outcome = "failed" /\ uncertain
      => release = NewRoute /\ RouteOf(upstream) = release

\* From the cutover to the removal of the old slot both slots run, so the
\* previous frontend still answers for its static files (nginx.conf:125).  The
\* removal waits for the final file, but not for nginx to have loaded it.
FallbackRuns ==
    pc \in Cutover \cup AfterCommit
      => container[nginx.prev] # Absent /\ container[upstream.prev] # Absent

\* Exit status 0 after a cutover: the target is recorded, loaded and serving,
\* the marker is gone and the old slot has been removed.
SuccessMeansCutover ==
    pc = "idle" /\ outcome = "ok"
      => /\ release = NewRoute /\ Serves(release) /\ ~uncertain
         /\ container[active.slot] = Absent

\* A run that ends by itself or by a signal leaves no observer behind; only a
\* killed one does, and that one keeps the lock until its observers end.
NoOrphanObservers ==
    pc = "idle" /\ outcome # "crashed" => probe = "off" /\ sse = "off"

\* Line 533: once committed, nothing rolls the verified routing back or
\* touches the new slot.
CommitIsFinal ==
    [][committed /\ committed' =>
         /\ upstream' = upstream
         /\ container'[upstream.slot] = container[upstream.slot]]_vars

\* What a run leaves under way comes to an end, whatever fails, because the waits have
\* limits: the run itself, the observers that hold the lock of a killed one, and the time
\* in which nginx, not yet reloaded, takes a slot that was removed for its fallback.
RunSettles ==
    /\ pc # "idle" ~> pc = "idle" /\ LockFree
    /\ container[nginx.prev] = Absent ~> container[nginx.prev] # Absent

Release == INSTANCE RecordedRelease WITH
             recorded <- release, planned <- RouteOf(upstream), served <- RouteOf(nginx),
             doubt <- uncertain

\* The whole script implements the abstraction RecordedRelease: what is recorded is what was
\* served, traffic moves between slots only under the marker, in both directions, and the
\* marker goes only when record, upstream file and nginx agree.
ImplementsRecordedRelease == Release!Spec
=============================================================================
