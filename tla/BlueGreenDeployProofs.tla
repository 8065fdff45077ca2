----------------------- MODULE BlueGreenDeployProofs -----------------------
(***************************************************************************)
(* Machine-checked proofs about BlueGreenDeploy, for every set of commits. *)
(***************************************************************************)
EXTENDS BlueGreenDeploy, TLAPS

-----------------------------------------------------------------------------
(* The inductive invariant: what each stretch of the script may rely on.   *)

Prepared  == {"fresh", "candidate", "test", "capture", "snapshot", "probe", "sse",
              "verify", "mark", "cutover", "activate"}
Rendered  == Prepared \ {"fresh", "candidate"}
Snapshot  == {"probe", "sse", "verify", "mark", "cutover"}
RollingBack == {"fail_after", "rb_copy", "rb_reload", "rb_identity", "rb_clear",
                "rb_remove"}
Untouched == BeforeStart \cup BeforeMark
                \cup {"cutover", "activate", "fail_before", "remove_inactive"}
Switched  == (Cutover \ {"activate"}) \cup AfterCommit
Confirmed == Switched \ {"reload", "sse_signal", "identity"}
Finalized == {"final_reload", "final_identity", "finish_probe", "finish_sse",
              "commit"} \cup AfterCommit

OldConfig == Config(active, active.slot)
NewConfig == Config(NewRoute, inactive)

\* The record, the upstream file and nginx agree unless the marker is there.
Truthful == ~uncertain => /\ upstream = Config(release, release.slot)
                          /\ RouteOf(nginx) = release

\* The flags that the signal handler reads follow the program counter.
FlagsFollowPc ==
    /\ pc \in BeforeStart => ~inactiveStarted
    /\ pc \in BeforeMark \cup {"cutover"} => inactiveStarted
    /\ pc \in BeforeStart \cup BeforeMark \cup {"cutover", "fail_before", "remove_inactive"}
         => ~cutoverStarted
    /\ pc \in Cutover \cup AfterCommit \cup RollingBack => cutoverStarted
    /\ pc \in AfterCommit => committed
    /\ pc \notin AfterCommit \cup {"idle"} => ~committed

\* Which release the script believes in, and which one is recorded.
RecordFollowsPc ==
    /\ pc \notin {"idle", "clear_marker", "retire"} => active = release
    /\ pc \in {"clear_marker", "retire"} => release = NewRoute

\* The marker is there throughout the cutover and never before it.
MarkerFollowsPc ==
    /\ pc \in BeforeStart \cup BeforeMark \cup {"fail_before"} => ~uncertain
    /\ pc \in {"cutover", "write_release", "clear_marker"} \cup Cutover => uncertain

\* What the files and nginx hold at each stage.
FilesFollowPc ==
    /\ pc \in BeforeMark \cup {"cutover"} \cup Cutover \cup {"write_release"}
         => image[inactive] = target
    /\ pc \in Prepared => container[inactive] = target
    /\ pc \in Rendered => candidate = Config(NewRoute, active.slot)
    /\ pc \in Snapshot \cup Cutover \cup {"write_release"} \cup RollingBack
         => rollback = OldConfig
    /\ pc \in Untouched => upstream = OldConfig /\ RouteOf(nginx) = active
    /\ pc \in Switched => RouteOf(upstream) = NewRoute
    /\ pc \in Switched => RouteOf(nginx) \in {active, NewRoute}
    /\ pc \in Confirmed => RouteOf(nginx) = NewRoute
    /\ pc \in Finalized => upstream = NewConfig
    /\ pc \in {"fail_after", "rb_copy"}
         => RouteOf(upstream) \in {active, NewRoute} /\ RouteOf(nginx) \in {active, NewRoute}
    /\ pc \in {"rb_reload", "rb_identity", "rb_clear", "rb_remove"}
         => upstream = OldConfig /\ RouteOf(nginx) \in {active, NewRoute}
    /\ pc \in {"rb_clear", "rb_remove"} => RouteOf(nginx) = active

IInv ==
    /\ TypeOK
    /\ ServingSlotsRun /\ ReleaseRuns /\ Truthful
    /\ FlagsFollowPc /\ RecordFollowsPc /\ MarkerFollowsPc /\ FilesFollowPc

-----------------------------------------------------------------------------
(* Facts about routes, configurations and slots.                           *)

\* Building an upstream configuration from a route, and reading the route of one
\* back (write_upstream, lines 82-99), stay within their types and are inverse.
LEMMA ConfigFacts ==
    /\ \A r \in Routes, p \in Slots :
         /\ Config(r, p) \in Configs
         /\ RouteOf(Config(r, p)) = r
         /\ Config(r, p).slot = r.slot /\ Config(r, p).sha = r.sha
    /\ \A c \in Configs :
         RouteOf(c) \in Routes /\ RouteOf(c).slot = c.slot /\ RouteOf(c).sha = c.sha
BY DEF Config, RouteOf, Configs, Routes

\* The inactive slot is a slot, and never the active one (lines 34-40).
LEMMA OtherSlot == \A s \in Slots : Other(s) \in Slots /\ Other(s) # s
BY DEF Other, Slots

-----------------------------------------------------------------------------
(* The flags stay Boolean.  Zenon proves these steps, the SMT solver the   *)
(* others, so they have lemmas of their own.                               *)

\* The steps up to the cutover keep the flags Boolean.
LEMMA PreparingFlags ==
  ASSUME FlagsTypeOK,
         Start \/ BuildInactive \/ StartInactive \/ WaitInactive
         \/ CheckFresh \/ WriteCandidate \/ TestCandidate \/ CaptureStatic
         \/ SnapshotUpstream \/ StartProbe \/ StartSse \/ VerifyObservers
         \/ MarkUncertain \/ BeginCutover
  PROVE  FlagsTypeOK'
<1> USE DEF FlagsTypeOK, Check, Goto, Exit, Leave, RollbackFails, disk, locals
<1>1. CASE Start
  BY <1>1, Zenon DEF Start
<1>2. CASE BuildInactive
  BY <1>2, Zenon DEF BuildInactive
<1>3. CASE StartInactive
  BY <1>3, Zenon DEF StartInactive
<1>4. CASE WaitInactive
  BY <1>4, Zenon DEF WaitInactive
<1>5. CASE CheckFresh
  BY <1>5, Zenon DEF CheckFresh
<1>6. CASE WriteCandidate
  BY <1>6, Zenon DEF WriteCandidate
<1>7. CASE TestCandidate
  BY <1>7, Zenon DEF TestCandidate
<1>8. CASE CaptureStatic
  BY <1>8, Zenon DEF CaptureStatic
<1>9. CASE SnapshotUpstream
  BY <1>9, Zenon DEF SnapshotUpstream
<1>10. CASE StartProbe
  BY <1>10, Zenon DEF StartProbe
<1>11. CASE StartSse
  BY <1>11, Zenon DEF StartSse
<1>12. CASE VerifyObservers
  BY <1>12, Zenon DEF VerifyObservers
<1>13. CASE MarkUncertain
  BY <1>13, Zenon DEF MarkUncertain
<1>14. CASE BeginCutover
  BY <1>14, Zenon DEF BeginCutover
<1>. QED BY <1>1, <1>2, <1>3, <1>4, <1>5, <1>6, <1>7, <1>8, <1>9, <1>10,
  <1>11, <1>12, <1>13, <1>14

\* The steps of the cutover keep the flags Boolean.
LEMMA SwitchingFlags ==
  ASSUME FlagsTypeOK,
         ActivateCandidate \/ ReloadNginx \/ SignalSseCutover
         \/ ConfirmNewSlot \/ CheckStatic \/ Revalidate \/ WaitDrain
         \/ FinalizeUpstream \/ FinalizeReload \/ FinalizeIdentity
         \/ FinishProbe \/ FinishSse
  PROVE  FlagsTypeOK'
<1> USE DEF FlagsTypeOK, Check, Goto, Exit, Leave, RollbackFails, disk, locals
<1>1. CASE ActivateCandidate
  BY <1>1, Zenon DEF ActivateCandidate
<1>2. CASE ReloadNginx
  BY <1>2, Zenon DEF ReloadNginx
<1>3. CASE SignalSseCutover
  BY <1>3, Zenon DEF SignalSseCutover
<1>4. CASE ConfirmNewSlot
  BY <1>4, Zenon DEF ConfirmNewSlot
<1>5. CASE CheckStatic
  BY <1>5, Zenon DEF CheckStatic
<1>6. CASE Revalidate
  BY <1>6, Zenon DEF Revalidate
<1>7. CASE WaitDrain
  BY <1>7, Zenon DEF WaitDrain
<1>8. CASE FinalizeUpstream
  BY <1>8, Zenon DEF FinalizeUpstream
<1>9. CASE FinalizeReload
  BY <1>9, Zenon DEF FinalizeReload
<1>10. CASE FinalizeIdentity
  BY <1>10, Zenon DEF FinalizeIdentity
<1>11. CASE FinishProbe
  BY <1>11, Zenon DEF FinishProbe
<1>12. CASE FinishSse
  BY <1>12, Zenon DEF FinishSse
<1>. QED BY <1>1, <1>2, <1>3, <1>4, <1>5, <1>6, <1>7, <1>8, <1>9, <1>10,
  <1>11, <1>12

\* The commit and the steps after it keep the flags Boolean.
LEMMA CommittingFlags ==
  ASSUME FlagsTypeOK,
         Commit \/ WriteRelease \/ ClearMarker \/ RetireOldSlot
  PROVE  FlagsTypeOK'
<1> USE DEF FlagsTypeOK, Check, Goto, Exit, Leave, RollbackFails, disk, locals
<1>1. CASE Commit
  BY <1>1, Zenon DEF Commit
<1>2. CASE WriteRelease
  BY <1>2, Zenon DEF WriteRelease
<1>3. CASE ClearMarker
  BY <1>3, Zenon DEF ClearMarker
<1>4. CASE RetireOldSlot
  BY <1>4, Zenon DEF RetireOldSlot
<1>. QED BY <1>1, <1>2, <1>3, <1>4

\* The recovery, the signal handler and a kill keep the flags Boolean.
LEMMA RecoveringFlags ==
  ASSUME FlagsTypeOK,
         FailBeforeCutover \/ RemoveInactive \/ FailAfterCutover
         \/ RollbackCopy \/ RollbackReload \/ RollbackIdentity
         \/ RollbackClear \/ RollbackRemove \/ OnSignal \/ Crash
  PROVE  FlagsTypeOK'
<1> USE DEF FlagsTypeOK, Check, Goto, Exit, Leave, RollbackFails, disk, locals
<1>1. CASE FailBeforeCutover
  BY <1>1, Zenon DEF FailBeforeCutover
<1>2. CASE RemoveInactive
  BY <1>2, Zenon DEF RemoveInactive
<1>3. CASE FailAfterCutover
  BY <1>3, Zenon DEF FailAfterCutover
<1>4. CASE RollbackCopy
  BY <1>4, Zenon DEF RollbackCopy
<1>5. CASE RollbackReload
  BY <1>5, Zenon DEF RollbackReload
<1>6. CASE RollbackIdentity
  BY <1>6, Zenon DEF RollbackIdentity
<1>7. CASE RollbackClear
  BY <1>7, Zenon DEF RollbackClear
<1>8. CASE RollbackRemove
  BY <1>8, Zenon DEF RollbackRemove
<1>9. CASE OnSignal
  BY <1>9, Zenon DEF OnSignal
<1>10. CASE Crash
  BY <1>10, Zenon DEF Crash
<1>. QED BY <1>1, <1>2, <1>3, <1>4, <1>5, <1>6, <1>7, <1>8, <1>9, <1>10

\* What happens around the script keeps the flags Boolean.
LEMMA SurroundingFlags ==
  ASSUME FlagsTypeOK,
         Push \/ NginxLoad \/ ProbeStep \/ SseStep
  PROVE  FlagsTypeOK'
<1> USE DEF FlagsTypeOK, Check, Goto, Exit, Leave, RollbackFails, disk, locals
<1>1. CASE Push
  BY <1>1, Zenon DEF Push
<1>2. CASE NginxLoad
  BY <1>2, Zenon DEF NginxLoad
<1>3. CASE ProbeStep
  BY <1>3, Zenon DEF ProbeStep
<1>4. CASE SseStep
  BY <1>4, Zenon DEF SseStep
<1>. QED BY <1>1, <1>2, <1>3, <1>4

-----------------------------------------------------------------------------
(* The invariant holds at the start and is kept by every step.             *)

\* A host with one release that runs satisfies the inductive invariant.
LEMMA InitIInv == Init => IInv
<1> SUFFICES ASSUME Init PROVE IInv
  OBVIOUS
<1> USE ConfigFacts, OtherSlot DEF Init,
      IInv, TypeOK, ServingSlotsRun, ReleaseRuns, SlotRuns, Truthful,
      FlagsFollowPc, RecordFollowsPc, MarkerFollowsPc, FilesFollowPc, Labels,
      BeforeStart, BeforeMark, Cutover, AfterCommit, Recovery, Prepared,
      Rendered, Snapshot, RollingBack, Untouched, Switched, Confirmed,
      Finalized, ProbeStates, SseStates, Outcomes, Serves, NewRoute, inactive,
      OldConfig, NewConfig, Routes, disk, observers, locals
<1>1. FlagsTypeOK
  BY Zenon DEF FlagsTypeOK
<1>. QED BY <1>1, SMTT(30)

\* Every step up to the cutover keeps the invariant.
LEMMA PreparingStep ==
  ASSUME IInv,
         Start \/ BuildInactive \/ StartInactive \/ WaitInactive
         \/ CheckFresh \/ WriteCandidate \/ TestCandidate \/ CaptureStatic
         \/ SnapshotUpstream \/ StartProbe \/ StartSse \/ VerifyObservers
         \/ MarkUncertain \/ BeginCutover
  PROVE  IInv'
<1>. FlagsTypeOK'
  BY PreparingFlags DEF IInv, TypeOK
<1> USE ConfigFacts, OtherSlot, AbsentAssumption DEF
      IInv, TypeOK, ServingSlotsRun, ReleaseRuns, SlotRuns, Truthful,
      FlagsFollowPc, RecordFollowsPc, MarkerFollowsPc, FilesFollowPc, Labels,
      BeforeStart, BeforeMark, Cutover, AfterCommit, Recovery, Prepared,
      Rendered, Snapshot, RollingBack, Untouched, Switched, Confirmed,
      Finalized, Check, Goto, Exit, Leave, RollbackFails, RemoveSlot,
      RemoveSlotFails, AbortObservers, ProbeStates, SseStates, Outcomes,
      Serves, NewRoute, inactive, OldConfig, NewConfig, Routes, disk,
      observers, locals
<1>1. CASE Start
  BY <1>1, SMTT(30) DEF Start, Preflight, LockFree
<1>2. CASE BuildInactive
  BY <1>2, SMTT(30) DEF BuildInactive
<1>3. CASE StartInactive
  BY <1>3, SMTT(30) DEF StartInactive
<1>4. CASE WaitInactive
  BY <1>4, SMTT(30) DEF WaitInactive
<1>5. CASE CheckFresh
  BY <1>5, SMTT(30) DEF CheckFresh
<1>6. CASE WriteCandidate
  BY <1>6, SMTT(30) DEF WriteCandidate
<1>7. CASE TestCandidate
  BY <1>7, SMTT(30) DEF TestCandidate
<1>8. CASE CaptureStatic
  BY <1>8, SMTT(30) DEF CaptureStatic
<1>9. CASE SnapshotUpstream
  BY <1>9, SMTT(30) DEF SnapshotUpstream
<1>10. CASE StartProbe
  BY <1>10, SMTT(30) DEF StartProbe
<1>11. CASE StartSse
  BY <1>11, SMTT(30) DEF StartSse
<1>12. CASE VerifyObservers
  BY <1>12, SMTT(30) DEF VerifyObservers
<1>13. CASE MarkUncertain
  BY <1>13, SMTT(30) DEF MarkUncertain
<1>14. CASE BeginCutover
  BY <1>14, SMTT(30) DEF BeginCutover
<1>. QED BY <1>1, <1>2, <1>3, <1>4, <1>5, <1>6, <1>7, <1>8, <1>9, <1>10,
  <1>11, <1>12, <1>13, <1>14

\* Every step from the first change of routing to the last check keeps it.
LEMMA SwitchingStep ==
  ASSUME IInv,
         ActivateCandidate \/ ReloadNginx \/ SignalSseCutover
         \/ ConfirmNewSlot \/ CheckStatic \/ Revalidate \/ WaitDrain
         \/ FinalizeUpstream \/ FinalizeReload \/ FinalizeIdentity
         \/ FinishProbe \/ FinishSse
  PROVE  IInv'
<1>. FlagsTypeOK'
  BY SwitchingFlags DEF IInv, TypeOK
<1> USE ConfigFacts, OtherSlot, AbsentAssumption DEF
      IInv, TypeOK, ServingSlotsRun, ReleaseRuns, SlotRuns, Truthful,
      FlagsFollowPc, RecordFollowsPc, MarkerFollowsPc, FilesFollowPc, Labels,
      BeforeStart, BeforeMark, Cutover, AfterCommit, Recovery, Prepared,
      Rendered, Snapshot, RollingBack, Untouched, Switched, Confirmed,
      Finalized, Check, Goto, Exit, Leave, RollbackFails, RemoveSlot,
      RemoveSlotFails, AbortObservers, ProbeStates, SseStates, Outcomes,
      Serves, NewRoute, inactive, OldConfig, NewConfig, Routes, disk,
      observers, locals
<1>1. CASE ActivateCandidate
  BY <1>1, SMTT(30) DEF ActivateCandidate
<1>2. CASE ReloadNginx
  BY <1>2, SMTT(30) DEF ReloadNginx
<1>3. CASE SignalSseCutover
  BY <1>3, SMTT(30) DEF SignalSseCutover
<1>4. CASE ConfirmNewSlot
  BY <1>4, SMTT(30) DEF ConfirmNewSlot
<1>5. CASE CheckStatic
  BY <1>5, SMTT(30) DEF CheckStatic
<1>6. CASE Revalidate
  BY <1>6, SMTT(30) DEF Revalidate
<1>7. CASE WaitDrain
  BY <1>7, SMTT(30) DEF WaitDrain
<1>8. CASE FinalizeUpstream
  BY <1>8, SMTT(30) DEF FinalizeUpstream
<1>9. CASE FinalizeReload
  BY <1>9, SMTT(30) DEF FinalizeReload
<1>10. CASE FinalizeIdentity
  BY <1>10, SMTT(30) DEF FinalizeIdentity
<1>11. CASE FinishProbe
  BY <1>11, SMTT(30) DEF FinishProbe
<1>12. CASE FinishSse
  BY <1>12, SMTT(30) DEF FinishSse
<1>. QED BY <1>1, <1>2, <1>3, <1>4, <1>5, <1>6, <1>7, <1>8, <1>9, <1>10,
  <1>11, <1>12

\* Recording the release and retiring the old slot keep it.
LEMMA CommittingStep ==
  ASSUME IInv,
         Commit \/ WriteRelease \/ ClearMarker \/ RetireOldSlot
  PROVE  IInv'
<1>. FlagsTypeOK'
  BY CommittingFlags DEF IInv, TypeOK
<1> USE ConfigFacts, OtherSlot, AbsentAssumption DEF
      IInv, TypeOK, ServingSlotsRun, ReleaseRuns, SlotRuns, Truthful,
      FlagsFollowPc, RecordFollowsPc, MarkerFollowsPc, FilesFollowPc, Labels,
      BeforeStart, BeforeMark, Cutover, AfterCommit, Recovery, Prepared,
      Rendered, Snapshot, RollingBack, Untouched, Switched, Confirmed,
      Finalized, Check, Goto, Exit, Leave, RollbackFails, RemoveSlot,
      RemoveSlotFails, AbortObservers, ProbeStates, SseStates, Outcomes,
      Serves, NewRoute, inactive, OldConfig, NewConfig, Routes, disk,
      observers, locals
<1>1. CASE Commit
  BY <1>1, SMTT(30) DEF Commit
<1>2. CASE WriteRelease
  <2>1. CASE pc' = "clear_marker"
    BY <1>2, <2>1, SMTT(30) DEF WriteRelease
  <2>2. CASE pc' = "fail_after"
    BY <1>2, <2>2, SMTT(30) DEF WriteRelease
  <2>. QED BY <1>2, <2>1, <2>2 DEF WriteRelease
<1>3. CASE ClearMarker
  <2>1. CASE pc' = "retire"
    BY <1>3, <2>1, SMTT(30) DEF ClearMarker
  <2>2. CASE pc' = "idle"
    BY <1>3, <2>2, SMTT(30) DEF ClearMarker
  <2>. QED BY <1>3, <2>1, <2>2 DEF ClearMarker
<1>4. CASE RetireOldSlot
  BY <1>4, SMTT(30) DEF RetireOldSlot
<1>. QED BY <1>1, <1>2, <1>3, <1>4

\* The failure paths, the signal handler and a kill keep it.
LEMMA RecoveringStep ==
  ASSUME IInv,
         FailBeforeCutover \/ RemoveInactive \/ FailAfterCutover
         \/ RollbackCopy \/ RollbackReload \/ RollbackIdentity
         \/ RollbackClear \/ RollbackRemove \/ OnSignal \/ Crash
  PROVE  IInv'
<1>. FlagsTypeOK'
  BY RecoveringFlags DEF IInv, TypeOK
<1> USE ConfigFacts, OtherSlot, AbsentAssumption DEF
      IInv, TypeOK, ServingSlotsRun, ReleaseRuns, SlotRuns, Truthful,
      FlagsFollowPc, RecordFollowsPc, MarkerFollowsPc, FilesFollowPc, Labels,
      BeforeStart, BeforeMark, Cutover, AfterCommit, Recovery, Prepared,
      Rendered, Snapshot, RollingBack, Untouched, Switched, Confirmed,
      Finalized, Check, Goto, Exit, Leave, RollbackFails, RemoveSlot,
      RemoveSlotFails, AbortObservers, ProbeStates, SseStates, Outcomes,
      Serves, NewRoute, inactive, OldConfig, NewConfig, Routes, disk,
      observers, locals
<1>1. CASE FailBeforeCutover
  BY <1>1, SMTT(30) DEF FailBeforeCutover
<1>2. CASE RemoveInactive
  BY <1>2, SMTT(30) DEF RemoveInactive
<1>3. CASE FailAfterCutover
  BY <1>3, SMTT(30) DEF FailAfterCutover
<1>4. CASE RollbackCopy
  BY <1>4, SMTT(30) DEF RollbackCopy
<1>5. CASE RollbackReload
  BY <1>5, SMTT(30) DEF RollbackReload
<1>6. CASE RollbackIdentity
  BY <1>6, SMTT(30) DEF RollbackIdentity
<1>7. CASE RollbackClear
  BY <1>7, SMTT(30) DEF RollbackClear
<1>8. CASE RollbackRemove
  BY <1>8, SMTT(30) DEF RollbackRemove
<1>9. CASE OnSignal
  BY <1>9, SMTT(30) DEF OnSignal
<1>10. CASE Crash
  BY <1>10, SMTT(30) DEF Crash
<1>. QED BY <1>1, <1>2, <1>3, <1>4, <1>5, <1>6, <1>7, <1>8, <1>9, <1>10

\* A push to main, a load by nginx and the end of an observer keep it.
LEMMA SurroundingStep ==
  ASSUME IInv,
         Push \/ NginxLoad \/ ProbeStep \/ SseStep
  PROVE  IInv'
<1>. FlagsTypeOK'
  BY SurroundingFlags DEF IInv, TypeOK
<1> USE ConfigFacts, OtherSlot, AbsentAssumption DEF
      IInv, TypeOK, ServingSlotsRun, ReleaseRuns, SlotRuns, Truthful,
      FlagsFollowPc, RecordFollowsPc, MarkerFollowsPc, FilesFollowPc, Labels,
      BeforeStart, BeforeMark, Cutover, AfterCommit, Recovery, Prepared,
      Rendered, Snapshot, RollingBack, Untouched, Switched, Confirmed,
      Finalized, Check, Goto, Exit, Leave, RollbackFails, RemoveSlot,
      RemoveSlotFails, AbortObservers, ProbeStates, SseStates, Outcomes,
      Serves, NewRoute, inactive, OldConfig, NewConfig, Routes, disk,
      observers, locals
<1>1. CASE Push
  BY <1>1, SMTT(30) DEF Push
<1>2. CASE NginxLoad
  BY <1>2, SMTT(30) DEF NginxLoad
<1>3. CASE ProbeStep
  BY <1>3, SMTT(30) DEF ProbeStep
<1>4. CASE SseStep
  BY <1>4, SMTT(30) DEF SseStep
<1>. QED BY <1>1, <1>2, <1>3, <1>4

\* Every step of the script and of its surroundings keeps the invariant.
LEMMA NextIInv == IInv /\ [Next]_vars => IInv'
<1> SUFFICES ASSUME IInv, [Next]_vars PROVE IInv'
  OBVIOUS
<1>1. CASE Next
  BY <1>1, PreparingStep, SwitchingStep, CommittingStep, RecoveringStep,
     SurroundingStep DEF Next, Run
<1>2. CASE UNCHANGED vars
  BY <1>2 DEF vars, disk, observers, locals, 
      IInv, TypeOK, ServingSlotsRun, ReleaseRuns, SlotRuns, Truthful,
      FlagsFollowPc, RecordFollowsPc, MarkerFollowsPc, FilesFollowPc, Serves,
      NewRoute, inactive, OldConfig, NewConfig, Routes, FlagsTypeOK, RouteOf,
      Config
<1>. QED BY <1>1, <1>2

\* The inductive invariant holds in every reachable state.
THEOREM InvariantHolds == Spec => []IInv
BY InitIInv, NextIInv, PTL DEF Spec

\* Type correctness.
THEOREM TypeCorrect == Spec => []TypeOK
BY InvariantHolds, PTL DEF IInv

\* What nginx has loaded, or would load, always runs.
THEOREM ServingSlotsAlwaysRun == Spec => []ServingSlotsRun
BY InvariantHolds, PTL DEF IInv

\* The recorded release always runs.
THEOREM RecordedReleaseAlwaysRuns == Spec => []ReleaseRuns
BY InvariantHolds, PTL DEF IInv

\* Without the marker, the record says what nginx serves and would serve.
THEOREM MarkerAlwaysCoversDoubt == Spec => []MarkerCoversDoubt
<1>1. IInv => MarkerCoversDoubt
  BY ConfigFacts DEF IInv, TypeOK, Truthful, MarkerCoversDoubt, Routes
<1>. QED BY <1>1, InvariantHolds, PTL

\* A finished run that left no marker never makes the next preflight refuse.
THEOREM NextRunAlwaysAccepted == Spec => []NextRunAccepted
<1>1. IInv => NextRunAccepted
  BY ConfigFacts DEF IInv, TypeOK, Truthful, NextRunAccepted, Preflight, Serves,
     ReleaseRuns, ServingSlotsRun
<1>. QED BY <1>1, InvariantHolds, PTL

-----------------------------------------------------------------------------
(* What a step may never do, and the refinement of RecordedRelease.        *)

\* Traffic moves between slots only under the marker.
LEMMA SwitchedUnderMarker ==
  ASSUME IInv, ActivateCandidate \/ FinalizeUpstream \/ RollbackCopy
  PROVE  RouteOf(upstream') # RouteOf(upstream) => uncertain /\ uncertain' = uncertain
<1> USE ConfigFacts, OtherSlot DEF IInv, TypeOK, Truthful, RecordFollowsPc,
      MarkerFollowsPc, FilesFollowPc, OldConfig, NewConfig, NewRoute, inactive,
      Routes, Cutover, AfterCommit, RollingBack, Switched, Rendered, Prepared
<1>1. CASE ActivateCandidate
  BY <1>1 DEF ActivateCandidate
<1>2. CASE FinalizeUpstream
  BY <1>2 DEF FinalizeUpstream
<1>3. CASE RollbackCopy
  BY <1>3 DEF RollbackCopy
<1>. QED BY <1>1, <1>2, <1>3

\* Only these steps touch what RecordedRelease sees.
LEMMA RecordWriters ==
  ASSUME Next, ~MarkUncertain, ~WriteRelease, ~ClearMarker, ~RollbackClear,
         ~NginxLoad, ~ActivateCandidate, ~FinalizeUpstream, ~RollbackCopy
  PROVE  UNCHANGED <<release, nginx, uncertain, upstream>>
BY Zenon DEF Next, Run, Check, disk,
      Start, BuildInactive, StartInactive, WaitInactive, CheckFresh,
      WriteCandidate, TestCandidate, CaptureStatic, SnapshotUpstream,
      StartProbe, StartSse, VerifyObservers, BeginCutover, ActivateCandidate,
      ReloadNginx, SignalSseCutover, ConfirmNewSlot, CheckStatic, Revalidate,
      WaitDrain, FinalizeUpstream, FinalizeReload, FinalizeIdentity,
      FinishProbe, FinishSse, Commit, RetireOldSlot, FailBeforeCutover,
      RemoveInactive, FailAfterCutover, RollbackCopy, RollbackReload,
      RollbackIdentity, RollbackRemove, OnSignal, Crash, Push, ProbeStep,
      SseStep

\* Every step of the script and of its surroundings is a step of
\* RecordedRelease or leaves its variables alone.
THEOREM ImplementsRecorded == Spec => ImplementsRecordedRelease
<1> USE DEF Release!vars
<1>1. Init => Release!Init
  BY ConfigFacts DEF Init, Release!Init, Routes, Config, RouteOf
<1>2. IInv /\ [Next]_vars => [Release!Next]_Release!vars
  <2> SUFFICES ASSUME IInv, [Next]_vars PROVE [Release!Next]_Release!vars
    OBVIOUS
  <2> USE ConfigFacts, OtherSlot DEF IInv, TypeOK, Truthful, RecordFollowsPc,
        MarkerFollowsPc, FilesFollowPc, OldConfig, NewConfig, NewRoute, inactive,
        Routes, Cutover, AfterCommit, BeforeMark, Switched, Confirmed, Finalized,
        Release!Next
  <2>1. CASE MarkUncertain
    BY <2>1 DEF MarkUncertain, Release!Raise
  <2>2. CASE WriteRelease
    BY <2>2 DEF WriteRelease, Release!Record
  <2>3. CASE ClearMarker
    BY <2>3 DEF ClearMarker, Release!Settle
  <2>4. CASE RollbackClear
    <3>1. pc = "rb_clear" /\ UNCHANGED <<release, nginx, upstream>>
      BY <2>4, Zenon DEF RollbackClear
    <3>2. uncertain' = FALSE \/ uncertain' = uncertain
      BY <2>4, Zenon DEF RollbackClear
    <3>3. CASE ~uncertain
      <4>1. uncertain = FALSE
        BY <3>3, Zenon DEF FlagsTypeOK
      <4>. QED BY <3>1, <3>2, <4>1, Zenon
    <3>4. CASE uncertain /\ uncertain' = FALSE
      <4>1. IInv'
        BY NextIInv
      <4>2. (RouteOf(upstream) = release)'
        BY <3>4, <4>1
      <4>. QED BY <3>1, <3>4, <4>2 DEF Release!Settle
    <3>. QED BY <3>1, <3>2, <3>3, <3>4
  <2>5. CASE NginxLoad
    BY <2>5 DEF NginxLoad, Release!Move
  <2>6. CASE ActivateCandidate \/ FinalizeUpstream \/ RollbackCopy
    <3> HIDE DEF IInv, TypeOK
    <3>1. UNCHANGED <<release, nginx, uncertain>>
      BY <2>6, Zenon DEF ActivateCandidate, FinalizeUpstream, RollbackCopy
    <3>2. RouteOf(upstream') \in Routes
      <4>1. TypeOK'
        BY NextIInv DEF IInv
      <4>. QED BY <4>1, ConfigFacts DEF TypeOK
    <3>. QED BY <2>6, <3>1, <3>2, SwitchedUnderMarker DEF Release!Plan
  <2>8. CASE Next /\ ~MarkUncertain /\ ~WriteRelease /\ ~ClearMarker
                  /\ ~RollbackClear /\ ~NginxLoad /\ ~ActivateCandidate
                  /\ ~FinalizeUpstream /\ ~RollbackCopy
    BY <2>8, RecordWriters
  <2>7. CASE UNCHANGED vars
    BY <2>7 DEF vars, disk
  <2>. QED BY <2>1, <2>2, <2>3, <2>4, <2>5, <2>6, <2>7, <2>8
<1>. QED BY <1>1, <1>2, InvariantHolds, PTL DEF Spec, ImplementsRecordedRelease, Release!Spec

-----------------------------------------------------------------------------
(* How a run ends: what its exit status, the marker and the observers it   *)
(* leaves say; that the previous frontend keeps its slot, and that nothing *)
(* is undone after the commit.                                             *)

(* The old slot, the marker and the exit status.                           *)

\* The old slot runs until it is retired, which is after the release was recorded.
OldSlotRuns == pc \in {"clear_marker", "retire"} => container[active.slot] # Absent

\* Where the marker has been removed, or was never written.
MarkerGone ==
    /\ pc \in {"retire", "rb_remove"} => ~uncertain
    /\ pc = "remove_inactive" /\ trapped => ~uncertain

EndInv == OldSlotRuns /\ MarkerGone /\ SuccessMeansCutover /\ PlainFailureUnblocked

\* The steps up to the cutover keep it.
LEMMA PreparingEnds ==
  ASSUME IInv, IInv', EndInv,
         Start \/ BuildInactive \/ StartInactive \/ WaitInactive
         \/ CheckFresh \/ WriteCandidate \/ TestCandidate \/ CaptureStatic
         \/ SnapshotUpstream \/ StartProbe \/ StartSse \/ VerifyObservers
         \/ MarkUncertain \/ BeginCutover
  PROVE  EndInv'
<1> USE ConfigFacts, OtherSlot, AbsentAssumption DEF
      EndInv, OldSlotRuns, MarkerGone, SuccessMeansCutover, PlainFailureUnblocked,
      IInv, TypeOK, ReleaseRuns, ServingSlotsRun, SlotRuns, Truthful, RecordFollowsPc,
      MarkerFollowsPc, FilesFollowPc, Serves, NewRoute, inactive, NewConfig, Routes,
      BeforeStart, BeforeMark, Cutover, AfterCommit, Switched, Confirmed, Finalized,
      Check, Goto, Exit, Leave, RollbackFails, RemoveSlot, RemoveSlotFails,
      AbortObservers, disk, observers, locals
<1>1. CASE Start
  BY <1>1 DEF Start, Preflight
<1>2. CASE BuildInactive
  BY <1>2 DEF BuildInactive
<1>3. CASE StartInactive
  BY <1>3 DEF StartInactive
<1>4. CASE WaitInactive
  BY <1>4 DEF WaitInactive
<1>5. CASE CheckFresh
  BY <1>5 DEF CheckFresh
<1>6. CASE WriteCandidate
  BY <1>6 DEF WriteCandidate
<1>7. CASE TestCandidate
  BY <1>7 DEF TestCandidate
<1>8. CASE CaptureStatic
  BY <1>8 DEF CaptureStatic
<1>9. CASE SnapshotUpstream
  BY <1>9 DEF SnapshotUpstream
<1>10. CASE StartProbe
  BY <1>10 DEF StartProbe
<1>11. CASE StartSse
  BY <1>11 DEF StartSse
<1>12. CASE VerifyObservers
  BY <1>12 DEF VerifyObservers
<1>13. CASE MarkUncertain
  BY <1>13 DEF MarkUncertain
<1>14. CASE BeginCutover
  BY <1>14 DEF BeginCutover
<1>. QED BY <1>1, <1>2, <1>3, <1>4, <1>5, <1>6, <1>7, <1>8, <1>9, <1>10, <1>11, <1>12, <1>13, <1>14

\* The steps of the cutover keep it.
LEMMA SwitchingEnds ==
  ASSUME IInv, IInv', EndInv,
         ActivateCandidate \/ ReloadNginx \/ SignalSseCutover
         \/ ConfirmNewSlot \/ CheckStatic \/ Revalidate \/ WaitDrain
         \/ FinalizeUpstream \/ FinalizeReload \/ FinalizeIdentity
         \/ FinishProbe \/ FinishSse
  PROVE  EndInv'
<1> USE ConfigFacts, OtherSlot, AbsentAssumption DEF
      EndInv, OldSlotRuns, MarkerGone, SuccessMeansCutover, PlainFailureUnblocked,
      IInv, TypeOK, ReleaseRuns, ServingSlotsRun, SlotRuns, Truthful, RecordFollowsPc,
      MarkerFollowsPc, FilesFollowPc, Serves, NewRoute, inactive, NewConfig, Routes,
      BeforeStart, BeforeMark, Cutover, AfterCommit, Switched, Confirmed, Finalized,
      Check, Goto, Exit, Leave, RollbackFails, RemoveSlot, RemoveSlotFails,
      AbortObservers, disk, observers, locals
<1>1. CASE ActivateCandidate
  BY <1>1 DEF ActivateCandidate
<1>2. CASE ReloadNginx
  BY <1>2 DEF ReloadNginx
<1>3. CASE SignalSseCutover
  BY <1>3 DEF SignalSseCutover
<1>4. CASE ConfirmNewSlot
  BY <1>4 DEF ConfirmNewSlot
<1>5. CASE CheckStatic
  BY <1>5 DEF CheckStatic
<1>6. CASE Revalidate
  BY <1>6 DEF Revalidate
<1>7. CASE WaitDrain
  BY <1>7 DEF WaitDrain
<1>8. CASE FinalizeUpstream
  BY <1>8 DEF FinalizeUpstream
<1>9. CASE FinalizeReload
  BY <1>9 DEF FinalizeReload
<1>10. CASE FinalizeIdentity
  BY <1>10 DEF FinalizeIdentity
<1>11. CASE FinishProbe
  BY <1>11 DEF FinishProbe
<1>12. CASE FinishSse
  BY <1>12 DEF FinishSse
<1>. QED BY <1>1, <1>2, <1>3, <1>4, <1>5, <1>6, <1>7, <1>8, <1>9, <1>10, <1>11, <1>12

\* Recording the release and retiring the old slot keep it.
LEMMA CommittingEnds ==
  ASSUME IInv, IInv', EndInv,
         Commit \/ WriteRelease \/ ClearMarker \/ RetireOldSlot
  PROVE  EndInv'
<1> USE ConfigFacts, OtherSlot, AbsentAssumption DEF
      EndInv, OldSlotRuns, MarkerGone, SuccessMeansCutover, PlainFailureUnblocked,
      IInv, TypeOK, ReleaseRuns, ServingSlotsRun, SlotRuns, Truthful, RecordFollowsPc,
      MarkerFollowsPc, FilesFollowPc, Serves, NewRoute, inactive, NewConfig, Routes,
      BeforeStart, BeforeMark, Cutover, AfterCommit, Switched, Confirmed, Finalized,
      Check, Goto, Exit, Leave, RollbackFails, RemoveSlot, RemoveSlotFails,
      AbortObservers, disk, observers, locals
<1>1. CASE Commit
  BY <1>1 DEF Commit
<1>2. CASE WriteRelease
  BY <1>2 DEF WriteRelease
<1>3. CASE ClearMarker
  BY <1>3 DEF ClearMarker
<1>4. CASE RetireOldSlot
  BY <1>4 DEF RetireOldSlot
<1>. QED BY <1>1, <1>2, <1>3, <1>4

\* The failure paths, the signal handler and a kill keep it.
LEMMA RecoveringEnds ==
  ASSUME IInv, IInv', EndInv,
         FailBeforeCutover \/ RemoveInactive \/ FailAfterCutover
         \/ RollbackCopy \/ RollbackReload \/ RollbackIdentity
         \/ RollbackClear \/ RollbackRemove \/ OnSignal \/ Crash
  PROVE  EndInv'
<1> USE ConfigFacts, OtherSlot, AbsentAssumption DEF
      EndInv, OldSlotRuns, MarkerGone, SuccessMeansCutover, PlainFailureUnblocked,
      IInv, TypeOK, ReleaseRuns, ServingSlotsRun, SlotRuns, Truthful, RecordFollowsPc,
      MarkerFollowsPc, FilesFollowPc, Serves, NewRoute, inactive, NewConfig, Routes,
      BeforeStart, BeforeMark, Cutover, AfterCommit, Switched, Confirmed, Finalized,
      Check, Goto, Exit, Leave, RollbackFails, RemoveSlot, RemoveSlotFails,
      AbortObservers, disk, observers, locals
<1>1. CASE FailBeforeCutover
  BY <1>1 DEF FailBeforeCutover
<1>2. CASE RemoveInactive
  BY <1>2 DEF RemoveInactive
<1>3. CASE FailAfterCutover
  BY <1>3 DEF FailAfterCutover
<1>4. CASE RollbackCopy
  BY <1>4 DEF RollbackCopy
<1>5. CASE RollbackReload
  BY <1>5 DEF RollbackReload
<1>6. CASE RollbackIdentity
  BY <1>6 DEF RollbackIdentity
<1>7. CASE RollbackClear
  BY <1>7 DEF RollbackClear
<1>8. CASE RollbackRemove
  BY <1>8 DEF RollbackRemove
<1>9. CASE OnSignal
  BY <1>9 DEF OnSignal
<1>10. CASE Crash
  BY <1>10 DEF Crash
<1>. QED BY <1>1, <1>2, <1>3, <1>4, <1>5, <1>6, <1>7, <1>8, <1>9, <1>10

\* What happens around the script keeps it.
LEMMA SurroundingEnds ==
  ASSUME IInv, IInv', EndInv,
         Push \/ NginxLoad \/ ProbeStep \/ SseStep
  PROVE  EndInv'
<1> USE ConfigFacts, OtherSlot, AbsentAssumption DEF
      EndInv, OldSlotRuns, MarkerGone, SuccessMeansCutover, PlainFailureUnblocked,
      IInv, TypeOK, ReleaseRuns, ServingSlotsRun, SlotRuns, Truthful, RecordFollowsPc,
      MarkerFollowsPc, FilesFollowPc, Serves, NewRoute, inactive, NewConfig, Routes,
      BeforeStart, BeforeMark, Cutover, AfterCommit, Switched, Confirmed, Finalized,
      Check, Goto, Exit, Leave, RollbackFails, RemoveSlot, RemoveSlotFails,
      AbortObservers, disk, observers, locals
<1>1. CASE Push
  BY <1>1 DEF Push
<1>2. CASE NginxLoad
  BY <1>2 DEF NginxLoad
<1>3. CASE ProbeStep
  BY <1>3 DEF ProbeStep
<1>4. CASE SseStep
  BY <1>4 DEF SseStep
<1>. QED BY <1>1, <1>2, <1>3, <1>4

\* What a run leaves behind is as its exit status says, and the old slot runs.
LEMMA EndInvHolds == Spec => []EndInv
<1>1. Init => EndInv
  BY DEF Init, EndInv, OldSlotRuns, MarkerGone, SuccessMeansCutover, PlainFailureUnblocked
<1>2. IInv /\ IInv' /\ EndInv /\ [Next]_vars => EndInv'
  <2> SUFFICES ASSUME IInv, IInv', EndInv, [Next]_vars PROVE EndInv'
    OBVIOUS
  <2>1. CASE Next
    BY <2>1, PreparingEnds, SwitchingEnds, CommittingEnds, RecoveringEnds,
       SurroundingEnds DEF Next, Run
  <2>2. CASE UNCHANGED vars
    BY <2>2 DEF vars, disk, locals, EndInv, OldSlotRuns, MarkerGone, SuccessMeansCutover,
       PlainFailureUnblocked, Serves, NewRoute, inactive, RouteOf
  <2>. QED BY <2>1, <2>2
<1>. QED BY <1>1, <1>2, InvariantHolds, PTL DEF Spec

\* Exit status 0 means that the target is recorded and served (line 548).
THEOREM SuccessAlwaysMeansCutover == Spec => []SuccessMeansCutover
BY EndInvHolds, PTL DEF EndInv

\* A plain failure leaves the marker only once the release was recorded.
THEOREM PlainFailureAlwaysUnblocked == Spec => []PlainFailureUnblocked
BY EndInvHolds, PTL DEF EndInv

\* Through the whole cutover the slot of the previous frontend runs.
THEOREM FallbackAlwaysRuns == Spec => []FallbackRuns
<1>1. IInv /\ EndInv => FallbackRuns
  <2> SUFFICES ASSUME IInv, EndInv, pc \in Cutover \cup AfterCommit
               PROVE  container[nginx.prev] # Absent /\ container[upstream.prev] # Absent
    BY DEF FallbackRuns
  <2>1. container[active.slot] # Absent
    BY AbsentAssumption DEF IInv, TypeOK, EndInv, OldSlotRuns, ReleaseRuns, SlotRuns,
       RecordFollowsPc, Cutover, AfterCommit, Routes
  <2>2. container[inactive] # Absent
    <3>1. CASE pc = "activate"
      BY <3>1, AbsentAssumption DEF IInv, TypeOK, FilesFollowPc, Prepared
    <3>2. CASE pc # "activate"
      <4>1. RouteOf(upstream) = NewRoute
        BY <3>2 DEF IInv, FilesFollowPc, Switched
      <4>2. upstream.slot = inactive /\ upstream.sha \in Shas
        BY <4>1, ConfigFacts DEF IInv, TypeOK, NewRoute, Configs
      <4>. QED BY <4>2, AbsentAssumption DEF IInv, ServingSlotsRun
    <3>. QED BY <3>1, <3>2
  <2>3. nginx.prev \in {active.slot, inactive} /\ upstream.prev \in {active.slot, inactive}
    BY DEF IInv, TypeOK, Configs, Routes, Slots, inactive, Other
  <2>. QED BY <2>1, <2>2, <2>3
<1>. QED BY <1>1, InvariantHolds, EndInvHolds, PTL

-----------------------------------------------------------------------------
(* The observers.                                                          *)

ObserversOff == probe = "off" /\ sse = "off"

\* Where the script has not started its observers, or has stopped them, and where
\* the traps that stop them are armed.
ObserversFollowPc ==
    /\ pc \in BeforeStart \cup (BeforeMark \ {"sse", "verify", "mark"})
            \cup {"commit"} \cup AfterCommit \cup (Recovery \ {"fail_before", "fail_after"})
         => ObserversOff
    /\ pc \in BeforeStart \cup BeforeMark \cup Cutover \cup AfterCommit
            \cup {"cutover", "fail_before", "fail_after"}
         => trapped
    /\ pc = "sse" => sse = "off"
    /\ pc = "finish_sse" => probe = "off"
    /\ ~requireSse => sse = "off"

WatchInv == ObserversFollowPc /\ NoOrphanObservers

\* The steps up to the cutover keep it.
LEMMA PreparingWatch ==
  ASSUME IInv, WatchInv,
         Start \/ BuildInactive \/ StartInactive \/ WaitInactive
         \/ CheckFresh \/ WriteCandidate \/ TestCandidate \/ CaptureStatic
         \/ SnapshotUpstream \/ StartProbe \/ StartSse \/ VerifyObservers
         \/ MarkUncertain \/ BeginCutover
  PROVE  WatchInv'
<1> USE DEF WatchInv, ObserversFollowPc, ObserversOff, NoOrphanObservers,
      IInv, TypeOK, FlagsFollowPc, Labels, BeforeStart, BeforeMark, Cutover, AfterCommit,
      Recovery, RollingBack, Check, Goto, Exit, Leave, RollbackFails, AbortObservers,
      disk, observers, locals
<1>1. CASE Start
  BY <1>1 DEF Start, Preflight
<1>2. CASE BuildInactive
  BY <1>2 DEF BuildInactive
<1>3. CASE StartInactive
  BY <1>3 DEF StartInactive
<1>4. CASE WaitInactive
  BY <1>4 DEF WaitInactive
<1>5. CASE CheckFresh
  BY <1>5 DEF CheckFresh
<1>6. CASE WriteCandidate
  BY <1>6 DEF WriteCandidate
<1>7. CASE TestCandidate
  BY <1>7 DEF TestCandidate
<1>8. CASE CaptureStatic
  BY <1>8 DEF CaptureStatic
<1>9. CASE SnapshotUpstream
  BY <1>9 DEF SnapshotUpstream
<1>10. CASE StartProbe
  BY <1>10 DEF StartProbe
<1>11. CASE StartSse
  BY <1>11 DEF StartSse
<1>12. CASE VerifyObservers
  BY <1>12 DEF VerifyObservers
<1>13. CASE MarkUncertain
  BY <1>13 DEF MarkUncertain
<1>14. CASE BeginCutover
  BY <1>14 DEF BeginCutover
<1>. QED BY <1>1, <1>2, <1>3, <1>4, <1>5, <1>6, <1>7, <1>8, <1>9, <1>10, <1>11, <1>12, <1>13, <1>14

\* The steps of the cutover keep it.
LEMMA SwitchingWatch ==
  ASSUME IInv, WatchInv,
         ActivateCandidate \/ ReloadNginx \/ SignalSseCutover
         \/ ConfirmNewSlot \/ CheckStatic \/ Revalidate \/ WaitDrain
         \/ FinalizeUpstream \/ FinalizeReload \/ FinalizeIdentity
         \/ FinishProbe \/ FinishSse
  PROVE  WatchInv'
<1> USE DEF WatchInv, ObserversFollowPc, ObserversOff, NoOrphanObservers,
      IInv, TypeOK, FlagsFollowPc, Labels, BeforeStart, BeforeMark, Cutover, AfterCommit,
      Recovery, RollingBack, Check, Goto, Exit, Leave, RollbackFails, AbortObservers,
      disk, observers, locals
<1>1. CASE ActivateCandidate
  BY <1>1 DEF ActivateCandidate
<1>2. CASE ReloadNginx
  BY <1>2 DEF ReloadNginx
<1>3. CASE SignalSseCutover
  BY <1>3 DEF SignalSseCutover
<1>4. CASE ConfirmNewSlot
  BY <1>4 DEF ConfirmNewSlot
<1>5. CASE CheckStatic
  BY <1>5 DEF CheckStatic
<1>6. CASE Revalidate
  BY <1>6 DEF Revalidate
<1>7. CASE WaitDrain
  BY <1>7 DEF WaitDrain
<1>8. CASE FinalizeUpstream
  BY <1>8 DEF FinalizeUpstream
<1>9. CASE FinalizeReload
  BY <1>9 DEF FinalizeReload
<1>10. CASE FinalizeIdentity
  BY <1>10 DEF FinalizeIdentity
<1>11. CASE FinishProbe
  BY <1>11 DEF FinishProbe
<1>12. CASE FinishSse
  BY <1>12 DEF FinishSse
<1>. QED BY <1>1, <1>2, <1>3, <1>4, <1>5, <1>6, <1>7, <1>8, <1>9, <1>10, <1>11, <1>12

\* Recording the release and retiring the old slot keep it.
LEMMA CommittingWatch ==
  ASSUME IInv, WatchInv,
         Commit \/ WriteRelease \/ ClearMarker \/ RetireOldSlot
  PROVE  WatchInv'
<1> USE DEF WatchInv, ObserversFollowPc, ObserversOff, NoOrphanObservers,
      IInv, TypeOK, FlagsFollowPc, Labels, BeforeStart, BeforeMark, Cutover, AfterCommit,
      Recovery, RollingBack, Check, Goto, Exit, Leave, RollbackFails, AbortObservers,
      disk, observers, locals
<1>1. CASE Commit
  BY <1>1 DEF Commit
<1>2. CASE WriteRelease
  BY <1>2 DEF WriteRelease
<1>3. CASE ClearMarker
  BY <1>3 DEF ClearMarker
<1>4. CASE RetireOldSlot
  BY <1>4 DEF RetireOldSlot
<1>. QED BY <1>1, <1>2, <1>3, <1>4

\* The failure paths, the signal handler and a kill keep it.
LEMMA RecoveringWatch ==
  ASSUME IInv, WatchInv,
         FailBeforeCutover \/ RemoveInactive \/ FailAfterCutover
         \/ RollbackCopy \/ RollbackReload \/ RollbackIdentity
         \/ RollbackClear \/ RollbackRemove \/ OnSignal \/ Crash
  PROVE  WatchInv'
<1> USE DEF WatchInv, ObserversFollowPc, ObserversOff, NoOrphanObservers,
      IInv, TypeOK, FlagsFollowPc, Labels, BeforeStart, BeforeMark, Cutover, AfterCommit,
      Recovery, RollingBack, Check, Goto, Exit, Leave, RollbackFails, AbortObservers,
      disk, observers, locals
<1>1. CASE FailBeforeCutover
  BY <1>1 DEF FailBeforeCutover
<1>2. CASE RemoveInactive
  BY <1>2 DEF RemoveInactive
<1>3. CASE FailAfterCutover
  BY <1>3 DEF FailAfterCutover
<1>4. CASE RollbackCopy
  BY <1>4 DEF RollbackCopy
<1>5. CASE RollbackReload
  BY <1>5 DEF RollbackReload
<1>6. CASE RollbackIdentity
  BY <1>6 DEF RollbackIdentity
<1>7. CASE RollbackClear
  BY <1>7 DEF RollbackClear
<1>8. CASE RollbackRemove
  BY <1>8 DEF RollbackRemove
<1>9. CASE OnSignal
  BY <1>9 DEF OnSignal
<1>10. CASE Crash
  BY <1>10 DEF Crash
<1>. QED BY <1>1, <1>2, <1>3, <1>4, <1>5, <1>6, <1>7, <1>8, <1>9, <1>10

\* What happens around the script keeps it.
LEMMA SurroundingWatch ==
  ASSUME IInv, WatchInv,
         Push \/ NginxLoad \/ ProbeStep \/ SseStep
  PROVE  WatchInv'
<1> USE DEF WatchInv, ObserversFollowPc, ObserversOff, NoOrphanObservers,
      IInv, TypeOK, FlagsFollowPc, Labels, BeforeStart, BeforeMark, Cutover, AfterCommit,
      Recovery, RollingBack, Check, Goto, Exit, Leave, RollbackFails, AbortObservers,
      disk, observers, locals
<1>1. CASE Push
  BY <1>1 DEF Push
<1>2. CASE NginxLoad
  BY <1>2 DEF NginxLoad
<1>3. CASE ProbeStep
  BY <1>3 DEF ProbeStep
<1>4. CASE SseStep
  BY <1>4 DEF SseStep
<1>. QED BY <1>1, <1>2, <1>3, <1>4

\* A run that ends by itself or by a signal leaves no observer that keeps the lock.
THEOREM NoOrphans == Spec => []NoOrphanObservers
<1>1. Init => WatchInv
  BY DEF Init, WatchInv, ObserversFollowPc, ObserversOff, NoOrphanObservers, BeforeStart,
        BeforeMark, Cutover, AfterCommit, Recovery
<1>2. IInv /\ WatchInv /\ [Next]_vars => WatchInv'
  <2> SUFFICES ASSUME IInv, WatchInv, [Next]_vars PROVE WatchInv'
    OBVIOUS
  <2>1. CASE Next
    BY <2>1, PreparingWatch, SwitchingWatch, CommittingWatch, RecoveringWatch,
       SurroundingWatch DEF Next, Run
  <2>2. CASE UNCHANGED vars
    BY <2>2 DEF vars, observers, locals, WatchInv, ObserversFollowPc, ObserversOff,
       NoOrphanObservers
  <2>. QED BY <2>1, <2>2
<1>. QED BY <1>1, <1>2, InvariantHolds, PTL DEF Spec, WatchInv

-----------------------------------------------------------------------------
(* After the commit.                                                       *)

\* Once committed, no step changes the routing or the slot it names (line 533).
THEOREM CommitAlwaysFinal == Spec => CommitIsFinal
<1> DEFINE Kept == committed /\ committed' =>
                     /\ upstream' = upstream
                     /\ container'[upstream.slot] = container[upstream.slot]
<1>1. IInv /\ [Next]_vars => Kept
  <2> SUFFICES ASSUME IInv, [Next]_vars, committed, committed'
               PROVE  /\ upstream' = upstream
                      /\ container'[upstream.slot] = container[upstream.slot]
    OBVIOUS
  <2>1. pc \in AfterCommit \cup {"idle"}
    BY DEF IInv, FlagsFollowPc
  <2>2. CASE RetireOldSlot
    <3>1. upstream.slot = inactive /\ inactive # active.slot /\ upstream.slot \in Slots
      BY <2>2, ConfigFacts, OtherSlot DEF RetireOldSlot, IInv, TypeOK, FilesFollowPc, Switched,
         AfterCommit, NewRoute, inactive, Routes, Configs
    <3>2. upstream' = upstream /\ (container' = container \/ RemoveSlot(active.slot))
      BY <2>2 DEF RetireOldSlot, RemoveSlotFails
    <3>. QED BY <3>1, <3>2 DEF RemoveSlot, IInv, TypeOK
  <2>3. CASE UNCHANGED <<upstream, container>>
    BY <2>3
  <2>4. CASE Start
    BY <2>4 DEF Start
  <2>5. CASE Next /\ ~RetireOldSlot /\ ~Start
    <3>1. UNCHANGED <<upstream, container>>
      BY <2>1, <2>5 DEF Next, Run, AfterCommit, Check, disk, BuildInactive, StartInactive,
         WaitInactive, CheckFresh, WriteCandidate, TestCandidate, CaptureStatic,
         SnapshotUpstream, StartProbe, StartSse, VerifyObservers, MarkUncertain, BeginCutover,
         ActivateCandidate, ReloadNginx, SignalSseCutover, ConfirmNewSlot, CheckStatic,
         Revalidate, WaitDrain, FinalizeUpstream, FinalizeReload, FinalizeIdentity,
         FinishProbe, FinishSse, Commit, WriteRelease, ClearMarker, FailBeforeCutover,
         RemoveInactive, FailAfterCutover, RollbackCopy, RollbackReload, RollbackIdentity,
         RollbackClear, RollbackRemove, OnSignal, Crash, Push, NginxLoad, ProbeStep, SseStep
    <3>. QED BY <3>1
  <2>6. CASE UNCHANGED vars
    BY <2>6 DEF vars, disk
  <2>. QED BY <2>2, <2>4, <2>5, <2>6
<1>. QED BY <1>1, InvariantHolds, PTL DEF Spec, CommitIsFinal

=============================================================================
