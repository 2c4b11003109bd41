-------------------------- MODULE VmLifecycleProofs --------------------------
(***************************************************************************)
(* IInv of VmLifecycle is inductive, for every number of launches and      *)
(* faults, wherever a client disconnects.  The safety properties of the    *)
(* module follow, each up to the crash that loses a process (Lost).        *)
(*                                                                         *)
(* The first lemmas say what each elementary move of the model does.  The  *)
(* next ones say what keeps Core, the facts about processes and the row.   *)
(* Then there is one lemma per group of actions: from Good, in which       *)
(* nothing is lost, it leads to Sound.  The two action properties come     *)
(* last: what happens to a child follows from ChildInv, which holds of     *)
(* every state, and what is booted from Calm, which holds of behaviours    *)
(* without faults.                                                         *)
(***************************************************************************)
EXTENDS VmLifecycle, TLAPS

USE DEF None, Process, Devices, Inactive, Verified, RowState, BoundState,
        LiveState, StartOps, CallOps, DiskOps, Ops, Steps, Ended

Core == /\ OneAlive
        /\ row.state \in Ended => Quiet
        /\ IdentityCoherent
        /\ Named

Rest == ChildRecorded /\ HandlerCurrent /\ StepReady /\ NoOrphanBoots /\ DownIsIdle

Sound == TypeOK /\ Known

(* What a step may count on: no process has been lost. *)
Good == Sound /\ ~Lost

LEMMA GoodParts == Good => TypeOK /\ Core /\ Rest /\ ~Lost
  BY DEF Good, Sound, Known, Core, Rest

LEMMA GoodNext == TypeOK' /\ Core' /\ Rest' => Sound'
  BY DEF Sound, Known, Core, Rest

-----------------------------------------------------------------------------
(* Elementary moves *)

LEMMA EnterMove ==
  ASSUME NEW step \in Steps, NEW op \in Ops \cup {"Recover"},
         row \in Row, Enter(step, op, row.state, row.pid)
  PROVE  /\ h' \in Handler /\ h'.pc = step /\ h'.op = op
         /\ h'.state = row.state /\ h'.pid = row.pid
  BY LifecycleConstants DEF Enter, Handler, Row

LEMMA GotoMove ==
  ASSUME TypeOK, NEW step \in Steps, Goto(step)
  PROVE  /\ h' \in Handler /\ h'.pc = step /\ h'.op = h.op /\ h'.state = h.state
         /\ h'.pid = h.pid /\ h'.next = h.next /\ h'.new = h.new
  BY DEF Goto, TypeOK, Handler

LEMMA PlanMove ==
  ASSUME TypeOK, NEW step \in Steps, NEW next \in RowState \cup Devices, Plan(step, next)
  PROVE  /\ h' \in Handler /\ h'.pc = step /\ h'.op = h.op /\ h'.state = h.state
         /\ h'.pid = h.pid /\ h'.next = next /\ h'.new = h.new
<1>1. h' = [pc |-> step, op |-> h.op, state |-> h.state, pid |-> h.pid,
            next |-> next, new |-> h.new]
  BY DEF Plan, TypeOK, Handler
<1> QED BY <1>1 DEF TypeOK, Handler

LEMMA LearnMove ==
  ASSUME TypeOK, NEW step \in Steps, NEW s \in RowState, NEW p \in 0..MaxLaunch,
         Learn(step, s, p)
  PROVE  /\ h' \in Handler /\ h'.pc = step /\ h'.op = h.op /\ h'.state = s
         /\ h'.pid = p /\ h'.next = h.next /\ h'.new = h.new
<1>1. h' = [pc |-> step, op |-> h.op, state |-> s, pid |-> p,
            next |-> h.next, new |-> h.new]
  BY DEF Learn, TypeOK, Handler
<1> QED BY <1>1 DEF TypeOK, Handler

LEMMA ReleaseMove ==
  ASSUME Release
  PROVE  h' \in Handler /\ h'.pc = "idle"
  BY LifecycleConstants DEF Release, Idle, Handler

LEMMA FailMove ==
  ASSUME TypeOK, Fail
  PROVE  /\ h' \in Handler
         /\ \/ h'.pc = "idle"
            \/ /\ h.state = "starting" /\ h'.pc = "errstop" /\ h'.state = "starting"
               /\ h'.pid = h.pid
  BY GotoMove, ReleaseMove DEF Fail

LEMMA VmStateMove ==
  ASSUME TypeOK, NEW s \in RowState, NEW p \in 0..MaxLaunch, SetVmState(s, p)
  PROVE  row' \in Row /\ row'.state = s /\ row'.pid = p /\ row'.start = row.start
<1>1. row' = [state |-> s, pid |-> p, start |-> row.start]
  BY DEF SetVmState, TypeOK, Row
<1> QED BY <1>1 DEF TypeOK, Row

LEMMA ProcessMove ==
  ASSUME TypeOK, NEW p \in 0..MaxLaunch, SetProcess(p)
  PROVE  row' \in Row /\ row'.state = row.state /\ row'.pid = p /\ row'.start = p
<1>1. row' = [state |-> row.state, pid |-> p, start |-> p]
  BY DEF SetProcess, TypeOK, Row
<1> QED BY <1>1 DEF TypeOK, Row

LEMMA BecomesMove ==
  ASSUME TypeOK, NEW n \in Process, NEW st \in LiveState \cup {"dead"}, Becomes(n, st)
  PROVE  /\ proc' \in [Process -> Proc]
         /\ \A m \in Process : proc'[m].st = IF m = n THEN st ELSE proc[m].st
<1>1. proc' \in [Process -> Proc]
  BY DEF Becomes, TypeOK, Proc
<1>2. \A m \in Process : proc'[m].st = IF m = n THEN st ELSE proc[m].st
  BY DEF Becomes, TypeOK, Proc
<1> QED BY <1>1, <1>2

LEMMA KillMove ==
  ASSUME TypeOK, NEW n \in Process, Kill(n)
  PROVE  /\ proc' \in [Process -> Proc]
         /\ \A m \in Process : Live(m)' <=> Live(m) /\ m # n
         /\ \A m \in Process : Bound(m)' <=> Bound(m) /\ m # n
<1>1. /\ proc' \in [Process -> Proc]
      /\ \A m \in Process : proc'[m].st = IF m = n THEN "dead" ELSE proc[m].st
  BY BecomesMove DEF Kill
<1> QED BY <1>1 DEF Live, Bound

LEMMA StaysBound ==
  ASSUME TypeOK, NEW n \in Process, Bound(n), NEW st \in BoundState, Becomes(n, st)
  PROVE  /\ proc' \in [Process -> Proc]
         /\ \A m \in Process : (Live(m)' <=> Live(m)) /\ (Bound(m)' <=> Bound(m))
<1>1. /\ proc' \in [Process -> Proc]
      /\ \A m \in Process : proc'[m].st = IF m = n THEN st ELSE proc[m].st
  BY BecomesMove
<1> QED BY <1>1 DEF Live, Bound

LEMMA LivesIsProcess ==
  /\ \A p : Live(p) => p \in Process
  /\ \A p : Live(p)' => p \in Process
  BY DEF Live

LEMMA RemoveMove ==
  ASSUME TypeOK, RemoveTap
  PROVE  tap' \in {"none", "down", "stuck"}
  BY DEF RemoveTap, Removed, TypeOK

LEMMA Ranges ==
  /\ AfterRefresh \in {"idle", "guard", "claim", "recover"}
  /\ \A n \in Process : Bound(n) => Reported(n) \in Verified
  /\ h.op \in CallOps =>
       /\ CallEffect(h.op).to \in {"running", "paused", "same"}
       /\ CallEffect(h.op).next \in {"running", "paused", h.state}
<1>1. AfterRefresh \in {"idle", "guard", "claim", "recover"}
  BY DEF AfterRefresh
<1>2. \A n \in Process : Bound(n) => Reported(n) \in Verified
  BY DEF Bound, Reported
<1>3. h.op \in CallOps =>
       /\ CallEffect(h.op).to \in {"running", "paused", "same"}
       /\ CallEffect(h.op).next \in {"running", "paused", h.state}
  BY DEF CallEffect
<1> QED BY <1>1, <1>2, <1>3

LEMMA FirstSteps ==
  ASSUME NEW op \in Ops
  PROVE  /\ FirstStep(op) \in {"probe", "raw", "call", "stop", "restore"}
         /\ FirstStep(op) = "call" => op \in CallOps
  BY DEF FirstStep

-----------------------------------------------------------------------------
(* What keeps Core *)

(* Steps that touch neither the row nor a process, and bring no device of   *)
(* an inactive VM up.                                                       *)
LEMMA CoreKept ==
  ASSUME Core, UNCHANGED <<row, proc, sock, child, identity>>,
         row.state \in Ended => ~eng' /\ tap' # "up"
  PROVE  Core'
  BY DEF Core, OneAlive, Quiet, Settled, NoLive, Live, Bound, IdentityCoherent, Named

(* Calls that move a process from one state of its API to another. *)
LEMMA CoreSame ==
  ASSUME Core, UNCHANGED <<row, sock, child, tap, eng, identity>>,
         \A m \in Process : (Live(m)' <=> Live(m)) /\ (Bound(m)' <=> Bound(m))
  PROVE  Core'
  BY DEF Core, OneAlive, Quiet, Settled, NoLive, IdentityCoherent, Live, Named

(* Steps after which no process of the VM lives. *)
LEMMA CoreSettled ==
  ASSUME NoLive', UNCHANGED <<row, identity>>, Core,
         row.state \in Ended => child' = None /\ ~eng' /\ tap' # "up"
  PROVE  Core'
<1>1. \A n \in Process : ~Live(n)' /\ ~Bound(n)'
  BY DEF NoLive, Live, Bound
<1> QED BY <1>1 DEF Core, OneAlive, Quiet, Settled, NoLive, IdentityCoherent, Live, Named

(* Writes to the row that record no other process than the one that lives. *)
LEMMA CoreWritten ==
  ASSUME Core, UNCHANGED <<proc, sock, child, tap, eng>>,
         row'.state \in Ended => Quiet,
         IdentityCoherent',
         \A n \in Process : Live(n) /\ row'.pid # None => row'.pid = n
  PROVE  Core'
  BY DEF Core, OneAlive, Quiet, Settled, NoLive, Live, Bound, IdentityCoherent, Named

-----------------------------------------------------------------------------
(* The handler lets go of the mutex *)

LEMMA Released ==
  ASSUME Release, ChildRecorded, h.pc # "setproc", UNCHANGED <<child, identity>>,
         row'.start = row.start
  PROVE  Rest'
  BY DEF Release, Idle, Rest, ChildRecorded, HandlerCurrent, StepReady,
         NoOrphanBoots, DownIsIdle, Launching

(* Where a handler may fail, the error path finds what it needs. *)
LEMMA Failed ==
  ASSUME TypeOK, Rest, Fail, h.pc \notin {"idle", "setproc", "insert"},
         h.pid = row.pid \/ (h.pid = None /\ child = row.pid),
         UNCHANGED <<row, child, up, identity>>,
         \/ UNCHANGED proc
         \/ \A m \in Process : (Live(m)' <=> Live(m)) /\ (Bound(m)' <=> Bound(m))
  PROVE  h' \in Handler /\ Rest'
<1>1. /\ h' \in Handler
      /\ \/ h'.pc = "idle"
         \/ /\ h.state = "starting" /\ h'.pc = "errstop" /\ h'.state = "starting"
            /\ h'.pid = h.pid
  BY FailMove
<1>2. NoOrphanBoots'
  BY <1>1 DEF Rest, NoOrphanBoots, Live, Bound
<1> QED BY <1>1, <1>2 DEF Rest, ChildRecorded, HandlerCurrent, StepReady,
         DownIsIdle, Launching

-----------------------------------------------------------------------------
(* Entering a handler *)

LEMMA BeginInv == ASSUME Good, NEW op \in Ops, Begin(op) PROVE Sound'
<1>1. TypeOK /\ Core /\ Rest /\ ~Lost
  BY GoodParts
<1>2. /\ h' \in Handler /\ h'.pc \in {"probe", "raw", "call", "stop", "restore"}
      /\ h'.state = row.state /\ h'.pid = row.pid
      /\ h'.pc = "call" => h'.op \in CallOps
  <2>1. /\ FirstStep(op) \in {"probe", "raw", "call", "stop", "restore"}
        /\ FirstStep(op) = "call" => op \in CallOps
    BY FirstSteps
  <2>2. row \in Row /\ op \in Ops \cup {"Recover"}
    BY <1>1 DEF TypeOK
  <2>3. PICK step \in {"probe", "raw", "call", "stop", "restore"} :
          step = FirstStep(op) /\ Enter(step, op, row.state, row.pid)
    BY <2>1 DEF Begin
  <2> QED BY <2>1, <2>2, <2>3, EnterMove
<1>3. UNCHANGED <<row, proc, sock, child, tap, eng, up, launches, faults, identity>>
  BY DEF Begin, procVars, netVars, meterVars
<1>4. TypeOK'
  BY <1>1, <1>2, <1>3 DEF TypeOK
<1>5. Core'
  BY <1>1, <1>3, CoreKept DEF Core, Quiet
<1>6. Rest'
  BY <1>1, <1>2, <1>3 DEF Begin, Rest, ChildRecorded, HandlerCurrent, StepReady,
     NoOrphanBoots, DownIsIdle, Launching, OrphansBound
<1> QED BY <1>4, <1>5, <1>6, GoodNext

-----------------------------------------------------------------------------
(* Runtime::refresh *)

LEMMA ReturnMove ==
  ASSUME TypeOK, NEW s \in RowState, NEW p \in 0..MaxLaunch, Return(s, p)
  PROVE  /\ h' \in Handler /\ h'.pc \in {"idle", "guard", "claim", "recover"}
         /\ h'.pc # "idle" => h'.state = s /\ h'.pid = p
  BY LearnMove, ReleaseMove, Ranges DEF Return

(* The handler's copy of the row, while refresh works on it. *)
LEMMA RefreshReads ==
  ASSUME Rest, h.pc \in {"probe", "adopt", "clean", "write"}
  PROVE  h.state = row.state /\ h.pid = row.pid
  BY DEF Rest, HandlerCurrent

(* is_process_stopped never says so of a process that lives. *)
LEMMA StoppedIsDead ==
  ASSUME TypeOK, Core, ~Lost, h.pid = row.pid, IsProcessStopped
  PROVE  NoLive
  BY DEF Core, Lost, IdentityCoherent, Named, IsProcessStopped, IsAlive, NoLive, Live, TypeOK, Row

LEMMA ReapMove ==
  ASSUME TypeOK, Core, Rest, Reap
  PROVE  /\ child' \in 0..MaxLaunch
         /\ child' # None => child' = child
         /\ NoLive => child' = None
         /\ child' = None => child = None \/ NoLive
  BY LifecycleConstants DEF Reap, NoLive, Live, TypeOK, Core, Named

(* A reaped child leaves Core as it was. *)
LEMMA CoreReaped ==
  ASSUME TypeOK, Core, Rest, Reap, UNCHANGED <<row, proc, sock, identity>>,
         row.state \in Ended => ~eng' /\ tap' # "up"
  PROVE  Core'
<1>1. child' # None => child' = child
  BY ReapMove
<1>2. row.state \in Ended => child' = None
  BY ReapMove DEF Core, Quiet, Settled
<1>3. IdentityCoherent'
  BY <1>1, LivesIsProcess, ReapMove DEF Core, IdentityCoherent, NoLive, Live
<1>4. OneAlive' /\ Named' /\ (row.state \in Ended => Quiet)'
  BY <1>1, <1>2 DEF Core, OneAlive, Quiet, Settled, NoLive, Live, Bound, Named
<1> QED BY <1>3, <1>4 DEF Core

LEMMA RefreshInv == Good /\ Refresh => Sound'
<1> SUFFICES ASSUME Good, Refresh PROVE Sound'
  OBVIOUS
<1>1. TypeOK /\ Core /\ Rest /\ ~Lost
  BY GoodParts
<1>2. row.state \in RowState /\ row.pid \in 0..MaxLaunch /\ None \in 0..MaxLaunch
  BY <1>1, LifecycleConstants DEF TypeOK, Row
<1>3. h.state \in RowState /\ h.pid \in 0..MaxLaunch
  BY <1>1 DEF TypeOK, Handler
<1>4. CASE RefreshSkips
  <2>1. /\ h' \in Handler /\ h'.pc \in {"idle", "guard", "claim", "recover"}
        /\ h'.pc # "idle" => h'.state = row.state /\ h'.pid = row.pid
    BY <1>1, <1>3, <1>4, ReturnMove, RefreshReads DEF RefreshSkips
  <2>2. h.pc = "probe" /\ UNCHANGED <<row, proc, sock, child, tap, eng, up, launches, faults, identity>>
    BY <1>4 DEF RefreshSkips, procVars, netVars, meterVars
  <2>3. TypeOK'
    BY <1>1, <2>1, <2>2 DEF TypeOK
  <2>4. Core'
    BY <1>1, <2>2, CoreKept DEF Core, Quiet
  <2>5. Rest'
    BY <1>1, <2>1, <2>2 DEF Rest, ChildRecorded, HandlerCurrent, StepReady,
       NoOrphanBoots, DownIsIdle, Launching
  <2> QED BY <2>3, <2>4, <2>5, GoodNext
<1>5. CASE RefreshAnswered
  <2>1. h.pc = "probe" /\ UNCHANGED <<row, proc, sock, child, tap, eng, up, launches, faults, identity>>
    BY <1>5 DEF RefreshAnswered, procVars, netVars, meterVars
  <2>2. Reported(sock) \in Verified
    BY <1>5, Ranges DEF RefreshAnswered, Answers, Connects, Bound
  <2>3. /\ h' \in Handler /\ h'.pc \in {"adopt", "write"} /\ h'.next \in Verified
        /\ h'.state = h.state /\ h'.pid = h.pid
    BY <1>1, <1>5, <2>2, PlanMove DEF RefreshAnswered
  <2>4. TypeOK'
    BY <1>1, <2>1, <2>3 DEF TypeOK
  <2>5. Core'
    BY <1>1, <2>1, CoreKept DEF Core, Quiet
  <2>6. Rest'
    BY <1>1, <2>1, <2>3, RefreshReads DEF Rest, ChildRecorded, HandlerCurrent,
       StepReady, NoOrphanBoots, DownIsIdle, Launching
  <2> QED BY <2>4, <2>5, <2>6, GoodNext
<1>6. CASE RefreshSilent \/ RefreshUnverified
  <2>1. /\ h.pc = "probe" /\ Reap /\ h.state = row.state /\ h.pid = row.pid
        /\ UNCHANGED <<row, proc, sock, eng, up, launches, faults, identity>>
    BY <1>1, <1>6, RefreshReads DEF RefreshSilent, RefreshUnverified, netVars, meterVars
  <2>2. tap' \in {"none", "up", "down", "stuck"} /\ (tap # "up" => tap' # "up")
    BY <1>1, <1>6 DEF RefreshSilent, RefreshUnverified, SuspendTap, TypeOK, netVars
  <2>3. /\ h' \in Handler /\ h'.pc \in {"clean", "write"} /\ h'.next \in {"stopped", "unknown"}
        /\ h'.state = h.state /\ h'.pid = h.pid
        /\ h'.pc = "clean" => h'.next = "stopped"
        /\ h'.next = "stopped" => IsProcessStopped \/ h.state = "stopped"
        /\ h'.next = "stopped" /\ h'.pc = "write" => h.state = "stopped"
    BY <1>1, <1>6, PlanMove DEF RefreshSilent, RefreshUnverified
  <2>4. h'.next = "stopped" => NoLive /\ child' = None
    BY <1>1, <2>1, <2>3, StoppedIsDead, ReapMove DEF Core, Quiet, Settled
  <2>5. TypeOK'
    BY <1>1, <2>1, <2>2, <2>3, ReapMove DEF TypeOK
  <2>6. Core'
    BY <1>1, <2>1, <2>2, CoreReaped DEF Core, Quiet
  <2>7. NoOrphanBoots'
    BY <1>1, <2>1, ReapMove DEF Rest, NoOrphanBoots, NoLive, Live
  <2>8. (ChildRecorded /\ HandlerCurrent /\ DownIsIdle)'
    BY <1>1, <2>1, <2>3, ReapMove DEF Rest, ChildRecorded, HandlerCurrent, DownIsIdle
  <2>9. StepReady'
    BY <1>1, <2>1, <2>2, <2>3, <2>4 DEF Core, StepReady, Launching, Quiet, Settled,
       NoLive, Live
  <2> QED BY <2>5, <2>6, <2>7, <2>8, <2>9, GoodNext DEF Rest
<1>7. CASE RefreshAdopts
  <2>1. /\ h.pc = "adopt" /\ h.state = row.state /\ h.pid = row.pid
        /\ UNCHANGED <<proc, sock, child, tap, eng, up, launches, faults>>
    BY <1>1, <1>7, RefreshReads DEF RefreshAdopts, procVars, netVars, meterVars
  <2>2. h.next \in Verified
    BY <1>1, <2>1 DEF Rest, StepReady
  <2>3. CASE Connects
    <3>1. Bound(sock) /\ Live(sock) /\ sock \in Process
      BY <2>3 DEF Connects, Bound, Live
    <3>2. row' \in Row /\ row'.state = row.state /\ row'.pid = sock /\ row'.start = sock
      BY <1>1, <1>7, <2>3, <3>1, ProcessMove DEF RefreshAdopts, TypeOK
    <3>9. identity' = "kept"
      BY <1>1, <1>7, <2>3 DEF RefreshAdopts, Identified, Lost
    <3>3. /\ h' \in Handler /\ h'.pc = "write" /\ h'.state = h.state /\ h'.pid = sock
          /\ h'.next = h.next
      BY <1>1, <1>3, <1>7, <2>3, <3>1, LearnMove DEF RefreshAdopts, TypeOK
    <3>4. \A n \in Process : Live(n) => n = sock
      BY <1>1, <3>1 DEF Core, OneAlive
    <3>5. TypeOK'
      BY <1>1, <2>1, <3>2, <3>3, <3>9 DEF TypeOK
    <3>6. Core'
      BY <1>1, <2>1, <3>2, <3>4, <3>9, CoreWritten DEF Core, IdentityCoherent
    <3>7. child # None => child = sock
      BY <1>1, <3>1 DEF Core, Named
    <3>8. Rest'
      BY <1>1, <2>1, <2>2, <3>2, <3>3, <3>7 DEF Rest, ChildRecorded, HandlerCurrent,
         StepReady, NoOrphanBoots, DownIsIdle, Launching
    <3> QED BY <3>5, <3>6, <3>8, GoodNext
  <2>4. CASE ~Connects
    <3>1. /\ UNCHANGED <<row, identity>> /\ h' \in Handler /\ h'.pc = "write" /\ h'.state = h.state
          /\ h'.pid = h.pid /\ h'.next = h.next
      BY <1>1, <1>7, <2>4, GotoMove DEF RefreshAdopts
    <3>2. TypeOK'
      BY <1>1, <2>1, <3>1 DEF TypeOK
    <3>3. Core'
      BY <1>1, <2>1, <3>1, CoreKept DEF Core, Quiet
    <3>4. Rest'
      BY <1>1, <2>1, <2>2, <3>1 DEF Rest, ChildRecorded, HandlerCurrent,
         StepReady, NoOrphanBoots, DownIsIdle, Launching
    <3> QED BY <3>2, <3>3, <3>4, GoodNext
  <2> QED BY <2>3, <2>4
<1>8. CASE RefreshCleans
  <2>1. /\ h.pc = "clean" /\ h.state = row.state /\ h.pid = row.pid /\ eng' = FALSE
        /\ UNCHANGED <<row, proc, sock, child, up, launches, faults, identity>>
    BY <1>1, <1>8, RefreshReads DEF RefreshCleans, procVars, meterVars
  <2>2. /\ h' \in Handler /\ h'.pc = "write" /\ h'.state = h.state /\ h'.pid = h.pid
        /\ h'.next = h.next
    BY <1>1, <1>8, GotoMove DEF RefreshCleans
  <2>3. tap' \in {"none", "down", "stuck"}
    BY <1>1, <1>8, RemoveMove DEF RefreshCleans
  <2>4. h.next = "stopped" /\ Settled
    BY <1>1, <2>1 DEF Rest, StepReady
  <2>5. TypeOK'
    BY <1>1, <2>1, <2>2, <2>3 DEF TypeOK
  <2>6. Core'
    BY <1>1, <2>1, <2>3, CoreKept
  <2>7. Rest'
    BY <1>1, <2>1, <2>2, <2>3, <2>4 DEF Rest, ChildRecorded, HandlerCurrent, StepReady,
       NoOrphanBoots, DownIsIdle, Launching, Quiet, Settled, NoLive, Live
  <2> QED BY <2>5, <2>6, <2>7, GoodNext
<1>9. CASE RefreshWrites
  <2>1. /\ h.pc = "write" /\ h.state = row.state /\ h.pid = row.pid
        /\ h.next \in Verified \cup {"stopped", "unknown"}
        /\ h.next = "stopped" => Quiet
        /\ UNCHANGED <<proc, sock, child, tap, eng, up, launches, faults, identity>>
    BY <1>1, <1>9, RefreshReads DEF RefreshWrites, procVars, netVars, meterVars, Rest, StepReady
  <2> DEFINE p == IF h.next = "stopped" THEN None ELSE h.pid
  <2>2. p \in 0..MaxLaunch /\ SetVmState(h.next, p) /\ Return(h.next, p)
    BY <1>2, <1>3, <1>9 DEF RefreshWrites
  <2>3. row' \in Row /\ row'.state = h.next /\ row'.pid = p /\ row'.start = row.start
    BY <1>1, <2>1, <2>2, VmStateMove
  <2>4. /\ h' \in Handler /\ h'.pc \in {"idle", "guard", "claim", "recover"}
        /\ h'.pc # "idle" => h'.state = h.next /\ h'.pid = p
    BY <1>1, <2>1, <2>2, ReturnMove
  <2>5. TypeOK'
    BY <1>1, <2>1, <2>3, <2>4 DEF TypeOK
  <2>6. Core'
    BY <1>1, <2>1, <2>3, CoreWritten DEF Core, Named, IdentityCoherent, Live
  <2>7. Rest'
    BY <1>1, <2>1, <2>3, <2>4 DEF Rest, ChildRecorded, HandlerCurrent, StepReady,
       NoOrphanBoots, DownIsIdle, Launching
  <2> QED BY <2>5, <2>6, <2>7, GoodNext
<1> QED BY <1>4, <1>5, <1>6, <1>7, <1>8, <1>9 DEF Refresh

-----------------------------------------------------------------------------
(* The guards of Launch, Prepare, Start and Restore *)

LEMMA Marked ==
  ASSUME TypeOK, NEW p \in 0..MaxLaunch, NEW step \in Steps, MarkStarting(p, step)
  PROVE  /\ h' \in Handler /\ h'.pc = step /\ h'.state = "starting" /\ h'.pid = p
         /\ row' \in Row /\ row'.state = "starting" /\ row'.pid = p /\ row'.start = row.start
  BY LearnMove, VmStateMove DEF MarkStarting

LEMMA GuardInv ==
  Good /\ (GuardRefuses \/ GuardFresh \/ GuardReady \/ RestoreGuard) => Sound'
<1> SUFFICES ASSUME Good, GuardRefuses \/ GuardFresh \/ GuardReady \/ RestoreGuard
             PROVE  Sound'
  OBVIOUS
<1>1. TypeOK /\ Core /\ Rest /\ None \in 0..MaxLaunch
  BY GoodParts, LifecycleConstants
<1>2. /\ h.pc \in {"guard", "restore"} /\ h.state = row.state /\ h.pid = row.pid
      /\ UNCHANGED <<proc, sock, child, tap, eng, up, launches, faults, identity>>
  BY <1>1 DEF GuardRefuses, GuardFresh, GuardReady, RestoreGuard, procVars, netVars,
     meterVars, Rest, HandlerCurrent
<1>3. CASE Release /\ UNCHANGED row
  <2>1. TypeOK'
    BY <1>1, <1>2, <1>3, ReleaseMove DEF TypeOK
  <2>2. Core'
    BY <1>1, <1>2, <1>3, CoreKept DEF Core, Quiet
  <2>3. Rest'
    BY <1>1, <1>2, <1>3, Released DEF Rest
  <2> QED BY <2>1, <2>2, <2>3, GoodNext
<1>4. CASE MarkStarting(None, "socket") /\ h.state \in Inactive
  <2>1. /\ h' \in Handler /\ h'.pc = "socket" /\ h'.state = "starting" /\ h'.pid = None
        /\ row' \in Row /\ row'.state = "starting" /\ row'.pid = None /\ row'.start = row.start
    BY <1>1, <1>4, Marked
  <2>2. Settled
    BY <1>1, <1>2, <1>4 DEF Core, Quiet
  <2>3. TypeOK'
    BY <1>1, <1>2, <2>1 DEF TypeOK
  <2>4. Core'
    BY <1>1, <1>2, <2>1, CoreWritten DEF Core, IdentityCoherent, Live, Named
  <2>5. Rest'
    BY <1>1, <1>2, <2>1, <2>2 DEF Rest, ChildRecorded, HandlerCurrent, StepReady,
       NoOrphanBoots, DownIsIdle, Launching, Settled, NoLive, Live
  <2> QED BY <2>3, <2>4, <2>5, GoodNext
<1>5. CASE MarkStarting(h.pid, "tap") /\ h.state = "ready"
  <2>1. /\ h' \in Handler /\ h'.pc = "tap" /\ h'.state = "starting" /\ h'.pid = h.pid
        /\ row' \in Row /\ row'.state = "starting" /\ row'.pid = h.pid /\ row'.start = row.start
    BY <1>1, <1>5, Marked DEF TypeOK, Handler
  <2>2. TypeOK'
    BY <1>1, <1>2, <2>1 DEF TypeOK
  <2>3. Core'
    BY <1>1, <1>2, <2>1, CoreWritten DEF Core, IdentityCoherent, Live, Named
  <2>4. Rest'
    BY <1>1, <1>2, <2>1 DEF Rest, ChildRecorded, HandlerCurrent, StepReady,
       NoOrphanBoots, DownIsIdle, Launching
  <2> QED BY <2>2, <2>3, <2>4, GoodNext
<1>6. CASE Goto("boot") /\ UNCHANGED row
  <2>1. h' \in Handler /\ h'.pc = "boot" /\ h'.state = h.state /\ h'.pid = h.pid
    BY <1>1, <1>6, GotoMove
  <2>2. TypeOK'
    BY <1>1, <1>2, <1>6, <2>1 DEF TypeOK
  <2>3. Core'
    BY <1>1, <1>2, <1>6, CoreKept DEF Core, Quiet
  <2>4. Rest'
    BY <1>1, <1>2, <1>6, <2>1 DEF Rest, ChildRecorded, HandlerCurrent, StepReady,
       NoOrphanBoots, DownIsIdle, Launching
  <2> QED BY <2>2, <2>3, <2>4, GoodNext
<1> QED
  BY <1>3, <1>4, <1>5, <1>6 DEF GuardRefuses, GuardFresh, GuardReady, RestoreGuard

-----------------------------------------------------------------------------
(* Runtime::launch_process *)

LEMMA LaunchInv == Good /\ Launch => Sound'
<1> SUFFICES ASSUME Good, Launch PROVE Sound'
  OBVIOUS
<1>1. TypeOK /\ Core /\ Rest /\ ~Lost /\ None \in 0..MaxLaunch
  BY GoodParts, LifecycleConstants
<1>2. h.pc \in {"socket", "spawn", "insert", "setproc", "setstart", "wait"}
  BY DEF Launch, LaunchSocket, LaunchSpawns, LaunchInserts, LaunchSetsProcess,
     LaunchSetsState, LaunchWaits
<1>3. /\ h.state = "starting" /\ row.state = "starting"
      /\ h.pid = row.pid \/ (h.pid = None /\ child = row.pid)
  <2>1. HandlerCurrent /\ StepReady
    BY <1>1 DEF Rest
  <2>2. h.state = "starting"
    BY <1>2, <2>1 DEF StepReady, Launching
  <2> QED BY <1>2, <2>1, <2>2 DEF HandlerCurrent
<1>4. CASE LaunchSocket
  <2>1. /\ h.pc = "socket" /\ Settled /\ row.pid = None
        /\ UNCHANGED <<row, proc, child, tap, eng, up, launches, faults, identity>>
    BY <1>1, <1>4 DEF LaunchSocket, netVars, meterVars, Rest, StepReady
  <2>2. NoLive'
    BY <2>1 DEF Settled, NoLive, Live
  <2>3. Core'
    BY <1>1, <1>3, <2>1, <2>2, CoreSettled
  <2>4. CASE Fail /\ UNCHANGED sock
    <3>1. h' \in Handler /\ Rest'
      BY <1>1, <1>3, <2>1, <2>4, Failed
    <3> QED BY <1>1, <2>1, <2>3, <2>4, <3>1, GoodNext DEF TypeOK
  <2>5. CASE Goto("spawn") /\ sock' = None
    <3>1. h' \in Handler /\ h'.pc = "spawn" /\ h'.state = h.state /\ h'.pid = h.pid
      BY <1>1, <2>5, GotoMove
    <3>2. TypeOK'
      BY <1>1, <2>1, <2>5, <3>1 DEF TypeOK
    <3>3. Rest'
      BY <1>1, <1>3, <2>1, <2>2, <3>1 DEF Rest, ChildRecorded, HandlerCurrent, StepReady,
         NoOrphanBoots, DownIsIdle, Launching, Settled, NoLive, Live
    <3> QED BY <2>3, <3>2, <3>3, GoodNext
  <2> QED BY <1>4, <2>4, <2>5 DEF LaunchSocket
<1>5. CASE LaunchSpawns
  <2> DEFINE new == launches + 1
  <2>1. /\ h.pc = "spawn" /\ Settled /\ row.pid = None /\ new \in Process
        /\ launches' = new
        /\ proc' = [proc EXCEPT ![new] = [st |-> "booting", cfg |-> {}]]
        /\ h' = [h EXCEPT !.pc = "insert", !.new = new]
        /\ UNCHANGED <<row, sock, child, tap, eng, up, faults, identity>>
    BY <1>1, <1>5, LifecycleConstants DEF LaunchSpawns, netVars, Rest, StepReady, TypeOK
  <2>2. h' = [pc |-> "insert", op |-> h.op, state |-> h.state, pid |-> h.pid,
              next |-> h.next, new |-> new]
    BY <1>1, <2>1 DEF TypeOK, Handler
  <2>3. h' \in Handler
    BY <1>1, <2>1, <2>2 DEF TypeOK, Handler
  <2>4. proc' \in [Process -> Proc]
    BY <1>1, <2>1 DEF TypeOK, Proc
  <2>5. \A n \in Process : /\ ~Bound(n)'
                           /\ Live(n)' => n = new
    BY <1>1, <2>1 DEF Bound, Live, Settled, NoLive, TypeOK, Proc
  <2>6. TypeOK'
    BY <1>1, <2>1, <2>3, <2>4 DEF TypeOK
  <2>7. Core'
    BY <1>1, <1>3, <2>1, <2>5 DEF Core, OneAlive, Named, IdentityCoherent, Settled
  <2>8. Rest'
    BY <1>1, <1>3, <2>1, <2>2, <2>5 DEF Rest, ChildRecorded, HandlerCurrent, StepReady,
       NoOrphanBoots, DownIsIdle, Launching, Settled
  <2> QED BY <2>6, <2>7, <2>8, GoodNext
<1>6. CASE LaunchInserts
  <2>1. /\ h.pc = "insert" /\ child = None /\ row.pid = None /\ h.new # None
        /\ \A n \in Process : Live(n) => n = h.new
        /\ child' = h.new
        /\ UNCHANGED <<row, proc, sock, tap, eng, up, launches, faults, identity>>
    BY <1>1, <1>6 DEF LaunchInserts, netVars, meterVars, Rest, StepReady
  <2>2. /\ h' \in Handler /\ h'.pc = "setproc" /\ h'.state = h.state /\ h'.pid = h.pid
        /\ h'.new = h.new
    BY <1>1, <1>6, GotoMove DEF LaunchInserts
  <2>3. TypeOK'
    BY <1>1, <2>1, <2>2 DEF TypeOK, Handler
  <2>4. Core'
    BY <1>1, <1>3, <2>1 DEF Core, OneAlive, Named, IdentityCoherent, Live, Bound
  <2>5. Rest'
    BY <1>1, <1>3, <2>1, <2>2 DEF Rest, ChildRecorded, HandlerCurrent, StepReady,
       NoOrphanBoots, DownIsIdle, Launching
  <2> QED BY <2>3, <2>4, <2>5, GoodNext
<1>7. CASE LaunchSetsProcess
  <2>1. /\ h.pc = "setproc" /\ child = h.new /\ row.pid = None /\ h.new # None
        /\ UNCHANGED <<proc, sock, child, tap, eng, up, launches, faults>>
    BY <1>1, <1>7 DEF LaunchSetsProcess, procVars, netVars, Rest, StepReady
  <2>7. identity' = "kept"
    BY <1>1, <1>7 DEF LaunchSetsProcess, Identified, Lost
  <2>2. row' \in Row /\ row'.state = row.state /\ row'.pid = h.new /\ row'.start = h.new
    BY <1>1, <1>7, ProcessMove DEF LaunchSetsProcess, TypeOK, Handler
  <2>3. /\ h' \in Handler /\ h'.pc = "setstart" /\ h'.state = h.state /\ h'.pid = h.pid
        /\ h'.new = h.new
    BY <1>1, <1>7, GotoMove DEF LaunchSetsProcess
  <2>4. TypeOK'
    BY <1>1, <2>1, <2>2, <2>3, <2>7 DEF TypeOK
  <2>5. Core'
    BY <1>1, <1>3, <2>1, <2>2, <2>7, CoreWritten DEF Core, Named, IdentityCoherent
  <2>6. Rest'
    BY <1>1, <1>3, <2>1, <2>2, <2>3, <2>7 DEF Rest, ChildRecorded, HandlerCurrent, StepReady,
       NoOrphanBoots, DownIsIdle, Launching
  <2> QED BY <2>4, <2>5, <2>6, GoodNext
<1>8. CASE LaunchSetsState
  <2>1. /\ h.pc = "setstart" /\ child = h.new /\ row.pid = h.new
        /\ UNCHANGED <<proc, sock, child, tap, eng, up, launches, faults, identity>>
    BY <1>1, <1>8 DEF LaunchSetsState, procVars, netVars, meterVars, Rest, StepReady
  <2>2. row' \in Row /\ row'.state = "starting" /\ row'.pid = h.new /\ row'.start = row.start
    BY <1>1, <1>8, VmStateMove DEF LaunchSetsState, TypeOK, Handler
  <2>3. h' \in Handler /\ h'.pc = "wait" /\ h'.state = h.state /\ h'.pid = h.pid
    BY <1>1, <1>8, GotoMove DEF LaunchSetsState
  <2>4. TypeOK'
    BY <1>1, <2>1, <2>2, <2>3 DEF TypeOK
  <2>5. Core'
    BY <1>1, <1>3, <2>1, <2>2, CoreWritten DEF Core, Named, IdentityCoherent
  <2>6. Rest'
    BY <1>1, <1>3, <2>1, <2>2, <2>3 DEF Rest, ChildRecorded, HandlerCurrent, StepReady,
       NoOrphanBoots, DownIsIdle, Launching
  <2> QED BY <2>4, <2>5, <2>6, GoodNext
<1>9. CASE LaunchWaits
  <2>1. h.pc = "wait" /\ UNCHANGED <<row, proc, sock, child, tap, eng, up, launches, faults, identity>>
    BY <1>9 DEF LaunchWaits, procVars, netVars, meterVars
  <2>2. Core'
    BY <1>1, <2>1, CoreKept DEF Core, Quiet
  <2>3. CASE Fail
    <3>1. h' \in Handler /\ Rest'
      BY <1>1, <1>3, <2>1, <2>3, Failed
    <3> QED BY <1>1, <2>1, <2>2, <3>1, GoodNext DEF TypeOK
  <2>4. CASE Plan("finish", "ready") \/ Goto("tap")
    <3>1. /\ h' \in Handler /\ h'.pc \in {"finish", "tap"} /\ h'.state = h.state
          /\ h'.pid = h.pid /\ (h'.pc = "finish" => h'.next = "ready")
      BY <1>1, <2>4, PlanMove, GotoMove
    <3>2. Rest'
      BY <1>1, <1>3, <2>1, <3>1 DEF Rest, ChildRecorded, HandlerCurrent, StepReady,
         NoOrphanBoots, DownIsIdle, Launching
    <3> QED BY <1>1, <2>1, <2>2, <3>1, <3>2, GoodNext DEF TypeOK
  <2> QED BY <1>9, <2>3, <2>4 DEF LaunchWaits
<1> QED BY <1>4, <1>5, <1>6, <1>7, <1>8, <1>9 DEF Launch

-----------------------------------------------------------------------------
(* Runtime::network_tap and the devices *)

(* A step that leaves processes, row and children alone and goes on. *)
LEMMA Continued ==
  ASSUME TypeOK, Rest, h.pc \in {"tap", "register", "config", "boot", "load", "call"},
         UNCHANGED <<row, child, up, identity>>,
         \/ UNCHANGED proc
         \/ \A m \in Process : (Live(m)' <=> Live(m)) /\ (Bound(m)' <=> Bound(m)),
         h.pid = row.pid \/ (h.pid = None /\ child = row.pid),
         h' \in Handler, h'.state = h.state, h'.pid = h.pid,
         h'.pc \in {"register", "load", "config", "boot", "finish"},
         h'.pc \in {"register", "load"} => h.state = "starting",
         h'.pc = "config" => h'.next \in Devices,
         h'.pc = "finish" => h'.next \in RowState \ Ended
  PROVE  Rest'
<1>1. NoOrphanBoots'
  BY DEF Rest, NoOrphanBoots, Live, Bound
<1> QED BY <1>1 DEF Rest, ChildRecorded, HandlerCurrent, StepReady, DownIsIdle, Launching

LEMMA PrepareInv == Good /\ Prepare => Sound'
<1> SUFFICES ASSUME Good, Prepare PROVE Sound'
  OBVIOUS
<1>1. TypeOK /\ Core /\ Rest /\ ~Lost
  BY GoodParts
<1>2. /\ h.pc \in {"tap", "register", "config"}
      /\ UNCHANGED <<row, sock, child, up, launches, faults, identity>>
  BY DEF Prepare, TapCreate, TapRegister, ConfigPut, procVars, meterVars
<1>3. /\ h.state = row.state
      /\ h.pid = row.pid \/ (h.pid = None /\ child = row.pid)
      /\ h.pc \in {"tap", "register"} => h.state = "starting"
      /\ h.pc = "config" => h.next \in Devices
  BY <1>1, <1>2 DEF Rest, HandlerCurrent, StepReady, Launching
<1>4. CASE TapCreate
  <2>1. h.pc = "tap" /\ tap' \in {"none", "up", "down", "stuck"} /\ UNCHANGED <<proc, eng>>
    BY <1>1, <1>4 DEF TapCreate, TypeOK, procVars
  <2>2. Core'
    BY <1>1, <1>2, <1>3, <2>1, CoreKept
  <2>3. CASE Fail
    <3>1. h' \in Handler /\ Rest'
      BY <1>1, <1>2, <1>3, <2>1, <2>3, Failed
    <3> QED BY <1>1, <1>2, <2>1, <2>2, <3>1, GoodNext DEF TypeOK
  <2>4. CASE Goto("register")
    <3>1. h' \in Handler /\ h'.pc = "register" /\ h'.state = h.state /\ h'.pid = h.pid
      BY <1>1, <2>4, GotoMove
    <3>2. Rest'
      BY <1>1, <1>2, <1>3, <2>1, <3>1, Continued
    <3> QED BY <1>1, <1>2, <2>1, <2>2, <3>1, <3>2, GoodNext DEF TypeOK
  <2> QED BY <1>4, <2>3, <2>4 DEF TapCreate
<1>5. CASE TapRegister
  <2>1. /\ h.pc = "register" /\ tap' \in {"none", "up", "down", "stuck"} /\ eng' \in BOOLEAN
        /\ UNCHANGED proc
    BY <1>1, <1>5, LifecycleConstants, RemoveMove DEF TapRegister, TypeOK, procVars
  <2>2. Core'
    BY <1>1, <1>2, <1>3, <2>1, CoreKept
  <2>3. CASE Fail
    <3>1. h' \in Handler /\ Rest'
      BY <1>1, <1>2, <1>3, <2>1, <2>3, Failed
    <3> QED BY <1>1, <1>2, <2>1, <2>2, <3>1, GoodNext DEF TypeOK
  <2>4. CASE AfterTap
    <3>1. /\ h' \in Handler /\ h'.pc \in {"load", "config"} /\ h'.state = h.state
          /\ h'.pid = h.pid /\ (h'.pc = "config" => h'.next \in Devices)
      BY <1>1, <2>4, GotoMove, PlanMove DEF AfterTap
    <3>2. Rest'
      BY <1>1, <1>2, <1>3, <2>1, <3>1, Continued
    <3> QED BY <1>1, <1>2, <2>1, <2>2, <3>1, <3>2, GoodNext DEF TypeOK
  <2> QED BY <1>5, <2>3, <2>4 DEF TapRegister
<1>6. CASE ConfigPut
  <2>1. h.pc = "config" /\ UNCHANGED <<tap, eng>>
    BY <1>6 DEF ConfigPut, netVars
  <2>2. /\ proc' \in [Process -> Proc]
        /\ \A m \in Process : (Live(m)' <=> Live(m)) /\ (Bound(m)' <=> Bound(m))
    <3>1. CASE UNCHANGED proc
      BY <1>1, <3>1 DEF TypeOK, Live, Bound
    <3>2. CASE Answers /\ proc' = [proc EXCEPT ![sock].cfg = @ \cup {h.next}]
      <4>1. sock \in Process /\ h.next \in Devices
        BY <1>3, <2>1, <3>2 DEF Answers, Connects, Bound
      <4>2. proc' \in [Process -> Proc]
        BY <1>1, <3>2, <4>1 DEF TypeOK, Proc
      <4>3. \A m \in Process : proc'[m].st = proc[m].st
        BY <1>1, <3>2, <4>1 DEF TypeOK, Proc
      <4> QED BY <4>2, <4>3 DEF Live, Bound
    <3> QED BY <1>6, <3>1, <3>2 DEF ConfigPut
  <2>3. Core'
    BY <1>1, <1>2, <2>1, <2>2, CoreSame
  <2>4. CASE Fail
    <3>1. h' \in Handler /\ Rest'
      BY <1>1, <1>2, <1>3, <2>1, <2>2, <2>4, Failed
    <3> QED BY <1>1, <1>2, <2>1, <2>2, <2>3, <3>1, GoodNext DEF TypeOK
  <2>5. CASE AfterDevice
    <3>1. /\ h' \in Handler /\ h'.pc \in {"config", "boot", "finish"} /\ h'.state = h.state
          /\ h'.pid = h.pid /\ (h'.pc = "config" => h'.next \in Devices)
          /\ (h'.pc = "finish" => h'.next = "ready")
      BY <1>1, <2>5, GotoMove, PlanMove DEF AfterDevice
    <3>2. Rest'
      BY <1>1, <1>2, <1>3, <2>1, <2>2, <3>1, Continued
    <3> QED BY <1>1, <1>2, <2>1, <2>2, <2>3, <3>1, <3>2, GoodNext DEF TypeOK
  <2> QED BY <1>6, <2>4, <2>5 DEF ConfigPut
<1> QED BY <1>4, <1>5, <1>6 DEF Prepare

-----------------------------------------------------------------------------
(* Calls to the Firecracker API *)

LEMMA StaysOrRuns ==
  ASSUME TypeOK, Answers, NEW st \in BoundState,
         Becomes(sock, st) \/ UNCHANGED proc
  PROVE  /\ proc' \in [Process -> Proc]
         /\ \A m \in Process : (Live(m)' <=> Live(m)) /\ (Bound(m)' <=> Bound(m))
<1>1. CASE Becomes(sock, st)
  BY <1>1, StaysBound DEF Answers, Connects, Bound
<1>2. CASE UNCHANGED proc
  BY <1>2 DEF TypeOK, Live, Bound
<1> QED BY <1>1, <1>2

LEMMA CallInv == Good /\ (InstanceStart \/ SnapshotLoad \/ Call) => Sound'
<1> SUFFICES ASSUME Good, InstanceStart \/ SnapshotLoad \/ Call PROVE Sound'
  OBVIOUS
<1>1. TypeOK /\ Core /\ Rest /\ ~Lost
  BY GoodParts
<1>2. /\ h.pc \in {"boot", "load", "call"}
      /\ UNCHANGED <<row, sock, child, tap, eng, up, launches, faults, identity>>
  BY DEF InstanceStart, SnapshotLoad, Call, netVars, meterVars
<1>3. /\ h.state = row.state
      /\ h.pid = row.pid \/ (h.pid = None /\ child = row.pid)
  BY <1>1, <1>2 DEF Rest, HandlerCurrent
<1>4. /\ proc' \in [Process -> Proc]
      /\ \A m \in Process : (Live(m)' <=> Live(m)) /\ (Bound(m)' <=> Bound(m))
  <2>1. CASE UNCHANGED proc
    BY <1>1, <2>1 DEF TypeOK, Live, Bound
  <2>2. CASE InstanceStart /\ Answers /\ Becomes(sock, "running")
    BY <1>1, <2>2, StaysOrRuns
  <2>3. CASE Answers /\ proc' = [proc EXCEPT ![sock] = [st |-> "paused", cfg |-> Devices]]
    <3>1. Bound(sock) /\ sock \in Process
      BY <2>3 DEF Answers, Connects, Bound
    <3>2. proc' \in [Process -> Proc]
      BY <1>1, <2>3, <3>1 DEF TypeOK, Proc
    <3>3. \A m \in Process : proc'[m].st = IF m = sock THEN "paused" ELSE proc[m].st
      BY <1>1, <2>3, <3>1 DEF TypeOK, Proc
    <3> QED BY <3>1, <3>2, <3>3 DEF Live, Bound
  <2>4. CASE Call /\ Answers /\ Becomes(sock, CallEffect(h.op).to) /\ CallEffect(h.op).to # "same"
    <3>1. CallEffect(h.op).to \in BoundState
      <4>1. h.op \in CallOps
        BY <2>4, <1>1 DEF Call, Rest, StepReady
      <4> QED BY <2>4, <4>1, Ranges
    <3> QED BY <1>1, <2>4, <3>1, StaysOrRuns
  <2> QED BY <2>1, <2>2, <2>3, <2>4 DEF InstanceStart, SnapshotLoad, Call, CanBoot
<1>5. Core'
  BY <1>1, <1>2, <1>4, CoreSame
<1>6. CASE Fail
  <2>1. h' \in Handler /\ Rest'
    BY <1>1, <1>2, <1>3, <1>4, <1>6, Failed
  <2> QED BY <1>1, <1>2, <1>4, <1>5, <2>1, GoodNext DEF TypeOK
<1>7. CASE Answers /\ \E next \in RowState : next \notin Ended /\ Plan("finish", next)
  <2>1. /\ h' \in Handler /\ h'.pc = "finish" /\ h'.state = h.state /\ h'.pid = h.pid
        /\ h'.next \in RowState \ Ended
    BY <1>1, <1>7, PlanMove
  <2>2. Rest'
    BY <1>1, <1>2, <1>3, <1>4, <2>1, Continued
  <2> QED BY <1>1, <1>2, <1>4, <1>5, <2>1, <2>2, GoodNext DEF TypeOK
<1>8. Answers => h.state \notin Ended
  BY <1>1, <1>3 DEF Core, Quiet, Settled, NoLive, Answers, Connects, Live, Bound
<1>9. CASE Call /\ Answers /\ Plan("finish", CallEffect(h.op).next)
  <2>1. h.op \in CallOps /\ h.state \in RowState
    BY <1>9, <1>1 DEF Call, Rest, StepReady, TypeOK, Handler
  <2>2. CallEffect(h.op).next \in {"running", "paused", h.state}
    BY <2>1, Ranges
  <2> QED BY <1>7, <1>8, <1>9, <2>1, <2>2
<1> QED BY <1>6, <1>7, <1>9 DEF InstanceStart, SnapshotLoad, Call, CanBoot

LEMMA RawInv == Good /\ RawRequest => Sound'
<1> SUFFICES ASSUME Good, RawRequest PROVE Sound'
  OBVIOUS
<1>1. TypeOK /\ Core /\ Rest /\ ~Lost
  BY GoodParts
<1>2. h.pc = "raw" /\ UNCHANGED <<row, sock, child, tap, eng, up, launches, faults, identity>>
  BY DEF RawRequest, netVars, meterVars
<1>3. h.state = row.state /\ h.pid = row.pid
  BY <1>1, <1>2 DEF Rest, HandlerCurrent
<1>4. /\ proc' \in [Process -> Proc]
      /\ \A m \in Process : (Live(m)' <=> Live(m)) /\ (Bound(m)' <=> Bound(m))
  <2>1. CASE UNCHANGED proc
    BY <1>1, <2>1 DEF TypeOK, Live, Bound
  <2>2. CASE Answers /\ \E st \in RawOutcomes : Becomes(sock, st)
    <3>1. RawOutcomes \subseteq BoundState
      BY <2>2 DEF RawOutcomes, Answers, Connects, Bound
    <3> QED BY <1>1, <2>2, <3>1, StaysOrRuns
  <2> QED BY <2>1, <2>2 DEF RawRequest
<1>5. Core'
  BY <1>1, <1>2, <1>4, CoreSame
<1>6. CASE Release
  BY <1>1, <1>2, <1>4, <1>5, <1>6, Released, ReleaseMove, GoodNext DEF TypeOK, Rest
<1>7. CASE Goto("probe")
  <2>1. h' \in Handler /\ h'.pc = "probe" /\ h'.state = h.state /\ h'.pid = h.pid
    BY <1>1, <1>7, GotoMove
  <2>2. NoOrphanBoots'
    BY <1>1, <1>2, <1>4, <2>1 DEF Rest, NoOrphanBoots, Live, Bound
  <2>3. Rest'
    BY <1>1, <1>2, <1>3, <2>1, <2>2 DEF Rest, ChildRecorded, HandlerCurrent, StepReady,
       DownIsIdle, Launching
  <2> QED BY <1>1, <1>2, <1>4, <1>5, <2>1, <2>3, GoodNext DEF TypeOK
<1> QED BY <1>6, <1>7 DEF RawRequest

LEMMA FinishInv == Good /\ Finish => Sound'
<1> SUFFICES ASSUME Good, Finish PROVE Sound'
  OBVIOUS
<1>1. TypeOK /\ Core /\ Rest /\ ~Lost
  BY GoodParts
<1>2. /\ h.pc = "finish" /\ Release /\ h.next \in RowState /\ (h.next \in Ended => Quiet)
      /\ UNCHANGED <<proc, sock, child, tap, eng, up, launches, faults, identity>>
  BY <1>1 DEF Finish, procVars, netVars, meterVars, Rest, StepReady
<1>3. h.pid = row.pid \/ (h.pid = None /\ child = row.pid)
  BY <1>1, <1>2 DEF Rest, HandlerCurrent
<1> DEFINE p == IF h.next = "stopped" THEN None ELSE IF child # None THEN child ELSE h.pid
<1>4. p \in 0..MaxLaunch /\ SetVmState(h.next, p)
  BY <1>1, LifecycleConstants DEF Finish, TypeOK, Handler
<1>5. row' \in Row /\ row'.state = h.next /\ row'.pid = p /\ row'.start = row.start
  BY <1>1, <1>2, <1>4, VmStateMove
<1>6. /\ IdentityCoherent'
      /\ \A n \in Process : Live(n) /\ p # None => p = n
  <2>1. \A n \in Process : Live(n) /\ p # None => p = n
    BY <1>1, <1>2, <1>3 DEF Core, Named
  <2>2. identity = "kept" /\ p # None => row.start = p
    BY <1>1, <1>2, <1>3 DEF Core, IdentityCoherent, Rest, ChildRecorded
  <2>3. identity = "dropped" /\ Live(p) => p \in {row.start, child}
    BY <1>1, <1>2, <1>3 DEF Core, IdentityCoherent, Live
  <2> QED BY <1>2, <1>5, <2>1, <2>2, <2>3 DEF IdentityCoherent, Live
<1>7. Core'
  BY <1>1, <1>2, <1>5, <1>6, CoreWritten
<1>8. Rest'
  BY <1>1, <1>2, <1>5, Released DEF Rest
<1> QED BY <1>1, <1>2, <1>5, <1>7, <1>8, ReleaseMove, GoodNext DEF TypeOK

-----------------------------------------------------------------------------
(* Stop, and the error path *)

(* stop_process, told the pid the row holds or holding the child, leaves no *)
(* process of the VM alive: the central fact of this module.                *)
LEMMA StopKills ==
  ASSUME TypeOK, Core, NoOrphanBoots, ~Lost, h.pc \in {"stop", "errstop"}, StopSucceeds,
         h.pid = row.pid \/ (h.pid = None /\ child = row.pid)
  PROVE  /\ NoLive' /\ child' = None /\ proc' \in [Process -> Proc]
         /\ sock' \in 0..MaxLaunch
<1>1. ASSUME NEW n \in Process, \A m \in Process : Live(m) => m = n, Kill(n)
      PROVE  NoLive' /\ proc' \in [Process -> Proc]
  BY <1>1, KillMove DEF NoLive
<1>2. CASE child # None /\ Kill(child) /\ child' = None /\ UNCHANGED sock
  <2>1. child \in Process /\ \A m \in Process : Live(m) => m = child
    BY <1>2 DEF TypeOK, Core, Named
  <2> QED BY <1>1, <1>2, <2>1 DEF TypeOK
<1>3. CASE /\ child = None /\ h.pid = None /\ UNCHANGED child
           /\ IF Connects THEN Kill(sock) /\ UNCHANGED sock
                          ELSE sock' = None /\ UNCHANGED proc
  <2>1. \A m \in Process : Live(m) => Bound(m) /\ m = sock
    BY <1>3 DEF NoOrphanBoots, Core, Named, Live, Bound
  <2>2. CASE Connects
    <3>1. sock \in Process
      BY <2>2 DEF Connects, Bound
    <3> QED BY <1>1, <1>3, <2>1, <2>2, <3>1 DEF TypeOK
  <2>3. CASE ~Connects
    <3>1. NoLive
      BY <2>1, <2>3 DEF Connects, NoLive
    <3> QED BY <1>3, <2>3, <3>1, LifecycleConstants DEF TypeOK, NoLive, Live
  <2> QED BY <2>2, <2>3
<1>4. CASE /\ child = None /\ h.pid # None /\ row.start # None /\ UNCHANGED <<sock, child>>
           /\ IF IsAlive(h.pid, row.start) THEN Kill(h.pid) ELSE UNCHANGED proc
  <2>1. /\ h.pid = row.pid /\ (Live(h.pid) => row.start = h.pid)
        /\ \A m \in Process : Live(m) => m = h.pid
    BY <1>4 DEF Core, IdentityCoherent, Named, Lost, Live, TypeOK
  <2>2. CASE IsAlive(h.pid, row.start)
    <3>1. h.pid \in Process
      BY <2>2 DEF IsAlive, Live
    <3> QED BY <1>1, <1>4, <2>1, <2>2, <3>1 DEF TypeOK
  <2>3. CASE ~IsAlive(h.pid, row.start)
    <3>1. NoLive
      BY <1>4, <2>1, <2>3 DEF IsAlive, NoLive
    <3> QED BY <1>4, <2>3, <3>1 DEF TypeOK, NoLive, Live
  <2> QED BY <2>2, <2>3
<1> QED BY <1>2, <1>3, <1>4 DEF StopSucceeds

LEMMA StopInv == Good /\ Stop => Sound'
<1> SUFFICES ASSUME Good, Stop PROVE Sound'
  OBVIOUS
<1>1. TypeOK /\ Core /\ Rest /\ ~Lost
  BY GoodParts
<1>2. /\ h.pc \in {"stop", "stopclean", "cgroup"}
      /\ UNCHANGED <<row, up, launches, faults, identity>>
  BY DEF Stop, StopProcess, StopCleans, StopCgroup, meterVars
<1>3. /\ h.state = row.state /\ h.pid = row.pid
      /\ h.pc = "stopclean" => Settled
      /\ h.pc = "cgroup" => Quiet
  BY <1>1, <1>2 DEF Rest, HandlerCurrent, StepReady
<1>4. CASE StopProcess
  <2>1. h.pc = "stop" /\ UNCHANGED <<tap, eng>>
    BY <1>4 DEF StopProcess, netVars
  <2>2. CASE Goto("stopclean") /\ NoLive' /\ child' = None /\ proc' \in [Process -> Proc]
             /\ sock' \in 0..MaxLaunch
    <3>1. h' \in Handler /\ h'.pc = "stopclean" /\ h'.state = h.state /\ h'.pid = h.pid
      BY <1>1, <2>2, GotoMove
    <3>2. Core'
      BY <1>1, <1>2, <2>1, <2>2, CoreSettled DEF Core, Quiet
    <3>3. (NoOrphanBoots /\ Settled)'
      BY <2>2 DEF NoOrphanBoots, Settled, NoLive, Live
    <3>4. (ChildRecorded /\ HandlerCurrent /\ DownIsIdle)'
      BY <1>1, <1>2, <1>3, <2>2, <3>1 DEF Rest, ChildRecorded, HandlerCurrent, DownIsIdle
    <3>5. StepReady'
      BY <3>1, <3>3 DEF StepReady, Launching, Settled, NoLive, Live
    <3> QED BY <1>1, <1>2, <2>1, <2>2, <3>1, <3>2, <3>3, <3>4, <3>5, GoodNext,
         LifecycleConstants DEF TypeOK, Rest
  <2>3. CASE Goto("stopclean") /\ h.state = "stopped" /\ UNCHANGED procVars
    <3>1. NoLive /\ child = None
      BY <1>1, <1>3, <2>3 DEF Core, Quiet, Settled
    <3> QED BY <1>1, <2>2, <2>3, <3>1 DEF procVars, NoLive, Live, TypeOK
  <2>4. CASE Goto("stopclean") /\ StopSucceeds
    BY <1>1, <1>3, <2>1, <2>2, <2>4, StopKills DEF Rest
  <2>5. CASE Fail /\ StopFails
    <3>1. UNCHANGED <<proc, sock, child>>
      BY <2>5 DEF StopFails
    <3>2. h' \in Handler /\ Rest'
      BY <1>1, <1>2, <1>3, <2>1, <2>5, <3>1, Failed
    <3>3. Core'
      BY <1>1, <1>2, <2>1, <3>1, CoreKept DEF Core, Quiet
    <3> QED BY <1>1, <1>2, <2>1, <3>1, <3>2, <3>3, GoodNext DEF TypeOK
  <2> QED BY <1>4, <2>3, <2>4, <2>5 DEF StopProcess
<1>5. CASE StopCleans
  <2>1. h.pc = "stopclean" /\ eng' = FALSE /\ UNCHANGED <<proc, sock, child>>
    BY <1>5 DEF StopCleans, procVars
  <2>2. tap' \in {"none", "down", "stuck"}
    BY <1>1, <1>5, RemoveMove DEF StopCleans
  <2>3. h' \in Handler /\ h'.pc = "cgroup" /\ h'.state = h.state /\ h'.pid = h.pid
    BY <1>1, <1>5, GotoMove DEF StopCleans
  <2>4. Core'
    BY <1>1, <1>2, <2>1, <2>2, CoreKept
  <2>5. Rest'
    BY <1>1, <1>2, <1>3, <2>1, <2>2, <2>3 DEF Rest, ChildRecorded, HandlerCurrent,
       StepReady, NoOrphanBoots, DownIsIdle, Launching, Quiet, Settled, NoLive, Live
  <2> QED BY <1>1, <1>2, <2>1, <2>2, <2>3, <2>4, <2>5, GoodNext DEF TypeOK
<1>6. CASE StopCgroup
  <2>1. h.pc = "cgroup" /\ UNCHANGED <<proc, sock, child, tap, eng>>
    BY <1>6 DEF StopCgroup, procVars, netVars
  <2>2. Core'
    BY <1>1, <1>2, <2>1, CoreKept DEF Core, Quiet
  <2>3. CASE Fail
    <3>1. h' \in Handler /\ Rest'
      BY <1>1, <1>2, <1>3, <2>1, <2>3, Failed
    <3> QED BY <1>1, <1>2, <2>1, <2>2, <3>1, GoodNext DEF TypeOK
  <2>4. CASE Plan("finish", "stopped")
    <3>1. /\ h' \in Handler /\ h'.pc = "finish" /\ h'.state = h.state /\ h'.pid = h.pid
          /\ h'.next = "stopped"
      BY <1>1, <2>4, PlanMove
    <3>2. Rest'
      BY <1>1, <1>2, <1>3, <2>1, <3>1 DEF Rest, ChildRecorded, HandlerCurrent,
         StepReady, NoOrphanBoots, DownIsIdle, Launching, Quiet, Settled, NoLive, Live
    <3> QED BY <1>1, <1>2, <2>1, <2>2, <3>1, <3>2, GoodNext DEF TypeOK
  <2> QED BY <1>6, <2>3, <2>4 DEF StopCgroup
<1> QED BY <1>4, <1>5, <1>6 DEF Stop

LEMMA ErrorInv == Good /\ OnError => Sound'
<1> SUFFICES ASSUME Good, OnError PROVE Sound'
  OBVIOUS
<1>1. TypeOK /\ Core /\ Rest /\ ~Lost
  BY GoodParts
<1>2. /\ h.pc \in {"errstop", "errclean", "errwrite"}
      /\ UNCHANGED <<up, launches, faults, identity>>
  BY DEF OnError, ErrorStops, ErrorCleans, ErrorWrites, meterVars
<1>3. /\ h.state = row.state
      /\ h.pc = "errclean" => h.next = "failed" /\ Settled
      /\ h.pc = "errwrite" => h.next \in {"failed", "unknown"} /\ (h.next = "failed" => Quiet)
  BY <1>1, <1>2 DEF Rest, HandlerCurrent, StepReady
<1>4. CASE ErrorStops
  <2>1. h.pc = "errstop" /\ UNCHANGED <<row, tap, eng>>
    BY <1>4 DEF ErrorStops, netVars
  <2>2. h.pid = row.pid \/ (h.pid = None /\ child = row.pid)
    BY <1>1, <2>1 DEF Rest, HandlerCurrent
  <2>3. CASE StopSucceeds /\ Plan("errclean", "failed")
    <3>1. /\ h' \in Handler /\ h'.pc = "errclean" /\ h'.next = "failed" /\ h'.state = h.state
      BY <1>1, <2>3, PlanMove
    <3>2. /\ NoLive' /\ child' = None /\ proc' \in [Process -> Proc]
          /\ sock' \in 0..MaxLaunch
      BY <1>1, <2>1, <2>2, <2>3, StopKills DEF Rest
    <3>3. Core'
      BY <1>1, <1>2, <2>1, <3>2, CoreSettled DEF Core, Quiet
    <3>4. (NoOrphanBoots /\ Settled)'
      BY <3>2 DEF NoOrphanBoots, Settled, NoLive, Live
    <3>5. (ChildRecorded /\ HandlerCurrent /\ DownIsIdle)'
      BY <1>1, <1>2, <1>3, <2>1, <3>1, <3>2 DEF Rest, ChildRecorded, HandlerCurrent, DownIsIdle
    <3>6. StepReady'
      BY <3>1, <3>4 DEF StepReady, Launching, Settled, NoLive, Live
    <3> QED BY <1>1, <1>2, <2>1, <3>1, <3>2, <3>3, <3>4, <3>5, <3>6, GoodNext,
         LifecycleConstants DEF TypeOK, Rest
  <2>4. CASE StopFails /\ Plan("errwrite", "unknown")
    <3>1. /\ h' \in Handler /\ h'.pc = "errwrite" /\ h'.next = "unknown" /\ h'.state = h.state
      BY <1>1, <2>4, PlanMove
    <3>2. UNCHANGED <<proc, sock, child>>
      BY <2>4 DEF StopFails
    <3>3. Core'
      BY <1>1, <1>2, <2>1, <3>2, CoreKept DEF Core, Quiet
    <3>4. Rest'
      BY <1>1, <1>2, <1>3, <2>1, <3>1, <3>2 DEF Rest, ChildRecorded, HandlerCurrent,
         StepReady, NoOrphanBoots, DownIsIdle, Launching
    <3> QED BY <1>1, <1>2, <2>1, <3>1, <3>2, <3>3, <3>4, GoodNext DEF TypeOK
  <2> QED BY <1>4, <2>3, <2>4 DEF ErrorStops
<1>5. CASE ErrorCleans
  <2>1. h.pc = "errclean" /\ eng' = FALSE /\ UNCHANGED <<row, proc, sock, child>>
    BY <1>5 DEF ErrorCleans, procVars
  <2>2. tap' \in {"none", "down", "stuck"}
    BY <1>1, <1>5, RemoveMove DEF ErrorCleans
  <2>3. h' \in Handler /\ h'.pc = "errwrite" /\ h'.state = h.state /\ h'.next = h.next
    BY <1>1, <1>5, GotoMove DEF ErrorCleans
  <2>4. Core'
    BY <1>1, <1>2, <2>1, <2>2, CoreKept
  <2>5. (NoOrphanBoots /\ Quiet)'
    BY <1>3, <2>1, <2>2 DEF NoOrphanBoots, Quiet, Settled, NoLive, Live
  <2>6. Rest'
    BY <1>1, <1>2, <1>3, <2>1, <2>3, <2>5 DEF Rest, ChildRecorded, HandlerCurrent,
       StepReady, DownIsIdle, Launching
  <2> QED BY <1>1, <1>2, <2>1, <2>2, <2>3, <2>4, <2>6, GoodNext DEF TypeOK
<1>6. CASE ErrorWrites
  <2>1. /\ h.pc = "errwrite" /\ Release /\ SetVmState(h.next, None)
        /\ UNCHANGED <<proc, sock, child, tap, eng>>
    BY <1>6 DEF ErrorWrites, procVars, netVars
  <2>2. row' \in Row /\ row'.state = h.next /\ row'.pid = None /\ row'.start = row.start
    BY <1>1, <1>3, <2>1, LifecycleConstants, VmStateMove
  <2>3. Core'
    BY <1>1, <1>2, <1>3, <2>1, <2>2, CoreWritten DEF IdentityCoherent, Live
  <2>4. Rest'
    BY <1>1, <1>2, <2>1, <2>2, Released DEF Rest
  <2> QED BY <1>1, <1>2, <2>1, <2>2, <2>3, <2>4, ReleaseMove, GoodNext DEF TypeOK
<1> QED BY <1>4, <1>5, <1>6 DEF OnError

-----------------------------------------------------------------------------
(* Update, delete and output *)

LEMMA DisksInv == Good /\ Disks => Sound'
<1> SUFFICES ASSUME Good, Disks PROVE Sound'
  OBVIOUS
<1>1. TypeOK /\ Core /\ Rest /\ ~Lost
  BY GoodParts
<1>2. /\ h.pc \in {"claim", "disk", "deleterow"}
      /\ UNCHANGED <<proc, child, up, launches, faults, identity>>
  BY DEF Disks, ClaimDisks, UpdateSpec, ReadOutput, DeleteFiles, DeleteRow, procVars,
     meterVars
<1>3. /\ h.state = row.state /\ h.pid = row.pid
      /\ h.pc # "claim" => h.state \in Inactive /\ Quiet
  BY <1>1, <1>2 DEF Core, Rest, HandlerCurrent, StepReady
<1>4. CASE ClaimDisks
  <2>1. h.pc = "claim" /\ UNCHANGED <<row, sock, tap, eng>>
    BY <1>4 DEF ClaimDisks, procVars, netVars
  <2>2. Core'
    BY <1>1, <1>2, <2>1, CoreKept DEF Core, Quiet
  <2>3. CASE Release
    BY <1>1, <1>2, <2>1, <2>2, <2>3, Released, ReleaseMove, GoodNext DEF TypeOK, Rest
  <2>4. CASE MayUseDisks /\ Goto("disk")
    <3>1. h' \in Handler /\ h'.pc = "disk" /\ h'.state = h.state /\ h'.pid = h.pid
      BY <1>1, <2>4, GotoMove
    <3>2. h.state \in Inactive
      BY <2>4 DEF MayUseDisks, Claimable
    <3>3. Rest'
      BY <1>1, <1>2, <1>3, <2>1, <3>1, <3>2 DEF Rest, ChildRecorded, HandlerCurrent,
         StepReady, NoOrphanBoots, DownIsIdle, Launching
    <3> QED BY <1>1, <1>2, <2>1, <2>2, <3>1, <3>3, GoodNext DEF TypeOK
  <2> QED BY <1>4, <2>3, <2>4 DEF ClaimDisks
<1>5. CASE UpdateSpec \/ ReadOutput \/ DeleteRow
  <2>1. h.pc \in {"disk", "deleterow"} /\ Release /\ UNCHANGED <<sock, tap, eng>>
    BY <1>5 DEF UpdateSpec, ReadOutput, DeleteRow, procVars, netVars
  <2>2. /\ row' \in Row /\ row'.state \in Ended
        /\ row'.pid = row.pid /\ row'.start = row.start
    BY <1>1, <1>3, <1>5, <2>1 DEF UpdateSpec, ReadOutput, DeleteRow, TypeOK, Row
  <2>3. Core'
    BY <1>1, <1>2, <1>3, <2>1, <2>2, CoreWritten DEF Core, Named, IdentityCoherent, Live
  <2>4. Rest'
    BY <1>1, <1>2, <2>1, <2>2, Released DEF Rest
  <2> QED BY <1>1, <1>2, <2>1, <2>2, <2>3, <2>4, ReleaseMove, GoodNext DEF TypeOK
<1>6. CASE DeleteFiles
  <2>1. /\ h.pc = "disk" /\ eng' = FALSE /\ UNCHANGED row /\ sock' \in 0..MaxLaunch
        /\ Goto("deleterow") \/ Release
    BY <1>1, <1>6, LifecycleConstants DEF DeleteFiles, TypeOK
  <2>2. tap' \in {"none", "down", "stuck"}
    BY <1>1, <1>6, RemoveMove DEF DeleteFiles
  <2>3. NoLive'
    BY <1>2, <1>3, <2>1 DEF Quiet, Settled, NoLive, Live
  <2>4. Core'
    BY <1>1, <1>2, <1>3, <2>1, <2>2, <2>3, CoreSettled DEF Quiet, Settled
  <2>5. CASE Release
    BY <1>1, <1>2, <2>1, <2>2, <2>4, <2>5, Released, ReleaseMove, GoodNext DEF TypeOK, Rest
  <2>6. CASE Goto("deleterow")
    <3>1. h' \in Handler /\ h'.pc = "deleterow" /\ h'.state = h.state /\ h'.pid = h.pid
      BY <1>1, <2>6, GotoMove
    <3>2. Rest'
      BY <1>1, <1>2, <1>3, <2>1, <3>1 DEF Rest, ChildRecorded, HandlerCurrent,
         StepReady, NoOrphanBoots, DownIsIdle, Launching
    <3> QED BY <1>1, <1>2, <2>1, <2>2, <2>4, <3>1, <3>2, GoodNext DEF TypeOK
  <2> QED BY <2>1, <2>5, <2>6
<1> QED BY <1>4, <1>5, <1>6 DEF Disks

-----------------------------------------------------------------------------
(* Recovery and the environment *)

LEMMA RecoverInv == Good /\ RecoverEgress => Sound'
<1> SUFFICES ASSUME Good, RecoverEgress PROVE Sound'
  OBVIOUS
<1>1. TypeOK /\ Core /\ Rest /\ ~Lost
  BY GoodParts
<1>2. /\ h.pc = "recover" /\ Release
      /\ UNCHANGED <<row, proc, sock, child, up, launches, faults, identity>>
  BY DEF RecoverEgress, procVars, meterVars
<1>3. h.state = row.state
  BY <1>1, <1>2 DEF Rest, HandlerCurrent
<1>4. eng' \in BOOLEAN /\ tap' \in {"none", "up", "down", "stuck"}
  BY <1>1 DEF RecoverEgress, SuspendTap, TypeOK, netVars
<1>5. row.state \in Ended => ~eng' /\ tap' # "up"
  BY <1>1, <1>3 DEF RecoverEgress, SuspendTap, Core, Quiet, netVars
<1>6. Core'
  BY <1>1, <1>2, <1>5, CoreKept
<1>7. Rest'
  BY <1>1, <1>2, Released DEF Rest
<1> QED BY <1>1, <1>2, <1>4, <1>6, <1>7, ReleaseMove, GoodNext DEF TypeOK

LEMMA AbandonInv == Good /\ Abandon => Sound'
<1> SUFFICES ASSUME Good, Abandon PROVE Sound'
  OBVIOUS
<1>1. TypeOK /\ Core /\ Rest /\ ~Lost
  BY GoodParts
<1>2. /\ Dropped /\ Release /\ faults' \in 0..MaxFaults
      /\ UNCHANGED <<row, proc, sock, child, tap, eng, up, launches>>
  BY <1>1, LifecycleConstants DEF Abandon, TypeOK, procVars, netVars
<1>3. h' \in Handler /\ h'.pc = "idle"
  BY <1>2, ReleaseMove
<1>4. CASE h.pc = "setproc"
  <2>1. row.pid = None /\ identity' = "dropped"
    BY <1>1, <1>2, <1>4 DEF Rest, StepReady, Dropped, Lost
  <2>2. Core'
    BY <1>1, <1>2, <2>1 DEF Core, OneAlive, Quiet, Settled, NoLive, Live, Bound, IdentityCoherent, Named
  <2>3. Rest'
    BY <1>1, <1>2, <1>3, <2>1 DEF Rest, ChildRecorded, HandlerCurrent, StepReady, NoOrphanBoots,
       DownIsIdle, Launching
  <2> QED BY <1>1, <1>2, <1>3, <2>1, <2>2, <2>3, GoodNext DEF TypeOK
<1>5. CASE h.pc # "setproc"
  <2>1. UNCHANGED identity
    BY <1>2, <1>5 DEF Dropped
  <2>2. Core'
    BY <1>1, <1>2, <2>1, CoreKept DEF Core, Quiet
  <2>3. Rest'
    BY <1>1, <1>2, <1>5, <2>1, Released DEF Rest
  <2> QED BY <1>1, <1>2, <1>3, <2>1, <2>2, <2>3, GoodNext DEF TypeOK
<1> QED BY <1>4, <1>5

(* A crash leaves the row, and what it tells of the process, unless that is *)
(* lost with the child.                                                     *)
LEMMA CrashInv == Good /\ Crash /\ ~Lost' => Sound'
<1> SUFFICES ASSUME Good, Crash, ~Lost' PROVE Sound'
  OBVIOUS
<1>1. TypeOK /\ Core /\ Rest /\ ~Lost
  BY GoodParts
<1>2. /\ Release /\ child' = None /\ eng' = FALSE /\ up' = FALSE /\ Forgotten
      /\ faults' \in 0..MaxFaults /\ UNCHANGED <<row, proc, sock, tap, launches>>
  BY <1>1, LifecycleConstants DEF Crash, TypeOK
<1>3. /\ UNCHANGED identity
      /\ identity = "dropped" /\ Live(row.pid) => row.start = row.pid
  BY <1>2 DEF Forgotten, Lost
<1>4. Core'
  BY <1>1, <1>2, <1>3 DEF Core, OneAlive, Quiet, Settled, NoLive, Live, Bound,
     IdentityCoherent, Named
<1>5. h' \in Handler /\ h'.pc = "idle"
  BY <1>2, ReleaseMove
<1>6. Rest'
  BY <1>2, <1>5 DEF Rest, ChildRecorded, HandlerCurrent, StepReady, NoOrphanBoots,
     DownIsIdle, Launching
<1>7. child' \in 0..MaxLaunch
  BY <1>2, LifecycleConstants
<1>8. eng' \in BOOLEAN /\ up' \in BOOLEAN
  BY <1>2
<1>9. TypeOK'
  BY <1>1, <1>2, <1>3, <1>5, <1>7, <1>8 DEF TypeOK
<1> QED BY <1>4, <1>6, <1>9, GoodNext

LEMMA RestartInv == Good /\ Restart => Sound'
<1> SUFFICES ASSUME Good, Restart PROVE Sound'
  OBVIOUS
<1>1. TypeOK /\ Core /\ Rest /\ ~Lost
  BY GoodParts
<1>2. /\ h.pc = "idle" /\ up' = TRUE /\ OrphansBound
      /\ UNCHANGED <<row, proc, sock, child, tap, eng, launches, faults, identity>>
  BY <1>1 DEF Restart, Rest, DownIsIdle, procVars, netVars
<1>3. Core'
  BY <1>1, <1>2, CoreKept DEF Core, Quiet
<1>4. CASE Release
  BY <1>1, <1>2, <1>3, <1>4, Released, ReleaseMove, GoodNext DEF TypeOK, Rest
<1>5. CASE Enter("probe", "Recover", row.state, row.pid)
  <2>1. h' \in Handler /\ h'.pc = "probe" /\ h'.state = row.state /\ h'.pid = row.pid
    BY <1>1, <1>5, EnterMove DEF TypeOK
  <2>2. Rest'
    BY <1>1, <1>2, <2>1 DEF Rest, ChildRecorded, HandlerCurrent, StepReady,
       NoOrphanBoots, DownIsIdle, Launching, OrphansBound
  <2> QED BY <1>1, <1>2, <1>3, <2>1, <2>2, GoodNext DEF TypeOK
<1> QED BY <1>4, <1>5 DEF Restart

LEMMA ProcessInv ==
  ASSUME Good, NEW n \in Process, Bind(n) \/ Exit(n) PROVE Sound'
<1>1. TypeOK /\ Core /\ Rest /\ ~Lost
  BY GoodParts
<1>2. UNCHANGED <<row, child, tap, eng, h, up, launches, faults, identity>>
  BY DEF Bind, Exit, netVars, meterVars
<1>3. CASE Kill(n) /\ Live(n) /\ UNCHANGED sock
  <2>1. /\ proc' \in [Process -> Proc]
        /\ \A m \in Process : Live(m)' <=> Live(m) /\ m # n
        /\ \A m \in Process : Bound(m)' <=> Bound(m) /\ m # n
    BY <1>1, <1>3, KillMove
  <2>2. Core'
    BY <1>1, <1>2, <1>3, <2>1, LivesIsProcess DEF Core, OneAlive, Quiet, Settled, NoLive,
       IdentityCoherent, Named
  <2>3. NoOrphanBoots'
    BY <1>1, <1>2, <2>1 DEF Rest, NoOrphanBoots, Live, Bound
  <2>4. Settled => Settled'
    BY <1>2, <2>1 DEF Settled, NoLive
  <2>5. StepReady'
    BY <1>1, <1>2, <2>1, <2>4 DEF Rest, StepReady, Quiet, Launching
  <2>6. Rest'
    BY <1>1, <1>2, <2>3, <2>5 DEF Rest, ChildRecorded, HandlerCurrent, DownIsIdle
  <2> QED BY <1>1, <1>2, <1>3, <2>1, <2>2, <2>6, GoodNext DEF TypeOK
<1>4. CASE Becomes(n, "idle") /\ proc[n].st = "booting" /\ sock' = n
  <2>1. /\ proc' \in [Process -> Proc]
        /\ \A m \in Process : proc'[m].st = IF m = n THEN "idle" ELSE proc[m].st
    BY <1>1, <1>4, BecomesMove
  <2>2. Live(n) /\ \A m \in Process : Live(m) => m = n
    BY <1>1, <1>4 DEF Core, OneAlive, Live
  <2>3. /\ \A m \in Process : Live(m)' <=> Live(m)
        /\ \A m \in Process : Bound(m)' => m = n
    BY <2>1, <2>2 DEF Live, Bound
  <2>4. Core'
    BY <1>1, <1>2, <1>4, <2>2, <2>3, LivesIsProcess DEF Core, OneAlive, Quiet, Settled, NoLive,
       IdentityCoherent, Named
  <2>5. NoOrphanBoots'
    BY <1>1, <1>2, <2>1 DEF Rest, NoOrphanBoots
  <2>6. Settled' <=> Settled
    BY <1>2, <2>3 DEF Settled, NoLive
  <2>7. StepReady'
    BY <1>1, <1>2, <2>3, <2>6 DEF Rest, StepReady, Quiet, Launching
  <2>8. Rest'
    BY <1>1, <1>2, <2>5, <2>7 DEF Rest, ChildRecorded, HandlerCurrent, DownIsIdle
  <2> QED BY <1>1, <1>2, <1>4, <2>1, <2>4, <2>8, GoodNext DEF TypeOK
<1> QED BY <1>3, <1>4 DEF Bind, Exit, Live

LEMMA StutterInv == ASSUME Good, UNCHANGED vars PROVE Sound'
<1>1. UNCHANGED <<row, proc, sock, child, tap, eng, h, up, launches, faults, identity>>
  BY DEF vars
<1>2. TypeOK /\ Core /\ Rest /\ ~Lost
  BY GoodParts
<1>3. Core'
  BY <1>1, <1>2, CoreKept DEF Core, Quiet
<1>4. Rest'
  BY <1>1, <1>2 DEF Rest, ChildRecorded, HandlerCurrent, StepReady, NoOrphanBoots,
     DownIsIdle, Launching, Quiet, Settled, NoLive, Live
<1> QED BY <1>1, <1>2, <1>3, <1>4, GoodNext DEF TypeOK

-----------------------------------------------------------------------------
(* ChildrenReaped and TypeOK, wherever clients disconnect *)

(* No process appears, and the table of children loses at most its entry.   *)
ChildStays ==
  /\ \A n \in Process : Live(n)' => Live(n)
  /\ child' \in {child, None}
  /\ launches' = launches

LEMMA ChildAlone == UNCHANGED <<proc, child, launches>> => ChildStays
  BY DEF ChildStays, Live

LEMMA ChildStaysDown == ASSUME ChildStays, ChildDown PROVE ChildDown'
  BY DEF ChildStays, ChildDown, Live

LEMMA ChildKept ==
  ASSUME ChildInv, TypeOK', ChildStays,
         row'.state \in Ended => row.state \in Ended \/ ChildDown',
         h'.pc # "idle" => h'.state = row'.state,
         ChildReady'
  PROVE  ChildInv'
<1>1. child' \in 0..launches'
  BY LifecycleConstants DEF ChildInv, TypeOK, ChildStays
<1>2. row'.state \in Ended => ChildDown'
  BY ChildStaysDown DEF ChildInv
<1> QED BY <1>1, <1>2 DEF ChildInv

LEMMA ChildReleased ==
  ASSUME ChildInv, TypeOK', ChildStays, Release,
         row'.state \in Ended => row.state \in Ended \/ ChildDown'
  PROVE  ChildInv'
<1>1. h'.pc = "idle"
  BY ReleaseMove
<1>2. ChildReady'
  BY <1>1 DEF ChildReady, Launching
<1> QED BY <1>1, <1>2, ChildKept

LEMMA ChildFails ==
  ASSUME ChildInv, h.pc # "idle", TypeOK', ChildStays, Fail, UNCHANGED row
  PROVE  ChildInv'
<1>1. TypeOK /\ h.state = row.state
  BY DEF ChildInv
<1>2. \/ h'.pc = "idle"
      \/ h'.pc = "errstop" /\ h'.state = h.state
  BY <1>1, FailMove
<1>3. ChildReady'
  BY <1>2 DEF ChildReady, Launching
<1> QED BY <1>1, <1>2, <1>3, ChildKept

(* One lemma per group of actions. *)

LEMMA ChildBegins == ASSUME ChildInv, NEW op \in Ops, Begin(op) PROVE ChildInv'
<1>1. /\ h' \in Handler /\ h'.pc \in {"probe", "raw", "call", "stop", "restore"}
      /\ h'.state = row.state
      /\ h'.pc = "call" => h'.op \in CallOps
  <2>1. /\ FirstStep(op) \in {"probe", "raw", "call", "stop", "restore"}
        /\ FirstStep(op) = "call" => op \in CallOps
    BY FirstSteps
  <2>2. row \in Row /\ op \in Ops \cup {"Recover"}
    BY DEF ChildInv, TypeOK
  <2>3. PICK step \in {"probe", "raw", "call", "stop", "restore"} :
          step = FirstStep(op) /\ Enter(step, op, row.state, row.pid)
    BY <2>1 DEF Begin
  <2> QED BY <2>1, <2>2, <2>3, EnterMove
<1>2. UNCHANGED <<row, proc, sock, child, tap, eng, up, launches, faults, identity>>
  BY DEF Begin, procVars, netVars, meterVars
<1>3. TypeOK'
  BY <1>1, <1>2 DEF ChildInv, TypeOK
<1>4. ChildReady'
  BY <1>1 DEF ChildReady, Launching
<1> QED BY <1>1, <1>2, <1>3, <1>4, ChildAlone, ChildKept

(* is_process_stopped and Reap speak of the child first. *)
LEMMA ChildReaped ==
  ASSUME TypeOK, Reap, UNCHANGED <<proc, launches>>
  PROVE  /\ ChildStays /\ child' \in 0..MaxLaunch
         /\ IsProcessStopped => ChildDown'
  BY LifecycleConstants DEF TypeOK, Reap, ChildStays, IsProcessStopped, ChildDown, Live

LEMMA ChildRefreshes == ASSUME ChildInv, Refresh PROVE ChildInv'
<1>1. TypeOK /\ ChildReady
  BY DEF ChildInv
<1>2. row.state \in RowState /\ row.pid \in 0..MaxLaunch /\ None \in 0..MaxLaunch
  BY <1>1, LifecycleConstants DEF TypeOK, Row
<1>3. h.pid \in 0..MaxLaunch /\ h.state = row.state
      /\ h.pc \in {"probe", "adopt", "clean", "write"}
  BY DEF ChildInv, TypeOK, Handler, Refresh, RefreshSkips, RefreshAnswered, RefreshSilent,
     RefreshUnverified, RefreshAdopts, RefreshCleans, RefreshWrites
<1>4. CASE RefreshSkips
  <2>1. h.pc = "probe" /\ UNCHANGED <<row, proc, sock, child, tap, eng, up, launches, faults, identity>>
    BY <1>4 DEF RefreshSkips, procVars, netVars, meterVars
  <2>2. /\ h' \in Handler /\ h'.pc \in {"idle", "guard", "claim", "recover"}
        /\ h'.pc # "idle" => h'.state = row.state
    BY <1>1, <1>2, <1>3, <1>4, ReturnMove DEF RefreshSkips
  <2>3. TypeOK' /\ ChildReady'
    BY <1>1, <2>1, <2>2 DEF TypeOK, ChildReady, Launching
  <2> QED BY <2>1, <2>2, <2>3, ChildAlone, ChildKept
<1>5. CASE RefreshAnswered
  <2>1. h.pc = "probe" /\ UNCHANGED <<row, proc, sock, child, tap, eng, up, launches, faults, identity>>
    BY <1>5 DEF RefreshAnswered, procVars, netVars, meterVars
  <2>2. Reported(sock) \in Verified
    BY <1>5, Ranges DEF RefreshAnswered, Answers, Connects, Bound
  <2>3. /\ h' \in Handler /\ h'.pc \in {"adopt", "write"} /\ h'.next \in Verified
        /\ h'.state = h.state
    BY <1>1, <1>5, <2>2, PlanMove DEF RefreshAnswered
  <2>4. TypeOK' /\ ChildReady'
    BY <1>1, <2>1, <2>3 DEF TypeOK, ChildReady, Launching
  <2> QED BY <1>3, <2>1, <2>3, <2>4, ChildAlone, ChildKept
<1>6. CASE RefreshSilent \/ RefreshUnverified
  <2>1. /\ h.pc = "probe" /\ Reap
        /\ UNCHANGED <<row, proc, sock, eng, up, launches, faults, identity>>
    BY <1>6 DEF RefreshSilent, RefreshUnverified, netVars, meterVars
  <2>2. tap' \in {"none", "up", "down", "stuck"}
    BY <1>1, <1>6 DEF RefreshSilent, RefreshUnverified, SuspendTap, TypeOK, netVars
  <2>3. /\ h' \in Handler /\ h'.pc \in {"clean", "write"} /\ h'.next \in {"stopped", "unknown"}
        /\ h'.state = h.state
    BY <1>1, <1>6, PlanMove DEF RefreshSilent, RefreshUnverified
  <2>4. h'.next = "stopped" => h.state = "stopped" \/ IsProcessStopped
    BY <1>1, <1>6, PlanMove DEF RefreshSilent, RefreshUnverified
  <2>5. ChildStays /\ child' \in 0..MaxLaunch /\ (IsProcessStopped => ChildDown')
    BY <1>1, <2>1, ChildReaped
  <2>6. h'.next = "stopped" => ChildDown'
    BY <1>3, <2>4, <2>5, ChildStaysDown DEF ChildInv
  <2>7. TypeOK' /\ ChildReady'
    BY <1>1, <2>1, <2>2, <2>3, <2>5, <2>6 DEF TypeOK, ChildReady, Launching
  <2> QED BY <1>3, <2>1, <2>3, <2>5, <2>7, ChildKept
<1>7. CASE RefreshAdopts
  <2>1. /\ h.pc = "adopt" /\ h.next \in Verified
        /\ UNCHANGED <<proc, sock, child, tap, eng, up, launches, faults>>
        /\ identity' \in {"kept", "dropped", "lost"}
    BY <1>1, <1>7 DEF RefreshAdopts, Identified, TypeOK, procVars, netVars, ChildReady
  <2>2. sock \in 0..MaxLaunch
    BY <1>1 DEF TypeOK
  <2>3. row' \in Row /\ row'.state = row.state
    BY <1>1, <1>7, <2>2, ProcessMove DEF RefreshAdopts, TypeOK
  <2>4. h' \in Handler /\ h'.pc = "write" /\ h'.state = h.state /\ h'.next = h.next
    BY <1>1, <1>2, <1>3, <1>7, <2>2, LearnMove, GotoMove DEF RefreshAdopts
  <2>5. TypeOK' /\ ChildReady'
    BY <1>1, <2>1, <2>3, <2>4 DEF TypeOK, ChildReady, Launching
  <2> QED BY <1>3, <2>1, <2>3, <2>4, <2>5, ChildAlone, ChildKept
<1>8. CASE RefreshCleans
  <2>1. /\ h.pc = "clean" /\ eng' = FALSE
        /\ UNCHANGED <<row, proc, sock, child, up, launches, faults, identity>>
    BY <1>8 DEF RefreshCleans, procVars, meterVars
  <2>2. tap' \in {"none", "down", "stuck"}
    BY <1>1, <1>8, RemoveMove DEF RefreshCleans
  <2>3. h' \in Handler /\ h'.pc = "write" /\ h'.state = h.state /\ h'.next = h.next
    BY <1>1, <1>8, GotoMove DEF RefreshCleans
  <2>4. TypeOK'
    BY <1>1, <2>1, <2>2, <2>3 DEF TypeOK
  <2>5. ChildReady'
    BY <1>1, <2>1, <2>3, ChildAlone, ChildStaysDown DEF ChildReady, Launching
  <2> QED BY <1>3, <2>1, <2>3, <2>4, <2>5, ChildAlone, ChildKept
<1>9. CASE RefreshWrites
  <2> DEFINE p == IF h.next = "stopped" THEN None ELSE h.pid
  <2>1. /\ h.pc = "write" /\ h.next \in RowState /\ (h.next \in Ended => ChildDown)
        /\ UNCHANGED <<proc, sock, child, tap, eng, up, launches, faults, identity>>
    BY <1>1, <1>9 DEF RefreshWrites, procVars, netVars, meterVars, ChildReady
  <2>2. p \in 0..MaxLaunch /\ SetVmState(h.next, p) /\ Return(h.next, p)
    BY <1>2, <1>3, <1>9 DEF RefreshWrites
  <2>3. row' \in Row /\ row'.state = h.next
    BY <1>1, <2>1, <2>2, VmStateMove
  <2>4. /\ h' \in Handler /\ h'.pc \in {"idle", "guard", "claim", "recover"}
        /\ h'.pc # "idle" => h'.state = h.next
    BY <1>1, <2>1, <2>2, ReturnMove
  <2>5. TypeOK' /\ ChildReady'
    BY <1>1, <2>1, <2>3, <2>4 DEF TypeOK, ChildReady, Launching
  <2> QED BY <2>1, <2>3, <2>4, <2>5, ChildAlone, ChildStaysDown, ChildKept
<1> QED BY <1>4, <1>5, <1>6, <1>7, <1>8, <1>9 DEF Refresh

LEMMA ChildGuards ==
  ASSUME ChildInv, GuardRefuses \/ GuardFresh \/ GuardReady \/ RestoreGuard
  PROVE  ChildInv'
<1>1. /\ TypeOK /\ h.state = row.state /\ h.pid \in 0..MaxLaunch /\ None \in 0..MaxLaunch
      /\ h.pc \in {"guard", "restore"}
      /\ UNCHANGED <<proc, sock, child, tap, eng, up, launches, faults, identity>>
  BY LifecycleConstants DEF ChildInv, TypeOK, Handler, GuardRefuses, GuardFresh, GuardReady,
     RestoreGuard, procVars, netVars, meterVars
<1>2. ChildStays
  BY <1>1, ChildAlone
<1>3. CASE Release /\ UNCHANGED row
  <2>1. TypeOK'
    BY <1>1, <1>3, ReleaseMove DEF TypeOK
  <2> QED BY <1>2, <1>3, <2>1, ChildReleased
<1>4. CASE Goto("boot") /\ UNCHANGED row
  <2>1. h' \in Handler /\ h'.pc = "boot" /\ h'.state = h.state
    BY <1>1, <1>4, GotoMove
  <2>2. TypeOK' /\ ChildReady'
    BY <1>1, <1>4, <2>1 DEF TypeOK, ChildReady, Launching
  <2> QED BY <1>1, <1>2, <1>4, <2>1, <2>2, ChildKept
<1>5. CASE h.state \in Inactive /\ MarkStarting(None, "socket")
  <2>1. /\ h' \in Handler /\ h'.pc = "socket" /\ h'.state = "starting"
        /\ row' \in Row /\ row'.state = "starting"
    BY <1>1, <1>5, Marked
  <2>2. ChildDown'
    BY <1>1, <1>2, <1>5, ChildStaysDown DEF ChildInv
  <2>3. TypeOK' /\ ChildReady'
    BY <1>1, <2>1, <2>2 DEF TypeOK, ChildReady, Launching
  <2> QED BY <1>2, <2>1, <2>3, ChildKept
<1>6. CASE MarkStarting(h.pid, "tap")
  <2>1. /\ h' \in Handler /\ h'.pc = "tap" /\ h'.state = "starting"
        /\ row' \in Row /\ row'.state = "starting"
    BY <1>1, <1>6, Marked
  <2>2. TypeOK' /\ ChildReady'
    BY <1>1, <2>1 DEF TypeOK, ChildReady, Launching
  <2> QED BY <1>2, <2>1, <2>2, ChildKept
<1> QED BY <1>3, <1>4, <1>5, <1>6 DEF GuardRefuses, GuardFresh, GuardReady, RestoreGuard

(* The process that launch_process spawns has a number that no child bears, *)
(* and it becomes the child only in place of one that is dead.              *)
LEMMA ChildLaunches == ASSUME ChildInv, Launch PROVE ChildInv'
<1>1. /\ TypeOK /\ ChildReady /\ h.state = row.state
      /\ h.pc \in {"socket", "spawn", "insert", "setproc", "setstart", "wait"}
      /\ UNCHANGED <<tap, eng, up, faults>>
      /\ identity' \in {"kept", "dropped", "lost"}
  BY DEF ChildInv, TypeOK, Identified, Launch, LaunchSocket, LaunchSpawns, LaunchInserts, LaunchSetsProcess,
     LaunchSetsState, LaunchWaits, netVars, meterVars
<1>2. CASE LaunchSocket
  <2>1. h.pc = "socket" /\ sock' \in {sock, None} /\ UNCHANGED <<row, proc, child, launches>>
    BY <1>2 DEF LaunchSocket, meterVars
  <2>2. ChildStays
    BY <2>1, ChildAlone
  <2>3. CASE Fail
    <3>1. TypeOK'
      BY <1>1, <2>1, <2>3, FailMove, LifecycleConstants DEF TypeOK
    <3> QED BY <2>1, <2>2, <2>3, <3>1, ChildFails
  <2>4. CASE Goto("spawn")
    <3>1. h' \in Handler /\ h'.pc = "spawn" /\ h'.state = h.state
      BY <1>1, <2>4, GotoMove
    <3>2. TypeOK'
      BY <1>1, <2>1, <3>1, LifecycleConstants DEF TypeOK
    <3>3. ChildReady'
      BY <1>1, <2>1, <2>2, <3>1, ChildStaysDown DEF ChildReady, Launching
    <3> QED BY <1>1, <2>1, <2>2, <3>1, <3>2, <3>3, ChildKept
  <2> QED BY <1>2, <2>3, <2>4 DEF LaunchSocket
<1>3. CASE LaunchSpawns
  <2> DEFINE n == launches + 1
  <2>1. /\ h.pc = "spawn" /\ n \in Process /\ launches' = n /\ UNCHANGED <<row, sock, child>>
        /\ proc' = [proc EXCEPT ![n] = [st |-> "booting", cfg |-> {}]]
        /\ h' = [h EXCEPT !.pc = "insert", !.new = n]
    BY <1>1, <1>3, LifecycleConstants DEF LaunchSpawns, TypeOK
  <2>2. h' \in Handler /\ h'.pc = "insert" /\ h'.state = h.state /\ h'.new = n
    <3>1. h' = [pc |-> "insert", op |-> h.op, state |-> h.state, pid |-> h.pid,
                next |-> h.next, new |-> n]
      BY <1>1, <2>1 DEF TypeOK, Handler
    <3>2. n \in 0..MaxLaunch
      BY <2>1, LifecycleConstants
    <3> QED BY <1>1, <3>1, <3>2 DEF TypeOK, Handler
  <2>3. proc' \in [Process -> Proc] /\ \A m \in Process \ {n} : proc'[m] = proc[m]
    BY <1>1, <2>1 DEF TypeOK, Proc
  <2>4. launches \in 0..MaxLaunch /\ child \in 0..launches
    BY DEF ChildInv, TypeOK
  <2>5. ChildDown'
    BY <1>1, <2>1, <2>3, <2>4, LifecycleConstants DEF ChildReady, ChildDown, Live
  <2>6. TypeOK'
    BY <1>1, <2>1, <2>2, <2>3, LifecycleConstants DEF TypeOK
  <2>7. ChildReady'
    BY <1>1, <2>1, <2>2, <2>4, <2>5, LifecycleConstants DEF ChildReady, Launching
  <2> QED BY <1>1, <2>1, <2>2, <2>4, <2>5, <2>6, <2>7, LifecycleConstants DEF ChildInv
<1>4. CASE LaunchInserts
  <2>1. /\ h.pc = "insert" /\ child' = h.new /\ h.new \in 0..launches /\ h.state = "starting"
        /\ UNCHANGED <<row, proc, sock, launches>>
    BY <1>1, <1>4 DEF LaunchInserts, ChildReady, Launching, meterVars
  <2>2. h' \in Handler /\ h'.pc = "setproc" /\ h'.state = h.state
    BY <1>1, <1>4, GotoMove DEF LaunchInserts
  <2>3. h.new \in 0..MaxLaunch
    BY <1>1 DEF TypeOK, Handler
  <2>4. TypeOK' /\ ChildReady'
    BY <1>1, <2>1, <2>2, <2>3 DEF TypeOK, ChildReady, Launching
  <2> QED BY <1>1, <2>1, <2>2, <2>4 DEF ChildInv
<1>5. CASE LaunchSetsProcess \/ LaunchSetsState
  <2>1. /\ h.pc \in {"setproc", "setstart"} /\ h.state = "starting"
        /\ UNCHANGED <<proc, sock, child, launches>>
    BY <1>1, <1>5 DEF LaunchSetsProcess, LaunchSetsState, ChildReady, Launching, procVars, meterVars
  <2>2. h.new \in 0..MaxLaunch
    BY <1>1 DEF TypeOK, Handler
  <2>3. row' \in Row /\ row'.state = "starting"
    BY <1>1, <1>5, <2>1, <2>2, ProcessMove, VmStateMove DEF LaunchSetsProcess, LaunchSetsState
  <2>4. h' \in Handler /\ h'.pc \in {"setstart", "wait"} /\ h'.state = h.state
    BY <1>1, <1>5, GotoMove DEF LaunchSetsProcess, LaunchSetsState
  <2>5. TypeOK' /\ ChildReady'
    BY <1>1, <2>1, <2>3, <2>4 DEF TypeOK, ChildReady, Launching
  <2> QED BY <2>1, <2>3, <2>4, <2>5, ChildAlone, ChildKept
<1>6. CASE LaunchWaits
  <2>1. h.pc = "wait" /\ UNCHANGED <<row, proc, sock, child, launches>>
    BY <1>6 DEF LaunchWaits, procVars, meterVars
  <2>2. h.state = "starting"
    BY <1>1, <2>1 DEF ChildReady, Launching
  <2>3. CASE Fail
    <3>1. TypeOK'
      BY <1>1, <2>1, <2>3, FailMove DEF TypeOK
    <3> QED BY <2>1, <2>3, <3>1, ChildAlone, ChildFails
  <2>4. CASE Plan("finish", "ready") \/ Goto("tap")
    <3>1. /\ h' \in Handler /\ h'.pc \in {"finish", "tap"} /\ h'.state = h.state
          /\ h'.pc = "finish" => h'.next = "ready"
      BY <1>1, <2>4, GotoMove, PlanMove
    <3>2. TypeOK' /\ ChildReady'
      BY <1>1, <2>1, <2>2, <3>1 DEF TypeOK, ChildReady, Launching
    <3> QED BY <1>1, <2>1, <3>1, <3>2, ChildAlone, ChildKept
  <2> QED BY <1>6, <2>3, <2>4 DEF LaunchWaits
<1> QED BY <1>2, <1>3, <1>4, <1>5, <1>6 DEF Launch

(* Where the handler goes on with a process of its own. *)
LEMMA ChildGoesOn ==
  ASSUME ChildInv, h.pc \in {"tap", "register", "config", "boot", "load", "call"}, TypeOK',
         UNCHANGED <<row, child, launches>>, \A m \in Process : Live(m)' <=> Live(m),
         h'.state = h.state, h'.pc \in {"register", "load", "config", "boot", "finish"},
         h'.pc \in {"register", "load"} => h.state = "starting",
         h'.pc = "config" => h'.next \in Devices,
         h'.pc = "finish" => h'.next \in RowState \ Ended
  PROVE  ChildInv'
<1>1. ChildStays
  BY DEF ChildStays
<1>2. ChildReady'
  BY DEF ChildReady, Launching
<1> QED BY <1>1, <1>2, ChildKept DEF ChildInv

LEMMA ChildPrepares == ASSUME ChildInv, Prepare PROVE ChildInv'
<1>1. /\ TypeOK /\ ChildReady /\ h.pc \in {"tap", "register", "config"}
      /\ UNCHANGED <<row, sock, child, up, launches, faults, identity>>
  BY DEF ChildInv, Prepare, TapCreate, TapRegister, ConfigPut, procVars, meterVars
<1>2. /\ h.pc \in {"tap", "register"} => h.state = "starting"
      /\ h.pc = "config" => h.next \in Devices
  BY <1>1 DEF ChildReady, Launching
<1>3. tap' \in {"none", "up", "down", "stuck"} /\ eng' \in BOOLEAN
  BY <1>1, LifecycleConstants, RemoveMove DEF Prepare, TapCreate, TapRegister, ConfigPut, TypeOK, netVars
<1>4. proc' \in [Process -> Proc] /\ \A m \in Process : Live(m)' <=> Live(m)
  <2>1. CASE UNCHANGED proc
    BY <1>1, <2>1 DEF TypeOK, Live
  <2>2. CASE h.pc = "config" /\ Answers /\ proc' = [proc EXCEPT ![sock].cfg = @ \cup {h.next}]
    <3>1. sock \in Process /\ h.next \in Devices
      BY <1>2, <2>2 DEF Answers, Connects, Bound
    <3>2. proc' \in [Process -> Proc]
      BY <1>1, <2>2, <3>1 DEF TypeOK, Proc
    <3>3. \A m \in Process : proc'[m].st = proc[m].st
      BY <1>1, <2>2, <3>1 DEF TypeOK, Proc
    <3> QED BY <3>2, <3>3 DEF Live
  <2> QED BY <2>1, <2>2 DEF Prepare, TapCreate, TapRegister, ConfigPut, procVars
<1>5. CASE Fail
  <2>1. TypeOK'
    BY <1>1, <1>3, <1>4, <1>5, FailMove DEF TypeOK
  <2> QED BY <1>1, <1>4, <1>5, <2>1, ChildFails DEF ChildStays
<1>6. CASE \/ h.pc = "tap" /\ Goto("register")
           \/ h.pc = "register" /\ AfterTap
           \/ h.pc = "config" /\ AfterDevice
  <2>1. /\ h' \in Handler /\ h'.pc \in {"register", "load", "config", "boot", "finish"}
        /\ h'.state = h.state
        /\ h'.pc \in {"register", "load"} => h.pc \in {"tap", "register"}
        /\ h'.pc = "config" => h'.next \in Devices
        /\ h'.pc = "finish" => h'.next = "ready"
    BY <1>1, <1>6, GotoMove, PlanMove DEF AfterTap, AfterDevice
  <2>2. TypeOK'
    BY <1>1, <1>3, <1>4, <2>1 DEF TypeOK
  <2> QED BY <1>1, <1>2, <1>4, <2>1, <2>2, ChildGoesOn
<1>7. CASE TapCreate
  BY <1>5, <1>6, <1>7 DEF TapCreate
<1>8. CASE TapRegister
  BY <1>5, <1>6, <1>8 DEF TapRegister
<1>9. CASE ConfigPut
  BY <1>5, <1>6, <1>9 DEF ConfigPut
<1> QED BY <1>7, <1>8, <1>9 DEF Prepare

LEMMA ChildCalls == ASSUME ChildInv, InstanceStart \/ SnapshotLoad \/ Call PROVE ChildInv'
<1>1. /\ TypeOK /\ ChildReady /\ h.state = row.state /\ h.pc \in {"boot", "load", "call"}
      /\ UNCHANGED <<row, sock, child, tap, eng, up, launches, faults, identity>>
  BY DEF ChildInv, InstanceStart, SnapshotLoad, Call, netVars, meterVars
<1>2. Call => h.op \in CallOps
  BY <1>1 DEF Call, ChildReady
<1>3. proc' \in [Process -> Proc] /\ \A m \in Process : Live(m)' <=> Live(m)
  <2>1. CASE UNCHANGED proc
    BY <1>1, <2>1 DEF TypeOK, Live
  <2>2. CASE InstanceStart /\ Answers /\ Becomes(sock, "running")
    BY <1>1, <2>2, StaysOrRuns
  <2>3. CASE Answers /\ proc' = [proc EXCEPT ![sock] = [st |-> "paused", cfg |-> Devices]]
    <3>1. Bound(sock) /\ sock \in Process
      BY <2>3 DEF Answers, Connects, Bound
    <3>2. proc' \in [Process -> Proc]
      BY <1>1, <2>3, <3>1 DEF TypeOK, Proc
    <3>3. \A m \in Process : proc'[m].st = IF m = sock THEN "paused" ELSE proc[m].st
      BY <1>1, <2>3, <3>1 DEF TypeOK, Proc
    <3> QED BY <3>1, <3>2, <3>3 DEF Live, Bound
  <2>4. CASE Call /\ Answers /\ Becomes(sock, CallEffect(h.op).to) /\ CallEffect(h.op).to # "same"
    <3>1. CallEffect(h.op).to \in BoundState
      BY <1>2, <2>4, Ranges
    <3> QED BY <1>1, <2>4, <3>1, StaysOrRuns
  <2> QED BY <2>1, <2>2, <2>3, <2>4 DEF InstanceStart, SnapshotLoad, Call, CanBoot
<1>4. CASE Fail
  <2>1. TypeOK'
    BY <1>1, <1>3, <1>4, FailMove DEF TypeOK
  <2> QED BY <1>1, <1>3, <1>4, <2>1, ChildFails DEF ChildStays
<1>5. ASSUME NEW next \in RowState, Plan("finish", next), next \in Ended => ChildDown
      PROVE  ChildInv'
  <2>1. h' \in Handler /\ h'.pc = "finish" /\ h'.state = h.state /\ h'.next = next
    BY <1>1, <1>5, PlanMove
  <2>2. TypeOK'
    BY <1>1, <1>3, <2>1 DEF TypeOK
  <2>3. ChildStays
    BY <1>1, <1>3 DEF ChildStays
  <2>4. ChildReady'
    BY <1>5, <2>1, <2>3, ChildStaysDown DEF ChildReady, Launching
  <2> QED BY <1>1, <2>1, <2>2, <2>3, <2>4, ChildKept
<1>6. CASE Call /\ Plan("finish", CallEffect(h.op).next)
  <2>1. h.state \in RowState /\ (h.state \in Ended => ChildDown)
    BY <1>1 DEF TypeOK, Handler, ChildInv
  <2>2. CallEffect(h.op).next \in {"running", "paused", h.state}
    BY <1>2, <1>6, Ranges
  <2> QED BY <1>5, <1>6, <2>1, <2>2
<1>7. CASE Plan("finish", "running") \/ Plan("finish", "paused")
  BY <1>5, <1>7
<1> QED BY <1>4, <1>6, <1>7 DEF InstanceStart, SnapshotLoad, Call

LEMMA ChildRaw == ASSUME ChildInv, RawRequest PROVE ChildInv'
<1>1. /\ TypeOK /\ h.state = row.state /\ h.pc = "raw"
      /\ UNCHANGED <<row, sock, child, tap, eng, up, launches, faults, identity>>
  BY DEF ChildInv, RawRequest, netVars, meterVars
<1>2. proc' \in [Process -> Proc] /\ \A m \in Process : Live(m)' <=> Live(m)
  <2>1. CASE UNCHANGED proc
    BY <1>1, <2>1 DEF TypeOK, Live
  <2>2. CASE Answers /\ \E st \in RawOutcomes : Becomes(sock, st)
    <3>1. RawOutcomes \subseteq BoundState
      BY <2>2 DEF RawOutcomes, Answers, Connects, Bound
    <3> QED BY <1>1, <2>2, <3>1, StaysOrRuns
  <2> QED BY <2>1, <2>2 DEF RawRequest
<1>3. ChildStays
  BY <1>1, <1>2 DEF ChildStays
<1>4. CASE Release
  <2>1. TypeOK'
    BY <1>1, <1>2, <1>4, ReleaseMove DEF TypeOK
  <2> QED BY <1>1, <1>3, <1>4, <2>1, ChildReleased
<1>5. CASE Goto("probe")
  <2>1. h' \in Handler /\ h'.pc = "probe" /\ h'.state = h.state
    BY <1>1, <1>5, GotoMove
  <2>2. TypeOK' /\ ChildReady'
    BY <1>1, <1>2, <2>1 DEF TypeOK, ChildReady, Launching
  <2> QED BY <1>1, <1>3, <2>1, <2>2, ChildKept
<1> QED BY <1>4, <1>5 DEF RawRequest

LEMMA ChildFinishes == ASSUME ChildInv, Finish PROVE ChildInv'
<1>1. /\ TypeOK /\ Release /\ h.next \in RowState /\ (h.next \in Ended => ChildDown)
      /\ UNCHANGED <<proc, sock, child, tap, eng, up, launches, faults, identity>>
  BY DEF ChildInv, Finish, ChildReady, procVars, netVars, meterVars
<1> DEFINE p == IF h.next = "stopped" THEN None ELSE IF child # None THEN child ELSE h.pid
<1>2. p \in 0..MaxLaunch /\ SetVmState(h.next, p)
  BY <1>1, LifecycleConstants DEF Finish, TypeOK, Handler
<1>3. row' \in Row /\ row'.state = h.next
  BY <1>1, <1>2, VmStateMove
<1>4. TypeOK'
  BY <1>1, <1>3, ReleaseMove DEF TypeOK
<1> QED BY <1>1, <1>3, <1>4, ChildAlone, ChildStaysDown, ChildReleased

(* stop_process, if it succeeds, leaves no child alive. *)
LEMMA ChildStopped ==
  ASSUME TypeOK, StopSucceeds, UNCHANGED launches
  PROVE  /\ ChildStays /\ ChildDown' /\ proc' \in [Process -> Proc]
         /\ sock' \in 0..MaxLaunch /\ child' \in 0..MaxLaunch
<1>1. child' = None /\ sock' \in 0..MaxLaunch
  BY LifecycleConstants DEF StopSucceeds, TypeOK
<1>2. \/ UNCHANGED proc
      \/ \E n \in Process : Kill(n)
  BY DEF StopSucceeds, TypeOK, Connects, Bound, IsAlive, Live
<1>3. proc' \in [Process -> Proc] /\ \A n \in Process : Live(n)' => Live(n)
  <2>1. CASE UNCHANGED proc
    BY <2>1 DEF TypeOK, Live
  <2>2. CASE \E n \in Process : Kill(n)
    BY <2>2, KillMove
  <2> QED BY <1>2, <2>1, <2>2
<1> QED BY <1>1, <1>3, LifecycleConstants DEF ChildStays, ChildDown, Live

LEMMA ChildStops == ASSUME ChildInv, Stop PROVE ChildInv'
<1>1. /\ TypeOK /\ ChildReady /\ h.state = row.state /\ h.pc \in {"stop", "stopclean", "cgroup"}
      /\ h.state \in Ended => ChildDown
      /\ UNCHANGED <<row, up, launches, faults, identity>>
  BY DEF ChildInv, Stop, StopProcess, StopCleans, StopCgroup, meterVars
<1>2. CASE StopProcess
  <2>1. UNCHANGED <<tap, eng>>
    BY <1>2 DEF StopProcess, netVars
  <2>2. CASE Goto("stopclean") /\ (StopSucceeds \/ (h.state = "stopped" /\ UNCHANGED procVars))
    <3>1. /\ ChildStays /\ ChildDown' /\ proc' \in [Process -> Proc]
          /\ sock' \in 0..MaxLaunch /\ child' \in 0..MaxLaunch
      <4>1. CASE StopSucceeds
        BY <1>1, <4>1, ChildStopped
      <4>2. CASE h.state = "stopped" /\ UNCHANGED procVars
        BY <1>1, <4>2, ChildAlone, ChildStaysDown DEF procVars, TypeOK
      <4> QED BY <2>2, <4>1, <4>2
    <3>2. h' \in Handler /\ h'.pc = "stopclean" /\ h'.state = h.state
      BY <1>1, <2>2, GotoMove
    <3>3. TypeOK' /\ ChildReady'
      BY <1>1, <2>1, <3>1, <3>2 DEF TypeOK, ChildReady, Launching
    <3> QED BY <1>1, <3>1, <3>2, <3>3, ChildKept
  <2>3. CASE StopFails /\ Fail
    <3>1. UNCHANGED <<proc, sock, child>>
      BY <2>3 DEF StopFails
    <3>2. TypeOK'
      BY <1>1, <2>1, <2>3, <3>1, FailMove DEF TypeOK
    <3> QED BY <1>1, <2>3, <3>1, <3>2, ChildAlone, ChildFails
  <2> QED BY <1>2, <2>2, <2>3 DEF StopProcess
<1>3. CASE StopCleans
  <2>1. h.pc = "stopclean" /\ eng' = FALSE /\ UNCHANGED <<proc, sock, child>>
    BY <1>3 DEF StopCleans, procVars
  <2>2. tap' \in {"none", "down", "stuck"}
    BY <1>1, <1>3, RemoveMove DEF StopCleans
  <2>3. h' \in Handler /\ h'.pc = "cgroup" /\ h'.state = h.state
    BY <1>1, <1>3, GotoMove DEF StopCleans
  <2>4. ChildStays
    BY <1>1, <2>1, ChildAlone
  <2>5. TypeOK'
    BY <1>1, <2>1, <2>2, <2>3 DEF TypeOK
  <2>6. ChildReady'
    BY <1>1, <2>1, <2>3, <2>4, ChildStaysDown DEF ChildReady, Launching
  <2> QED BY <1>1, <2>3, <2>4, <2>5, <2>6, ChildKept
<1>4. CASE StopCgroup
  <2>1. h.pc = "cgroup" /\ UNCHANGED <<proc, sock, child, tap, eng>>
    BY <1>4 DEF StopCgroup, procVars, netVars
  <2>2. ChildStays
    BY <1>1, <2>1, ChildAlone
  <2>3. CASE Plan("finish", "stopped")
    <3>1. h' \in Handler /\ h'.pc = "finish" /\ h'.next = "stopped" /\ h'.state = h.state
      BY <1>1, <2>3, PlanMove
    <3>2. TypeOK'
      BY <1>1, <2>1, <3>1 DEF TypeOK
    <3>3. ChildReady'
      BY <1>1, <2>1, <2>2, <3>1, ChildStaysDown DEF ChildReady, Launching
    <3> QED BY <1>1, <2>2, <3>1, <3>2, <3>3, ChildKept
  <2>4. CASE Fail
    <3>1. TypeOK'
      BY <1>1, <2>1, <2>4, FailMove DEF TypeOK
    <3> QED BY <1>1, <2>2, <2>4, <3>1, ChildFails
  <2> QED BY <1>4, <2>3, <2>4 DEF StopCgroup
<1> QED BY <1>2, <1>3, <1>4 DEF Stop

LEMMA ChildErrs == ASSUME ChildInv, OnError PROVE ChildInv'
<1>1. /\ TypeOK /\ ChildReady /\ h.state = row.state /\ UNCHANGED <<up, launches, faults, identity>>
      /\ h.pc \in {"errstop", "errclean", "errwrite"}
  BY DEF ChildInv, OnError, ErrorStops, ErrorCleans, ErrorWrites, meterVars
<1>2. CASE ErrorStops
  <2>1. h.pc = "errstop" /\ UNCHANGED <<row, tap, eng>>
    BY <1>2 DEF ErrorStops, netVars
  <2>2. CASE StopSucceeds /\ Plan("errclean", "failed")
    <3>1. /\ ChildStays /\ ChildDown' /\ proc' \in [Process -> Proc]
          /\ sock' \in 0..MaxLaunch /\ child' \in 0..MaxLaunch
      BY <1>1, <2>2, ChildStopped
    <3>2. h' \in Handler /\ h'.pc = "errclean" /\ h'.next = "failed" /\ h'.state = h.state
      BY <1>1, <2>2, PlanMove
    <3>3. TypeOK' /\ ChildReady'
      BY <1>1, <2>1, <3>1, <3>2 DEF TypeOK, ChildReady, Launching
    <3> QED BY <1>1, <2>1, <3>1, <3>2, <3>3, ChildKept
  <2>3. CASE StopFails /\ Plan("errwrite", "unknown")
    <3>1. UNCHANGED <<proc, sock, child>>
      BY <2>3 DEF StopFails
    <3>2. h' \in Handler /\ h'.pc = "errwrite" /\ h'.next = "unknown" /\ h'.state = h.state
      BY <1>1, <2>3, PlanMove
    <3>3. TypeOK' /\ ChildReady'
      BY <1>1, <2>1, <3>1, <3>2 DEF TypeOK, ChildReady, Launching
    <3> QED BY <1>1, <2>1, <3>1, <3>2, <3>3, ChildAlone, ChildKept
  <2> QED BY <1>2, <2>2, <2>3 DEF ErrorStops
<1>3. CASE ErrorCleans
  <2>1. h.pc = "errclean" /\ eng' = FALSE /\ UNCHANGED <<row, proc, sock, child>>
    BY <1>3 DEF ErrorCleans, procVars
  <2>2. tap' \in {"none", "down", "stuck"}
    BY <1>1, <1>3, RemoveMove DEF ErrorCleans
  <2>3. h' \in Handler /\ h'.pc = "errwrite" /\ h'.state = h.state /\ h'.next = h.next
    BY <1>1, <1>3, GotoMove DEF ErrorCleans
  <2>4. ChildStays
    BY <1>1, <2>1, ChildAlone
  <2>5. TypeOK'
    BY <1>1, <2>1, <2>2, <2>3 DEF TypeOK
  <2>6. ChildReady'
    BY <1>1, <2>1, <2>3, <2>4, ChildStaysDown DEF ChildReady, Launching
  <2> QED BY <1>1, <2>1, <2>3, <2>4, <2>5, <2>6, ChildKept
<1>4. CASE ErrorWrites
  <2>1. /\ Release /\ SetVmState(h.next, None)
        /\ h.next \in RowState /\ (h.next \in Ended => ChildDown)
        /\ UNCHANGED <<proc, sock, child, tap, eng>>
    BY <1>1, <1>4 DEF ErrorWrites, ChildReady, procVars, netVars
  <2>2. row' \in Row /\ row'.state = h.next
    BY <1>1, <2>1, LifecycleConstants, VmStateMove
  <2>3. TypeOK'
    BY <1>1, <2>1, <2>2, ReleaseMove DEF TypeOK
  <2> QED BY <1>1, <2>1, <2>2, <2>3, ChildAlone, ChildStaysDown, ChildReleased
<1> QED BY <1>2, <1>3, <1>4 DEF OnError

LEMMA ChildDisks == ASSUME ChildInv, Disks PROVE ChildInv'
<1>1. /\ TypeOK /\ ChildReady /\ h.state = row.state /\ h.pc \in {"claim", "disk", "deleterow"}
      /\ UNCHANGED <<proc, child, up, launches, faults, identity>>
  BY DEF ChildInv, Disks, ClaimDisks, UpdateSpec, ReadOutput, DeleteFiles, DeleteRow, procVars, meterVars
<1>2. ChildStays /\ (h.state \in Inactive => row.state \in Ended)
  BY <1>1, ChildAlone
<1>3. CASE ClaimDisks
  <2>1. UNCHANGED <<row, sock, tap, eng>>
    BY <1>3 DEF ClaimDisks, procVars, netVars
  <2>2. CASE Release
    <3>1. TypeOK'
      BY <1>1, <2>1, <2>2, ReleaseMove DEF TypeOK
    <3> QED BY <1>2, <2>1, <2>2, <3>1, ChildReleased
  <2>3. CASE MayUseDisks /\ Goto("disk")
    <3>1. h' \in Handler /\ h'.pc = "disk" /\ h'.state = h.state
      BY <1>1, <2>3, GotoMove
    <3>2. h.state \in Inactive
      BY <2>3 DEF MayUseDisks, Claimable
    <3>3. TypeOK' /\ ChildReady'
      BY <1>1, <2>1, <3>1, <3>2 DEF TypeOK, ChildReady, Launching
    <3> QED BY <1>1, <1>2, <2>1, <3>1, <3>3, ChildKept
  <2> QED BY <1>3, <2>2, <2>3 DEF ClaimDisks
<1>4. CASE UpdateSpec \/ ReadOutput \/ DeleteRow
  <2>1. /\ h.pc \in {"disk", "deleterow"} /\ Release /\ UNCHANGED <<sock, tap, eng>>
        /\ h.state \in Inactive
    BY <1>1, <1>4 DEF UpdateSpec, ReadOutput, DeleteRow, procVars, netVars, ChildReady
  <2>2. row' \in Row
    BY <1>1, <1>4 DEF UpdateSpec, ReadOutput, DeleteRow, TypeOK, Row
  <2>3. TypeOK'
    BY <1>1, <2>1, <2>2, ReleaseMove DEF TypeOK
  <2> QED BY <1>2, <2>1, <2>3, ChildReleased
<1>5. CASE DeleteFiles
  <2>1. /\ h.pc = "disk" /\ eng' = FALSE /\ UNCHANGED row /\ sock' \in 0..MaxLaunch
        /\ Goto("deleterow") \/ Release
        /\ h.state \in Inactive
    BY <1>1, <1>5, LifecycleConstants DEF DeleteFiles, TypeOK, ChildReady
  <2>2. tap' \in {"none", "down", "stuck"}
    BY <1>1, <1>5, RemoveMove DEF DeleteFiles
  <2>3. CASE Release
    <3>1. TypeOK'
      BY <1>1, <2>1, <2>2, <2>3, ReleaseMove DEF TypeOK
    <3> QED BY <1>2, <2>1, <2>3, <3>1, ChildReleased
  <2>4. CASE Goto("deleterow")
    <3>1. h' \in Handler /\ h'.pc = "deleterow" /\ h'.state = h.state
      BY <1>1, <2>4, GotoMove
    <3>2. TypeOK' /\ ChildReady'
      BY <1>1, <2>1, <2>2, <3>1 DEF TypeOK, ChildReady, Launching
    <3> QED BY <1>1, <1>2, <2>1, <3>1, <3>2, ChildKept
  <2> QED BY <2>1, <2>3, <2>4
<1> QED BY <1>3, <1>4, <1>5 DEF Disks

LEMMA ChildRecovers == ASSUME ChildInv, RecoverEgress PROVE ChildInv'
<1>1. TypeOK /\ Release /\ UNCHANGED <<row, proc, sock, child, up, launches, faults, identity>>
  BY DEF ChildInv, RecoverEgress, procVars, meterVars
<1>2. eng' \in BOOLEAN /\ tap' \in {"none", "up", "down", "stuck"}
  BY <1>1 DEF RecoverEgress, SuspendTap, TypeOK, netVars
<1>3. TypeOK'
  BY <1>1, <1>2, ReleaseMove DEF TypeOK
<1> QED BY <1>1, <1>3, ChildAlone, ChildReleased

(* Wherever a client disconnects, and whenever the server crashes.          *)
LEMMA ChildForgets == ASSUME ChildInv, Abandon \/ Crash \/ Restart PROVE ChildInv'
<1>1. TypeOK /\ UNCHANGED <<row, proc, sock, tap, launches>>
  BY DEF ChildInv, Abandon, Crash, Restart, procVars, netVars
<1>2. /\ child' \in {child, None} /\ child' \in 0..MaxLaunch
      /\ eng' \in BOOLEAN /\ up' \in BOOLEAN /\ faults' \in 0..MaxFaults
      /\ identity' \in {"kept", "dropped", "lost"}
  <2>1. CASE Abandon
    BY <1>1, <2>1, LifecycleConstants DEF Abandon, Dropped, TypeOK, procVars, netVars
  <2>2. CASE Crash
    <3>1. /\ child' = None /\ eng' = FALSE /\ up' = FALSE /\ faults' \in 0..MaxFaults
          /\ identity' \in {"kept", "dropped", "lost"}
      BY <1>1, <2>2, LifecycleConstants DEF Crash, Forgotten, TypeOK
    <3>2. child' \in {child, None} /\ child' \in 0..MaxLaunch
      BY <3>1, LifecycleConstants
    <3>3. eng' \in BOOLEAN /\ up' \in BOOLEAN
      BY <3>1
    <3> QED BY <3>1, <3>2, <3>3
  <2>3. CASE Restart
    BY <1>1, <2>3, LifecycleConstants DEF Restart, TypeOK, procVars, netVars
  <2> QED BY <2>1, <2>2, <2>3
<1>3. ChildStays
  BY <1>1, <1>2 DEF ChildStays, Live
<1>4. CASE Release
  <2>1. TypeOK'
    BY <1>1, <1>2, <1>4, ReleaseMove DEF TypeOK
  <2> QED BY <1>1, <1>3, <1>4, <2>1, ChildReleased
<1>5. CASE Enter("probe", "Recover", row.state, row.pid)
  <2>1. h' \in Handler /\ h'.pc = "probe" /\ h'.state = row.state
    BY <1>1, <1>5, EnterMove DEF TypeOK
  <2>2. TypeOK' /\ ChildReady'
    BY <1>1, <1>2, <2>1 DEF TypeOK, ChildReady, Launching
  <2> QED BY <1>1, <1>3, <2>1, <2>2, ChildKept
<1> QED BY <1>4, <1>5 DEF Abandon, Crash, Restart

LEMMA ChildProcesses == ASSUME ChildInv, NEW n \in Process, Bind(n) \/ Exit(n) PROVE ChildInv'
<1>1. TypeOK /\ ChildReady /\ UNCHANGED <<row, child, tap, eng, h, up, launches, faults, identity>>
  BY DEF ChildInv, Bind, Exit, netVars, meterVars
<1>2. /\ proc' \in [Process -> Proc] /\ sock' \in 0..MaxLaunch
      /\ \A m \in Process : Live(m)' => Live(m)
  <2>1. CASE Kill(n) /\ UNCHANGED sock
    BY <1>1, <2>1, KillMove DEF TypeOK
  <2>2. CASE Becomes(n, "idle") /\ proc[n].st = "booting" /\ sock' = n
    <3>1. /\ proc' \in [Process -> Proc]
          /\ \A m \in Process : proc'[m].st = IF m = n THEN "idle" ELSE proc[m].st
      BY <1>1, <2>2, BecomesMove
    <3> QED BY <2>2, <3>1, LifecycleConstants DEF Live
  <2> QED BY <2>1, <2>2 DEF Bind, Exit
<1>3. ChildStays
  BY <1>1, <1>2 DEF ChildStays
<1>4. TypeOK'
  BY <1>1, <1>2 DEF TypeOK
<1>5. ChildReady'
  BY <1>1, <1>3, ChildStaysDown DEF ChildReady, Launching
<1> QED BY <1>1, <1>3, <1>4, <1>5, ChildKept DEF ChildInv

LEMMA ChildStep == ChildInv /\ [Next]_vars => ChildInv'
<1> SUFFICES ASSUME ChildInv, [Next]_vars PROVE ChildInv'
  OBVIOUS
<1>1. CASE \E op \in Ops : Begin(op)
  BY <1>1, ChildBegins
<1>2. CASE Handle
  BY <1>2, ChildRefreshes, ChildGuards, ChildLaunches, ChildPrepares, ChildCalls, ChildRaw,
     ChildFinishes, ChildStops, ChildErrs, ChildDisks, ChildRecovers DEF Handle
<1>3. CASE Environment
  BY <1>3, ChildProcesses, ChildForgets DEF Environment
<1>4. CASE UNCHANGED vars
  BY <1>4 DEF vars, ChildInv, TypeOK, ChildReady, ChildDown, Live, Launching
<1> QED BY <1>1, <1>2, <1>3, <1>4 DEF Next

(* The server lets go of a child when it reaps one that is dead, when it    *)
(* has killed it, and when it ends itself; it takes one in when it has none. *)
LEMMA ReapedDead ==
  ASSUME ChildInv, [Next]_vars, NEW n \in Process, child = n, child' # n, up'
  PROVE  ~Live(n)'
<1>1. TypeOK /\ ChildReady
  BY DEF ChildInv
<1>2. CASE Reap /\ UNCHANGED proc
  BY <1>2 DEF Reap, Live
<1>3. CASE StopSucceeds
  <2>1. Kill(n)
    BY <1>3 DEF StopSucceeds
  <2> QED BY <1>1, <2>1, KillMove
<1>4. CASE LaunchInserts
  BY <1>1, <1>4 DEF LaunchInserts, ChildReady, ChildDown, Live
<1>5. CASE Crash
  BY <1>5 DEF Crash
<1>6. CASE UNCHANGED child
  BY <1>6
<1>7. CASE Refresh
  BY <1>2, <1>6, <1>7 DEF Refresh, RefreshSkips, RefreshAnswered, RefreshSilent, RefreshUnverified,
     RefreshAdopts, RefreshCleans, RefreshWrites, procVars
<1>8. CASE Launch \/ Prepare
  BY <1>4, <1>6, <1>8 DEF Launch, LaunchSocket, LaunchSpawns, LaunchSetsProcess, LaunchSetsState,
     LaunchWaits, Prepare, TapCreate, TapRegister, ConfigPut, procVars
<1>9. CASE Stop \/ OnError \/ Disks
  BY <1>3, <1>6, <1>9 DEF Stop, StopProcess, StopFails, StopCleans, StopCgroup, OnError, ErrorStops,
     ErrorCleans, ErrorWrites, Disks, ClaimDisks, UpdateSpec, ReadOutput, DeleteFiles, DeleteRow,
     procVars
<1>10. CASE \/ GuardRefuses \/ GuardFresh \/ GuardReady \/ RestoreGuard
            \/ InstanceStart \/ SnapshotLoad \/ Call \/ RawRequest \/ Finish \/ RecoverEgress
  BY <1>6, <1>10 DEF GuardRefuses, GuardFresh, GuardReady, RestoreGuard, InstanceStart, SnapshotLoad,
     Call, RawRequest, Finish, RecoverEgress, procVars
<1>11. CASE Environment
  BY <1>5, <1>6, <1>11 DEF Environment, Bind, Exit, Abandon, Restart, procVars
<1>12. CASE \E op \in Ops : Begin(op)
  BY <1>6, <1>12 DEF Begin, procVars
<1>13. CASE UNCHANGED vars
  BY <1>6, <1>13 DEF vars
<1> QED
  BY <1>7, <1>8, <1>9, <1>10, <1>11, <1>12, <1>13 DEF Next, Handle

-----------------------------------------------------------------------------
(* BootsPrepared *)

Booting == LaunchSteps \cup {"errstop"}

(* The steps at which no process is being launched or prepared. *)
Plain == (Steps \cup {"idle"}) \ (Booting \cup {"tap", "register", "config", "boot", "load"})

(* No process appears, and none that has not booted is given anything.      *)
NoNews ==
  \A n \in Process : /\ Live(n)' => Live(n)
                     /\ proc'[n].st \in {"idle", "booting"} => proc'[n] = proc[n]

LEMMA Still == UNCHANGED proc => NoNews
  BY DEF NoNews, Live

(* A process that dies, or goes on to another state of its API.             *)
LEMMA Moves ==
  ASSUME TypeOK, NEW n \in Process, NEW st \in BoundState \cup {"dead"}, Becomes(n, st),
         st # "dead" => Bound(n), st = "idle" => proc[n].st = "idle"
  PROVE  NoNews
<1>1. \A m \in Process : m # n => proc'[m] = proc[m]
  BY DEF Becomes, TypeOK
<1>2. proc'[n].st = st /\ (st = proc[n].st => proc'[n] = proc[n])
  BY DEF Becomes, TypeOK, Proc
<1> QED BY <1>1, <1>2 DEF NoNews, Live, Bound

(* Where the handler goes. *)
LEMMA GotoPc ==
  ASSUME TypeOK, NEW s, Goto(s)
  PROVE  h'.pc = s /\ h'.op = h.op /\ h'.state = h.state
  BY DEF Goto, TypeOK, Handler

LEMMA PlanPc ==
  ASSUME TypeOK, NEW s, NEW x, Plan(s, x)
  PROVE  h'.pc = s /\ h'.op = h.op /\ h'.state = h.state /\ h'.next = x
  BY DEF Plan, TypeOK, Handler

LEMMA LearnPc ==
  ASSUME TypeOK, NEW s, NEW x, NEW p, Learn(s, x, p)
  PROVE  h'.pc = s /\ h'.op = h.op /\ h'.state = x
  BY DEF Learn, TypeOK, Handler

LEMMA ReleasePc == Release => h'.pc = "idle"
  BY DEF Release, Idle

LEMMA FailPc ==
  ASSUME TypeOK, Fail
  PROVE  h'.pc = IF h.state = "starting" THEN "errstop" ELSE "idle"
  BY GotoPc, ReleasePc DEF Fail

(* What may be given, from step to step. *)
LEMMA GivenSame == h.pc \in Plain /\ h'.pc \in Plain => Given' = Given
  BY DEF Given, Plain, Booting, LaunchSteps

LEMMA GivenStays ==
  /\ h.pc = "boot" /\ h'.pc \in Plain => Given \subseteq Given'
  /\ h'.pc = "errstop" => SUBSET Devices = Given'
  /\ Given \subseteq SUBSET Devices
<1>1. h.pc = "boot" /\ h'.pc \in Plain => Given \subseteq Given'
  BY DEF Given, Plain, Booting, LaunchSteps
<1>2. h'.pc = "errstop" => SUBSET Devices = Given'
  BY DEF Given, LaunchSteps
<1>3. Given \subseteq SUBSET Devices
  BY DEF Given
<1> QED BY <1>1, <1>2, <1>3

(* Nothing is lost by a step without news that goes to a step which allows  *)
(* at least what the present one does.                                      *)
LEMMA CalmKept ==
  ASSUME Calm, NoNews, h.pc # "insert",
         UNCHANGED child \/ (UNCHANGED proc /\ Reap),
         Given \subseteq Given',
         h'.pc \in Booting \/ h.pc \notin Booting,
         h'.pc \in LaunchSteps \cup {"restore"} => (h'.op = "Launch" => ~Jailed),
         h'.pc = "config" => h'.state = "starting"
  PROVE  Calm'
<1>1. AsGiven'
  BY DEF Calm, AsGiven, NoNews, Booting, LaunchSteps
<1>2. Held'
  BY DEF Calm, Held, NoNews, Reap
<1> QED BY <1>1, <1>2 DEF Calm, BareIfTrusted, ConfigStarting

LEMMA CalmPlain ==
  ASSUME Calm, NoNews, h.pc \in Plain \cup {"boot"}, h'.pc \in Plain,
         h'.pc = "restore" => h'.op # "Launch",
         UNCHANGED child \/ (UNCHANGED proc /\ Reap)
  PROVE  Calm'
<1>1. Given \subseteq Given'
  BY GivenSame, GivenStays
<1> QED BY <1>1, CalmKept DEF Plain, Booting, LaunchSteps

(* An error stops what was started, and leaves alone what was prepared.     *)
LEMMA CalmFails ==
  ASSUME TypeOK, Calm, NoNews, Fail, UNCHANGED child, h.pc # "insert",
         h.pc \in Plain \cup {"boot"} \/ h.state = "starting"
  PROVE  Calm'
<1>1. CASE h'.pc = "errstop"
  BY <1>1, GivenStays, CalmKept DEF Booting, LaunchSteps
<1>2. CASE h.state # "starting" /\ h'.pc = "idle"
  BY <1>2, CalmPlain DEF Plain, Booting, LaunchSteps
<1> QED BY <1>1, <1>2, FailPc

(* Where no process lives there is nothing to say. *)
LEMMA CalmSettled ==
  ASSUME NoLive', h'.pc \notin LaunchSteps \cup {"restore", "config"}
  PROVE  Calm'
  BY DEF Calm, AsGiven, Held, BareIfTrusted, ConfigStarting, NoLive, Live

LEMMA CalmBegins == ASSUME Good, Calm, NEW op \in Ops, Begin(op) PROVE Calm'
<1>1. h.pc = "idle" /\ h'.pc = FirstStep(op) /\ h'.op = op /\ UNCHANGED <<proc, child>>
  BY DEF Begin, Enter, procVars
<1>2. FirstStep(op) = "restore" => op # "Launch"
  BY DEF FirstStep
<1> QED BY <1>1, <1>2, FirstSteps, Still, CalmPlain DEF Plain, Booting, LaunchSteps

LEMMA CalmRefreshes == ASSUME Good, Calm, Refresh PROVE Calm'
<1>1. TypeOK
  BY GoodParts
<1>2. h.pc \in {"probe", "adopt", "clean", "write"} /\ UNCHANGED proc /\ (UNCHANGED child \/ Reap)
  BY DEF Refresh, RefreshSkips, RefreshAnswered, RefreshSilent, RefreshUnverified, RefreshAdopts,
     RefreshCleans, RefreshWrites, procVars
<1>3. h'.pc \in {"idle", "guard", "claim", "recover", "adopt", "clean", "write"}
  <2>1. ASSUME NEW s, NEW p, Return(s, p) PROVE h'.pc \in {"idle", "guard", "claim", "recover"}
    BY <1>1, <2>1, LearnPc, ReleasePc, Ranges DEF Return
  <2> QED BY <1>1, <2>1, PlanPc, LearnPc, GotoPc DEF Refresh, RefreshSkips, RefreshAnswered,
       RefreshSilent, RefreshUnverified, RefreshAdopts, RefreshCleans, RefreshWrites
<1> QED BY <1>2, <1>3, Still, CalmPlain DEF Plain, Booting, LaunchSteps

LEMMA CalmGuards ==
  ASSUME Good, Calm, GuardRefuses \/ GuardFresh \/ GuardReady \/ RestoreGuard PROVE Calm'
<1>1. TypeOK /\ Core /\ Rest
  BY GoodParts
<1>2. /\ h.pc \in {"guard", "restore"} /\ UNCHANGED <<proc, child>>
      /\ h.pc = "restore" \/ Permitted \/ GuardRefuses \/ GuardReady
  BY DEF GuardRefuses, GuardFresh, GuardReady, RestoreGuard, procVars
<1>3. CASE Release
  BY <1>2, <1>3, ReleasePc, Still, CalmPlain DEF Plain, Booting, LaunchSteps
<1>4. CASE MarkStarting(None, "socket") /\ (GuardFresh \/ RestoreGuard)
  <2>1. h'.pc = "socket" /\ h'.op = h.op
    BY <1>1, <1>4, LearnPc DEF MarkStarting
  <2>2. h.state = row.state /\ h.state \in Inactive
    BY <1>1, <1>2, <1>4, <2>1, ReleasePc DEF GuardFresh, RestoreGuard, Rest, HandlerCurrent
  <2>3. \A n \in Process : proc'[n].st \notin LiveState
    BY <1>1, <1>2, <2>2 DEF Core, Quiet, Settled, NoLive, Live
  <2>4. h.op = "Launch" => ~Jailed
    BY <1>2, <1>4, <2>1, ReleasePc DEF Calm, BareIfTrusted, GuardFresh, RestoreGuard, Permitted
  <2> QED BY <2>1, <2>3, <2>4 DEF Calm, AsGiven, Held, BareIfTrusted, ConfigStarting, LaunchSteps, Live
<1>5. CASE MarkStarting(h.pid, "tap") /\ h.pc = "guard" /\ PreparationRequired(sock)
  <2>1. h'.pc = "tap"
    BY <1>1, <1>5, LearnPc DEF MarkStarting
  <2> QED BY <1>1, <1>2, <1>5, <2>1 DEF Core, Named, Bound, PreparationRequired, Calm, AsGiven, Held,
       BareIfTrusted, ConfigStarting, Given, LaunchSteps, Live
<1>6. CASE Goto("boot") /\ h.pc = "guard" /\ (Jailed \/ ~PreparationRequired(sock))
  <2>1. h'.pc = "boot"
    BY <1>1, <1>6, GotoPc
  <2> QED BY <1>1, <1>2, <1>6, <2>1 DEF Core, Named, Bound, PreparationRequired, Calm, AsGiven, Held,
       BareIfTrusted, ConfigStarting, Given, LaunchSteps, Live
<1> QED BY <1>3, <1>4, <1>5, <1>6 DEF GuardRefuses, GuardFresh, GuardReady, RestoreGuard

LEMMA CalmLaunches == ASSUME Good, Calm, Launch PROVE Calm'
<1>1. TypeOK /\ Core /\ Rest
  BY GoodParts
<1>2. h.pc \in LaunchSteps /\ h.state = "starting"
  BY <1>1 DEF Launch, LaunchSocket, LaunchSpawns, LaunchInserts, LaunchSetsProcess, LaunchSetsState,
     LaunchWaits, Rest, StepReady, Launching, LaunchSteps
<1>3. CASE Fail /\ h.pc # "insert" /\ UNCHANGED <<proc, child>>
  BY <1>1, <1>2, <1>3, Still, CalmFails
<1>4. ASSUME NEW s \in (LaunchSteps \ {"insert"}) \cup {"tap"}, Goto(s), h.pc # "insert",
             s = "tap" => Answers, UNCHANGED <<proc, child>>
      PROVE  Calm'
  <2>1. h'.pc = s /\ h'.op = h.op
    BY <1>1, <1>4, GotoPc
  <2>2. s = "tap" => \A n \in Process : proc[n].st # "booting"
    BY <1>1, <1>4 DEF Answers, Connects, Core, OneAlive, Live, Bound
  <2>3. Given' = Given
    BY <1>2, <2>1 DEF Given, LaunchSteps
  <2> QED BY <1>2, <1>4, <2>1, <2>2, <2>3 DEF Calm, AsGiven, Held, BareIfTrusted, ConfigStarting,
       LaunchSteps, Live
<1>5. CASE LaunchSpawns
  <2>1. /\ \A n \in Process : n # launches + 1 => proc'[n] = proc[n]
        /\ launches + 1 \in Process => proc'[launches + 1] = [st |-> "booting", cfg |-> {}]
        /\ h'.pc = "insert" /\ h'.op = h.op /\ NoLive
    BY <1>1, <1>5 DEF LaunchSpawns, TypeOK, Handler, Rest, StepReady, Settled
  <2> QED BY <1>2, <2>1 DEF Calm, AsGiven, Held, BareIfTrusted, ConfigStarting, LaunchSteps, NoLive, Live
<1>6. CASE LaunchInserts
  <2>1. h'.pc = "setproc" /\ h'.op = h.op /\ h.pc = "insert"
    BY <1>1, <1>6, GotoPc DEF LaunchInserts
  <2>2. UNCHANGED proc /\ \A n \in Process : Live(n) => child' = n
    BY <1>1, <1>6 DEF LaunchInserts, Rest, StepReady
  <2>3. Given' = Given
    BY <2>1 DEF Given, LaunchSteps
  <2> QED BY <1>2, <2>1, <2>2, <2>3 DEF Calm, AsGiven, Held, BareIfTrusted, ConfigStarting, LaunchSteps, Live
<1>7. CASE Plan("finish", "ready") /\ Answers /\ h.op = "Launch" /\ LaunchWaits
  <2>1. h'.pc = "finish" /\ h.pc = "wait" /\ UNCHANGED <<proc, child>>
    BY <1>1, <1>7, PlanPc DEF LaunchWaits, procVars
  <2>2. \A n \in Process : proc[n].st # "booting"
    BY <1>1, <1>7 DEF Answers, Connects, Core, OneAlive, Live, Bound
  <2> QED BY <1>7, <2>1, <2>2 DEF Calm, AsGiven, Held, BareIfTrusted, ConfigStarting, Given, LaunchSteps, Live
<1> QED
  BY <1>3, <1>4, <1>5, <1>6, <1>7 DEF Launch, LaunchSocket, LaunchSetsProcess, LaunchSetsState,
     LaunchWaits, procVars, LaunchSteps

LEMMA CalmPrepares == ASSUME Good, Calm, Prepare PROVE Calm'
<1>1. TypeOK /\ Core /\ Rest
  BY GoodParts
<1>2. h.pc \in {"tap", "register", "config"} /\ UNCHANGED <<sock, child>> /\ h.state = "starting"
  BY <1>1 DEF Prepare, TapCreate, TapRegister, ConfigPut, procVars, Rest, StepReady, Launching, Calm,
     ConfigStarting
<1>3. CASE Fail /\ UNCHANGED proc
  BY <1>1, <1>2, <1>3, Still, CalmFails
<1>4. CASE Goto("register") /\ h.pc = "tap" /\ UNCHANGED proc
  BY <1>1, <1>2, <1>4, GotoPc DEF Calm, AsGiven, Held, BareIfTrusted, ConfigStarting, Given, LaunchSteps,
     Live
<1>5. CASE AfterTap /\ h.pc = "register" /\ UNCHANGED proc
  <2>1. CASE Goto("load")
    BY <1>1, <1>2, <1>5, <2>1, GotoPc DEF Calm, AsGiven, Held, BareIfTrusted, ConfigStarting, Given,
       LaunchSteps, Live
  <2>2. CASE Plan("config", "kernel")
    BY <1>1, <1>2, <1>5, <2>2, PlanPc DEF Calm, AsGiven, Held, BareIfTrusted, ConfigStarting, Given,
       LaunchSteps, Live
  <2> QED BY <1>5, <2>1, <2>2 DEF AfterTap
<1>6. CASE /\ Answers /\ h.pc = "config" /\ proc[sock].st = "idle"
           /\ proc' = [proc EXCEPT ![sock].cfg = @ \cup {h.next}] /\ (AfterDevice \/ Fail)
  <2>1. /\ sock \in Process /\ proc[sock] \in Proc /\ proc[sock].cfg \in Given
        /\ \A n \in Process : Live(n) => n = sock
    BY <1>1, <1>6 DEF Answers, Connects, Bound, Live, TypeOK, Core, OneAlive, Calm, AsGiven
  <2>2. /\ proc'[sock].st = "idle" /\ proc'[sock].cfg = proc[sock].cfg \cup {h.next}
        /\ \A n \in Process : n # sock => proc'[n] = proc[n]
    BY <1>1, <1>6, <2>1 DEF TypeOK, Proc
  <2>3. \A n \in Process : (Live(n)' <=> Live(n)) /\ (Live(n)' => n = sock)
    BY <1>6, <2>1, <2>2 DEF Live
  <2>4. ASSUME h'.pc \in {"config", "finish", "boot", "errstop"}, h'.state = h.state
        PROVE  (Held /\ BareIfTrusted /\ ConfigStarting)'
    BY <1>2, <1>6, <2>3, <2>4 DEF Calm, Held, BareIfTrusted, ConfigStarting, LaunchSteps
  <2>5. ASSUME h'.pc \in {"config", "finish", "boot", "errstop"}, proc'[sock].cfg \in Given'
        PROVE  AsGiven'
    BY <2>2, <2>3, <2>5 DEF AsGiven, Live
  <2>6. CASE Fail
    <3>1. h'.pc = "errstop" /\ h'.state = h.state
      BY <1>1, <1>2, <2>6, GotoPc DEF Fail
    <3>2. proc'[sock].cfg \in Given'
      BY <1>1, <1>6, <2>1, <2>2, <3>1, GivenStays DEF Rest, StepReady, Proc
    <3> QED BY <2>4, <2>5, <3>1, <3>2 DEF Calm
  <2>7. CASE AfterDevice
    <3>1. h'.state = h.state /\ \/ h.next = "kernel" /\ h'.pc = "config" /\ h'.next = "root"
                                \/ h.next = "root" /\ h'.pc = "config" /\ h'.next = "rest"
                                \/ h.next = "rest" /\ h'.pc \in {"boot", "finish"}
      BY <1>1, <2>7, GotoPc, PlanPc DEF AfterDevice
    <3>2. proc'[sock].cfg \in Given'
      BY <1>6, <2>1, <2>2, <3>1 DEF Given, LaunchSteps
    <3> QED BY <2>4, <2>5, <3>1, <3>2 DEF Calm
  <2> QED BY <1>6, <2>6, <2>7
<1> QED BY <1>3, <1>4, <1>5, <1>6 DEF Prepare, TapCreate, TapRegister, ConfigPut, procVars

LEMMA CalmCalls ==
  ASSUME Good, Calm, InstanceStart \/ SnapshotLoad \/ Call \/ RawRequest PROVE Calm'
<1>1. TypeOK /\ Core /\ Rest
  BY GoodParts
<1>2. h.pc \in {"boot", "load", "call", "raw"} /\ UNCHANGED <<sock, child>>
  BY DEF InstanceStart, SnapshotLoad, Call, RawRequest
<1>3. NoNews
  <2>1. ASSUME NEW st \in BoundState, Answers, Becomes(sock, st), st = "idle" => proc[sock].st = "idle"
        PROVE  NoNews
    BY <1>1, <2>1, Moves DEF Answers, Connects, Bound
  <2>2. CASE InstanceStart
    BY <2>1, <2>2, Still DEF InstanceStart, CanBoot
  <2>3. CASE SnapshotLoad
    <3>1. CASE Answers /\ proc' = [proc EXCEPT ![sock] = [st |-> "paused", cfg |-> Devices]]
      BY <1>1, <3>1 DEF Answers, Connects, Bound, NoNews, Live, TypeOK
    <3> QED BY <2>3, <3>1, Still DEF SnapshotLoad
  <2>4. CASE Call
    <3>1. h.op \in CallOps
      BY <1>1, <2>4 DEF Call, Rest, StepReady
    <3>2. CallEffect(h.op).to \in {"running", "paused", "same"}
      BY <3>1, Ranges
    <3> QED BY <2>1, <2>4, <3>2, Still DEF Call
  <2>5. CASE RawRequest
    <3>1. Answers => \A st \in RawOutcomes : st \in BoundState /\ (st = "idle" => proc[sock].st = "idle")
      BY DEF RawOutcomes, Answers, Connects, Bound
    <3> QED BY <2>1, <2>5, <3>1, Still DEF RawRequest
  <2> QED BY <2>2, <2>3, <2>4, <2>5
<1>4. CASE Fail
  BY <1>1, <1>2, <1>3, <1>4, CalmFails DEF Rest, StepReady, Launching, Plain, Booting, LaunchSteps
<1>5. CASE h'.pc \in {"idle", "probe", "finish"} /\ h.pc # "load"
  BY <1>2, <1>3, <1>5, CalmPlain DEF Plain, Booting, LaunchSteps
<1>6. CASE /\ Plan("finish", "paused") /\ Answers /\ h.pc = "load"
           /\ proc' = [proc EXCEPT ![sock] = [st |-> "paused", cfg |-> Devices]]
  <2>1. h'.pc = "finish" /\ sock \in Process /\ proc'[sock].st = "paused"
    BY <1>1, <1>6, PlanPc DEF Answers, Connects, Bound, TypeOK
  <2>2. \A n \in Process : Live(n)' => n = sock
    BY <1>1, <1>3, <1>6 DEF NoNews, Answers, Connects, Core, OneAlive, Live, Bound
  <2>3. AsGiven'
    BY <2>1, <2>2 DEF AsGiven, Live
  <2>4. Held'
    BY <1>2, <1>3, <1>6 DEF Calm, Held, NoNews
  <2> QED BY <2>1, <2>3, <2>4 DEF Calm, BareIfTrusted, ConfigStarting, LaunchSteps
<1>7. CASE RawRequest \/ InstanceStart \/ Call
  BY <1>1, <1>4, <1>5, <1>7, GotoPc, PlanPc, ReleasePc DEF RawRequest, InstanceStart, Call
<1> QED BY <1>4, <1>6, <1>7 DEF SnapshotLoad

LEMMA CalmEnds ==
  ASSUME Good, Calm, Stop \/ OnError PROVE Calm'
<1>1. TypeOK /\ Core /\ Rest /\ ~Lost
  BY GoodParts
<1>2. CASE StopSucceeds /\ h.pc \in {"stop", "errstop"} /\ h'.pc \in {"stopclean", "errclean"}
  <2>1. h.pid = row.pid \/ (h.pid = None /\ child = row.pid)
    BY <1>1, <1>2 DEF Rest, HandlerCurrent
  <2> QED BY <1>1, <1>2, <2>1, StopKills, CalmSettled DEF Rest, LaunchSteps
<1>3. CASE ErrorStops /\ StopFails /\ Plan("errwrite", "unknown")
  <2>1. UNCHANGED proc /\ child = None /\ h'.pc = "errwrite" /\ h.pc = "errstop"
    BY <1>1, <1>3, PlanPc DEF StopFails, ErrorStops
  <2>2. NoLive'
    BY <2>1 DEF Calm, Held, NoLive, Live
  <2> QED BY <2>1, <2>2, CalmSettled DEF LaunchSteps
<1>4. CASE UNCHANGED <<proc, child>> /\ h.pc \in Plain /\ (Fail \/ h'.pc \in Plain \ {"restore"})
  BY <1>1, <1>4, Still, CalmFails, CalmPlain DEF Plain, Booting, LaunchSteps
<1>5. CASE StopProcess
  BY <1>1, <1>2, <1>4, <1>5, GotoPc DEF StopProcess, StopFails, procVars, Plain, Booting, LaunchSteps
<1>6. CASE ErrorStops
  BY <1>1, <1>2, <1>3, <1>6, PlanPc DEF ErrorStops
<1>7. CASE StopCleans \/ StopCgroup
  BY <1>1, <1>4, <1>7, GotoPc, PlanPc DEF StopCleans, StopCgroup, procVars, Plain, Booting, LaunchSteps
<1>8. CASE ErrorCleans \/ ErrorWrites
  BY <1>1, <1>4, <1>8, GotoPc, ReleasePc DEF ErrorCleans, ErrorWrites, procVars, Plain, Booting,
     LaunchSteps
<1> QED BY <1>5, <1>6, <1>7, <1>8 DEF Stop, OnError

LEMMA CalmElsewhere ==
  ASSUME Good, Calm, Finish \/ Disks \/ RecoverEgress PROVE Calm'
<1>1. TypeOK
  BY GoodParts
<1>2. /\ h.pc \in {"finish", "claim", "disk", "deleterow", "recover"} /\ UNCHANGED <<proc, child>>
      /\ h'.pc \in {"idle", "disk", "deleterow"}
  BY <1>1, GotoPc, ReleasePc DEF Finish, Disks, ClaimDisks, UpdateSpec, ReadOutput, DeleteFiles,
     DeleteRow, RecoverEgress, procVars
<1> QED BY <1>2, Still, CalmPlain DEF Plain, Booting, LaunchSteps

LEMMA CalmRestarts == ASSUME Good, Calm, Restart PROVE Calm'
<1>1. h.pc = "idle" /\ h'.pc \in {"idle", "probe"} /\ UNCHANGED <<proc, child>>
  BY GoodParts, ReleasePc DEF Restart, Enter, Rest, DownIsIdle, procVars
<1> QED BY <1>1, Still, CalmPlain DEF Plain, Booting, LaunchSteps

LEMMA CalmProcesses ==
  ASSUME Good, Calm, NEW n \in Process, Bind(n) \/ Exit(n) PROVE Calm'
<1>1. TypeOK /\ Core /\ Rest
  BY GoodParts
<1>2. UNCHANGED <<h, child>>
  BY DEF Bind, Exit
<1>3. CASE Kill(n)
  <2>1. NoNews
    BY <1>1, <1>3, Moves DEF Kill
  <2> QED BY <1>2, <2>1 DEF Calm, AsGiven, Held, BareIfTrusted, ConfigStarting, NoNews, Given
<1>4. CASE Becomes(n, "idle") /\ proc[n].st = "booting"
  <2>1. /\ proc'[n].st = "idle" /\ proc'[n].cfg = {} /\ h.pc \in Booting /\ Live(n)
        /\ \A m \in Process : m # n => proc'[m] = proc[m]
    BY <1>1, <1>4 DEF Becomes, TypeOK, Proc, Calm, AsGiven, Booting, Live
  <2>2. {} \in Given' /\ Given' = Given
    BY <1>2, <2>1 DEF Given, Booting, LaunchSteps
  <2> QED BY <1>2, <2>1, <2>2 DEF Calm, AsGiven, Held, BareIfTrusted, ConfigStarting, Live
<1> QED BY <1>3, <1>4 DEF Bind, Exit

(* Faults are only ever counted. *)
LEMMA FaultsCounted ==
  ASSUME faults \in Nat, [Next]_vars
  PROVE  /\ faults' \in Nat
         /\ faults' = 0 => faults = 0 /\ ~Abandon /\ ~Crash
<1>1. CASE Abandon \/ Crash
  BY <1>1 DEF Abandon, Crash
<1>2. CASE UNCHANGED faults /\ ~Abandon /\ ~Crash
  BY <1>2
<1>3. CASE Refresh \/ Launch \/ Prepare
  BY <1>1, <1>2, <1>3 DEF Refresh, RefreshSkips, RefreshAnswered, RefreshSilent, RefreshUnverified,
     RefreshAdopts, RefreshCleans, RefreshWrites, Launch, LaunchSocket, LaunchSpawns, LaunchInserts,
     LaunchSetsProcess, LaunchSetsState, LaunchWaits, Prepare, TapCreate, TapRegister, ConfigPut,
     meterVars
<1>4. CASE Stop \/ OnError \/ Disks
  BY <1>1, <1>2, <1>4 DEF Stop, StopProcess, StopCleans, StopCgroup, OnError, ErrorStops, ErrorCleans,
     ErrorWrites, Disks, ClaimDisks, UpdateSpec, ReadOutput, DeleteFiles, DeleteRow, meterVars
<1>5. CASE \/ GuardRefuses \/ GuardFresh \/ GuardReady \/ RestoreGuard
           \/ InstanceStart \/ SnapshotLoad \/ Call \/ RawRequest \/ Finish \/ RecoverEgress
  BY <1>1, <1>2, <1>5 DEF GuardRefuses, GuardFresh, GuardReady, RestoreGuard, InstanceStart,
     SnapshotLoad, Call, RawRequest, Finish, RecoverEgress, meterVars
<1>6. CASE Environment
  BY <1>1, <1>2, <1>6 DEF Environment, Bind, Exit, Restart, meterVars
<1>7. CASE \E op \in Ops : Begin(op)
  BY <1>1, <1>2, <1>7 DEF Begin, meterVars
<1>8. CASE UNCHANGED vars
  BY <1>1, <1>2, <1>8 DEF vars
<1> QED BY <1>3, <1>4, <1>5, <1>6, <1>7, <1>8 DEF Next, Handle

(* While there is no fault, no client has disconnected anywhere. *)
LEMMA CalmStep ==
  ASSUME Good, Calm, [Next]_vars, ~Abandon, ~Crash
  PROVE  Sound' /\ Calm'
<1>1. CASE \E op \in Ops : Begin(op)
  BY <1>1, BeginInv, CalmBegins
<1>2. CASE Handle
  BY <1>2, RefreshInv, GuardInv, LaunchInv, PrepareInv, CallInv, RawInv, FinishInv, StopInv, ErrorInv,
     DisksInv, RecoverInv, CalmRefreshes, CalmGuards, CalmLaunches, CalmPrepares, CalmCalls, CalmEnds,
     CalmElsewhere DEF Handle
<1>3. CASE Environment
  BY <1>3, ProcessInv, RestartInv, CalmProcesses, CalmRestarts DEF Environment
<1>4. CASE UNCHANGED vars
  <2>1. Sound'
    BY <1>4, StutterInv
  <2> QED BY <1>4, <2>1 DEF vars, Calm, AsGiven, Held, BareIfTrusted, ConfigStarting, Given, Live
<1> QED BY <1>1, <1>2, <1>3, <1>4 DEF Next

-----------------------------------------------------------------------------
(* What becomes of `identity` *)

(* A lost process stays lost, and nothing is lost or dropped without a      *)
(* fault.                                                                   *)
LEMMA IdentityMoves ==
  ASSUME [Next]_vars
  PROVE  /\ Lost => Lost'
         /\ Lost' => Lost \/ Crash
         /\ Abandon \/ Crash \/ (identity = "kept" => identity' = "kept")
<1>1. CASE Abandon \/ Crash
  BY <1>1 DEF Abandon, Crash, Dropped, Forgotten, Lost
<1>2. CASE UNCHANGED identity
  BY <1>2 DEF Lost
<1>3. CASE Refresh \/ Launch \/ Prepare
  BY <1>3 DEF Refresh, RefreshSkips, RefreshAnswered, RefreshSilent, RefreshUnverified,
     RefreshAdopts, RefreshCleans, RefreshWrites, Launch, LaunchSocket, LaunchSpawns, LaunchInserts,
     LaunchSetsProcess, LaunchSetsState, LaunchWaits, Prepare, TapCreate, TapRegister, ConfigPut,
     meterVars, Identified, Lost
<1>4. CASE Stop \/ OnError \/ Disks
  BY <1>2, <1>4 DEF Stop, StopProcess, StopCleans, StopCgroup, OnError, ErrorStops, ErrorCleans,
     ErrorWrites, Disks, ClaimDisks, UpdateSpec, ReadOutput, DeleteFiles, DeleteRow, meterVars
<1>5. CASE \/ GuardRefuses \/ GuardFresh \/ GuardReady \/ RestoreGuard
           \/ InstanceStart \/ SnapshotLoad \/ Call \/ RawRequest \/ Finish \/ RecoverEgress
  BY <1>2, <1>5 DEF GuardRefuses, GuardFresh, GuardReady, RestoreGuard, InstanceStart,
     SnapshotLoad, Call, RawRequest, Finish, RecoverEgress, meterVars
<1>6. CASE Environment
  BY <1>1, <1>2, <1>6 DEF Environment, Bind, Exit, Restart, meterVars
<1>7. CASE \E op \in Ops : Begin(op)
  BY <1>2, <1>7 DEF Begin, meterVars
<1>8. CASE UNCHANGED vars
  BY <1>2, <1>8 DEF vars
<1> QED BY <1>3, <1>4, <1>5, <1>6, <1>7, <1>8 DEF Next, Handle

-----------------------------------------------------------------------------
(* The theorems *)

LEMMA InitInv == Init => IInv /\ Good
<1> SUFFICES ASSUME Init PROVE IInv /\ Good
  OBVIOUS
<1>1. TypeOK
  <2>1. row \in Row /\ h \in Handler
    BY LifecycleConstants DEF Init, Row, Handler, Idle
  <2>2. proc \in [Process -> Proc]
    BY DEF Init, Proc
  <2>3. eng \in BOOLEAN /\ up \in BOOLEAN
    BY DEF Init
  <2>4. /\ sock \in 0..MaxLaunch /\ child \in 0..MaxLaunch /\ launches \in 0..MaxLaunch
        /\ faults \in 0..MaxFaults /\ tap \in {"none", "up", "down", "stuck"}
        /\ identity \in {"kept", "dropped", "lost"}
    BY LifecycleConstants DEF Init
  <2> QED BY <2>1, <2>2, <2>3, <2>4 DEF TypeOK
<1>2. \A n \in Process : ~Live(n) /\ ~Bound(n) /\ proc[n].st # "booting"
  BY DEF Init, Live, Bound
<1>3. Known
  BY <1>2 DEF Init, Idle, Known, OneAlive, Quiet, Settled, NoLive,
     IdentityCoherent, Named, ChildRecorded, HandlerCurrent, StepReady, NoOrphanBoots,
     DownIsIdle, Launching
<1> QED BY <1>1, <1>3 DEF Init, IInv, Good, Sound, Lost

LEMMA ChildInit == Init => ChildInv
<1> SUFFICES ASSUME Init PROVE ChildInv
  OBVIOUS
<1>1. TypeOK
  BY InitInv DEF IInv
<1>2. h.pc = "idle" /\ child = None /\ launches = 0
  BY DEF Init, Idle
<1> QED BY <1>1, <1>2, LifecycleConstants DEF ChildInv, ChildReady, ChildDown, Live, Launching

LEMMA SoundStep == Good /\ [Next]_vars /\ ~Lost' => Sound'
<1> SUFFICES ASSUME Good, [Next]_vars, ~Lost' PROVE Sound'
  OBVIOUS
<1>1. CASE \E op \in Ops : Begin(op)
  BY <1>1, BeginInv
<1>2. CASE Handle
  BY <1>2, RefreshInv, GuardInv, LaunchInv, PrepareInv, CallInv, RawInv, FinishInv,
     StopInv, ErrorInv, DisksInv, RecoverInv DEF Handle
<1>3. CASE Environment
  BY <1>3, ProcessInv, AbandonInv, CrashInv, RestartInv DEF Environment
<1>4. CASE UNCHANGED vars
  BY <1>4, StutterInv
<1> QED BY <1>1, <1>2, <1>3, <1>4 DEF Next

(* Once a process is lost only the types are left to keep, which ChildInv    *)
(* does; before, Known is.                                                   *)
LEMMA StepInv == IInv /\ ChildInv /\ [Next]_vars => IInv'
<1> SUFFICES ASSUME IInv, ChildInv, [Next]_vars PROVE IInv'
  OBVIOUS
<1>1. TypeOK'
  BY ChildStep DEF ChildInv
<1>2. ~Lost' => Known'
  BY IdentityMoves, SoundStep DEF IInv, Good, Sound
<1>3. faults' = 0 => identity' = "kept"
  BY IdentityMoves, FaultsCounted DEF IInv, TypeOK
<1> QED BY <1>1, <1>2, <1>3 DEF IInv

(* The inductive invariant holds of every behaviour, wherever a client      *)
(* disconnects and whenever the server crashes.                             *)
THEOREM LifecycleInvariant == Spec => []IInv
<1>1. Init => IInv /\ ChildInv
  BY InitInv, ChildInit
<1>2. IInv /\ ChildInv /\ [Next]_vars => (IInv /\ ChildInv)'
  BY StepInv, ChildStep
<1> QED BY <1>1, <1>2, PTL DEF Spec

(* At most one Firecracker process of the VM lives, as long as no crash has  *)
(* lost one whose request was dropped inside launch_process.                *)
THEOREM OneProcessAlways == Spec => []OneProcess
<1>1. IInv => OneProcess
  BY DEF IInv, Known, OneProcess
<1> QED BY <1>1, LifecycleInvariant, PTL

(* A row that says the VM is inactive is right, in every state, with the    *)
(* same exception.                                                          *)
THEOREM InactiveIsQuietAlways == Spec => []InactiveIsQuiet
<1>1. IInv => InactiveIsQuiet
  BY DEF IInv, Known, InactiveIsQuiet, Quiet, Settled
<1> QED BY <1>1, LifecycleInvariant, PTL

(* Delete and output work on disks that no process uses, and so does update *)
(* although it does not look behind the socket; with the same exception,    *)
(* without which update, which goes by the row, may edit beside a guest.    *)
THEOREM UntouchedWhileAliveAlways == Spec => []UntouchedWhileAlive
<1>1. IInv => UntouchedWhileAlive
  BY DEF IInv, Known, StepReady, HandlerCurrent, UntouchedWhileAlive, FilesUnused, EditsNeedStop,
     Quiet, Settled
<1> QED BY <1>1, LifecycleInvariant, PTL

(* pid and process_start of the row name the same process, or its request   *)
(* was dropped before the start time was written and the server still holds *)
(* the process as its child; until a crash takes that away.                 *)
THEOREM IdentityCoherentAlways == Spec => []IdentityCoherent
<1>1. IInv => IdentityCoherent
  BY DEF IInv, Known, IdentityCoherent, Lost
<1> QED BY <1>1, LifecycleInvariant, PTL

(* Every variable keeps its type, wherever clients disconnect. *)
THEOREM TypeCorrect == Spec => []TypeOK
<1>1. ChildInv => TypeOK
  BY DEF ChildInv
<1> QED BY <1>1, ChildInit, ChildStep, PTL DEF Spec

(* A child that the server lets go of has exited, wherever a client          *)
(* disconnects.                                                              *)
THEOREM ChildrenReapedAlways == Spec => ChildrenReaped
<1>1. ChildInv /\ [Next]_vars => [\A n \in Process : child = n /\ child' # n /\ up' => ~Live(n)']_vars
  BY ReapedDead
<1> QED BY <1>1, ChildInit, ChildStep, PTL DEF Spec, ChildrenReaped

(* What Start boots has all its devices, as long as there is no fault.      *)
THEOREM BootsPreparedAlways == Spec => BootsPrepared
<1> DEFINE Inv == faults \in Nat /\ IInv /\ ChildInv /\ Untroubled
<1>1. Init => Inv
  <2> SUFFICES ASSUME Init PROVE Inv
    OBVIOUS
  <2>1. Calm
    BY DEF Init, Idle, Calm, AsGiven, Held, BareIfTrusted, ConfigStarting, LaunchSteps, Live
  <2> QED BY <2>1, InitInv, ChildInit DEF Init, Untroubled
<1>2. IInv /\ faults = 0 => Good
  BY DEF IInv, Good, Sound, Lost
<1>3. Inv /\ [Next]_vars => Inv'
  BY <1>2, FaultsCounted, CalmStep, StepInv, ChildStep DEF Untroubled
<1>4. Inv /\ [Next]_vars => [Boots /\ faults = 0 => \A n \in Process : Live(n) => proc[n].cfg = Devices]_vars
  <2> SUFFICES ASSUME Good, Calm, Boots, NEW n \in Process, Live(n) PROVE proc[n].cfg = Devices
    BY <1>2 DEF Untroubled
  <2>1. proc[n].st = "idle"
    BY GoodParts DEF Boots, Core, OneAlive, Live
  <2> QED BY <2>1 DEF Boots, Calm, AsGiven, Given, LaunchSteps
<1> QED BY <1>1, <1>3, <1>4, PTL DEF Spec, BootsPrepared

=============================================================================
