------------------------- MODULE EgressUpdateProofs -------------------------
(***************************************************************************)
(* IInv of EgressUpdate is inductive, for any set of VMs, policies and     *)
(* contents, whatever calls fail and whichever handlers are dropped.  The  *)
(* promise of EgressAccess follows: what a guest can use is never more     *)
(* than what is stored.                                                    *)
(*                                                                         *)
(* There is one lemma per action; each has one step per conjunct of IInv   *)
(* that the action can disturb, and the conjuncts that no step names are   *)
(* proved together in the first.                                           *)
(***************************************************************************)
EXTENDS EgressUpdate, TLAPS

-----------------------------------------------------------------------------
(* What a refresh writes has its type *)

(* The refresh of a VM whose process is gone. *)
LEMMA RefreshStoppedTypes ==
  ASSUME HostTypes, NEW u \in VM, RefreshStopped(u)
  PROVE  /\ row' \in [VM -> {"inactive", "starting", "active", "unknown"}]
         /\ err' \in [VM -> BOOLEAN]
         /\ link' \in [VM -> {"none", "up", "down", "cut"}]
         /\ gate' \in [VM -> BOOLEAN]
  BY DEF HostTypes, RefreshStopped, RecordStopped, Unplug, SetState, rowVars, netVars

(* The refresh of a VM whose process is there. *)
LEMMA RefreshAliveTypes ==
  ASSUME HostTypes, NEW u \in VM, NEW state \in {"active", "unknown"}, RefreshAlive(u, state)
  PROVE  /\ row' \in [VM -> {"inactive", "starting", "active", "unknown"}]
         /\ err' \in [VM -> BOOLEAN]
         /\ link' \in [VM -> {"none", "up", "down", "cut"}]
         /\ gate' \in [VM -> BOOLEAN]
  BY DEF HostTypes, RefreshAlive, RefreshAnswered, RefreshUnverified, SetState, rowVars, netVars

-----------------------------------------------------------------------------
(* Each action keeps the invariant *)

(* Saving a policy proposes a content and starts the catalog handler.       *)
LEMMA SaveKeeps ==
  ASSUME IInv, NEW p \in Policy, NEW c \in Content, Save(p, c)
  PROVE  IInv'
<1>1. HostTypes' /\ TableTypes' /\ Fresh' /\ InactiveHasNone' /\ GateNeedsLink' /\
      StartsAlone'
  BY DEF IInv, HostTypes, TableTypes, Fresh, Attached, InactiveHasNone, GateNeedsLink,
      StartsAlone, TypeOK, Stored, Starting, dbVars, rowVars, netVars, Save
<1>2. CatalogTypes'
  BY DEF IInv, CatalogTypes, TypeOK, dbVars, Save
<1>3. HandlerTypes'
  BY DEF IInv, HandlerTypes, TypeOK, Steps, Save
<1>4. Phases'
  BY DEF IInv, Phases, Loops, Save, Idle
<1>5. Holding'
  BY DEF IInv, Holding, Loops, Save, Idle
<1>6. Concerned'
  BY DEF IInv, Concerned, Stored, Proposed, Effective, dbVars, Save
<1>7. Gated'
  BY DEF IInv, Gated, Save
<1>8. InPlace'
  BY DEF IInv, InPlace, Save
<1>9. OldIsStored'
  BY DEF IInv, OldIsStored, Stored, dbVars, Save, Idle
<1> QED BY <1>1, <1>2, <1>3, <1>4, <1>5, <1>6, <1>7, <1>8, <1>9 DEF IInv, TypeOK

(* Assigning a policy, or none, proposes a binding for one VM.              *)
LEMMA AssignKeeps ==
  ASSUME IInv, NEW u \in VM, NEW p \in Policy \cup {Unbound}, Assign(u, p)
  PROVE  IInv'
<1>1. HostTypes' /\ TableTypes' /\ Fresh' /\ InactiveHasNone' /\ GateNeedsLink' /\
      StartsAlone'
  BY DEF IInv, HostTypes, TableTypes, Fresh, Attached, InactiveHasNone, GateNeedsLink,
      StartsAlone, TypeOK, Stored, Starting, dbVars, rowVars, netVars, Assign
<1>2. CatalogTypes'
  BY DEF IInv, CatalogTypes, TypeOK, dbVars, Assign
<1>3. HandlerTypes'
  BY DEF IInv, HandlerTypes, TypeOK, Steps, Assign
<1>4. Phases'
  BY DEF IInv, Phases, Loops, Assign, Idle
<1>5. Holding'
  BY DEF IInv, Holding, Loops, Assign, Idle
<1>6. Concerned'
  BY DEF IInv, Concerned, Stored, Proposed, Effective, dbVars, Assign
<1>7. Gated'
  BY DEF IInv, Gated, Assign
<1>8. InPlace'
  BY DEF IInv, InPlace, Assign
<1>9. OldIsStored'
  BY DEF IInv, OldIsStored, Stored, dbVars, Assign, Idle
<1> QED BY <1>1, <1>2, <1>3, <1>4, <1>5, <1>6, <1>7, <1>8, <1>9 DEF IInv, TypeOK

(* A proposal that changes nothing releases what the handler holds.         *)
LEMMA SkipUnchangedKeeps ==
  ASSUME IInv, SkipUnchanged
  PROVE  IInv'
<1>1. HostTypes' /\ Fresh' /\ InactiveHasNone' /\ GateNeedsLink'
  BY DEF IInv, HostTypes, Fresh, Attached, InactiveHasNone, GateNeedsLink, TypeOK, Stored,
      dbVars, rowVars, netVars, SkipUnchanged
<1>2. CatalogTypes'
  BY DEF IInv, CatalogTypes, TypeOK, dbVars, SkipUnchanged, Release
<1>3. TableTypes'
  BY DEF IInv, TableTypes, TypeOK, Access, netVars, SkipUnchanged, Release, Nobody
<1>4. HandlerTypes'
  BY DEF IInv, HandlerTypes, TypeOK, Steps, SkipUnchanged, Release
<1>5. StartsAlone'
  BY DEF IInv, StartsAlone, Starting, rowVars, netVars, SkipUnchanged, Release
<1>6. Phases'
  BY DEF IInv, Phases, Loops, SkipUnchanged, Release
<1>7. Holding'
  BY DEF IInv, Holding, SkipUnchanged, Release
<1>8. Concerned'
  BY DEF IInv, Concerned, SkipUnchanged, Release
<1>9. Gated'
  BY DEF IInv, Gated, SkipUnchanged, Release
<1>10. InPlace'
  BY DEF IInv, InPlace, SkipUnchanged, Release
<1>11. OldIsStored'
  BY DEF IInv, OldIsStored, SkipUnchanged, Release, Nobody
<1> QED
  BY <1>1, <1>2, <1>3, <1>4, <1>5, <1>6, <1>7, <1>8, <1>9, <1>10, <1>11
  DEF IInv, TypeOK

(* A refused proposal leaves the stored policies and the VMs as they are.   *)
LEMMA RefuseKeeps ==
  ASSUME IInv, Refuse
  PROVE  IInv'
<1>1. HostTypes' /\ Fresh' /\ InactiveHasNone' /\ GateNeedsLink'
  BY DEF IInv, HostTypes, Fresh, Attached, InactiveHasNone, GateNeedsLink, TypeOK, Stored,
      dbVars, rowVars, netVars, Refuse
<1>2. CatalogTypes'
  BY DEF IInv, CatalogTypes, TypeOK, dbVars, Refuse, Release
<1>3. TableTypes'
  BY DEF IInv, TableTypes, TypeOK, Access, netVars, Refuse, Release, Nobody
<1>4. HandlerTypes'
  BY DEF IInv, HandlerTypes, TypeOK, Steps, Refuse, Release
<1>5. StartsAlone'
  BY DEF IInv, StartsAlone, Starting, rowVars, netVars, Refuse, Release
<1>6. Phases'
  BY DEF IInv, Phases, Loops, Refuse, Release
<1>7. Holding'
  BY DEF IInv, Holding, Refuse, Release
<1>8. Concerned'
  BY DEF IInv, Concerned, Refuse, Release
<1>9. Gated'
  BY DEF IInv, Gated, Refuse, Release
<1>10. InPlace'
  BY DEF IInv, InPlace, Refuse, Release
<1>11. OldIsStored'
  BY DEF IInv, OldIsStored, Refuse, Release, Nobody
<1> QED
  BY <1>1, <1>2, <1>3, <1>4, <1>5, <1>6, <1>7, <1>8, <1>9, <1>10, <1>11
  DEF IInv, TypeOK

(* A proposal that changes something goes on to the VMs it concerns.        *)
LEMMA ProceedKeeps ==
  ASSUME IInv, Proceed
  PROVE  IInv'
<1>1. CatalogTypes' /\ HostTypes' /\ TableTypes' /\ Fresh' /\ InactiveHasNone' /\
      GateNeedsLink' /\ StartsAlone'
  BY DEF IInv, CatalogTypes, HostTypes, TableTypes, Fresh, Attached, InactiveHasNone,
      GateNeedsLink, StartsAlone, TypeOK, Stored, Starting, dbVars, rowVars, netVars,
      Proceed, Goto, planVars
<1>2. HandlerTypes'
  BY DEF IInv, HandlerTypes, TypeOK, Steps, Proceed, Goto, planVars
<1>3. Phases'
  BY DEF IInv, Phases, Loops, Proceed, Goto
<1>4. Holding'
  BY DEF IInv, Holding, Loops, Proceed, Goto
<1>5. Concerned'
  BY DEF IInv, Concerned, Stored, Proposed, dbVars, Proceed, Goto, planVars
<1>6. Gated'
  BY DEF IInv, Gated, Holding, Proceed, Goto
<1>7. InPlace'
  BY DEF IInv, InPlace, Holding, Proceed, Goto
<1>8. OldIsStored'
  BY DEF IInv, OldIsStored, Stored, dbVars, Proceed, Goto, planVars
<1> QED BY <1>1, <1>2, <1>3, <1>4, <1>5, <1>6, <1>7, <1>8 DEF IInv, TypeOK

(* Every VM a proposal concerns is locked before any is examined.           *)
LEMMA LockVmKeeps ==
  ASSUME IInv, NEW u \in VM, LockVm(u)
  PROVE  IInv'
<1>1. CatalogTypes' /\ HostTypes' /\ TableTypes' /\ Fresh' /\ InactiveHasNone' /\
      GateNeedsLink'
  BY DEF IInv, CatalogTypes, HostTypes, TableTypes, Fresh, Attached, InactiveHasNone,
      GateNeedsLink, TypeOK, Stored, dbVars, rowVars, netVars, LockVm, planVars
<1>2. HandlerTypes'
  BY DEF IInv, HandlerTypes, TypeOK, Steps, LockVm, planVars
<1>3. StartsAlone'
  BY DEF IInv, StartsAlone, Starting, rowVars, netVars, LockVm
<1>4. Phases'
  BY DEF IInv, Phases, TypeOK, HandlerTypes, Loops, LockVm
<1>5. Holding'
  BY DEF IInv, Holding, Loops, LockVm
<1>6. Concerned'
  BY DEF IInv, Concerned, TypeOK, HandlerTypes, Stored, Proposed, dbVars, LockVm,
         planVars
<1>7. Gated'
  BY DEF IInv, Gated, LockVm
<1>8. InPlace'
  BY DEF IInv, InPlace, LockVm
<1>9. OldIsStored'
  BY DEF IInv, OldIsStored, Stored, dbVars, LockVm, planVars
<1> QED BY <1>1, <1>2, <1>3, <1>4, <1>5, <1>6, <1>7, <1>8, <1>9 DEF IInv, TypeOK

(* A VM that is not running has no access left to change.                   *)
LEMMA ExamineStoppedKeeps ==
  ASSUME IInv, NEW u \in VM, ExamineStopped(u)
  PROVE  IInv'
<1>1. CatalogTypes'
  BY DEF IInv, CatalogTypes, TypeOK, dbVars, ExamineStopped, Examined
<1>2. HostTypes'
  BY DEF IInv, HostTypes, TypeOK, dbVars, rowVars, netVars, loopVars, ExamineStopped,
         RefreshStopped, RecordStopped, Unplug, SetState
<1>3. TableTypes'
  BY DEF IInv, TableTypes, TypeOK, Access, netVars, ExamineStopped, RefreshStopped,
         RecordStopped, Unregister, Unplug
<1>4. HandlerTypes'
  BY DEF IInv, HandlerTypes, TypeOK, Steps, ExamineStopped, Examined
<1>5. Fresh'
  BY DEF IInv, Fresh, Attached, TypeOK, HostTypes, TableTypes, Stored, dbVars, netVars,
      ExamineStopped, RefreshStopped, RecordStopped, Unregister, Unplug
<1>6. InactiveHasNone'
  BY DEF IInv, InactiveHasNone, TypeOK, HostTypes, TableTypes, rowVars, netVars,
         ExamineStopped, RefreshStopped, RecordStopped, Unregister, Unplug, SetState
<1>7. GateNeedsLink'
  BY DEF IInv, GateNeedsLink, TypeOK, HostTypes, netVars, ExamineStopped,
         RefreshStopped, RecordStopped, Unplug
<1>8. StartsAlone'
  BY DEF IInv, StartsAlone, TypeOK, HostTypes, Starting, Holding, rowVars, netVars,
         ExamineStopped, Examined, RefreshStopped, RecordStopped, Unplug, SetState
<1>9. Phases'
  BY DEF IInv, Phases, Loops, ExamineStopped, Examined
<1>10. Holding'
  BY DEF IInv, Holding, TypeOK, HostTypes, HandlerTypes, rowVars, ExamineStopped,
         Examined, RefreshStopped, RecordStopped, SetState
<1>11. Concerned'
  BY DEF IInv, Concerned, TypeOK, HostTypes, Stored, Proposed, dbVars, rowVars,
         ExamineStopped, Examined, RefreshStopped, RecordStopped, SetState
<1>12. Gated'
  BY DEF IInv, Gated, ExamineStopped, Examined
<1>13. InPlace'
  BY DEF IInv, InPlace, ExamineStopped, Examined
<1>14. OldIsStored'
  BY DEF IInv, OldIsStored, Stored, dbVars, ExamineStopped
<1> QED
  BY <1>1, <1>2, <1>3, <1>4, <1>5, <1>6, <1>7, <1>8, <1>9, <1>10, <1>11, <1>12, <1>13,
     <1>14
  DEF IInv, TypeOK

(* A VM that runs joins the live change, with what it had.                  *)
LEMMA ExamineActiveKeeps ==
  ASSUME IInv, NEW u \in VM, ExamineActive(u)
  PROVE  IInv'
<1>1. CatalogTypes' /\ Fresh' /\ GateNeedsLink'
  BY DEF IInv, CatalogTypes, Fresh, Attached, GateNeedsLink, TypeOK, Stored, dbVars,
      netVars, ExamineActive, Examined, RefreshAlive, RefreshAnswered, RefreshUnverified
<1>2. HostTypes'
  BY DEF IInv, HostTypes, TypeOK, rowVars, netVars, ExamineActive, RefreshAlive,
      RefreshAnswered, RefreshUnverified, SetState
<1>3. TableTypes'
  BY DEF IInv, TableTypes, TypeOK, CatalogTypes, Access, Stored, Effective, netVars,
      ExamineActive, RefreshAlive, RefreshAnswered, RefreshUnverified
<1>4. HandlerTypes'
  BY DEF IInv, HandlerTypes, TypeOK, Steps, ExamineActive, Examined
<1>5. InactiveHasNone'
  BY DEF IInv, InactiveHasNone, TypeOK, HostTypes, rowVars, netVars, ExamineActive,
      RefreshAlive, RefreshAnswered, RefreshUnverified, SetState
<1>6. StartsAlone'
  BY DEF IInv, StartsAlone, TypeOK, HostTypes, Starting, Holding, rowVars, netVars,
      ExamineActive, Examined, RefreshAlive, RefreshAnswered, RefreshUnverified, SetState
<1>7. Phases'
  BY DEF IInv, Phases, Loops, ExamineActive, Examined
<1>8. Holding'
  BY DEF IInv, Holding, TypeOK, HostTypes, HandlerTypes, rowVars, ExamineActive, Examined,
      RefreshAlive, RefreshAnswered, RefreshUnverified, SetState
<1>9. Concerned'
  BY DEF IInv, Concerned, TypeOK, HostTypes, Stored, Proposed, dbVars, rowVars,
      ExamineActive, Examined, RefreshAlive, RefreshAnswered, RefreshUnverified, SetState
<1>10. Gated'
  BY DEF IInv, Gated, ExamineActive, Examined
<1>11. InPlace'
  BY DEF IInv, InPlace, ExamineActive, Examined
<1>12. OldIsStored'
  BY DEF IInv, OldIsStored, TypeOK, TableTypes, Stored, dbVars, ExamineActive
<1> QED
  BY <1>1, <1>2, <1>3, <1>4, <1>5, <1>6, <1>7, <1>8, <1>9, <1>10, <1>11, <1>12
  DEF IInv, TypeOK

(* A VM in an unknown state refuses the whole change.                       *)
LEMMA ExamineUnknownKeeps ==
  ASSUME IInv, NEW u \in VM, ExamineUnknown(u)
  PROVE  IInv'
<1>1. Fresh' /\ GateNeedsLink'
  BY DEF IInv, Fresh, Attached, GateNeedsLink, Stored, dbVars, netVars, ExamineUnknown,
      RefreshAlive, RefreshAnswered, RefreshUnverified, TypeOK, HostTypes
<1>2. CatalogTypes'
  BY DEF IInv, CatalogTypes, TypeOK, dbVars, ExamineUnknown, Release
<1>3. HostTypes'
  BY DEF IInv, HostTypes, TypeOK, rowVars, netVars, ExamineUnknown, RefreshAlive,
      RefreshAnswered, RefreshUnverified, SetState
<1>4. TableTypes'
  BY DEF IInv, TableTypes, TypeOK, Access, netVars, ExamineUnknown, Release, Nobody,
      RefreshAlive, RefreshAnswered, RefreshUnverified
<1>5. HandlerTypes'
  BY DEF IInv, HandlerTypes, TypeOK, Steps, ExamineUnknown, Release
<1>6. InactiveHasNone'
  BY DEF IInv, InactiveHasNone, TypeOK, HostTypes, rowVars, netVars, ExamineUnknown,
      RefreshAlive, RefreshAnswered, RefreshUnverified, SetState
<1>7. StartsAlone'
  BY DEF IInv, StartsAlone, TypeOK, HostTypes, Starting, Holding, rowVars, netVars,
      ExamineUnknown, Release, RefreshAlive, RefreshAnswered, RefreshUnverified, SetState
<1>8. Phases'
  BY DEF IInv, Phases, Loops, ExamineUnknown, Release
<1>9. Holding'
  BY DEF IInv, Holding, ExamineUnknown, Release
<1>10. Concerned'
  BY DEF IInv, Concerned, ExamineUnknown, Release
<1>11. Gated'
  BY DEF IInv, Gated, ExamineUnknown, Release
<1>12. InPlace'
  BY DEF IInv, InPlace, ExamineUnknown, Release
<1>13. OldIsStored'
  BY DEF IInv, OldIsStored, ExamineUnknown, Release, Nobody
<1> QED
  BY <1>1, <1>2, <1>3, <1>4, <1>5, <1>6, <1>7, <1>8, <1>9, <1>10, <1>11, <1>12, <1>13
  DEF IInv, TypeOK

(* The markers go up before any gate does.                                  *)
LEMMA MarkKeeps ==
  ASSUME IInv, NEW u \in VM, Mark(u)
  PROVE  IInv'
<1>1. Fresh' /\ InactiveHasNone' /\ GateNeedsLink'
  BY DEF IInv, Fresh, Attached, InactiveHasNone, GateNeedsLink, Stored, dbVars, rowVars,
      netVars, Mark
<1>2. CatalogTypes'
  BY DEF IInv, CatalogTypes, TypeOK, dbVars, Mark, Advance, Goto, planVars, Release
<1>3. HostTypes'
  BY DEF IInv, HostTypes, TypeOK, rowVars, netVars, Mark
<1>4. TableTypes'
  BY DEF IInv, TableTypes, TypeOK, Access, netVars, Mark, Advance, Goto, planVars,
         Release, Nobody
<1>5. HandlerTypes'
  BY DEF IInv, HandlerTypes, TypeOK, Steps, Mark, Advance, Goto, planVars, Release
<1>6. StartsAlone'
  BY DEF IInv, StartsAlone, Starting, rowVars, netVars, Mark, Advance, Goto, Release
<1>7. Phases'
  BY DEF IInv, Phases, Loops, Mark, Advance, Goto, Release
<1>8. Holding'
  BY DEF IInv, Holding, rowVars, Mark, Advance, Goto, Release
<1>9. Concerned'
  BY DEF IInv, Concerned, Stored, Proposed, dbVars, rowVars, Mark, Advance, Goto,
         planVars, Release
<1>10. Gated'
  BY DEF IInv, Gated, Mark, Advance, Goto, Release
<1>11. InPlace'
  BY DEF IInv, InPlace, Mark, Advance, Goto, Release
<1>12. OldIsStored'
  BY DEF IInv, OldIsStored, Stored, dbVars, Mark, Advance, Goto, planVars, Release,
         Nobody
<1> QED
  BY <1>1, <1>2, <1>3, <1>4, <1>5, <1>6, <1>7, <1>8, <1>9, <1>10, <1>11, <1>12
  DEF IInv, TypeOK

(* Once the last gate is down, every VM of the change is gated.             *)
LEMMA QuiesceKeeps ==
  ASSUME IInv, NEW u \in VM, Quiesce(u)
  PROVE  IInv'
<1>1. CatalogTypes' /\ TableTypes' /\ InactiveHasNone'
  BY DEF IInv, CatalogTypes, TableTypes, InactiveHasNone, TypeOK, dbVars, rowVars,
         Quiesce, Advance, Goto, Fail, planVars
<1>2. HostTypes'
  BY DEF IInv, HostTypes, TypeOK, rowVars, Quiesce
<1>3. HandlerTypes'
  BY DEF IInv, HandlerTypes, TypeOK, Steps, Quiesce, Advance, Goto, Fail, planVars
<1>4. Fresh'
  BY DEF IInv, Fresh, Attached, TypeOK, HostTypes, Stored, dbVars, Quiesce
<1>5. GateNeedsLink'
  BY DEF IInv, GateNeedsLink, TypeOK, HostTypes, Quiesce
<1>6. StartsAlone'
  BY DEF IInv, StartsAlone, TypeOK, HostTypes, Starting, Phases, Holding, Loops,
         rowVars, Quiesce, Advance, Goto, Fail
<1>7. Phases'
  BY DEF IInv, Phases, Loops, Quiesce, Advance, Goto, Fail
<1>8. Holding'
  BY DEF IInv, Holding, rowVars, Quiesce, Advance, Goto, Fail
<1>9. Concerned'
  BY DEF IInv, Concerned, Stored, Proposed, dbVars, rowVars, Quiesce, Advance, Goto,
         Fail, planVars
<1>10. Gated'
  BY DEF IInv, Gated, TypeOK, HostTypes, HandlerTypes, Quiesce, Advance, Goto, Fail
<1>11. InPlace'
  BY DEF IInv, InPlace, Quiesce, Advance, Goto, Fail
<1>12. OldIsStored'
  BY DEF IInv, OldIsStored, Stored, dbVars, Quiesce, Advance, Goto, Fail, planVars
<1> QED
  BY <1>1, <1>2, <1>3, <1>4, <1>5, <1>6, <1>7, <1>8, <1>9, <1>10, <1>11, <1>12
  DEF IInv, TypeOK

(* The engine is changed only while the VMs of the change are gated.        *)
LEMMA ReplaceEngineKeeps ==
  ASSUME IInv, ReplaceEngine
  PROVE  IInv'
<1>1. CatalogTypes' /\ HostTypes' /\ GateNeedsLink' /\ StartsAlone'
  BY DEF IInv, CatalogTypes, HostTypes, GateNeedsLink, StartsAlone, TypeOK, Starting,
         dbVars, rowVars, ReplaceEngine, Goto, Fail, planVars
<1>2. TableTypes'
  BY DEF IInv, TableTypes, TypeOK, CatalogTypes, Access, Stored, Proposed, Effective,
         Target, ReplaceEngine, Goto, Fail, planVars
<1>3. HandlerTypes'
  BY DEF IInv, HandlerTypes, TypeOK, Steps, ReplaceEngine, Goto, Fail, planVars
<1>4. Fresh'
  BY DEF IInv, Fresh, Attached, Stored, Gated, dbVars, ReplaceEngine, Target
<1>5. InactiveHasNone'
  BY DEF IInv, InactiveHasNone, Holding, rowVars, ReplaceEngine
<1>6. Phases'
  BY DEF IInv, Phases, Loops, ReplaceEngine, Goto, Fail
<1>7. Holding'
  BY DEF IInv, Holding, rowVars, ReplaceEngine, Goto, Fail
<1>8. Concerned'
  BY DEF IInv, Concerned, Stored, Proposed, dbVars, rowVars, ReplaceEngine, Goto, Fail,
         planVars
<1>9. Gated'
  BY DEF IInv, Gated, ReplaceEngine, Goto, Fail
<1>10. InPlace'
  BY DEF IInv, InPlace, TypeOK, HandlerTypes, Target, Stored, Proposed, dbVars,
         ReplaceEngine, Goto, Fail, planVars
<1>11. OldIsStored'
  BY DEF IInv, OldIsStored, Stored, dbVars, ReplaceEngine, Goto, Fail, planVars
<1> QED
  BY <1>1, <1>2, <1>3, <1>4, <1>5, <1>6, <1>7, <1>8, <1>9, <1>10, <1>11
  DEF IInv, TypeOK

(* Recovery registers what is stored.                                       *)
LEMMA RecoverEngineKeeps ==
  ASSUME IInv, NEW u \in VM, RecoverEngine(u)
  PROVE  IInv'
<1>1. HostTypes' /\ GateNeedsLink'
  BY DEF IInv, HostTypes, GateNeedsLink, TypeOK, rowVars, RecoverEngine
<1>2. CatalogTypes'
  BY DEF IInv, CatalogTypes, TypeOK, dbVars, RecoverEngine, Finish, NextRow, Goto,
         Fail, planVars
<1>3. TableTypes'
  BY DEF IInv, TableTypes, TypeOK, CatalogTypes, Access, Stored, Effective,
         RecoverEngine, Finish, NextRow, Goto, Fail, planVars
<1>4. HandlerTypes'
  BY DEF IInv, HandlerTypes, TypeOK, Steps, RecoverEngine, Finish, NextRow, Goto, Fail,
         planVars
<1>5. Fresh'
  BY DEF IInv, Fresh, Attached, TypeOK, TableTypes, Stored, dbVars, RecoverEngine
<1>6. InactiveHasNone'
  BY DEF IInv, InactiveHasNone, TypeOK, TableTypes, Holding, rowVars, RecoverEngine
<1>7. StartsAlone'
  BY DEF IInv, StartsAlone, Starting, rowVars, RecoverEngine, Finish, NextRow, Goto,
         Fail
<1>8. Phases'
  BY DEF IInv, Phases, Loops, RecoverEngine, Finish, NextRow, Goto, Fail
<1>9. Holding'
  BY DEF IInv, Holding, rowVars, RecoverEngine, Finish, NextRow, Goto, Fail
<1>10. Concerned'
  BY DEF IInv, Concerned, RecoverEngine
<1>11. Gated'
  BY DEF IInv, Gated, RecoverEngine, Finish, NextRow, Goto, Fail
<1>12. InPlace'
  BY DEF IInv, InPlace, TypeOK, TableTypes, Target, Stored, dbVars, RecoverEngine,
         Finish, NextRow, Goto, Fail
<1>13. OldIsStored'
  BY DEF IInv, OldIsStored, Stored, dbVars, RecoverEngine, Finish, NextRow, Goto, Fail,
         planVars
<1> QED
  BY <1>1, <1>2, <1>3, <1>4, <1>5, <1>6, <1>7, <1>8, <1>9, <1>10, <1>11, <1>12, <1>13
  DEF IInv, TypeOK

(* The rules are changed only while the VMs of the change are gated.        *)
LEMMA ReplaceRulesKeeps ==
  ASSUME IInv, ReplaceRules
  PROVE  IInv'
<1>1. CatalogTypes' /\ HostTypes' /\ GateNeedsLink' /\ StartsAlone'
  BY DEF IInv, CatalogTypes, HostTypes, GateNeedsLink, StartsAlone, TypeOK, Starting,
         dbVars, rowVars, ReplaceRules, Goto, Fail, planVars
<1>2. TableTypes'
  BY DEF IInv, TableTypes, TypeOK, CatalogTypes, Access, Stored, Proposed, Effective,
         Target, ReplaceRules, Goto, Fail, planVars
<1>3. HandlerTypes'
  BY DEF IInv, HandlerTypes, TypeOK, Steps, ReplaceRules, Goto, Fail, planVars
<1>4. Fresh'
  BY DEF IInv, Fresh, Attached, Stored, Gated, dbVars, ReplaceRules, Target
<1>5. InactiveHasNone'
  BY DEF IInv, InactiveHasNone, Holding, rowVars, ReplaceRules
<1>6. Phases'
  BY DEF IInv, Phases, Loops, ReplaceRules, Goto, Fail
<1>7. Holding'
  BY DEF IInv, Holding, rowVars, ReplaceRules, Goto, Fail
<1>8. Concerned'
  BY DEF IInv, Concerned, Stored, Proposed, dbVars, rowVars, ReplaceRules, Goto, Fail,
         planVars
<1>9. Gated'
  BY DEF IInv, Gated, ReplaceRules, Goto, Fail
<1>10. InPlace'
  BY DEF IInv, InPlace, TypeOK, HandlerTypes, Target, Stored, Proposed, OldIsStored,
         dbVars, ReplaceRules, Goto, Fail, planVars
<1>11. OldIsStored'
  BY DEF IInv, OldIsStored, Stored, dbVars, ReplaceRules, Goto, Fail, planVars
<1> QED
  BY <1>1, <1>2, <1>3, <1>4, <1>5, <1>6, <1>7, <1>8, <1>9, <1>10, <1>11
  DEF IInv, TypeOK

(* The transaction stores what the gated VMs are about to use.              *)
LEMMA CommitKeeps ==
  ASSUME IInv, Commit
  PROVE  IInv'
<1>1. HostTypes' /\ InactiveHasNone' /\ GateNeedsLink'
  BY DEF IInv, HostTypes, InactiveHasNone, GateNeedsLink, TypeOK, rowVars, netVars,
         Commit
<1>2. CatalogTypes'
  BY DEF IInv, CatalogTypes, TypeOK, dbVars, Commit, Goto, Fail, planVars, Release
<1>3. TableTypes'
  BY DEF IInv, TableTypes, TypeOK, Access, netVars, Commit, Goto, Fail, planVars,
         Release, Nobody
<1>4. HandlerTypes'
  BY DEF IInv, HandlerTypes, TypeOK, Steps, Commit, Goto, Fail, planVars, Release
<1>5. Fresh'
  BY DEF IInv, Fresh, Attached, TypeOK, HandlerTypes, Stored, Gated, Phases, Concerned,
      InactiveHasNone, Proposed, Loops, dbVars, netVars, Commit
<1>6. StartsAlone'
  BY DEF IInv, StartsAlone, Starting, rowVars, netVars, Commit, Goto, Fail, Release
<1>7. Phases'
  BY DEF IInv, Phases, Loops, Commit, Goto, Fail, Release
<1>8. Holding'
  BY DEF IInv, Holding, rowVars, Commit, Goto, Fail, Release
<1>9. Concerned'
  BY DEF IInv, Concerned, Stored, Proposed, dbVars, rowVars, Commit, Goto, Fail,
         planVars, Release
<1>10. Gated'
  BY DEF IInv, Gated, Commit, Goto, Fail, Release
<1>11. InPlace'
  BY DEF IInv, InPlace, Stored, Proposed, netVars, Commit, Goto, Fail, Release
<1>12. OldIsStored'
  BY DEF IInv, OldIsStored, TypeOK, HandlerTypes, Phases, Loops, Stored, dbVars,
         Commit, Goto, Fail, planVars, Release, Nobody
<1> QED
  BY <1>1, <1>2, <1>3, <1>4, <1>5, <1>6, <1>7, <1>8, <1>9, <1>10, <1>11, <1>12
  DEF IInv, TypeOK

(* A gate goes up over what is stored by then.                              *)
LEMMA ResumeKeeps ==
  ASSUME IInv, NEW u \in VM, Resume(u)
  PROVE  IInv'
<1>1. CatalogTypes' /\ TableTypes' /\ InactiveHasNone'
  BY DEF IInv, CatalogTypes, TableTypes, InactiveHasNone, TypeOK, dbVars, rowVars,
         Resume, Advance, Goto, planVars
<1>2. HostTypes'
  BY DEF IInv, HostTypes, TypeOK, rowVars, Resume
<1>3. HandlerTypes'
  BY DEF IInv, HandlerTypes, TypeOK, Steps, Resume, Advance, Goto, planVars
<1>4. Fresh'
  BY DEF IInv, Fresh, Attached, TypeOK, HostTypes, Stored, InPlace, Holding, Loops, dbVars,
      Resume
<1>5. GateNeedsLink'
  BY DEF IInv, GateNeedsLink, TypeOK, HostTypes, Resume
<1>6. StartsAlone'
  BY DEF IInv, StartsAlone, TypeOK, HostTypes, Starting, rowVars, Resume, Advance, Goto
<1>7. Phases'
  BY DEF IInv, Phases, Loops, Resume, Advance, Goto
<1>8. Holding'
  BY DEF IInv, Holding, rowVars, Resume, Advance, Goto
<1>9. Concerned'
  BY DEF IInv, Concerned, Resume, Advance, Goto
<1>10. Gated'
  BY DEF IInv, Gated, Resume, Advance, Goto
<1>11. InPlace'
  BY DEF IInv, InPlace, Stored, dbVars, Resume, Advance, Goto
<1>12. OldIsStored'
  BY DEF IInv, OldIsStored, Stored, dbVars, Resume, Advance, Goto, planVars
<1> QED
  BY <1>1, <1>2, <1>3, <1>4, <1>5, <1>6, <1>7, <1>8, <1>9, <1>10, <1>11, <1>12
  DEF IInv, TypeOK

(* The marker and the error text go once the VM is resumed.                 *)
LEMMA ClearKeeps ==
  ASSUME IInv, NEW u \in VM, Clear(u)
  PROVE  IInv'
<1>1. Fresh' /\ InactiveHasNone' /\ GateNeedsLink'
  BY DEF IInv, Fresh, Attached, InactiveHasNone, GateNeedsLink, Stored, dbVars, netVars,
      Clear
<1>2. CatalogTypes'
  BY DEF IInv, CatalogTypes, TypeOK, dbVars, Clear, Finish, NextRow, Release, Goto,
         planVars
<1>3. HostTypes'
  BY DEF IInv, HostTypes, TypeOK, netVars, Clear
<1>4. TableTypes'
  BY DEF IInv, TableTypes, TypeOK, Access, netVars, Clear, Finish, NextRow, Release,
         Nobody, Goto, planVars
<1>5. HandlerTypes'
  BY DEF IInv, HandlerTypes, TypeOK, Steps, Clear, Finish, NextRow, Release, Goto,
         planVars
<1>6. StartsAlone'
  BY DEF IInv, StartsAlone, Starting, netVars, Clear, Finish, NextRow, Release, Goto
<1>7. Phases'
  BY DEF IInv, Phases, Loops, Clear, Finish, NextRow, Release, Goto
<1>8. Holding'
  BY DEF IInv, Holding, Clear, Finish, NextRow, Release, Goto
<1>9. Concerned'
  BY DEF IInv, Concerned, Clear, Finish, Release, Goto
<1>10. Gated'
  BY DEF IInv, Gated, Clear, Finish, NextRow, Release, Goto
<1>11. InPlace'
  BY DEF IInv, InPlace, Clear, Finish, NextRow, Release, Goto
<1>12. OldIsStored'
  BY DEF IInv, OldIsStored, Stored, dbVars, Clear, Finish, NextRow, Release, Nobody,
         Goto, planVars
<1> QED
  BY <1>1, <1>2, <1>3, <1>4, <1>5, <1>6, <1>7, <1>8, <1>9, <1>10, <1>11, <1>12
  DEF IInv, TypeOK

(* A change that failed leaves its VMs without access.                      *)
LEMMA BlockKeeps ==
  ASSUME IInv, NEW u \in VM, Block(u)
  PROVE  IInv'
<1>1. CatalogTypes'
  BY DEF IInv, CatalogTypes, TypeOK, dbVars, Block, Finish, NextRow, Release, Goto,
         planVars
<1>2. HostTypes'
  BY DEF IInv, HostTypes, TypeOK, Block, Suspend
<1>3. TableTypes'
  BY DEF IInv, TableTypes, TypeOK, Access, Block, Unregister, Finish, NextRow, Release,
         Nobody, Goto, planVars
<1>4. HandlerTypes'
  BY DEF IInv, HandlerTypes, TypeOK, Steps, Block, Finish, NextRow, Release, Goto,
         planVars
<1>5. Fresh'
  BY DEF IInv, Fresh, Attached, Stored, dbVars, Block, Unregister
<1>6. InactiveHasNone'
  BY DEF IInv, InactiveHasNone, Block, Unregister
<1>7. GateNeedsLink'
  BY DEF IInv, GateNeedsLink, TypeOK, HostTypes, Block, Suspend
<1>8. StartsAlone'
  BY DEF IInv, StartsAlone, Starting, Block, Finish, NextRow, Release, Goto
<1>9. Phases'
  BY DEF IInv, Phases, Block, Finish, NextRow, Release, Goto
<1>10. Holding'
  BY DEF IInv, Holding, Block, Finish, NextRow, Release, Goto
<1>11. Concerned'
  BY DEF IInv, Concerned, Block, Finish, Release, Goto
<1>12. Gated'
  BY DEF IInv, Gated, Block, Finish, NextRow, Release, Goto
<1>13. InPlace'
  BY DEF IInv, InPlace, Block, Finish, NextRow, Release, Goto
<1>14. OldIsStored'
  BY DEF IInv, OldIsStored, Stored, dbVars, Block, Finish, NextRow, Release, Nobody,
         Goto, planVars
<1> QED
  BY <1>1, <1>2, <1>3, <1>4, <1>5, <1>6, <1>7, <1>8, <1>9, <1>10, <1>11, <1>12, <1>13,
     <1>14
  DEF IInv, TypeOK

(* Recovery looks at one row, and refreshes it first.                       *)
LEMMA RecoverRowKeeps ==
  ASSUME IInv, NEW u \in VM, RecoverRow(u)
  PROVE  IInv'
<1>1. CatalogTypes'
  BY DEF IInv, CatalogTypes, TypeOK, dbVars, RecoverRow
<1>2. HostTypes'
  <2>1. CASE RecoverInactive(u)
    BY <2>1 DEF IInv, TypeOK, HostTypes, RecoverRow, RecoverInactive, rowVars, netVars
  <2>2. CASE RecoverStopped(u)
    BY <2>2, RefreshStoppedTypes DEF IInv, TypeOK, HostTypes, RecoverRow, RecoverStopped
  <2>3. ASSUME NEW state \in {"active", "unknown"}, RecoverAlive(u, state)
        PROVE  HostTypes'
    BY <2>3, RefreshAliveTypes DEF IInv, TypeOK, HostTypes, RecoverRow, RecoverAlive
  <2> QED BY <2>1, <2>2, <2>3 DEF RecoverRow
<1>3. TableTypes'
  BY DEF IInv, TableTypes, TypeOK, Access, netVars, RecoverRow, RecoverInactive,
      RecoverStopped, RecoverAlive, RefreshStopped, RefreshAlive, RefreshAnswered,
      RefreshUnverified, RecordStopped, Unregister, Unplug
<1>4. HandlerTypes'
  BY DEF IInv, HandlerTypes, TypeOK, Steps, loopVars, RecoverRow, RecoverInactive,
         RecoverStopped, RecoverAlive, Recovery
<1>5. Fresh'
  BY DEF IInv, Fresh, Attached, TypeOK, HostTypes, TableTypes, Stored, dbVars, netVars,
      RecoverRow, RecoverInactive, RecoverStopped, RecoverAlive, RefreshStopped,
      RefreshAlive, RefreshAnswered, RefreshUnverified, RecordStopped, Unregister, Unplug
<1>6. InactiveHasNone'
  BY DEF IInv, InactiveHasNone, TypeOK, HostTypes, TableTypes, rowVars, netVars, RecoverRow,
      RecoverInactive, RecoverStopped, RecoverAlive, RefreshStopped, RefreshAlive,
      RefreshAnswered, RefreshUnverified, RecordStopped, Unregister, Unplug, SetState
<1>7. GateNeedsLink'
  BY DEF IInv, GateNeedsLink, TypeOK, HostTypes, netVars, RecoverRow, RecoverInactive,
      RecoverStopped, RecoverAlive, RefreshStopped, RefreshAlive, RefreshAnswered,
      RefreshUnverified, RecordStopped, Unplug
<1>8. StartsAlone'
  BY DEF IInv, StartsAlone, Starting, Phases, RecoverRow
<1>9. Phases'
  BY DEF IInv, Phases, TypeOK, HandlerTypes, Loops, loopVars, RecoverRow,
         RecoverInactive, RecoverStopped, RecoverAlive, Recovery
<1>10. Holding'
  BY DEF IInv, Holding, TypeOK, HostTypes, Phases, rowVars, loopVars, RecoverRow,
      RecoverInactive, RecoverStopped, RecoverAlive, Recovery, RefreshAlive,
      RefreshAnswered, RefreshUnverified, SetState
<1>11. Concerned'
  BY DEF IInv, Concerned, Phases, RecoverRow
<1>12. Gated'
  BY DEF IInv, Gated, loopVars, RecoverRow, RecoverInactive, RecoverStopped,
         RecoverAlive, Recovery
<1>13. InPlace'
  BY DEF IInv, InPlace, loopVars, RecoverRow, RecoverInactive, RecoverStopped,
         RecoverAlive, Recovery
<1>14. OldIsStored'
  BY DEF IInv, OldIsStored, Stored, dbVars, RecoverRow
<1> QED
  BY <1>1, <1>2, <1>3, <1>4, <1>5, <1>6, <1>7, <1>8, <1>9, <1>10, <1>11, <1>12, <1>13,
     <1>14
  DEF IInv, TypeOK

(* Requests are served once recovery has seen every row.                    *)
LEMMA ServeKeeps ==
  ASSUME IInv, Serve
  PROVE  IInv'
<1>1. CatalogTypes' /\ HostTypes' /\ TableTypes' /\ Fresh' /\ InactiveHasNone' /\
      GateNeedsLink' /\ StartsAlone'
  BY DEF IInv, CatalogTypes, HostTypes, TableTypes, Fresh, Attached, InactiveHasNone,
      GateNeedsLink, StartsAlone, TypeOK, Stored, Starting, dbVars, rowVars, netVars, Serve,
      planVars
<1>2. HandlerTypes'
  BY DEF IInv, HandlerTypes, TypeOK, Steps, Serve, planVars
<1>3. Phases'
  BY DEF IInv, Phases, TypeOK, HandlerTypes, Serve
<1>4. Holding'
  BY DEF IInv, Holding, Loops, Serve
<1>5. Concerned'
  BY DEF IInv, Concerned, Serve
<1>6. Gated'
  BY DEF IInv, Gated, Serve
<1>7. InPlace'
  BY DEF IInv, InPlace, Serve
<1>8. OldIsStored'
  BY DEF IInv, OldIsStored, Stored, dbVars, Serve, planVars
<1> QED BY <1>1, <1>2, <1>3, <1>4, <1>5, <1>6, <1>7, <1>8 DEF IInv, TypeOK

(* A start takes the mutex of its VM.                                       *)
LEMMA StartBeginsKeeps ==
  ASSUME IInv, NEW u \in VM, StartBegins(u)
  PROVE  IInv'
<1>1. CatalogTypes' /\ TableTypes' /\ Fresh' /\ GateNeedsLink' /\ Gated' /\ InPlace' /\
      OldIsStored'
  BY DEF IInv, CatalogTypes, TableTypes, Fresh, Attached, GateNeedsLink, Gated, InPlace,
      OldIsStored, TypeOK, Stored, Target, Proposed, dbVars, netVars, loopVars, StartBegins,
      catVars, planVars, HostTypes
<1>2. HostTypes'
  BY DEF IInv, HostTypes, TypeOK, netVars, StartBegins, SetState
<1>3. HandlerTypes'
  BY DEF IInv, HandlerTypes, TypeOK, loopVars, StartBegins, Hold, catVars, planVars
<1>4. InactiveHasNone'
  BY DEF IInv, InactiveHasNone, netVars, StartBegins, SetState, TypeOK, HostTypes
<1>5. StartsAlone'
  BY DEF IInv, StartsAlone, TypeOK, HostTypes, Starting, netVars, StartBegins, Hold,
         SetState
<1>6. Phases'
  BY DEF IInv, Phases, loopVars, StartBegins, Acquire, catVars
<1>7. Holding'
  BY DEF IInv, Holding, loopVars, StartBegins, Acquire, Hold, SetState, catVars
<1>8. Concerned'
  BY DEF IInv, Concerned, Stored, Proposed, dbVars, loopVars, StartBegins, Acquire,
         Hold, SetState, catVars, planVars
<1> QED BY <1>1, <1>2, <1>3, <1>4, <1>5, <1>6, <1>7, <1>8 DEF IInv, TypeOK

(* A start makes the rules from what is stored.                             *)
LEMMA StartTapKeeps ==
  ASSUME IInv, NEW u \in VM, StartTap(u)
  PROVE  IInv'
<1>1. CatalogTypes' /\ Gated' /\ OldIsStored'
  BY DEF IInv, CatalogTypes, Gated, OldIsStored, TypeOK, Stored, dbVars, loopVars,
         StartTap, catVars, planVars
<1>2. HostTypes'
  BY DEF IInv, HostTypes, TypeOK, rowVars, StartTap
<1>3. TableTypes'
  BY DEF IInv, TableTypes, TypeOK, CatalogTypes, Access, Stored, Effective, StartTap,
         catVars, planVars
<1>4. HandlerTypes'
  BY DEF IInv, HandlerTypes, TypeOK, loopVars, StartTap, Hold, catVars, planVars
<1>5. Fresh'
  BY DEF IInv, Fresh, Attached, Stored, dbVars, StartTap, TypeOK, HostTypes, TableTypes
<1>6. InactiveHasNone'
  BY DEF IInv, InactiveHasNone, StartsAlone, Starting, rowVars, StartTap
<1>7. GateNeedsLink'
  BY DEF IInv, GateNeedsLink, StartTap
<1>8. StartsAlone'
  BY DEF IInv, StartsAlone, Starting, GateNeedsLink, TypeOK, HostTypes, rowVars,
      StartTap, Hold
<1>9. Phases'
  BY DEF IInv, Phases, loopVars, StartTap, catVars
<1>10. Holding'
  BY DEF IInv, Holding, rowVars, loopVars, StartTap, Hold, catVars
<1>11. Concerned'
  BY DEF IInv, Concerned, Stored, Proposed, dbVars, rowVars, loopVars, StartTap, Hold,
         catVars, planVars
<1>12. InPlace'
  BY DEF IInv, InPlace, Phases, Holding, Target, Stored, Proposed, dbVars, loopVars,
         StartTap, catVars, planVars
<1> QED
  BY <1>1, <1>2, <1>3, <1>4, <1>5, <1>6, <1>7, <1>8, <1>9, <1>10, <1>11, <1>12
  DEF IInv, TypeOK

(* A start registers what is stored.                                        *)
LEMMA StartRegisterKeeps ==
  ASSUME IInv, NEW u \in VM, StartRegister(u)
  PROVE  IInv'
<1>1. CatalogTypes' /\ HostTypes' /\ GateNeedsLink' /\ Gated' /\ OldIsStored'
  BY DEF IInv, CatalogTypes, HostTypes, GateNeedsLink, Gated, OldIsStored, TypeOK,
         Stored, dbVars, rowVars, loopVars, StartRegister, catVars, planVars
<1>2. TableTypes'
  BY DEF IInv, TableTypes, TypeOK, CatalogTypes, Access, Stored, Effective,
         StartRegister, catVars, planVars
<1>3. HandlerTypes'
  BY DEF IInv, HandlerTypes, TypeOK, loopVars, StartRegister, Hold, catVars, planVars
<1>4. Fresh'
  BY DEF IInv, Fresh, Attached, Stored, dbVars, StartRegister
<1>5. InactiveHasNone'
  BY DEF IInv, InactiveHasNone, StartsAlone, Starting, rowVars, StartRegister
<1>6. StartsAlone'
  BY DEF IInv, StartsAlone, Starting, rowVars, StartRegister, Hold
<1>7. Phases'
  BY DEF IInv, Phases, loopVars, StartRegister, catVars
<1>8. Holding'
  BY DEF IInv, Holding, rowVars, loopVars, StartRegister, Hold, catVars
<1>9. Concerned'
  BY DEF IInv, Concerned, Stored, Proposed, dbVars, rowVars, loopVars, StartRegister,
         Hold, catVars, planVars
<1>10. InPlace'
  BY DEF IInv, InPlace, Phases, Holding, Target, Stored, Proposed, dbVars, loopVars,
         StartRegister, catVars, planVars
<1> QED BY <1>1, <1>2, <1>3, <1>4, <1>5, <1>6, <1>7, <1>8, <1>9, <1>10 DEF IInv, TypeOK

(* A start that succeeds releases the mutex.                                *)
LEMMA StartEndsKeeps ==
  ASSUME IInv, NEW u \in VM, StartEnds(u)
  PROVE  IInv'
<1>1. CatalogTypes' /\ TableTypes' /\ Fresh' /\ GateNeedsLink' /\ Gated' /\ InPlace' /\
      OldIsStored'
  BY DEF IInv, CatalogTypes, TableTypes, Fresh, Attached, GateNeedsLink, Gated, InPlace,
      OldIsStored, TypeOK, Stored, Target, Proposed, dbVars, netVars, loopVars, StartEnds,
      catVars, planVars, HostTypes, StartsAlone, Starting
<1>2. HostTypes'
  BY DEF IInv, HostTypes, TypeOK, netVars, StartEnds, SetState
<1>3. HandlerTypes'
  BY DEF IInv, HandlerTypes, TypeOK, loopVars, StartEnds, Hold, catVars, planVars
<1>4. InactiveHasNone'
  BY DEF IInv, InactiveHasNone, netVars, StartEnds, SetState
<1>5. StartsAlone'
  BY DEF IInv, StartsAlone, TypeOK, HandlerTypes, Starting, netVars, StartEnds, Hold,
         SetState
<1>6. Phases'
  BY DEF IInv, Phases, loopVars, StartEnds, catVars
<1>7. Holding'
  BY DEF IInv, Holding, loopVars, StartEnds, Hold, SetState, catVars
<1>8. Concerned'
  BY DEF IInv, Concerned, Stored, Proposed, dbVars, loopVars, StartEnds, Hold,
         SetState, catVars, planVars
<1> QED BY <1>1, <1>2, <1>3, <1>4, <1>5, <1>6, <1>7, <1>8 DEF IInv, TypeOK

(* A start that fails takes down what it put in place.                      *)
LEMMA StartFailsKeeps ==
  ASSUME IInv, NEW u \in VM, StartFails(u)
  PROVE  IInv'
<1>1. CatalogTypes' /\ OldIsStored'
  BY DEF IInv, CatalogTypes, OldIsStored, TypeOK, Stored, dbVars, loopVars, StartFails,
         catVars, planVars
<1>2. HostTypes'
  BY DEF IInv, HostTypes, TypeOK, netVars, StartFails, RecordStopped, Unplug, SetState
<1>3. TableTypes'
  BY DEF IInv, TableTypes, TypeOK, Access, netVars, StartFails, RecordStopped,
         Unregister, Unplug, catVars, planVars
<1>4. HandlerTypes'
  BY DEF IInv, HandlerTypes, TypeOK, loopVars, StartFails, Hold, catVars, planVars
<1>5. Fresh'
  BY DEF IInv, Fresh, Attached, TypeOK, HostTypes, TableTypes, Stored, StartsAlone,
      Starting, dbVars, netVars, StartFails, RecordStopped, Unregister, Unplug
<1>6. InactiveHasNone'
  BY DEF IInv, InactiveHasNone, TypeOK, HostTypes, TableTypes, netVars, StartFails,
         RecordStopped, Unregister, Unplug, SetState
<1>7. GateNeedsLink'
  BY DEF IInv, GateNeedsLink, TypeOK, HostTypes, netVars, StartFails, RecordStopped,
         Unplug
<1>8. StartsAlone'
  BY DEF IInv, StartsAlone, TypeOK, HostTypes, HandlerTypes, Starting, netVars,
         StartFails, Hold, RecordStopped, Unplug, SetState
<1>9. Phases'
  BY DEF IInv, Phases, loopVars, StartFails, catVars
<1>10. Holding'
  BY DEF IInv, Holding, TypeOK, HostTypes, HandlerTypes, Phases, loopVars, StartFails,
         Hold, RecordStopped, SetState, catVars
<1>11. Concerned'
  BY DEF IInv, Concerned, TypeOK, HostTypes, Stored, Proposed, dbVars, loopVars,
         StartFails, Hold, RecordStopped, SetState, catVars, planVars
<1>12. Gated'
  BY DEF IInv, Gated, TypeOK, HostTypes, HandlerTypes, Phases, Holding, netVars,
         loopVars, StartFails, RecordStopped, Unplug, catVars
<1>13. InPlace'
  BY DEF IInv, InPlace, TypeOK, TableTypes, HandlerTypes, Phases, Holding, Target,
         Stored, Proposed, dbVars, netVars, loopVars, StartFails, RecordStopped,
         Unregister, Unplug, catVars, planVars
<1> QED
  BY <1>1, <1>2, <1>3, <1>4, <1>5, <1>6, <1>7, <1>8, <1>9, <1>10, <1>11, <1>12, <1>13
  DEF IInv, TypeOK

(* A stop takes the access of its VM away with its process.                 *)
LEMMA StopKeeps ==
  ASSUME IInv, NEW u \in VM, Stop(u)
  PROVE  IInv'
<1>a. \A v \in live : gate'[v] = gate[v] /\ rules'[v] = rules[v] /\ eng'[v] = eng[v]
  <2>1. u \notin live /\ live \subseteq VM
    BY DEF IInv, TypeOK, HandlerTypes, Holding, Stop, Acquire
  <2> QED
    BY <2>1
    DEF IInv, TypeOK, HostTypes, TableTypes, Stop, RecordStopped, Unregister, Unplug
<1>1. CatalogTypes' /\ HandlerTypes' /\ Phases' /\ OldIsStored'
  BY DEF IInv, CatalogTypes, HandlerTypes, Phases, OldIsStored, TypeOK, Stored, dbVars,
         loopVars, Stop, catVars, planVars
<1>2. HostTypes'
  BY DEF IInv, HostTypes, TypeOK, Stop, RecordStopped, Unplug, SetState
<1>3. TableTypes'
  BY DEF IInv, TableTypes, TypeOK, Access, Stop, RecordStopped, Unregister, Unplug,
         catVars, planVars
<1>4. Fresh'
  BY DEF IInv, Fresh, Attached, TypeOK, TableTypes, Stored, dbVars, Stop, RecordStopped,
      Unregister, Unplug, HostTypes
<1>5. InactiveHasNone'
  BY DEF IInv, InactiveHasNone, TypeOK, TableTypes, Stop, RecordStopped, Unregister, Unplug,
      SetState, HostTypes
<1>6. GateNeedsLink'
  BY DEF IInv, GateNeedsLink, TypeOK, HostTypes, Stop, RecordStopped, Unplug
<1>7. StartsAlone'
  BY DEF IInv, StartsAlone, Starting, Stop, Acquire, RecordStopped, Unplug, SetState,
      TypeOK, HostTypes, TableTypes
<1>8. Holding'
  BY DEF IInv, Holding, loopVars, Stop, Acquire, RecordStopped, SetState, catVars
<1>9. Concerned'
  BY DEF IInv, Concerned, Stored, Proposed, dbVars, loopVars, Stop, RecordStopped,
         SetState, catVars, planVars
<1>10. Gated'
  BY <1>a DEF IInv, Gated, Stop, catVars, loopVars
<1>11. InPlace'
  BY <1>a DEF IInv, InPlace, Target, Stored, Proposed, dbVars, loopVars, Stop, catVars, planVars
<1> QED
  BY <1>1, <1>2, <1>3, <1>4, <1>5, <1>6, <1>7, <1>8, <1>9, <1>10, <1>11
  DEF IInv, TypeOK

(* The other calls of a VM change only the state of its row.                *)
LEMMA ActKeeps ==
  ASSUME IInv, NEW u \in VM, Act(u)
  PROVE  IInv'
<1>1. CatalogTypes' /\ TableTypes' /\ HandlerTypes' /\ Fresh' /\ GateNeedsLink' /\
      Phases' /\ Gated' /\ InPlace' /\ OldIsStored'
  BY DEF IInv, CatalogTypes, TableTypes, HandlerTypes, Fresh, Attached, GateNeedsLink,
      Phases, Gated, InPlace, OldIsStored, TypeOK, Stored, Target, Proposed, dbVars,
      netVars, loopVars, Act, catVars, planVars
<1>2. HostTypes'
  BY DEF IInv, HostTypes, TypeOK, netVars, Act, SetState
<1>3. InactiveHasNone'
  BY DEF IInv, InactiveHasNone, netVars, Act, SetState
<1>4. StartsAlone'
  BY DEF IInv, StartsAlone, Starting, netVars, Act, Acquire, SetState
<1>5. Holding'
  BY DEF IInv, Holding, loopVars, Act, SetState, catVars
<1>6. Concerned'
  BY DEF IInv, Concerned, Stored, Proposed, dbVars, loopVars, Act, Acquire, SetState,
         catVars, planVars
<1> QED BY <1>1, <1>2, <1>3, <1>4, <1>5, <1>6 DEF IInv, TypeOK

(* A refresh of a VM that is gone takes its access away.                    *)
LEMMA RefreshKeeps ==
  ASSUME IInv, NEW u \in VM, Refresh(u)
  PROVE  IInv'
<1>1. CatalogTypes' /\ HandlerTypes' /\ Phases' /\ OldIsStored'
  BY DEF IInv, CatalogTypes, HandlerTypes, Phases, OldIsStored, TypeOK, Stored, dbVars,
         loopVars, Refresh, catVars, planVars
<1>2. HostTypes'
  <2>1. CASE RefreshStopped(u)
    BY <2>1, RefreshStoppedTypes DEF IInv, TypeOK, HostTypes, Refresh
  <2>2. ASSUME NEW state \in {"active", "unknown"}, RefreshAlive(u, state)
        PROVE  HostTypes'
    BY <2>2, RefreshAliveTypes DEF IInv, TypeOK, HostTypes, Refresh
  <2> QED BY <2>1, <2>2 DEF Refresh
<1>3. TableTypes'
  BY DEF IInv, TableTypes, TypeOK, Access, netVars, Refresh, RefreshStopped, RefreshAlive,
      RefreshAnswered, RefreshUnverified, RecordStopped, Unregister, Unplug, catVars,
      planVars
<1>4. Fresh'
  BY DEF IInv, Fresh, Attached, TypeOK, HostTypes, TableTypes, Stored, dbVars, netVars,
      Refresh, RefreshStopped, RefreshAlive, RefreshAnswered, RefreshUnverified,
      RecordStopped, Unregister, Unplug
<1>5. InactiveHasNone'
  BY DEF IInv, InactiveHasNone, TypeOK, HostTypes, TableTypes, rowVars, netVars, Refresh,
      RefreshStopped, RefreshAlive, RefreshAnswered, RefreshUnverified, RecordStopped,
      Unregister, Unplug, SetState
<1>6. GateNeedsLink'
  BY DEF IInv, GateNeedsLink, TypeOK, HostTypes, netVars, Refresh, RefreshStopped,
      RefreshAlive, RefreshAnswered, RefreshUnverified, RecordStopped, Unplug
<1>7. StartsAlone'
  BY DEF IInv, StartsAlone, TypeOK, HostTypes, Starting, rowVars, netVars, Refresh, Acquire,
      RefreshStopped, RefreshAlive, RefreshAnswered, RefreshUnverified, RecordStopped,
      Unplug, SetState
<1>8. Holding'
  BY DEF IInv, Holding, TypeOK, HostTypes, HandlerTypes, rowVars, loopVars, Refresh,
      Acquire, RefreshStopped, RefreshAlive, RefreshAnswered, RefreshUnverified,
      RecordStopped, SetState, catVars
<1>9. Concerned'
  BY DEF IInv, Concerned, TypeOK, HostTypes, Stored, Proposed, dbVars, rowVars, loopVars,
      Refresh, Acquire, RefreshStopped, RefreshAlive, RefreshAnswered, RefreshUnverified,
      RecordStopped, SetState, catVars, planVars
<1>10. Gated'
  BY DEF IInv, Gated, TypeOK, HostTypes, HandlerTypes, Holding, netVars, loopVars, Refresh,
      Acquire, RefreshStopped, RefreshAlive, RefreshAnswered, RefreshUnverified,
      RecordStopped, Unplug, catVars
<1>11. InPlace'
  BY DEF IInv, InPlace, TypeOK, TableTypes, HandlerTypes, Holding, Target, Stored, Proposed,
      dbVars, netVars, loopVars, Refresh, Acquire, RefreshStopped, RefreshAlive,
      RefreshAnswered, RefreshUnverified, RecordStopped, Unregister, Unplug, catVars,
      planVars
<1> QED
  BY <1>1, <1>2, <1>3, <1>4, <1>5, <1>6, <1>7, <1>8, <1>9, <1>10, <1>11
  DEF IInv, TypeOK

(* The end of a guest changes nothing in the tables.                        *)
LEMMA ExitKeeps ==
  ASSUME IInv, NEW u \in VM, Exit(u)
  PROVE  IInv'
<1>1. CatalogTypes' /\ TableTypes' /\ HandlerTypes' /\ Fresh' /\ InactiveHasNone' /\
      GateNeedsLink' /\ StartsAlone' /\ Phases' /\ Holding' /\ Concerned' /\ Gated' /\
      InPlace' /\ OldIsStored'
  BY DEF IInv, CatalogTypes, TableTypes, HandlerTypes, Fresh, Attached, InactiveHasNone,
      GateNeedsLink, StartsAlone, Phases, Holding, Concerned, Gated, InPlace, OldIsStored,
      TypeOK, Stored, Starting, Proposed, Target, dbVars, rowVars, netVars, loopVars, Exit,
      catVars, planVars
<1>2. HostTypes'
  BY DEF IInv, HostTypes, TypeOK, rowVars, netVars, Exit
<1> QED BY <1>1, <1>2 DEF IInv, TypeOK

(* A dropped update leaves the tables, and the gates, as they are.          *)
LEMMA DropCatalogKeeps ==
  ASSUME IInv, DropCatalog
  PROVE  IInv'
<1>1. HostTypes' /\ Fresh' /\ InactiveHasNone' /\ GateNeedsLink'
  BY DEF IInv, HostTypes, Fresh, Attached, InactiveHasNone, GateNeedsLink, TypeOK, Stored,
      dbVars, rowVars, netVars, DropCatalog
<1>2. CatalogTypes'
  BY DEF IInv, CatalogTypes, TypeOK, dbVars, DropCatalog, Release
<1>3. TableTypes'
  BY DEF IInv, TableTypes, TypeOK, Access, netVars, DropCatalog, Release, Nobody
<1>4. HandlerTypes'
  BY DEF IInv, HandlerTypes, TypeOK, Steps, DropCatalog, Release
<1>5. StartsAlone'
  BY DEF IInv, StartsAlone, Starting, rowVars, netVars, DropCatalog, Release
<1>6. Phases'
  BY DEF IInv, Phases, DropCatalog, Release
<1>7. Holding'
  BY DEF IInv, Holding, DropCatalog, Release
<1>8. Concerned'
  BY DEF IInv, Concerned, DropCatalog, Release
<1>9. Gated'
  BY DEF IInv, Gated, DropCatalog, Release
<1>10. InPlace'
  BY DEF IInv, InPlace, DropCatalog, Release
<1>11. OldIsStored'
  BY DEF IInv, OldIsStored, DropCatalog, Release, Nobody
<1> QED
  BY <1>1, <1>2, <1>3, <1>4, <1>5, <1>6, <1>7, <1>8, <1>9, <1>10, <1>11
  DEF IInv, TypeOK

(* A dropped start leaves what it put in place, made from what is stored.   *)
LEMMA DropStartKeeps ==
  ASSUME IInv, NEW u \in VM, DropStart(u)
  PROVE  IInv'
<1>1. CatalogTypes' /\ HostTypes' /\ TableTypes' /\ Fresh' /\ InactiveHasNone' /\
      GateNeedsLink' /\ Gated' /\ InPlace' /\ OldIsStored'
  BY DEF IInv, CatalogTypes, HostTypes, TableTypes, Fresh, Attached, InactiveHasNone,
      GateNeedsLink, Gated, InPlace, OldIsStored, TypeOK, Stored, Target, Proposed, dbVars,
      rowVars, netVars, loopVars, DropStart, catVars, planVars
<1>2. HandlerTypes'
  BY DEF IInv, HandlerTypes, TypeOK, loopVars, DropStart, Hold, catVars, planVars
<1>3. StartsAlone'
  BY DEF IInv, StartsAlone, Starting, rowVars, netVars, DropStart, Hold
<1>4. Phases'
  BY DEF IInv, Phases, loopVars, DropStart, catVars
<1>5. Holding'
  BY DEF IInv, Holding, rowVars, loopVars, DropStart, Hold, catVars
<1>6. Concerned'
  BY DEF IInv, Concerned, Stored, Proposed, dbVars, rowVars, loopVars, DropStart, Hold,
         catVars, planVars
<1> QED BY <1>1, <1>2, <1>3, <1>4, <1>5, <1>6 DEF IInv, TypeOK

(* A crash empties the engine and leaves the rules and the gates.           *)
LEMMA CrashKeeps ==
  ASSUME IInv, Crash
  PROVE  IInv'
<1>1. HostTypes' /\ GateNeedsLink'
  BY DEF IInv, HostTypes, GateNeedsLink, TypeOK, rowVars, Crash
<1>2. CatalogTypes'
  BY DEF IInv, CatalogTypes, TypeOK, dbVars, Crash
<1>3. TableTypes'
  BY DEF IInv, TableTypes, TypeOK, Access, Crash, Nobody
<1>4. HandlerTypes'
  BY DEF IInv, HandlerTypes, Steps, Crash
<1>5. Fresh'
  BY DEF IInv, Fresh, Attached, Stored, dbVars, Crash, Nobody
<1>6. InactiveHasNone'
  BY DEF IInv, InactiveHasNone, rowVars, Crash, Nobody
<1>7. StartsAlone'
  BY DEF IInv, StartsAlone, Starting, Crash
<1>8. Phases'
  BY DEF IInv, Phases, Crash
<1>9. Holding'
  BY DEF IInv, Holding, Crash
<1>10. Concerned'
  BY DEF IInv, Concerned, Crash
<1>11. Gated'
  BY DEF IInv, Gated, Crash
<1>12. InPlace'
  BY DEF IInv, InPlace, Crash
<1>13. OldIsStored'
  BY DEF IInv, OldIsStored, Crash, Nobody
<1> QED
  BY <1>1, <1>2, <1>3, <1>4, <1>5, <1>6, <1>7, <1>8, <1>9, <1>10, <1>11, <1>12, <1>13
  DEF IInv, TypeOK

(* A restart has every row to recover, and holds no lock.                   *)
LEMMA RestartKeeps ==
  ASSUME IInv, Restart
  PROVE  IInv'
<1>1. CatalogTypes' /\ HostTypes' /\ TableTypes' /\ Fresh' /\ InactiveHasNone' /\
      GateNeedsLink' /\ StartsAlone'
  BY DEF IInv, CatalogTypes, HostTypes, TableTypes, Fresh, Attached, InactiveHasNone,
      GateNeedsLink, StartsAlone, TypeOK, Stored, Starting, dbVars, rowVars, netVars,
      Restart
<1>2. HandlerTypes'
  BY DEF IInv, HandlerTypes, TypeOK, Steps, Restart
<1>3. Phases'
  BY DEF IInv, Phases, TypeOK, HandlerTypes, Loops, Restart
<1>4. Holding'
  BY DEF IInv, Holding, Loops, Phases, Restart
<1>5. Concerned'
  BY DEF IInv, Concerned, Restart
<1>6. Gated'
  BY DEF IInv, Gated, Restart
<1>7. InPlace'
  BY DEF IInv, InPlace, Restart
<1>8. OldIsStored'
  BY DEF IInv, OldIsStored, Stored, dbVars, Restart
<1> QED BY <1>1, <1>2, <1>3, <1>4, <1>5, <1>6, <1>7, <1>8 DEF IInv, TypeOK

-----------------------------------------------------------------------------
(* So does every step *)

(* A program state that nothing touches keeps the invariant.                *)
LEMMA StutterKeeps ==
  ASSUME IInv, UNCHANGED vars
  PROVE  IInv'
<1>1. TypeOK' /\ Fresh' /\ InactiveHasNone' /\ GateNeedsLink' /\ StartsAlone'
  BY DEF IInv, TypeOK, CatalogTypes, HostTypes, TableTypes, HandlerTypes, Fresh, Attached,
      InactiveHasNone, GateNeedsLink, StartsAlone, Starting, Stored, Effective, vars,
      dbVars, rowVars, netVars, loopVars, planVars
<1>2. Phases' /\ Holding' /\ Concerned'
  BY DEF IInv, Phases, Holding, Concerned, Proposed, Stored, Effective,
         vars, dbVars, rowVars, netVars, loopVars, planVars
<1>3. Gated' /\ InPlace' /\ OldIsStored'
  BY DEF IInv, Gated, InPlace, OldIsStored, Target, Proposed, Stored, Effective,
         vars, dbVars, rowVars, netVars, loopVars, planVars
<1> QED BY <1>1, <1>2, <1>3 DEF IInv

(* So does every step of the catalog's handlers and of recovery, ...        *)
LEMMA HandleKeeps ==
  ASSUME IInv, Request \/ Handle
  PROVE  IInv'
<1>1. CASE Request
  BY <1>1, SaveKeeps, AssignKeeps DEF Request
<1>2. CASE SkipUnchanged \/ Refuse \/ Proceed \/ Serve
  BY <1>2, SkipUnchangedKeeps, RefuseKeeps, ProceedKeeps, ServeKeeps
<1>3. CASE \E v \in VM : Examine(v) \/ RecoverRow(v)
  BY <1>3, ExamineStoppedKeeps, ExamineActiveKeeps, ExamineUnknownKeeps, RecoverRowKeeps DEF Examine
<1>4. CASE Apply
  BY <1>4, MarkKeeps, QuiesceKeeps, RecoverEngineKeeps, ResumeKeeps, ClearKeeps, BlockKeeps,
     ReplaceEngineKeeps, ReplaceRulesKeeps, CommitKeeps DEF Apply
<1> QED BY <1>1, <1>2, <1>3, <1>4 DEF Handle

(* ... and every step of a VM and of its own handlers.                      *)
LEMMA VmStepKeeps ==
  ASSUME IInv, NEW v \in VM,
         \/ LockVm(v) \/ StartBegins(v) \/ Start(v)
         \/ Stop(v) \/ Act(v) \/ Refresh(v) \/ Exit(v) \/ DropStart(v)
  PROVE  IInv'
<1>1. CASE StartBegins(v) \/ Start(v) \/ DropStart(v)
  BY <1>1, StartBeginsKeeps, StartTapKeeps, StartRegisterKeeps, StartEndsKeeps, StartFailsKeeps,
     DropStartKeeps DEF Start
<1>2. CASE LockVm(v) \/ Stop(v) \/ Act(v) \/ Refresh(v) \/ Exit(v)
  BY <1>2, LockVmKeeps, StopKeeps, ActKeeps, RefreshKeeps, ExitKeeps
<1> QED BY <1>1, <1>2

(* Every step keeps the invariant, ...                                     *)
LEMMA NextKeeps ==
  ASSUME IInv, [Next]_vars
  PROVE  IInv'
<1>1. CASE UNCHANGED vars
  BY <1>1, StutterKeeps
<1>2. CASE Request \/ Handle
  BY <1>2, HandleKeeps
<1>3. CASE \E v \in VM : \/ LockVm(v) \/ StartBegins(v) \/ Start(v)
                         \/ Stop(v) \/ Act(v) \/ Refresh(v) \/ Exit(v) \/ DropStart(v)
  BY <1>3, VmStepKeeps
<1>4. CASE DropCatalog \/ Crash \/ Restart
  BY <1>4, DropCatalogKeeps, CrashKeeps, RestartKeeps
<1> QED BY <1>1, <1>2, <1>3, <1>4 DEF Next

(* ... and the initial states have it.                                      *)
LEMMA InitHolds ==
  ASSUME Init
  PROVE  IInv
<1>1. TypeOK
  BY DEF Init, TypeOK, CatalogTypes, HostTypes, TableTypes, HandlerTypes, Nobody, Access, Steps
<1>2. Fresh /\ InactiveHasNone /\ GateNeedsLink /\ StartsAlone
  BY DEF Init, Fresh, Attached, InactiveHasNone, GateNeedsLink, StartsAlone, Starting,
      Nobody
<1>3. Phases /\ Holding
  BY DEF Init, Phases, Holding, Loops
<1>4. Concerned /\ Gated
  BY DEF Init, Concerned, Proposed, Stored, Effective, Gated
<1>5. InPlace /\ OldIsStored
  BY DEF Init, InPlace, OldIsStored, Nobody
<1> QED BY <1>1, <1>2, <1>3, <1>4, <1>5 DEF IInv

-----------------------------------------------------------------------------
(* The theorems *)

(* The inductive invariant holds of every behaviour, for any number of VMs, *)
(* policies and contents, and whatever may fail or be dropped.              *)
THEOREM UpdateInvariant == Spec => []IInv
<1>1. Init => IInv
  BY InitHolds
<1>2. IInv /\ [Next]_vars => IInv'
  BY NextKeeps
<1> QED BY <1>1, <1>2, PTL DEF Spec

(* The model keeps its types. *)
THEOREM EgressTypeCorrect == Spec => []TypeOK
<1>1. IInv => TypeOK
  BY DEF IInv
<1> QED BY <1>1, UpdateInvariant, PTL

(* No guest ever uses a policy that is not the stored one of its VM.        *)
THEOREM NoStaleAccessAlways == Spec => []NoStaleAccess
<1>1. IInv => NoStaleAccess
  BY DEF IInv, Fresh, Attached, NoStaleAccess, Open
<1> QED BY <1>1, UpdateInvariant, PTL

-----------------------------------------------------------------------------
(* The update protocol implements EgressAccess. *)

(* Only the catalog's transaction writes policies and bindings.             *)
LEMMA OnlyCommitStores ==
  ASSUME [Next]_vars
  PROVE  UNCHANGED dbVars \/ Commit
<1>1. CASE UNCHANGED vars
  BY <1>1 DEF vars
<1>2. CASE Request
  BY <1>2 DEF Request, Save, Assign
<1>3. CASE SkipUnchanged \/ Refuse \/ Proceed \/ Serve
  BY <1>3 DEF SkipUnchanged, Refuse, Proceed, Serve
<1>4. CASE \E v \in VM : Examine(v) \/ RecoverRow(v)
  BY <1>4 DEF Examine, ExamineStopped, ExamineActive, ExamineUnknown, RecoverRow
<1>5. CASE Apply
  BY <1>5 DEF Apply, Mark, Quiesce, RecoverEngine, Resume, Clear, Block, ReplaceEngine, ReplaceRules
<1>6. CASE \E v \in VM : LockVm(v) \/ StartBegins(v) \/ Start(v)
  BY <1>6 DEF LockVm, StartBegins, Start, StartTap, StartRegister, StartEnds, StartFails
<1>7. CASE \E v \in VM : Stop(v) \/ Act(v) \/ Refresh(v) \/ Exit(v) \/ DropStart(v)
  BY <1>7 DEF Stop, Act, Refresh, Exit, DropStart
<1>8. CASE DropCatalog \/ Crash \/ Restart
  BY <1>8 DEF DropCatalog, Crash, Restart
<1> QED BY <1>1, <1>2, <1>3, <1>4, <1>5, <1>6, <1>7, <1>8 DEF Next, Handle

(* While nothing is stored, guests gain only what is stored already.        *)
LEMMA QuietIsAdjust ==
  ASSUME IInv, IInv', UNCHANGED dbVars
  PROVE  Promise!Adjust
<1> DEFINE reach == [v \in VM |-> Reach(v)]
<1>1. \A v \in VM : Reach(v)' \in {NoPolicy, Stored(v)}
  BY DEF IInv, Fresh, Attached, Reach, Open, Stored, Effective, dbVars
<1>2. \A v \in VM : Stored(v) \in Content \cup {NoPolicy}
  BY EgressConstants DEF IInv, TypeOK, CatalogTypes, Stored, Effective
<1>3. reach' \in [VM -> Content \cup {NoPolicy}]
  BY <1>1, <1>2
<1>4. \A v \in VM : reach'[v] \in {reach[v], NoPolicy, Promise!Effective(content, bind, v)}
  BY <1>1 DEF Stored, Effective, Promise!Effective
<1> QED BY <1>3, <1>4 DEF Promise!Adjust, dbVars

(* A commit finds everybody whom it concerns gated, or without a policy in  *)
(* the engine.                                                              *)
LEMMA CommitIsStore ==
  ASSUME IInv, Commit, content' = wantc, bind' = wantb
  PROVE  Promise!Store
<1> DEFINE reach == [v \in VM |-> Reach(v)]
<1>1. \A v \in VM : Proposed(v) # Stored(v) => gate[v] \/ eng[v] = NoPolicy
  <2>1. up = "serving" /\ mode # "plain"
    BY DEF IInv, TypeOK, HandlerTypes, Commit, Phases, Loops
  <2> QED
    BY <2>1 DEF IInv, Commit, Concerned, Gated, InactiveHasNone
<1>2. \A v \in VM : Promise!Effective(content', bind', v) # Promise!Effective(content, bind, v)
                      => reach[v] = NoPolicy
  BY <1>1 DEF Proposed, Stored, Effective, Promise!Effective, Reach, Open
<1>3. reach' = reach
  BY DEF Commit, Reach, Attached, Open, netVars
<1>4. content' \in [Policy -> Content] /\ bind' \in [VM -> Policy \cup {Unbound}]
  BY DEF IInv, TypeOK, CatalogTypes
<1> QED BY <1>2, <1>3, <1>4 DEF Promise!Store

(* The update protocol, with its failures, crashes and recoveries, does no  *)
(* more for a guest than EgressAccess lets it.                              *)
THEOREM PromiseAlwaysKept == Spec => PromiseKept
<1>1. Init => Promise!AccessInit
  BY DEF Init, Promise!AccessInit, Reach, Nobody
<1>2. IInv /\ IInv' /\ [Next]_vars => [Promise!AccessNext]_(Promise!accessVars)
  <2> SUFFICES ASSUME IInv, IInv', [Next]_vars
               PROVE  Promise!AccessNext
    OBVIOUS
  <2>1. CASE UNCHANGED dbVars
    BY <2>1, QuietIsAdjust DEF Promise!AccessNext
  <2>2. CASE Commit /\ content' = wantc /\ bind' = wantb
    BY <2>2, CommitIsStore DEF Promise!AccessNext
  <2>3. UNCHANGED dbVars \/ (Commit /\ content' = wantc /\ bind' = wantb)
    BY OnlyCommitStores DEF Commit
  <2> QED BY <2>1, <2>2, <2>3
<1> QED BY <1>1, <1>2, UpdateInvariant, PTL DEF Spec, PromiseKept, Promise!AccessSpec

-----------------------------------------------------------------------------
(* Markers and wiring, while the store and the resolver answer              *)

(* Marker files and rows can be written ...                                 *)
Writable == "mark" \notin Flaky /\ "row" \notin Flaky

(* ... and the stored policy of a VM can be resolved.                       *)
Resolvable == "resolve" \notin Flaky

(* What is kept besides IInv: the markers always, the wiring if policies    *)
(* can be resolved.                                                         *)
Serving == MarksHold /\ (Resolvable => WiresHold)

(* Saving a policy touches no VM.                                         *)
LEMMA SaveServes ==
  ASSUME IInv, Serving, Writable, NEW p \in Policy, NEW c \in Content, Save(p, c)
  PROVE  Serving'
<1>1. MarkerFirst' /\ InactiveIsClear'
  BY DEF IInv, Serving, MarksHold, MarkerFirst, Attached, InactiveIsClear, dbVars, rowVars,
      netVars, loopVars, planVars, Save, Idle
<1>2. Resolvable => StartWires' /\ RunningIsWired' /\ EngineStartsEmpty'
  BY DEF IInv, Serving, WiresHold, Resolvable, InactiveHasNone, StartWires, RunningIsWired,
      EngineStartsEmpty, Starting, Wired, Stored, Effective, dbVars, rowVars, netVars,
      loopVars, planVars, Save, Idle
<1>3. LiveMarked'
  BY DEF IInv, Serving, MarksHold, LiveMarked, Save, Idle
<1>4. Resolvable => UpdateWires'
  BY DEF IInv, Serving, WiresHold, Resolvable, UpdateWires, Save, Idle
<1> QED BY <1>1, <1>2, <1>3, <1>4 DEF Serving, MarksHold, WiresHold

(* Neither does assigning one.                                            *)
LEMMA AssignServes ==
  ASSUME IInv, Serving, Writable, NEW u \in VM, NEW p \in Policy \cup {Unbound}, Assign(u, p)
  PROVE  Serving'
<1>1. MarkerFirst' /\ InactiveIsClear'
  BY DEF IInv, Serving, MarksHold, MarkerFirst, Attached, InactiveIsClear, dbVars, rowVars,
      netVars, loopVars, planVars, Assign, Idle
<1>2. Resolvable => StartWires' /\ RunningIsWired' /\ EngineStartsEmpty'
  BY DEF IInv, Serving, WiresHold, Resolvable, InactiveHasNone, StartWires, RunningIsWired,
      EngineStartsEmpty, Starting, Wired, Stored, Effective, dbVars, rowVars, netVars,
      loopVars, planVars, Assign, Idle
<1>3. LiveMarked'
  BY DEF IInv, Serving, MarksHold, LiveMarked, Assign, Idle
<1>4. Resolvable => UpdateWires'
  BY DEF IInv, Serving, WiresHold, Resolvable, UpdateWires, Assign, Idle
<1> QED BY <1>1, <1>2, <1>3, <1>4 DEF Serving, MarksHold, WiresHold

(* A proposal that changes nothing ends before any marker is written.     *)
LEMMA SkipUnchangedServes ==
  ASSUME IInv, Serving, Writable, SkipUnchanged
  PROVE  Serving'
<1>1. MarkerFirst' /\ InactiveIsClear'
  BY DEF IInv, Serving, MarksHold, MarkerFirst, Attached, InactiveIsClear, dbVars, rowVars,
      netVars, loopVars, planVars, SkipUnchanged, Release, Nobody
<1>2. LiveMarked'
  BY DEF IInv, Serving, MarksHold, LiveMarked, SkipUnchanged, Release, Nobody
<1>3. Resolvable => StartWires'
  BY DEF IInv, Serving, WiresHold, Resolvable, MarksHold, Writable, StartWires, Wired,
      StartsAlone, Starting, Fresh, Attached, Concerned, Stored, Effective, dbVars, rowVars,
      netVars, loopVars, planVars, SkipUnchanged, Release, Nobody
<1>4. Resolvable => RunningIsWired'
  BY DEF IInv, Serving, WiresHold, Resolvable, MarksHold, Writable, RunningIsWired, Wired,
      MarkerFirst, Attached, InactiveIsClear, LiveMarked, InactiveHasNone, StartWires,
      UpdateWires, EngineStartsEmpty, StartsAlone, Starting, Fresh, Concerned, InPlace,
      Pending, Phases, Loops, Stored, Effective, dbVars, rowVars, netVars, loopVars,
      planVars, SkipUnchanged, Release, Nobody
<1>5. Resolvable => UpdateWires'
  BY DEF IInv, Serving, WiresHold, Resolvable, UpdateWires, SkipUnchanged, Release, Nobody
<1>6. Resolvable => EngineStartsEmpty'
  BY DEF IInv, Serving, WiresHold, Resolvable, EngineStartsEmpty, dbVars, rowVars, netVars,
      loopVars, planVars, SkipUnchanged, Release, Nobody
<1> QED BY <1>1, <1>2, <1>3, <1>4, <1>5, <1>6 DEF Serving, MarksHold, WiresHold

(* A refused proposal ends before any gate is closed.                     *)
LEMMA RefuseServes ==
  ASSUME IInv, Serving, Writable, Refuse
  PROVE  Serving'
<1>1. MarkerFirst' /\ InactiveIsClear'
  BY DEF IInv, Serving, MarksHold, MarkerFirst, Attached, InactiveIsClear, dbVars, rowVars,
      netVars, loopVars, planVars, Refuse, Release, Nobody
<1>2. LiveMarked'
  BY DEF IInv, Serving, MarksHold, LiveMarked, Refuse, Release, Nobody
<1>3. Resolvable => StartWires'
  BY DEF IInv, Serving, WiresHold, Resolvable, MarksHold, Writable, StartWires, Wired,
      StartsAlone, Starting, Fresh, Attached, Concerned, Stored, Effective, dbVars, rowVars,
      netVars, loopVars, planVars, Refuse, Release, Nobody
<1>4. Resolvable => RunningIsWired'
  BY DEF IInv, Serving, WiresHold, Resolvable, MarksHold, Writable, RunningIsWired, Wired,
      MarkerFirst, Attached, InactiveIsClear, LiveMarked, InactiveHasNone, StartWires,
      UpdateWires, EngineStartsEmpty, StartsAlone, Starting, Fresh, Concerned, InPlace,
      Pending, Phases, Loops, Stored, Effective, dbVars, rowVars, netVars, loopVars,
      planVars, Refuse, Release, Nobody
<1>5. Resolvable => UpdateWires'
  BY DEF IInv, Serving, WiresHold, Resolvable, UpdateWires, Refuse, Release, Nobody
<1>6. Resolvable => EngineStartsEmpty'
  BY DEF IInv, Serving, WiresHold, Resolvable, EngineStartsEmpty, dbVars, rowVars, netVars,
      loopVars, planVars, Refuse, Release, Nobody
<1> QED BY <1>1, <1>2, <1>3, <1>4, <1>5, <1>6 DEF Serving, MarksHold, WiresHold

(* A proposal that goes on has noted what each VM of the change had: what *)
(* is stored.                                                             *)
LEMMA ProceedServes ==
  ASSUME IInv, Serving, Writable, Proceed
  PROVE  Serving'
<1>1. MarkerFirst' /\ InactiveIsClear'
  BY DEF IInv, Serving, MarksHold, MarkerFirst, Attached, InactiveIsClear, dbVars, rowVars,
      netVars, loopVars, planVars, Proceed, Goto
<1>2. Resolvable => StartWires' /\ RunningIsWired' /\ EngineStartsEmpty'
  BY DEF IInv, Serving, WiresHold, Resolvable, InactiveHasNone, StartWires, RunningIsWired,
      EngineStartsEmpty, Starting, Wired, Stored, Effective, dbVars, rowVars, netVars,
      loopVars, planVars, Proceed, Goto
<1>3. LiveMarked'
  BY DEF IInv, Serving, MarksHold, LiveMarked, Holding, Proceed, Goto
<1>4. Resolvable => UpdateWires'
  BY DEF IInv, Serving, WiresHold, Resolvable, UpdateWires, Holding, Proceed, Goto
<1> QED BY <1>1, <1>2, <1>3, <1>4 DEF Serving, MarksHold, WiresHold

(* A lock that is taken changes no VM.                                    *)
LEMMA LockVmServes ==
  ASSUME IInv, Serving, Writable, NEW u \in VM, LockVm(u)
  PROVE  Serving'
<1>1. MarkerFirst' /\ InactiveIsClear'
  BY DEF IInv, Serving, MarksHold, MarkerFirst, Attached, InactiveIsClear, dbVars, rowVars,
      netVars, loopVars, planVars, LockVm
<1>2. Resolvable => RunningIsWired' /\ EngineStartsEmpty'
  BY DEF IInv, Serving, WiresHold, Resolvable, InactiveHasNone, RunningIsWired,
      EngineStartsEmpty, Wired, Stored, Effective, dbVars, rowVars, netVars, loopVars,
      planVars, LockVm
<1>3. LiveMarked'
  BY DEF IInv, Serving, MarksHold, LiveMarked, LockVm
<1>4. Resolvable => StartWires'
  BY DEF IInv, Serving, WiresHold, Resolvable, MarksHold, Writable, StartWires, Wired,
      StartsAlone, Starting, Fresh, Attached, Concerned, Stored, Effective, dbVars, rowVars,
      netVars, loopVars, planVars, LockVm
<1>5. Resolvable => UpdateWires'
  BY DEF IInv, Serving, WiresHold, Resolvable, UpdateWires, Holding, LockVm
<1> QED BY <1>1, <1>2, <1>3, <1>4, <1>5 DEF Serving, MarksHold, WiresHold

(* The refresh of a VM that has stopped takes its guest away with its     *)
(* link.                                                                  *)
LEMMA ExamineStoppedServes ==
  ASSUME IInv, Serving, Writable, NEW u \in VM, ExamineStopped(u)
  PROVE  Serving'
<1>1. MarkerFirst'
  BY DEF IInv, Serving, MarksHold, MarkerFirst, Attached, May, TypeOK, CatalogTypes,
      HostTypes, TableTypes, HandlerTypes, dbVars, rowVars, netVars, loopVars, planVars,
      ExamineStopped, Examined, RefreshStopped, RecordStopped, Unregister, Unplug, SetState
<1>2. InactiveIsClear'
  BY DEF IInv, Serving, MarksHold, InactiveIsClear, May, TypeOK, CatalogTypes, HostTypes,
      TableTypes, HandlerTypes, dbVars, rowVars, netVars, loopVars, planVars, ExamineStopped,
      Examined, RefreshStopped, RecordStopped, Unregister, Unplug, SetState
<1>3. LiveMarked'
  BY DEF IInv, Serving, MarksHold, LiveMarked, ExamineStopped, Examined, RefreshStopped,
      RecordStopped, Unregister, Unplug, SetState
<1>4. Resolvable => StartWires'
  BY DEF IInv, Serving, WiresHold, Resolvable, MarksHold, Writable, StartWires, May, TypeOK,
      CatalogTypes, HostTypes, TableTypes, HandlerTypes, Wired, StartsAlone, Starting,
      Fresh, Attached, Concerned, Holding, Stored, Effective, dbVars, rowVars, netVars,
      loopVars, planVars, ExamineStopped, Examined, RefreshStopped, RecordStopped,
      Unregister, Unplug, SetState
<1>5. Resolvable => RunningIsWired'
  BY DEF IInv, Serving, WiresHold, Resolvable, MarksHold, Writable, RunningIsWired, May,
      TypeOK, CatalogTypes, HostTypes, TableTypes, HandlerTypes, Wired, MarkerFirst,
      Attached, InactiveIsClear, LiveMarked, InactiveHasNone, StartWires, UpdateWires,
      EngineStartsEmpty, StartsAlone, Starting, Fresh, Concerned, InPlace, Pending, Stored,
      Effective, dbVars, rowVars, netVars, loopVars, planVars, ExamineStopped, Examined,
      RefreshStopped, RecordStopped, Unregister, Unplug, SetState
<1>6. Resolvable => UpdateWires'
  BY DEF IInv, Serving, WiresHold, Resolvable, UpdateWires, Stored, Effective, dbVars, rowVars,
      netVars, loopVars, planVars, ExamineStopped, Examined, RefreshStopped, RecordStopped,
      Unregister, Unplug, SetState
<1>7. Resolvable => EngineStartsEmpty'
  BY DEF IInv, Serving, WiresHold, Resolvable, EngineStartsEmpty, May, TypeOK, CatalogTypes,
      HostTypes, TableTypes, HandlerTypes, dbVars, rowVars, netVars, loopVars, planVars,
      ExamineStopped, Examined, RefreshStopped, RecordStopped, Unregister, Unplug, SetState
<1> QED BY <1>1, <1>2, <1>3, <1>4, <1>5, <1>6, <1>7 DEF Serving, MarksHold, WiresHold

(* A VM that joins the change had what was stored when it was examined.   *)
LEMMA ExamineActiveServes ==
  ASSUME IInv, Serving, Writable, NEW u \in VM, ExamineActive(u)
  PROVE  Serving'
<1>1. Resolvable => StartWires'
  BY DEF IInv, Serving, WiresHold, Resolvable, StartWires, Starting, Wired, Stored,
      Effective, dbVars, rowVars, netVars, loopVars, planVars, ExamineActive, Examined,
      RefreshAlive, RefreshAnswered, RefreshUnverified, SetState
<1>2. MarkerFirst'
  BY DEF IInv, Serving, MarksHold, MarkerFirst, Attached, May, TypeOK, CatalogTypes,
      HostTypes, TableTypes, HandlerTypes, dbVars, rowVars, netVars, loopVars, planVars,
      ExamineActive, Examined, RefreshAlive, RefreshAnswered, RefreshUnverified, SetState
<1>3. InactiveIsClear'
  BY DEF IInv, Serving, MarksHold, InactiveIsClear, May, TypeOK, CatalogTypes, HostTypes,
      TableTypes, HandlerTypes, dbVars, rowVars, netVars, loopVars, planVars, ExamineActive,
      Examined, RefreshAlive, RefreshAnswered, RefreshUnverified, SetState
<1>4. LiveMarked'
  BY DEF IInv, Serving, MarksHold, LiveMarked, ExamineActive, Examined, RefreshAlive,
      RefreshAnswered, RefreshUnverified, SetState
<1>5. Resolvable => RunningIsWired'
  BY DEF IInv, Serving, WiresHold, Resolvable, MarksHold, Writable, RunningIsWired, Wired,
      MarkerFirst, Attached, InactiveIsClear, LiveMarked, InactiveHasNone, StartWires,
      UpdateWires, EngineStartsEmpty, StartsAlone, Starting, Fresh, Concerned, InPlace,
      Pending, Stored, Effective, dbVars, rowVars, netVars, loopVars, planVars,
      ExamineActive, Examined, RefreshAlive, RefreshAnswered, RefreshUnverified, SetState
<1>6. Resolvable => UpdateWires'
  BY DEF IInv, Serving, WiresHold, Resolvable, UpdateWires, May, TypeOK, CatalogTypes,
      HostTypes, TableTypes, HandlerTypes, Stored, Effective, dbVars, rowVars, netVars,
      loopVars, planVars, ExamineActive, Examined, RefreshAlive, RefreshAnswered,
      RefreshUnverified, SetState
<1>7. Resolvable => EngineStartsEmpty'
  BY DEF IInv, Serving, WiresHold, Resolvable, EngineStartsEmpty, Phases, Holding,
      ExamineActive, Examined, RefreshAlive, RefreshAnswered, RefreshUnverified, SetState
<1> QED BY <1>1, <1>2, <1>3, <1>4, <1>5, <1>6, <1>7 DEF Serving, MarksHold, WiresHold

(* A VM in an unknown state keeps its marker with its error.              *)
LEMMA ExamineUnknownServes ==
  ASSUME IInv, Serving, Writable, NEW u \in VM, ExamineUnknown(u)
  PROVE  Serving'
<1>1. MarkerFirst'
  BY DEF IInv, Serving, MarksHold, MarkerFirst, Attached, May, TypeOK, CatalogTypes,
      HostTypes, TableTypes, HandlerTypes, dbVars, rowVars, netVars, loopVars, planVars,
      ExamineUnknown, Release, Nobody, RefreshAlive, RefreshAnswered, RefreshUnverified,
      SetState
<1>2. InactiveIsClear'
  BY DEF IInv, Serving, MarksHold, InactiveIsClear, May, TypeOK, CatalogTypes, HostTypes,
      TableTypes, HandlerTypes, dbVars, rowVars, netVars, loopVars, planVars,
      ExamineUnknown, Release, Nobody, RefreshAlive, RefreshAnswered, RefreshUnverified,
      SetState
<1>3. LiveMarked'
  BY DEF IInv, Serving, MarksHold, LiveMarked, ExamineUnknown, Release, Nobody,
      RefreshAlive, RefreshAnswered, RefreshUnverified, SetState
<1>4. Resolvable => StartWires'
  BY DEF IInv, Serving, WiresHold, Resolvable, MarksHold, Writable, StartWires, Wired,
      StartsAlone, Starting, Fresh, Attached, Concerned, Stored, Effective, dbVars, rowVars,
      netVars, loopVars, planVars, ExamineUnknown, Release, Nobody, RefreshAlive,
      RefreshAnswered, RefreshUnverified, SetState, TypeOK, HostTypes
<1>5. Resolvable => RunningIsWired'
  BY DEF IInv, Serving, WiresHold, Resolvable, MarksHold, Writable, RunningIsWired, Wired,
      MarkerFirst, Attached, InactiveIsClear, LiveMarked, InactiveHasNone, StartWires,
      UpdateWires, EngineStartsEmpty, StartsAlone, Starting, Fresh, Concerned, InPlace,
      Pending, Phases, Holding, Stored, Effective, dbVars, rowVars, netVars, loopVars,
      planVars, ExamineUnknown, Release, Nobody, RefreshAlive, RefreshAnswered,
      RefreshUnverified, SetState, TypeOK, HostTypes
<1>6. Resolvable => UpdateWires'
  BY DEF IInv, Serving, WiresHold, Resolvable, UpdateWires, ExamineUnknown, Release, Nobody,
      RefreshAlive, RefreshAnswered, RefreshUnverified, SetState
<1>7. Resolvable => EngineStartsEmpty'
  BY DEF IInv, Serving, WiresHold, Resolvable, EngineStartsEmpty, dbVars, rowVars, netVars,
      loopVars, planVars, ExamineUnknown, Release, Nobody, RefreshAlive, RefreshAnswered,
      RefreshUnverified, SetState
<1> QED BY <1>1, <1>2, <1>3, <1>4, <1>5, <1>6, <1>7 DEF Serving, MarksHold, WiresHold

(* A VM gets its marker before its gate; Writable says that the file is   *)
(* written.                                                               *)
LEMMA MarkServes ==
  ASSUME IInv, Serving, Writable, NEW u \in VM, Mark(u)
  PROVE  Serving'
<1>1. InactiveIsClear'
  BY DEF IInv, Serving, MarksHold, InactiveIsClear, dbVars, rowVars, netVars, loopVars, planVars,
      Mark, Advance, Goto, Release, Nobody
<1>2. MarkerFirst'
  BY DEF IInv, Serving, MarksHold, MarkerFirst, Attached, May, TypeOK, CatalogTypes,
      HostTypes, TableTypes, HandlerTypes, dbVars, rowVars, netVars, loopVars, planVars,
      Mark, Advance, Goto, Release, Nobody
<1>3. LiveMarked'
  BY DEF IInv, Serving, MarksHold, LiveMarked, May, TypeOK, CatalogTypes, HostTypes, TableTypes,
      HandlerTypes, Mark, Advance, Goto, Release, Nobody
<1>4. Resolvable => StartWires'
  BY DEF IInv, Serving, WiresHold, Resolvable, MarksHold, Writable, StartWires, Wired,
      StartsAlone, Starting, Fresh, Attached, Concerned, Stored, Effective, dbVars, rowVars,
      netVars, loopVars, planVars, Mark, Advance, Goto, Release, Nobody
<1>5. Resolvable => RunningIsWired'
  BY DEF IInv, Serving, WiresHold, Resolvable, MarksHold, Writable, RunningIsWired, May,
      TypeOK, CatalogTypes, HostTypes, TableTypes, HandlerTypes, Wired, MarkerFirst,
      Attached, InactiveIsClear, LiveMarked, InactiveHasNone, StartWires, UpdateWires,
      EngineStartsEmpty, StartsAlone, Starting, Fresh, Concerned, InPlace, Pending, Stored,
      Effective, dbVars, rowVars, netVars, loopVars, planVars, Mark, Advance, Goto, Release,
      Nobody
<1>6. Resolvable => UpdateWires'
  BY DEF IInv, Serving, WiresHold, Resolvable, UpdateWires, Stored, Effective, dbVars, rowVars,
      netVars, loopVars, planVars, Mark, Advance, Goto, Release, Nobody
<1>7. Resolvable => EngineStartsEmpty'
  BY DEF IInv, Serving, WiresHold, Resolvable, EngineStartsEmpty, dbVars, rowVars, netVars,
      loopVars, planVars, Mark, Advance, Goto, Release, Nobody
<1> QED BY <1>1, <1>2, <1>3, <1>4, <1>5, <1>6, <1>7 DEF Serving, MarksHold, WiresHold

(* A gate closes over a VM that is marked.                                *)
LEMMA QuiesceServes ==
  ASSUME IInv, Serving, Writable, NEW u \in VM, Quiesce(u)
  PROVE  Serving'
<1>1. Resolvable => StartWires' /\ RunningIsWired' /\ EngineStartsEmpty'
  BY DEF IInv, Serving, WiresHold, Resolvable, InactiveHasNone, StartWires, RunningIsWired,
      EngineStartsEmpty, Starting, Wired, Stored, Effective, dbVars, rowVars, netVars,
      loopVars, planVars, Quiesce, Advance, Goto, Fail
<1>2. MarkerFirst'
  BY DEF IInv, Serving, MarksHold, Writable, MarkerFirst, Attached, May, TypeOK,
      CatalogTypes, HostTypes, TableTypes, HandlerTypes, LiveMarked, InactiveIsClear,
      Phases, Loops, Holding, dbVars, rowVars, netVars, loopVars, planVars, Quiesce,
      Advance, Goto, Fail
<1>3. InactiveIsClear'
  BY DEF IInv, Serving, MarksHold, InactiveIsClear, May, TypeOK, CatalogTypes, HostTypes,
      TableTypes, HandlerTypes, Loops, Holding, dbVars, rowVars, netVars, loopVars, planVars,
      Quiesce, Advance, Goto, Fail
<1>4. LiveMarked'
  BY DEF IInv, Serving, MarksHold, LiveMarked, Quiesce, Advance, Goto, Fail
<1>5. Resolvable => UpdateWires'
  BY DEF IInv, Serving, WiresHold, Resolvable, UpdateWires, Stored, Effective, dbVars, rowVars,
      netVars, loopVars, planVars, Quiesce, Advance, Goto, Fail
<1> QED BY <1>1, <1>2, <1>3, <1>4, <1>5 DEF Serving, MarksHold, WiresHold

(* The tables of a VM differ from what is stored only while it is marked. *)
LEMMA ReplaceEngineServes ==
  ASSUME IInv, Serving, Writable, ReplaceEngine
  PROVE  Serving'
<1>1. MarkerFirst' /\ InactiveIsClear'
  BY DEF IInv, Serving, MarksHold, MarkerFirst, Attached, InactiveIsClear, dbVars, rowVars,
      netVars, loopVars, planVars, ReplaceEngine, Goto, Fail
<1>2. LiveMarked'
  BY DEF IInv, Serving, MarksHold, LiveMarked, ReplaceEngine, Goto, Fail
<1>3. Resolvable => StartWires'
  BY DEF IInv, Serving, WiresHold, Resolvable, MarksHold, Writable, StartWires, Wired,
      StartsAlone, Starting, Fresh, Attached, Concerned, Holding, Stored, Effective, dbVars,
      rowVars, netVars, loopVars, planVars, ReplaceEngine, Goto, Fail
<1>4. Resolvable => RunningIsWired'
  BY DEF IInv, Serving, WiresHold, Resolvable, MarksHold, Writable, RunningIsWired, Wired,
      MarkerFirst, Attached, InactiveIsClear, LiveMarked, InactiveHasNone, StartWires,
      UpdateWires, EngineStartsEmpty, StartsAlone, Starting, Fresh, Concerned, InPlace,
      Pending, Stored, Proposed, Effective, Target, dbVars, rowVars, netVars, loopVars,
      planVars, ReplaceEngine, Goto, Fail
<1>5. Resolvable => UpdateWires'
  BY DEF IInv, Serving, WiresHold, Resolvable, UpdateWires, Stored, Effective, dbVars, rowVars,
      netVars, loopVars, planVars, ReplaceEngine, Goto, Fail
<1>6. Resolvable => EngineStartsEmpty'
  BY DEF IInv, Serving, WiresHold, Resolvable, EngineStartsEmpty, ReplaceEngine, Goto, Fail
<1> QED BY <1>1, <1>2, <1>3, <1>4, <1>5, <1>6 DEF Serving, MarksHold, WiresHold

(* Recovery registers what is stored of the one VM it has in hand.        *)
LEMMA RecoverEngineServes ==
  ASSUME IInv, Serving, Writable, NEW u \in VM, RecoverEngine(u)
  PROVE  Serving'
<1>1. MarkerFirst' /\ InactiveIsClear'
  BY DEF IInv, Serving, MarksHold, MarkerFirst, Attached, InactiveIsClear, dbVars, rowVars,
      netVars, loopVars, planVars, RecoverEngine, Finish, NextRow, Goto, Fail
<1>2. LiveMarked'
  BY DEF IInv, Serving, MarksHold, LiveMarked, RecoverEngine, Finish, NextRow, Goto, Fail
<1>3. Resolvable => StartWires'
  BY DEF IInv, Serving, WiresHold, Resolvable, MarksHold, Writable, StartWires, Wired,
      StartsAlone, Starting, Fresh, Attached, Concerned, Phases, RecoverEngine, Finish,
      NextRow, Goto, Fail
<1>4. Resolvable => RunningIsWired'
  BY DEF IInv, Serving, WiresHold, Resolvable, MarksHold, Writable, RunningIsWired, May,
      TypeOK, CatalogTypes, HostTypes, TableTypes, HandlerTypes, Wired, MarkerFirst,
      Attached, InactiveIsClear, LiveMarked, InactiveHasNone, StartWires, UpdateWires,
      EngineStartsEmpty, StartsAlone, Starting, Fresh, Concerned, InPlace, Pending, Stored,
      Effective, dbVars, rowVars, netVars, loopVars, planVars, RecoverEngine, Finish,
      NextRow, Goto, Fail
<1>5. Resolvable => UpdateWires'
  BY DEF IInv, Serving, WiresHold, Resolvable, UpdateWires, RecoverEngine, Finish, NextRow, Goto,
      Fail
<1>6. Resolvable => EngineStartsEmpty'
  BY DEF IInv, Serving, WiresHold, Resolvable, EngineStartsEmpty, May, TypeOK, CatalogTypes,
      HostTypes, TableTypes, HandlerTypes, dbVars, rowVars, netVars, loopVars, planVars,
      RecoverEngine, Finish, NextRow, Goto, Fail
<1> QED BY <1>1, <1>2, <1>3, <1>4, <1>5, <1>6 DEF Serving, MarksHold, WiresHold

(* The rules of a VM, too, differ from what is stored only while it is    *)
(* marked.                                                                *)
LEMMA ReplaceRulesServes ==
  ASSUME IInv, Serving, Writable, ReplaceRules
  PROVE  Serving'
<1>1. MarkerFirst' /\ InactiveIsClear'
  BY DEF IInv, Serving, MarksHold, MarkerFirst, Attached, InactiveIsClear, dbVars, rowVars,
      netVars, loopVars, planVars, ReplaceRules, Goto, Fail
<1>2. Resolvable => EngineStartsEmpty'
  BY DEF IInv, Serving, WiresHold, Resolvable, InactiveHasNone, EngineStartsEmpty, dbVars,
      rowVars, netVars, loopVars, planVars, ReplaceRules, Goto, Fail
<1>3. LiveMarked'
  BY DEF IInv, Serving, MarksHold, LiveMarked, ReplaceRules, Goto, Fail
<1>4. Resolvable => StartWires'
  BY DEF IInv, Serving, WiresHold, Resolvable, MarksHold, Writable, StartWires, Wired,
      StartsAlone, Starting, Fresh, Attached, Concerned, Phases, Holding, Stored, Effective,
      dbVars, rowVars, netVars, loopVars, planVars, ReplaceRules, Goto, Fail
<1>5. Resolvable => RunningIsWired'
  BY DEF IInv, Serving, WiresHold, Resolvable, MarksHold, Writable, RunningIsWired, Wired,
      MarkerFirst, Attached, InactiveIsClear, LiveMarked, InactiveHasNone, StartWires,
      UpdateWires, EngineStartsEmpty, StartsAlone, Starting, Fresh, Concerned, InPlace,
      Pending, Stored, Proposed, Effective, Target, dbVars, rowVars, netVars, loopVars,
      planVars, ReplaceRules, Goto, Fail
<1>6. Resolvable => UpdateWires'
  BY DEF IInv, Serving, WiresHold, Resolvable, MarksHold, Writable, UpdateWires, May, TypeOK,
      CatalogTypes, HostTypes, TableTypes, HandlerTypes, Wired, InPlace, Concerned, Phases, Stored,
      Proposed, Effective, Target, dbVars, rowVars, netVars, loopVars, planVars, ReplaceRules, Goto,
      Fail
<1> QED BY <1>1, <1>2, <1>3, <1>4, <1>5, <1>6 DEF Serving, MarksHold, WiresHold

(* What is stored from here on is what the engine and the rules have.     *)
LEMMA CommitServes ==
  ASSUME IInv, Serving, Writable, Commit
  PROVE  Serving'
<1>1. MarkerFirst' /\ InactiveIsClear'
  BY DEF IInv, Serving, MarksHold, MarkerFirst, Attached, InactiveIsClear, dbVars, rowVars,
      netVars, loopVars, planVars, Commit, Goto, Fail, Release, Nobody
<1>2. LiveMarked'
  BY DEF IInv, Serving, MarksHold, LiveMarked, Commit, Goto, Fail, Release, Nobody
<1>3. Resolvable => StartWires'
  BY DEF IInv, Serving, WiresHold, Resolvable, MarksHold, Writable, StartWires, Wired,
      StartsAlone, Starting, Fresh, Attached, Concerned, Phases, Stored, Proposed,
      Effective, Target, dbVars, rowVars, netVars, loopVars, planVars, Commit, Goto, Fail,
      Release, Nobody
<1>4. Resolvable => RunningIsWired'
  BY DEF IInv, Serving, WiresHold, Resolvable, MarksHold, Writable, RunningIsWired, May,
      TypeOK, CatalogTypes, HostTypes, TableTypes, HandlerTypes, Wired, MarkerFirst,
      Attached, InactiveIsClear, LiveMarked, InactiveHasNone, StartWires, UpdateWires,
      EngineStartsEmpty, StartsAlone, Starting, Fresh, Concerned, InPlace, Pending, Phases,
      Loops, Stored, Proposed, Effective, Target, dbVars, rowVars, netVars, loopVars,
      planVars, Commit, Goto, Fail, Release, Nobody
<1>5. Resolvable => UpdateWires'
  BY DEF IInv, Serving, WiresHold, Resolvable, MarksHold, Writable, UpdateWires, Wired, InPlace,
      Concerned, Stored, Proposed, Effective, Target, dbVars, rowVars, netVars, loopVars, planVars,
      Commit, Goto, Fail, Release, Nobody
<1>6. Resolvable => EngineStartsEmpty'
  BY DEF IInv, Serving, WiresHold, Resolvable, EngineStartsEmpty, dbVars, rowVars, netVars,
      loopVars, planVars, Commit, Goto, Fail, Release, Nobody
<1> QED BY <1>1, <1>2, <1>3, <1>4, <1>5, <1>6 DEF Serving, MarksHold, WiresHold

(* The gate and the link come back over what is stored.                   *)
LEMMA ResumeServes ==
  ASSUME IInv, Serving, Writable, NEW u \in VM, Resume(u)
  PROVE  Serving'
<1>1. Resolvable => EngineStartsEmpty'
  BY DEF IInv, Serving, WiresHold, Resolvable, InactiveHasNone, EngineStartsEmpty, dbVars,
      rowVars, netVars, loopVars, planVars, Resume, Advance, Goto
<1>2. MarkerFirst'
  BY DEF IInv, Serving, MarksHold, MarkerFirst, Attached, May, TypeOK, CatalogTypes,
      HostTypes, TableTypes, HandlerTypes, dbVars, rowVars, netVars, loopVars, planVars,
      Resume, Advance, Goto
<1>3. InactiveIsClear'
  BY DEF IInv, Serving, MarksHold, InactiveIsClear, May, TypeOK, CatalogTypes, HostTypes,
      TableTypes, HandlerTypes, dbVars, rowVars, netVars, loopVars, planVars, Resume, Advance, Goto
<1>4. LiveMarked'
  BY DEF IInv, Serving, MarksHold, LiveMarked, May, TypeOK, CatalogTypes, HostTypes, TableTypes,
      HandlerTypes, Resume, Advance, Goto
<1>5. Resolvable => StartWires'
  BY DEF IInv, Serving, WiresHold, Resolvable, MarksHold, Writable, StartWires, May, TypeOK,
      CatalogTypes, HostTypes, TableTypes, HandlerTypes, Wired, StartsAlone, Starting,
      Fresh, Attached, Concerned, Stored, Effective, dbVars, rowVars, netVars, loopVars,
      planVars, Resume, Advance, Goto
<1>6. Resolvable => RunningIsWired'
  BY DEF IInv, Serving, WiresHold, Resolvable, MarksHold, Writable, RunningIsWired, May,
      TypeOK, CatalogTypes, HostTypes, TableTypes, HandlerTypes, Wired, MarkerFirst,
      Attached, InactiveIsClear, LiveMarked, InactiveHasNone, StartWires, UpdateWires,
      EngineStartsEmpty, StartsAlone, Starting, Fresh, Concerned, InPlace, Pending, Stored,
      Effective, dbVars, rowVars, netVars, loopVars, planVars, Resume, Advance, Goto
<1>7. Resolvable => UpdateWires'
  BY DEF IInv, Serving, WiresHold, Resolvable, UpdateWires, May, TypeOK, CatalogTypes, HostTypes,
      TableTypes, HandlerTypes, Stored, Effective, dbVars, rowVars, netVars, loopVars, planVars,
      Resume, Advance, Goto
<1> QED BY <1>1, <1>2, <1>3, <1>4, <1>5, <1>6, <1>7 DEF Serving, MarksHold, WiresHold

(* The marker goes from a VM that has its gate open and what is stored in *)
(* place.                                                                 *)
LEMMA ClearServes ==
  ASSUME IInv, Serving, Writable, NEW u \in VM, Clear(u)
  PROVE  Serving'
<1>1. MarkerFirst'
  BY DEF IInv, Serving, MarksHold, Writable, MarkerFirst, Attached, May, TypeOK,
      CatalogTypes, HostTypes, TableTypes, HandlerTypes, LiveMarked, InactiveIsClear, Loops,
      Holding, dbVars, rowVars, netVars, loopVars, planVars, Clear, Finish, NextRow,
      Release, Nobody, Goto
<1>2. InactiveIsClear'
  BY DEF IInv, Serving, MarksHold, InactiveIsClear, May, TypeOK, CatalogTypes, HostTypes,
      TableTypes, HandlerTypes, dbVars, rowVars, netVars, loopVars, planVars, Clear, Finish,
      NextRow, Release, Nobody, Goto
<1>3. LiveMarked'
  BY DEF IInv, Serving, MarksHold, LiveMarked, dbVars, rowVars, netVars, loopVars, planVars, Clear,
      Finish, NextRow, Release, Nobody, Goto
<1>4. Resolvable => StartWires'
  BY DEF IInv, Serving, WiresHold, Resolvable, MarksHold, Writable, StartWires, Wired,
      StartsAlone, Starting, Fresh, Attached, Concerned, Stored, Effective, dbVars, rowVars,
      netVars, loopVars, planVars, Clear, Finish, NextRow, Release, Nobody, Goto
<1>5. Resolvable => RunningIsWired'
  BY DEF IInv, Serving, WiresHold, Resolvable, MarksHold, Writable, RunningIsWired, May,
      TypeOK, CatalogTypes, HostTypes, TableTypes, HandlerTypes, Wired, MarkerFirst,
      Attached, InactiveIsClear, LiveMarked, InactiveHasNone, StartWires, UpdateWires,
      EngineStartsEmpty, StartsAlone, Starting, Fresh, Concerned, InPlace, Pending, Loops,
      Holding, Stored, Effective, dbVars, rowVars, netVars, loopVars, planVars, Clear,
      Finish, NextRow, Release, Nobody, Goto
<1>6. Resolvable => UpdateWires'
  BY DEF IInv, Serving, WiresHold, Resolvable, UpdateWires, Stored, Effective, dbVars, rowVars,
      netVars, loopVars, planVars, Clear, Finish, NextRow, Release, Nobody, Goto
<1>7. Resolvable => EngineStartsEmpty'
  BY DEF IInv, Serving, WiresHold, Resolvable, EngineStartsEmpty, dbVars, rowVars, netVars,
      loopVars, planVars, Clear, Finish, NextRow, Release, Nobody, Goto
<1> QED BY <1>1, <1>2, <1>3, <1>4, <1>5, <1>6, <1>7 DEF Serving, MarksHold, WiresHold

(* A VM whose change failed keeps its marker, and gets its error.         *)
LEMMA BlockServes ==
  ASSUME IInv, Serving, Writable, NEW u \in VM, Block(u)
  PROVE  Serving'
<1>1. MarkerFirst'
  BY DEF IInv, Serving, MarksHold, Writable, MarkerFirst, Attached, May, TypeOK,
      CatalogTypes, HostTypes, TableTypes, HandlerTypes, LiveMarked, InactiveIsClear, Block,
      Suspend, Unregister, Finish, NextRow, Release, Nobody, Goto
<1>2. InactiveIsClear'
  BY DEF IInv, Serving, MarksHold, InactiveIsClear, May, TypeOK, CatalogTypes, HostTypes,
      TableTypes, HandlerTypes, Loops, Holding, Block, Suspend, Unregister, Finish, NextRow,
      Release, Nobody, Goto
<1>3. LiveMarked'
  BY DEF IInv, Serving, MarksHold, LiveMarked, Block, Suspend, Unregister, Finish, NextRow, Release,
      Nobody, Goto
<1>4. Resolvable => StartWires'
  BY DEF IInv, Serving, WiresHold, Resolvable, MarksHold, Writable, StartWires, May, TypeOK,
      CatalogTypes, HostTypes, TableTypes, HandlerTypes, Wired, StartsAlone, Starting,
      Fresh, Attached, Concerned, Phases, Loops, Holding, Stored, Effective, dbVars,
      rowVars, netVars, loopVars, planVars, Block, Suspend, Unregister, Finish, NextRow,
      Release, Nobody, Goto
<1>5. Resolvable => RunningIsWired'
  BY DEF IInv, Serving, WiresHold, Resolvable, MarksHold, Writable, RunningIsWired, May,
      TypeOK, CatalogTypes, HostTypes, TableTypes, HandlerTypes, Wired, MarkerFirst,
      Attached, InactiveIsClear, LiveMarked, InactiveHasNone, StartWires, UpdateWires,
      EngineStartsEmpty, StartsAlone, Starting, Fresh, Concerned, InPlace, Pending, Phases,
      Holding, Stored, Effective, dbVars, rowVars, netVars, loopVars, planVars, Block,
      Suspend, Unregister, Finish, NextRow, Release, Nobody, Goto
<1>6. Resolvable => UpdateWires'
  BY DEF IInv, Serving, WiresHold, Resolvable, UpdateWires, Block, Suspend, Unregister, Finish,
      NextRow, Release, Nobody, Goto
<1>7. Resolvable => EngineStartsEmpty'
  BY DEF IInv, Serving, WiresHold, Resolvable, EngineStartsEmpty, dbVars, rowVars, netVars,
      loopVars, planVars, Block, Suspend, Unregister, Finish, NextRow, Release, Nobody, Goto
<1> QED BY <1>1, <1>2, <1>3, <1>4, <1>5, <1>6, <1>7 DEF Serving, MarksHold, WiresHold

(* Recovery repairs a VM that is marked, and registers one that is not.   *)
LEMMA RecoverRowServes ==
  ASSUME IInv, Serving, Writable, NEW u \in VM, RecoverRow(u)
  PROVE  Serving'
<1>1. MarkerFirst'
  BY DEF IInv, Serving, MarksHold, Writable, MarkerFirst, Attached, May, TypeOK,
      CatalogTypes, HostTypes, TableTypes, HandlerTypes, LiveMarked, InactiveIsClear,
      dbVars, rowVars, netVars, loopVars, planVars, RecoverRow, RecoverInactive,
      RecoverStopped, RecoverAlive, Recovery, RefreshStopped, RefreshAlive, RefreshAnswered,
      RefreshUnverified, RecordStopped, Unregister, Unplug, SetState, InactiveHasNone
<1>2. InactiveIsClear'
  BY DEF IInv, Serving, MarksHold, InactiveIsClear, May, TypeOK, CatalogTypes, HostTypes,
      TableTypes, HandlerTypes, dbVars, rowVars, netVars, loopVars, planVars, RecoverRow,
      RecoverInactive, RecoverStopped, RecoverAlive, Recovery, RefreshStopped, RefreshAlive,
      RefreshAnswered, RefreshUnverified, RecordStopped, Unregister, Unplug, SetState
<1>3. LiveMarked'
  BY DEF IInv, Serving, MarksHold, Writable, LiveMarked, MarkerFirst, Attached, Pending,
      dbVars, rowVars, netVars, loopVars, planVars, RecoverRow, RecoverInactive,
      RecoverStopped, RecoverAlive, Recovery, RefreshStopped, RefreshAlive, RefreshAnswered,
      RefreshUnverified, RecordStopped, Unregister, Unplug, SetState
<1>4. Resolvable => StartWires'
  BY DEF IInv, Serving, WiresHold, Resolvable, MarksHold, Writable, StartWires, Wired,
      StartsAlone, Starting, Fresh, Attached, Concerned, Phases, RecoverRow,
      RecoverInactive, RecoverStopped, RecoverAlive, Recovery, RefreshStopped, RefreshAlive,
      RefreshAnswered, RefreshUnverified, RecordStopped, Unregister, Unplug, SetState
<1>5. Resolvable => RunningIsWired'
  BY DEF IInv, Serving, WiresHold, Resolvable, MarksHold, Writable, RunningIsWired, May,
      TypeOK, CatalogTypes, HostTypes, TableTypes, HandlerTypes, Wired, MarkerFirst,
      Attached, InactiveIsClear, LiveMarked, InactiveHasNone, StartWires, UpdateWires,
      EngineStartsEmpty, StartsAlone, Starting, Fresh, Concerned, InPlace, Pending, Holding,
      Stored, Effective, dbVars, rowVars, netVars, loopVars, planVars, RecoverRow,
      RecoverInactive, RecoverStopped, RecoverAlive, Recovery, RefreshStopped, RefreshAlive,
      RefreshAnswered, RefreshUnverified, RecordStopped, Unregister, Unplug, SetState
<1>6. Resolvable => UpdateWires'
  BY DEF IInv, Serving, WiresHold, Resolvable, UpdateWires, Phases, dbVars, rowVars,
      netVars, loopVars, planVars, RecoverRow, RecoverInactive, RecoverStopped,
      RecoverAlive, Recovery, RefreshStopped, RefreshAlive, RefreshAnswered,
      RefreshUnverified, RecordStopped, Unregister, Unplug, SetState
<1>7. Resolvable => EngineStartsEmpty'
  BY DEF IInv, Serving, WiresHold, Resolvable, EngineStartsEmpty, May, TypeOK, CatalogTypes,
      HostTypes, TableTypes, HandlerTypes, dbVars, rowVars, netVars, loopVars, planVars,
      RecoverRow, RecoverInactive, RecoverStopped, RecoverAlive, Recovery, RefreshStopped,
      RefreshAlive, RefreshAnswered, RefreshUnverified, RecordStopped, Unregister, Unplug,
      SetState
<1> QED BY <1>1, <1>2, <1>3, <1>4, <1>5, <1>6, <1>7 DEF Serving, MarksHold, WiresHold

(* The server answers once no row is left: every VM that runs has been    *)
(* registered, or is marked.                                              *)
LEMMA ServeServes ==
  ASSUME IInv, Serving, Writable, Serve
  PROVE  Serving'
<1>1. MarkerFirst' /\ InactiveIsClear'
  BY DEF IInv, Serving, MarksHold, MarkerFirst, Attached, InactiveIsClear, dbVars, rowVars,
      netVars, loopVars, planVars, Serve
<1>2. Resolvable => StartWires'
  BY DEF IInv, Serving, WiresHold, Resolvable, InactiveHasNone, StartWires, Starting, Wired,
      Stored, Effective, dbVars, rowVars, netVars, loopVars, planVars, Serve
<1>3. LiveMarked'
  BY DEF IInv, Serving, MarksHold, LiveMarked, Serve
<1>4. Resolvable => RunningIsWired'
  BY DEF IInv, Serving, WiresHold, Resolvable, MarksHold, Writable, RunningIsWired, May,
      TypeOK, CatalogTypes, HostTypes, TableTypes, HandlerTypes, Wired, MarkerFirst,
      Attached, InactiveIsClear, LiveMarked, InactiveHasNone, StartWires, UpdateWires,
      EngineStartsEmpty, StartsAlone, Starting, Fresh, Concerned, InPlace, Pending, Phases,
      Holding, Stored, Effective, dbVars, rowVars, netVars, loopVars, planVars, Serve
<1>5. Resolvable => UpdateWires'
  BY DEF IInv, Serving, WiresHold, Resolvable, UpdateWires, Serve
<1>6. Resolvable => EngineStartsEmpty'
  BY DEF IInv, Serving, WiresHold, Resolvable, EngineStartsEmpty, Serve
<1> QED BY <1>1, <1>2, <1>3, <1>4, <1>5, <1>6 DEF Serving, MarksHold, WiresHold

(* A start finds no guest that runs.                                      *)
LEMMA StartBeginsServes ==
  ASSUME IInv, Serving, Writable, NEW u \in VM, StartBegins(u)
  PROVE  Serving'
<1>1. LiveMarked'
  BY DEF IInv, Serving, MarksHold, LiveMarked, dbVars, rowVars, netVars, loopVars, planVars,
      StartBegins, Acquire, Hold, SetState, catVars
<1>2. Resolvable => UpdateWires' /\ EngineStartsEmpty'
  BY DEF IInv, Serving, WiresHold, Resolvable, UpdateWires, EngineStartsEmpty, Stored, Effective,
      dbVars, rowVars, netVars, loopVars, planVars, StartBegins, Acquire, Hold, SetState, catVars
<1>3. MarkerFirst'
  BY DEF IInv, Serving, MarksHold, MarkerFirst, Attached, dbVars, rowVars, netVars,
      loopVars, planVars, StartBegins, Acquire, Hold, SetState, catVars, TypeOK, HostTypes,
      InactiveHasNone
<1>4. InactiveIsClear'
  BY DEF IInv, Serving, MarksHold, InactiveIsClear, dbVars, rowVars, netVars, loopVars, planVars,
      StartBegins, Acquire, Hold, SetState, catVars
<1>5. Resolvable => StartWires'
  BY DEF IInv, Serving, WiresHold, Resolvable, MarksHold, Writable, StartWires, Wired,
      StartsAlone, Starting, Fresh, Attached, Concerned, Stored, Effective, dbVars, rowVars,
      netVars, loopVars, planVars, StartBegins, Acquire, Hold, SetState, catVars, TypeOK,
      HostTypes, InactiveHasNone
<1>6. Resolvable => RunningIsWired'
  BY DEF IInv, Serving, WiresHold, Resolvable, MarksHold, Writable, RunningIsWired, Wired,
      MarkerFirst, Attached, InactiveIsClear, LiveMarked, InactiveHasNone, StartWires,
      UpdateWires, EngineStartsEmpty, StartsAlone, Starting, Fresh, Concerned, InPlace,
      Pending, Stored, Effective, dbVars, rowVars, netVars, loopVars, planVars, StartBegins,
      Acquire, Hold, SetState, catVars, TypeOK, HostTypes
<1> QED BY <1>1, <1>2, <1>3, <1>4, <1>5, <1>6 DEF Serving, MarksHold, WiresHold

(* The rules a start makes are those of what is stored.                   *)
LEMMA StartTapServes ==
  ASSUME IInv, Serving, Writable, NEW u \in VM, StartTap(u)
  PROVE  Serving'
<1>1. MarkerFirst' /\ InactiveIsClear' /\ LiveMarked'
  BY DEF IInv, Serving, MarksHold, MarkerFirst, Attached, InactiveIsClear, LiveMarked,
      dbVars, rowVars, netVars, loopVars, planVars, StartTap, Hold, catVars, TypeOK,
      HostTypes, GateNeedsLink
<1>2. Resolvable => EngineStartsEmpty'
  BY DEF IInv, Serving, WiresHold, Resolvable, InactiveHasNone, EngineStartsEmpty, dbVars,
      rowVars, netVars, loopVars, planVars, StartTap, Hold, catVars
<1>3. Resolvable => StartWires'
  BY DEF IInv, Serving, WiresHold, Resolvable, MarksHold, Writable, StartWires, May, TypeOK,
      CatalogTypes, HostTypes, TableTypes, HandlerTypes, Wired, StartsAlone, Starting,
      Fresh, Attached, Concerned, Stored, Effective, dbVars, rowVars, netVars, loopVars,
      planVars, StartTap, Hold, catVars
<1>4. Resolvable => RunningIsWired'
  BY DEF IInv, Serving, WiresHold, Resolvable, MarksHold, Writable, RunningIsWired, Wired,
      MarkerFirst, Attached, InactiveIsClear, LiveMarked, InactiveHasNone, StartWires,
      UpdateWires, EngineStartsEmpty, StartsAlone, Starting, Fresh, Concerned, InPlace,
      Pending, Stored, Effective, dbVars, rowVars, netVars, loopVars, planVars, StartTap,
      Hold, catVars
<1>5. Resolvable => UpdateWires'
  BY DEF IInv, Serving, WiresHold, Resolvable, UpdateWires, Stored, Effective, dbVars, rowVars,
      netVars, loopVars, planVars, StartTap, Hold, catVars
<1> QED BY <1>1, <1>2, <1>3, <1>4, <1>5 DEF Serving, MarksHold, WiresHold

(* What a start registers is what is stored.                              *)
LEMMA StartRegisterServes ==
  ASSUME IInv, Serving, Writable, NEW u \in VM, StartRegister(u)
  PROVE  Serving'
<1>1. MarkerFirst' /\ InactiveIsClear' /\ LiveMarked'
  BY DEF IInv, Serving, MarksHold, MarkerFirst, Attached, InactiveIsClear, LiveMarked,
      dbVars, rowVars, netVars, loopVars, planVars, StartRegister, Hold, catVars
<1>2. Resolvable => StartWires'
  BY DEF IInv, Serving, WiresHold, Resolvable, MarksHold, Writable, StartWires, May, TypeOK,
      CatalogTypes, HostTypes, TableTypes, HandlerTypes, Wired, StartsAlone, Starting,
      Fresh, Attached, Concerned, Stored, Effective, dbVars, rowVars, netVars, loopVars,
      planVars, StartRegister, Hold, catVars
<1>3. Resolvable => RunningIsWired'
  BY DEF IInv, Serving, WiresHold, Resolvable, MarksHold, Writable, RunningIsWired, Wired,
      MarkerFirst, Attached, InactiveIsClear, LiveMarked, InactiveHasNone, StartWires,
      UpdateWires, EngineStartsEmpty, StartsAlone, Starting, Fresh, Concerned, InPlace,
      Pending, Stored, Effective, dbVars, rowVars, netVars, loopVars, planVars,
      StartRegister, Hold, catVars
<1>4. Resolvable => UpdateWires'
  BY DEF IInv, Serving, WiresHold, Resolvable, UpdateWires, Stored, Effective, dbVars, rowVars,
      netVars, loopVars, planVars, StartRegister, Hold, catVars
<1>5. Resolvable => EngineStartsEmpty'
  BY DEF IInv, Serving, WiresHold, Resolvable, EngineStartsEmpty, Phases, StartRegister, Hold,
      catVars
<1> QED BY <1>1, <1>2, <1>3, <1>4, <1>5 DEF Serving, MarksHold, WiresHold

(* A guest runs once its rules, its link and its registration are there.  *)
LEMMA StartEndsServes ==
  ASSUME IInv, Serving, Writable, NEW u \in VM, StartEnds(u)
  PROVE  Serving'
<1>1. LiveMarked'
  BY DEF IInv, Serving, MarksHold, LiveMarked, dbVars, rowVars, netVars, loopVars, planVars,
      StartEnds, Hold, SetState, catVars
<1>2. Resolvable => UpdateWires' /\ EngineStartsEmpty'
  BY DEF IInv, Serving, WiresHold, Resolvable, UpdateWires, EngineStartsEmpty, Stored, Effective,
      dbVars, rowVars, netVars, loopVars, planVars, StartEnds, Hold, SetState, catVars
<1>3. MarkerFirst'
  BY DEF IInv, Serving, MarksHold, MarkerFirst, Attached, dbVars, rowVars, netVars,
      loopVars, planVars, StartEnds, Hold, SetState, catVars, TypeOK, HostTypes,
      StartsAlone, Starting
<1>4. InactiveIsClear'
  BY DEF IInv, Serving, MarksHold, InactiveIsClear, dbVars, rowVars, netVars, loopVars, planVars,
      StartEnds, Hold, SetState, catVars
<1>5. Resolvable => StartWires'
  BY DEF IInv, Serving, WiresHold, Resolvable, MarksHold, Writable, StartWires, May, TypeOK,
      CatalogTypes, HostTypes, TableTypes, HandlerTypes, Wired, StartsAlone, Starting,
      Fresh, Attached, Concerned, Stored, Effective, dbVars, rowVars, netVars, loopVars,
      planVars, StartEnds, Hold, SetState, catVars
<1>6. Resolvable => RunningIsWired'
  BY DEF IInv, Serving, WiresHold, Resolvable, MarksHold, Writable, RunningIsWired, Wired,
      MarkerFirst, Attached, InactiveIsClear, LiveMarked, InactiveHasNone, StartWires,
      UpdateWires, EngineStartsEmpty, StartsAlone, Starting, Fresh, Concerned, InPlace,
      Pending, Stored, Effective, dbVars, rowVars, netVars, loopVars, planVars, StartEnds,
      Hold, SetState, catVars
<1> QED BY <1>1, <1>2, <1>3, <1>4, <1>5, <1>6 DEF Serving, MarksHold, WiresHold

(* A start that fails leaves no guest.                                    *)
LEMMA StartFailsServes ==
  ASSUME IInv, Serving, Writable, NEW u \in VM, StartFails(u)
  PROVE  Serving'
<1>1. MarkerFirst'
  BY DEF IInv, Serving, MarksHold, MarkerFirst, Attached, May, TypeOK, CatalogTypes,
      HostTypes, TableTypes, HandlerTypes, dbVars, rowVars, netVars, loopVars, planVars,
      StartFails, Hold, RecordStopped, Unregister, Unplug, SetState, catVars
<1>2. InactiveIsClear'
  BY DEF IInv, Serving, MarksHold, InactiveIsClear, May, TypeOK, CatalogTypes, HostTypes,
      TableTypes, HandlerTypes, dbVars, rowVars, netVars, loopVars, planVars, StartFails, Hold,
      RecordStopped, Unregister, Unplug, SetState, catVars
<1>3. LiveMarked'
  BY DEF IInv, Serving, MarksHold, LiveMarked, May, TypeOK, CatalogTypes, HostTypes, TableTypes,
      HandlerTypes, dbVars, rowVars, netVars, loopVars, planVars, StartFails, Hold, RecordStopped,
      Unregister, Unplug, SetState, catVars
<1>4. Resolvable => StartWires'
  BY DEF IInv, Serving, WiresHold, Resolvable, MarksHold, Writable, StartWires, May, TypeOK,
      CatalogTypes, HostTypes, TableTypes, HandlerTypes, Wired, StartsAlone, Starting,
      Fresh, Attached, Concerned, Stored, Effective, dbVars, rowVars, netVars, loopVars,
      planVars, StartFails, Hold, RecordStopped, Unregister, Unplug, SetState, catVars
<1>5. Resolvable => RunningIsWired'
  BY DEF IInv, Serving, WiresHold, Resolvable, MarksHold, Writable, RunningIsWired, May,
      TypeOK, CatalogTypes, HostTypes, TableTypes, HandlerTypes, Wired, MarkerFirst,
      Attached, InactiveIsClear, LiveMarked, InactiveHasNone, StartWires, UpdateWires,
      EngineStartsEmpty, StartsAlone, Starting, Fresh, Concerned, InPlace, Pending, Stored,
      Effective, dbVars, rowVars, netVars, loopVars, planVars, StartFails, Hold,
      RecordStopped, Unregister, Unplug, SetState, catVars
<1>6. Resolvable => UpdateWires'
  BY DEF IInv, Serving, WiresHold, Resolvable, UpdateWires, May, TypeOK, CatalogTypes, HostTypes,
      TableTypes, HandlerTypes, Phases, Holding, Stored, Effective, dbVars, rowVars, netVars,
      loopVars, planVars, StartFails, Hold, RecordStopped, Unregister, Unplug, SetState, catVars
<1>7. Resolvable => EngineStartsEmpty'
  BY DEF IInv, Serving, WiresHold, Resolvable, EngineStartsEmpty, May, TypeOK, CatalogTypes,
      HostTypes, TableTypes, HandlerTypes, dbVars, rowVars, netVars, loopVars, planVars, StartFails,
      Hold, RecordStopped, Unregister, Unplug, SetState, catVars
<1> QED BY <1>1, <1>2, <1>3, <1>4, <1>5, <1>6, <1>7 DEF Serving, MarksHold, WiresHold

(* A stop clears the row, the error and the gate with the guest.          *)
LEMMA StopServes ==
  ASSUME IInv, Serving, Writable, NEW u \in VM, Stop(u)
  PROVE  Serving'
<1>a. \A v \in live : gate'[v] = gate[v] /\ rules'[v] = rules[v] /\ eng'[v] = eng[v]
  <2>1. u \notin live /\ live \subseteq VM
    BY DEF IInv, TypeOK, HandlerTypes, Holding, Stop, Acquire
  <2> QED
    BY <2>1
    DEF IInv, TypeOK, HostTypes, TableTypes, Stop, RecordStopped, Unregister, Unplug
<1>1. MarkerFirst'
  BY DEF IInv, Serving, MarksHold, MarkerFirst, Attached, Stop, Acquire, RecordStopped,
      Unregister, Unplug, SetState, catVars, TypeOK, HostTypes
<1>2. InactiveIsClear'
  BY DEF IInv, Serving, MarksHold, InactiveIsClear, May, TypeOK, CatalogTypes, HostTypes,
      TableTypes, HandlerTypes, Stop, Acquire, RecordStopped, Unregister, Unplug, SetState, catVars
<1>3. LiveMarked'
  BY <1>a DEF IInv, Serving, MarksHold, LiveMarked, Stop, catVars, loopVars
<1>4. Resolvable => StartWires'
  BY DEF IInv, Serving, WiresHold, Resolvable, MarksHold, Writable, StartWires, May, TypeOK,
      CatalogTypes, HostTypes, TableTypes, HandlerTypes, Wired, StartsAlone, Starting,
      Fresh, Attached, Concerned, Stored, Effective, dbVars, rowVars, netVars, loopVars,
      planVars, Stop, Acquire, RecordStopped, Unregister, Unplug, SetState, catVars
<1>5. Resolvable => RunningIsWired'
  BY DEF IInv, Serving, WiresHold, Resolvable, MarksHold, Writable, RunningIsWired, May,
      TypeOK, CatalogTypes, HostTypes, TableTypes, HandlerTypes, Wired, MarkerFirst,
      Attached, InactiveIsClear, LiveMarked, InactiveHasNone, StartWires, UpdateWires,
      EngineStartsEmpty, StartsAlone, Starting, Fresh, Concerned, InPlace, Pending, Stored,
      Effective, dbVars, rowVars, netVars, loopVars, planVars, Stop, Acquire, RecordStopped,
      Unregister, Unplug, SetState, catVars
<1>6. Resolvable => UpdateWires'
  BY DEF IInv, Serving, WiresHold, Resolvable, UpdateWires, May, TypeOK, CatalogTypes, HostTypes,
      TableTypes, HandlerTypes, Holding, Stored, Effective, dbVars, rowVars, netVars, loopVars,
      planVars, Stop, Acquire, RecordStopped, Unregister, Unplug, SetState, catVars
<1>7. Resolvable => EngineStartsEmpty'
  BY DEF IInv, Serving, WiresHold, Resolvable, EngineStartsEmpty, Stop, Acquire, RecordStopped,
      Unregister, Unplug, SetState, catVars
<1> QED BY <1>1, <1>2, <1>3, <1>4, <1>5, <1>6, <1>7 DEF Serving, MarksHold, WiresHold

(* The other calls of a VM change only the state of its row.              *)
LEMMA ActServes ==
  ASSUME IInv, Serving, Writable, NEW u \in VM, Act(u)
  PROVE  Serving'
<1>1. LiveMarked'
  BY DEF IInv, Serving, MarksHold, LiveMarked, dbVars, rowVars, netVars, loopVars, planVars, Act,
      Acquire, SetState, catVars
<1>2. Resolvable => StartWires' /\ RunningIsWired' /\ UpdateWires' /\ EngineStartsEmpty'
  BY DEF IInv, Serving, WiresHold, Resolvable, StartWires, RunningIsWired, UpdateWires,
      EngineStartsEmpty, Starting, Wired, Stored, Effective, dbVars, rowVars, netVars, loopVars,
      planVars, Act, Acquire, SetState, catVars
<1>3. MarkerFirst'
  BY DEF IInv, Serving, MarksHold, MarkerFirst, Attached, dbVars, rowVars, netVars,
      loopVars, planVars, Act, Acquire, SetState, catVars
<1>4. InactiveIsClear'
  BY DEF IInv, Serving, MarksHold, InactiveIsClear, dbVars, rowVars, netVars, loopVars, planVars,
      Act, Acquire, SetState, catVars
<1> QED BY <1>1, <1>2, <1>3, <1>4 DEF Serving, MarksHold, WiresHold

(* A refresh clears the row of a VM only if its process is gone.          *)
LEMMA RefreshServes ==
  ASSUME IInv, Serving, Writable, NEW u \in VM, Refresh(u)
  PROVE  Serving'
<1>1. MarkerFirst'
  BY DEF IInv, Serving, MarksHold, MarkerFirst, Attached, May, TypeOK, CatalogTypes,
      HostTypes, TableTypes, HandlerTypes, dbVars, rowVars, netVars, loopVars, planVars,
      Refresh, Acquire, RefreshStopped, RefreshAlive, RefreshAnswered, RefreshUnverified,
      RecordStopped, Unregister, Unplug, SetState, catVars
<1>2. InactiveIsClear'
  BY DEF IInv, Serving, MarksHold, InactiveIsClear, May, TypeOK, CatalogTypes, HostTypes,
      TableTypes, HandlerTypes, dbVars, rowVars, netVars, loopVars, planVars, Refresh,
      Acquire, RefreshStopped, RefreshAlive, RefreshAnswered, RefreshUnverified,
      RecordStopped, Unregister, Unplug, SetState, catVars
<1>3. LiveMarked'
  BY DEF IInv, Serving, MarksHold, LiveMarked, May, TypeOK, CatalogTypes, HostTypes,
      TableTypes, HandlerTypes, dbVars, rowVars, netVars, loopVars, planVars, Refresh,
      Acquire, RefreshStopped, RefreshAlive, RefreshAnswered, RefreshUnverified,
      RecordStopped, Unregister, Unplug, SetState, catVars
<1>4. Resolvable => StartWires'
  BY DEF IInv, Serving, WiresHold, Resolvable, MarksHold, Writable, StartWires, May, TypeOK,
      CatalogTypes, HostTypes, TableTypes, HandlerTypes, Wired, StartsAlone, Starting,
      Fresh, Attached, Concerned, Stored, Effective, dbVars, rowVars, netVars, loopVars,
      planVars, Refresh, Acquire, RefreshStopped, RefreshAlive, RefreshAnswered,
      RefreshUnverified, RecordStopped, Unregister, Unplug, SetState, catVars
<1>5. Resolvable => RunningIsWired'
  BY DEF IInv, Serving, WiresHold, Resolvable, MarksHold, Writable, RunningIsWired, May,
      TypeOK, CatalogTypes, HostTypes, TableTypes, HandlerTypes, Wired, MarkerFirst,
      Attached, InactiveIsClear, LiveMarked, InactiveHasNone, StartWires, UpdateWires,
      EngineStartsEmpty, StartsAlone, Starting, Fresh, Concerned, InPlace, Pending, Stored,
      Effective, dbVars, rowVars, netVars, loopVars, planVars, Refresh, Acquire,
      RefreshStopped, RefreshAlive, RefreshAnswered, RefreshUnverified, RecordStopped,
      Unregister, Unplug, SetState, catVars
<1>6. Resolvable => UpdateWires'
  BY DEF IInv, Serving, WiresHold, Resolvable, UpdateWires, May, TypeOK, CatalogTypes,
      HostTypes, TableTypes, HandlerTypes, Holding, Stored, Effective, dbVars, rowVars,
      netVars, loopVars, planVars, Refresh, Acquire, RefreshStopped, RefreshAlive,
      RefreshAnswered, RefreshUnverified, RecordStopped, Unregister, Unplug, SetState,
      catVars
<1>7. Resolvable => EngineStartsEmpty'
  BY DEF IInv, Serving, WiresHold, Resolvable, EngineStartsEmpty, Refresh, Acquire,
      RefreshStopped, RefreshAlive, RefreshAnswered, RefreshUnverified, RecordStopped,
      Unregister, Unplug, SetState, catVars
<1> QED BY <1>1, <1>2, <1>3, <1>4, <1>5, <1>6, <1>7 DEF Serving, MarksHold, WiresHold

(* A guest that ends needs nothing.                                       *)
LEMMA ExitServes ==
  ASSUME IInv, Serving, Writable, NEW u \in VM, Exit(u)
  PROVE  Serving'
<1>1. MarkerFirst' /\ InactiveIsClear' /\ LiveMarked'
  BY DEF IInv, Serving, MarksHold, MarkerFirst, Attached, InactiveIsClear, LiveMarked,
      dbVars, rowVars, netVars, loopVars, planVars, Exit, catVars
<1>2. Resolvable => UpdateWires' /\ EngineStartsEmpty'
  BY DEF IInv, Serving, WiresHold, Resolvable, UpdateWires, EngineStartsEmpty, Stored, Effective,
      dbVars, rowVars, netVars, loopVars, planVars, Exit, catVars
<1>3. Resolvable => StartWires'
  BY DEF IInv, Serving, WiresHold, Resolvable, MarksHold, Writable, StartWires, Wired,
      StartsAlone, Starting, Fresh, Attached, Concerned, Stored, Effective, dbVars, rowVars,
      netVars, loopVars, planVars, Exit, catVars
<1>4. Resolvable => RunningIsWired'
  BY DEF IInv, Serving, WiresHold, Resolvable, MarksHold, Writable, RunningIsWired, Wired,
      MarkerFirst, Attached, InactiveIsClear, LiveMarked, InactiveHasNone, StartWires,
      UpdateWires, EngineStartsEmpty, StartsAlone, Starting, Fresh, Concerned, InPlace,
      Pending, Stored, Effective, dbVars, rowVars, netVars, loopVars, planVars, Exit,
      catVars
<1> QED BY <1>1, <1>2, <1>3, <1>4 DEF Serving, MarksHold, WiresHold

(* An update that is dropped leaves every gate with its marker.           *)
LEMMA DropCatalogServes ==
  ASSUME IInv, Serving, Writable, DropCatalog
  PROVE  Serving'
<1>1. MarkerFirst' /\ InactiveIsClear'
  BY DEF IInv, Serving, MarksHold, MarkerFirst, Attached, InactiveIsClear, dbVars, rowVars,
      netVars, loopVars, planVars, DropCatalog, Release, Nobody
<1>2. LiveMarked'
  BY DEF IInv, Serving, MarksHold, LiveMarked, DropCatalog, Release, Nobody
<1>3. Resolvable => StartWires'
  BY DEF IInv, Serving, WiresHold, Resolvable, MarksHold, Writable, StartWires, Wired,
      StartsAlone, Starting, Fresh, Attached, Concerned, Stored, Effective, dbVars, rowVars,
      netVars, loopVars, planVars, DropCatalog, Release, Nobody
<1>4. Resolvable => RunningIsWired'
  BY DEF IInv, Serving, WiresHold, Resolvable, MarksHold, Writable, RunningIsWired, Wired,
      MarkerFirst, Attached, InactiveIsClear, LiveMarked, InactiveHasNone, StartWires,
      UpdateWires, EngineStartsEmpty, StartsAlone, Starting, Fresh, Concerned, InPlace,
      Pending, Stored, Effective, dbVars, rowVars, netVars, loopVars, planVars, DropCatalog,
      Release, Nobody
<1>5. Resolvable => UpdateWires'
  BY DEF IInv, Serving, WiresHold, Resolvable, UpdateWires, DropCatalog, Release, Nobody
<1>6. Resolvable => EngineStartsEmpty'
  BY DEF IInv, Serving, WiresHold, Resolvable, EngineStartsEmpty, DropCatalog, Release, Nobody
<1> QED BY <1>1, <1>2, <1>3, <1>4, <1>5, <1>6 DEF Serving, MarksHold, WiresHold

(* A start that is dropped leaves no guest that runs.                     *)
LEMMA DropStartServes ==
  ASSUME IInv, Serving, Writable, NEW u \in VM, DropStart(u)
  PROVE  Serving'
<1>1. MarkerFirst' /\ InactiveIsClear' /\ LiveMarked'
  BY DEF IInv, Serving, MarksHold, MarkerFirst, Attached, InactiveIsClear, LiveMarked,
      dbVars, rowVars, netVars, loopVars, planVars, DropStart, Hold, catVars
<1>2. Resolvable => RunningIsWired' /\ UpdateWires' /\ EngineStartsEmpty'
  BY DEF IInv, Serving, WiresHold, Resolvable, InactiveHasNone, RunningIsWired, UpdateWires,
      EngineStartsEmpty, Wired, Stored, Effective, dbVars, rowVars, netVars, loopVars,
      planVars, DropStart, Hold, catVars
<1>3. Resolvable => StartWires'
  BY DEF IInv, Serving, WiresHold, Resolvable, MarksHold, Writable, StartWires, Wired,
      StartsAlone, Starting, Fresh, Attached, Concerned, Stored, Effective, dbVars, rowVars,
      netVars, loopVars, planVars, DropStart, Hold, catVars
<1> QED BY <1>1, <1>2, <1>3 DEF Serving, MarksHold, WiresHold

(* A crash empties the engine, and leaves markers, rules and links as     *)
(* they are.                                                              *)
LEMMA CrashServes ==
  ASSUME IInv, Serving, Writable, Crash
  PROVE  Serving'
<1>1. MarkerFirst' /\ InactiveIsClear'
  BY DEF IInv, Serving, MarksHold, MarkerFirst, Attached, InactiveIsClear, dbVars, rowVars,
      netVars, loopVars, planVars, Crash, Nobody
<1>2. LiveMarked'
  BY DEF IInv, Serving, MarksHold, LiveMarked, Crash, Nobody
<1>3. Resolvable => StartWires'
  BY DEF IInv, Serving, WiresHold, Resolvable, MarksHold, Writable, StartWires, Wired,
      StartsAlone, Starting, Fresh, Attached, Concerned, Crash, Nobody
<1>4. Resolvable => RunningIsWired'
  BY DEF IInv, Serving, WiresHold, Resolvable, MarksHold, Writable, RunningIsWired, Wired,
      MarkerFirst, Attached, InactiveIsClear, LiveMarked, InactiveHasNone, StartWires,
      UpdateWires, EngineStartsEmpty, StartsAlone, Starting, Fresh, Concerned, InPlace,
      Pending, Stored, Effective, dbVars, rowVars, netVars, loopVars, planVars, Crash,
      Nobody
<1>5. Resolvable => UpdateWires'
  BY DEF IInv, Serving, WiresHold, Resolvable, UpdateWires, Crash, Nobody
<1>6. Resolvable => EngineStartsEmpty'
  BY DEF IInv, Serving, WiresHold, Resolvable, EngineStartsEmpty, Crash, Nobody
<1> QED BY <1>1, <1>2, <1>3, <1>4, <1>5, <1>6 DEF Serving, MarksHold, WiresHold

(* A server that starts has every row to recover.                         *)
LEMMA RestartServes ==
  ASSUME IInv, Serving, Writable, Restart
  PROVE  Serving'
<1>1. MarkerFirst' /\ InactiveIsClear'
  BY DEF IInv, Serving, MarksHold, MarkerFirst, Attached, InactiveIsClear, dbVars, rowVars,
      netVars, loopVars, planVars, Restart
<1>2. Resolvable => StartWires'
  BY DEF IInv, Serving, WiresHold, Resolvable, InactiveHasNone, StartWires, Starting, Wired,
      Stored, Effective, dbVars, rowVars, netVars, loopVars, planVars, Restart
<1>3. LiveMarked'
  BY DEF IInv, Serving, MarksHold, LiveMarked, Restart
<1>4. Resolvable => RunningIsWired'
  BY DEF IInv, Serving, WiresHold, Resolvable, MarksHold, Writable, RunningIsWired, Wired,
      MarkerFirst, Attached, InactiveIsClear, LiveMarked, InactiveHasNone, StartWires,
      UpdateWires, EngineStartsEmpty, StartsAlone, Starting, Fresh, Concerned, InPlace,
      Pending, Stored, Effective, dbVars, rowVars, netVars, loopVars, planVars, Restart
<1>5. Resolvable => UpdateWires'
  BY DEF IInv, Serving, WiresHold, Resolvable, UpdateWires, Restart
<1>6. Resolvable => EngineStartsEmpty'
  BY DEF IInv, Serving, WiresHold, Resolvable, EngineStartsEmpty, Phases, Holding, dbVars, rowVars,
      netVars, loopVars, planVars, Restart
<1> QED BY <1>1, <1>2, <1>3, <1>4, <1>5, <1>6 DEF Serving, MarksHold, WiresHold

(* So does a program state that nothing touches, ...                        *)
LEMMA StutterServes ==
  ASSUME Serving, UNCHANGED vars
  PROVE  Serving'
<1>1. MarksHold'
  BY DEF Serving, MarksHold, MarkerFirst, Attached, InactiveIsClear, LiveMarked, vars,
      dbVars, rowVars, netVars, loopVars, planVars
<1>2. Resolvable => StartWires' /\ RunningIsWired'
  BY DEF Serving, WiresHold, InactiveHasNone, StartWires, RunningIsWired, Starting, Wired,
      Stored, Effective, vars, dbVars, rowVars, netVars, loopVars, planVars
<1>3. Resolvable => UpdateWires' /\ EngineStartsEmpty'
  BY DEF Serving, WiresHold, UpdateWires, EngineStartsEmpty, Stored, Effective,
         vars, dbVars, rowVars, netVars, loopVars, planVars
<1> QED BY <1>1, <1>2, <1>3 DEF Serving, WiresHold, Resolvable

(* ... every step of the catalog's handlers and of recovery, ...            *)
LEMMA HandleServes ==
  ASSUME IInv, Serving, Writable, Request \/ Handle
  PROVE  Serving'
<1>1. CASE Request
  BY <1>1, SaveServes, AssignServes DEF Request
<1>2. CASE SkipUnchanged \/ Refuse \/ Proceed \/ Serve
  BY <1>2, SkipUnchangedServes, RefuseServes, ProceedServes, ServeServes
<1>3. CASE \E v \in VM : Examine(v) \/ RecoverRow(v)
  BY <1>3, ExamineStoppedServes, ExamineActiveServes, ExamineUnknownServes, RecoverRowServes
     DEF Examine
<1>4. CASE Apply
  BY <1>4, MarkServes, QuiesceServes, RecoverEngineServes, ResumeServes, ClearServes, BlockServes,
     ReplaceEngineServes, ReplaceRulesServes, CommitServes DEF Apply
<1> QED BY <1>1, <1>2, <1>3, <1>4 DEF Handle

(* ... and every step of a VM and of its own handlers.                      *)
LEMMA VmStepServes ==
  ASSUME IInv, Serving, Writable, NEW v \in VM,
         \/ LockVm(v) \/ StartBegins(v) \/ Start(v)
         \/ Stop(v) \/ Act(v) \/ Refresh(v) \/ Exit(v) \/ DropStart(v)
  PROVE  Serving'
<1>1. CASE StartBegins(v) \/ Start(v) \/ DropStart(v)
  BY <1>1, StartBeginsServes, StartTapServes, StartRegisterServes, StartEndsServes,
     StartFailsServes, DropStartServes DEF Start
<1>2. CASE LockVm(v) \/ Stop(v) \/ Act(v) \/ Refresh(v) \/ Exit(v)
  BY <1>2, LockVmServes, StopServes, ActServes, RefreshServes, ExitServes
<1> QED BY <1>1, <1>2

(* Every step keeps the markers and the wiring, ...                         *)
LEMMA NextServes ==
  ASSUME IInv, Serving, Writable, [Next]_vars
  PROVE  Serving'
<1>1. CASE UNCHANGED vars
  BY <1>1, StutterServes
<1>2. CASE Request \/ Handle
  BY <1>2, HandleServes
<1>3. CASE \E v \in VM : \/ LockVm(v) \/ StartBegins(v) \/ Start(v)
                         \/ Stop(v) \/ Act(v) \/ Refresh(v) \/ Exit(v) \/ DropStart(v)
  BY <1>3, VmStepServes
<1>4. CASE DropCatalog \/ Crash \/ Restart
  BY <1>4, DropCatalogServes, CrashServes, RestartServes
<1> QED BY <1>1, <1>2, <1>3, <1>4 DEF Next

(* ... and the initial states have them.                                    *)
LEMMA InitServes ==
  ASSUME Init
  PROVE  Serving
<1>1. MarksHold
  BY DEF Init, MarksHold, MarkerFirst, Attached, InactiveIsClear, LiveMarked
<1>2. StartWires /\ RunningIsWired
  BY DEF Init, InactiveHasNone, StartWires, RunningIsWired, Starting, Wired, Nobody
<1>3. UpdateWires /\ EngineStartsEmpty
  BY DEF Init, UpdateWires, EngineStartsEmpty
<1> QED BY <1>1, <1>2, <1>3 DEF Serving, WiresHold

(* While marker files and rows can be written, a gated VM, and one whose    *)
(* update failed, says so by its marker: recovery finds it whatever was     *)
(* dropped and whenever the server crashed.                                 *)
THEOREM GateIsPendingAlways ==
  ASSUME Writable
  PROVE  Spec => []GateIsPending
<1>1. Init => Serving
  BY InitServes
<1>2. IInv /\ Serving /\ [Next]_vars => Serving'
  BY NextServes
<1>3. Serving => GateIsPending
  BY DEF Serving, MarksHold, MarkerFirst, Attached, GateIsPending, Pending
<1> QED BY <1>1, <1>2, <1>3, UpdateInvariant, PTL DEF Spec

(* If policies can be resolved as well, a VM that runs and is not marked is *)
(* served what is stored: its link is up, and its rules and, once the       *)
(* server answers, its registration are those of its policy.  The exception *)
(* is a VM that refresh cut off for failing its jail's check, and then      *)
(* found running: all that it lacks is the link (CutOff).                   *)
THEOREM RunningIsServedAlways ==
  ASSUME Writable, Resolvable
  PROVE  Spec => []RunningIsServed
<1>1. Init => Serving
  BY InitServes
<1>2. IInv /\ Serving /\ [Next]_vars => Serving'
  BY NextServes
<1>3. Serving => RunningIsServed
  BY DEF Serving, MarksHold, MarkerFirst, Attached, WiresHold, RunningIsWired, Wired,
      RunningIsServed, Settled, Served, CutOff, Granted, Pending
<1> QED BY <1>1, <1>2, <1>3, UpdateInvariant, PTL DEF Spec
=============================================================================
