------------------------- MODULE ResourceLocksProofs -------------------------
(***************************************************************************)
(* Whatever requests come, in whatever number and for whatever VMs:        *)
(*   - ResourceLocks keeps its types;                                      *)
(*   - unless VMs are duplicated, no tasks wait for each other in a circle *)
(*     (Ascending: every task takes the mutexes in one order);             *)
(*   - no VM refers to an item that is gone (Protected: what a request has *)
(*     checked stays true until it writes, because it holds the mutexes of *)
(*     what it has checked).                                               *)
(***************************************************************************)
EXTENDS ResourceLocks, FiniteSetTheorems, TLAPS

-----------------------------------------------------------------------------
(* Mutexes, scripts, types *)

(* Each catalog has a mutex of its own. *)
LEMMA GuardFacts ==
  /\ Guard["policy"] = Catalog
  /\ \A k \in Kind : Guard[k] \in Mutex
  /\ \A k, l \in Kind : Guard[k] = Guard[l] => k = l
  BY LockConstants DEF Guard, Mutex, Catalog, Assets, Kernels, Networks

(* The names that scripts use are mutexes. *)
LEMMA Libraries ==
  /\ Catalog \in Mutex /\ Assets \in Mutex /\ Kernels \in Mutex
  /\ Networks \in Mutex /\ Snapshots \in Mutex
  /\ \A v \in VM : Own(v) \in Mutex
  BY DEF Mutex

(* What scripts are made of are steps. *)
LEMMA Steps ==
  /\ \A m \in Mutex : Take(m) \in Step /\ Drop(m) \in Step
  /\ \A vms \in SUBSET VM : TakeAll(vms) \in Step
  /\ Read \in Step /\ Check \in Step
  BY Libraries DEF Step, Take, Drop, TakeAll, Read, Check

(* The scripts are sequences of steps. *)
LEMMA Scripts ==
  /\ Define \in Seq(Step)
  /\ \A v \in VM : /\ Duplicate(v) \in Seq(Step) /\ Update(v) \in Seq(Step)
                   /\ Delete(v) \in Seq(Step) /\ Start(v) \in Seq(Step) /\ Restore(v) \in Seq(Step)
  /\ \A m \in Mutex : Add(m) \in Seq(Step)
  BY Steps, Libraries DEF Define, Duplicate, Update, Delete, Start, Restore, Add

(* A request that begins a script of steps keeps the types. *)
LEMMA BeginTypes ==
  ASSUME TypeOK, NEW t \in Task, NEW op \in Operation \cup {"refresh"}, NEW v \in VM \cup {0},
         NEW kind \in Kind, NEW want \in SUBSET Kind, NEW steps \in Seq(Step),
         Begin(t, op, v, kind, want, steps)
  PROVE  TypeOK'
  BY DEF TypeOK, Begin, Request, dbVars

(* Asking for any operation keeps the types. *)
LEMMA AskTypes ==
  ASSUME TypeOK, NEW t \in Handler, Ask(t)
  PROVE  TypeOK'
<1> t \in Task /\ "policy" \in Kind
  BY LockConstants DEF Task
<1>1. ASSUME NEW op \in Operation, NEW v \in VM, AskVm(t, op, v)
      PROVE  TypeOK'
  <2>2. CASE op \in {"duplicate", "update", "delete", "start", "restore"}
    BY <1>1, <2>2, Scripts, BeginTypes DEF AskVm
  <2>3. <<Take(Catalog), Take(Own(v)), Check>> \in Seq(Step)
    BY Steps, Libraries
  <2>4. <<Take(Own(v)), Take(Snapshots)>> \in Seq(Step)
    BY Steps, Libraries
  <2>5. <<Take(Own(v)), Take(Assets), Take(Kernels)>> \in Seq(Step)
    BY Steps, Libraries
  <2>6. <<Take(Own(v))>> \in Seq(Step)
    BY Steps, Libraries
  <2>7. CASE op \in {"assign", "capture", "export", "act"}
    BY <1>1, <2>7, <2>3, <2>4, <2>5, <2>6, BeginTypes DEF AskVm
  <2> QED BY <1>1, <2>2, <2>7 DEF AskVm
<1>2. ASSUME NEW op \in Operation, AskLibrary(t, op)
      PROVE  TypeOK'
  <2>1. <<Take(Catalog), Read>> \in Seq(Step)
    BY Steps, Libraries
  <2>2. \A kind \in Kind : /\ <<Take(Guard[kind]), Check>> \in Seq(Step)
                           /\ Add(Guard[kind]) \in Seq(Step)
    BY Steps, Scripts, GuardFacts
  <2> QED BY <1>2, <2>1, <2>2, Scripts, BeginTypes DEF AskLibrary
<1> QED BY <1>1, <1>2 DEF Ask

(* The rest of a sequence that has a first element. *)
LEMMA TailFacts ==
  ASSUME NEW s \in Seq(Step), s # <<>>
  PROVE  /\ Tail(s) \in Seq(Step) /\ Len(Tail(s)) = Len(s) - 1
         /\ \A i \in 1..(Len(s) - 1) : Tail(s)[i] = s[i + 1]
         /\ Head(s) = s[1] /\ s[1] \in Step /\ Len(s) > 0
  OBVIOUS

(* What the next step of a task is about. *)
LEMMA OnTypes ==
  ASSUME TypeOK, NEW t \in Task, script[t] # <<>>
  PROVE  /\ Head(script[t]).do # "all" => On(t) \in Mutex
         /\ Head(script[t]).do = "all" => On(t) \in SUBSET VM
  <1>1. Head(script[t]) \in Step
    BY TailFacts DEF TypeOK
  <1> QED BY <1>1 DEF Step, On

(* A handler that returns or is dropped keeps the types of its state. *)
LEMMA LeaveTypes ==
  ASSUME TypeOK, NEW t \in Task, Leave(t)
  PROVE  /\ req' \in [Task -> Request] /\ script' \in [Task -> Seq(Step)]
         /\ holder' \in [Mutex -> Task \cup {NoOne}]
  BY LockConstants DEF TypeOK, Leave, Nothing, Request

(* Storing a definition keeps the types of the database. *)
LEMMA StoreTypes ==
  ASSUME TypeOK, NEW r \in Request, NEW v \in VM, StoreSpec(r, v)
  PROVE  exists' \subseteq Kind /\ refs' \in [VM -> SUBSET Kind]
<1>1. r.want \in SUBSET Kind /\ r.want \cup {"policy"} \in SUBSET Kind
  BY LockConstants DEF Request
<1>2. CASE refs' = [refs EXCEPT ![v] = r.want] /\ UNCHANGED exists
  BY <1>1, <1>2 DEF TypeOK
<1>3. CASE refs' = [refs EXCEPT ![v] = r.want \cup {"policy"}] /\ exists' = exists \cup {"policy"}
  BY <1>1, <1>3, LockConstants DEF TypeOK
<1> QED BY <1>2, <1>3 DEF StoreSpec

(* Every step of a task keeps the types. *)
LEMMA RunTypes ==
  ASSUME TypeOK, NEW t \in Task, Run(t)
  PROVE  TypeOK'
<1>1. CASE Acquire(t)
  BY <1>1, OnTypes, TailFacts DEF TypeOK, Acquire, Doing, GoOn, dbVars
<1>2. CASE AcquireNext(t)
  <2>1. PICK v \in On(t) : /\ holder' = [holder EXCEPT ![Own(v)] = t]
                           /\ script' = [script EXCEPT ![t] = <<TakeAll(On(t) \ {v})>>]
    BY <1>2 DEF AcquireNext
  <2>2. On(t) \in SUBSET VM
    BY <1>2, OnTypes DEF AcquireNext, Doing
  <2>3. <<TakeAll(On(t) \ {v})>> \in Seq(Step)
    BY <2>2, Steps
  <2> QED BY <1>2, <2>1, <2>2, <2>3, Libraries DEF TypeOK, AcquireNext, dbVars
<1>3. CASE AllAcquired(t)
  BY <1>3, TailFacts DEF TypeOK, AllAcquired, Doing, GoOn, dbVars
<1>4. CASE GiveBack(t)
  BY <1>4, OnTypes, TailFacts DEF TypeOK, GiveBack, Doing, GoOn, dbVars
<1>5. CASE ReadRows(t)
  <2>1. CASE req[t].op = "duplicate" /\ req[t].vm \in defined /\ GoOn(t) /\ UNCHANGED holder
                /\ req' = [req EXCEPT ![t] = Copying(req[t])]
    BY <1>5, <2>1, TailFacts DEF TypeOK, ReadRows, Doing, GoOn, Copying, dbVars, Request
  <2>2. CASE Leave(t)
    BY <1>5, <2>2, LeaveTypes DEF TypeOK, ReadRows, dbVars
  <2>3. CASE script' = [script EXCEPT ![t] = <<TakeAll({v \in defined : "policy" \in refs[v]})>>]
                /\ UNCHANGED <<req, holder>>
    <3>1. <<TakeAll({v \in defined : "policy" \in refs[v]})>> \in Seq(Step)
      BY Steps DEF TypeOK
    <3> QED BY <1>5, <2>3, <3>1 DEF TypeOK, ReadRows, dbVars
  <2> QED BY <1>5, <2>1, <2>2, <2>3 DEF ReadRows
<1>6. CASE CheckRows(t)
  <2>1. CASE Leave(t)
    BY <1>6, <2>1, LeaveTypes DEF TypeOK, CheckRows, dbVars
  <2>2. CASE GoOn(t) /\ UNCHANGED <<req, holder>>
    BY <1>6, <2>2, TailFacts DEF TypeOK, CheckRows, Doing, GoOn, dbVars
  <2> QED BY <1>6, <2>1, <2>2 DEF CheckRows
<1>7. CASE Finish(t)
  <2>1. req[t] \in Request
    BY DEF TypeOK
  <2>2. exists' \subseteq Kind /\ defined' \subseteq VM /\ refs' \in [VM -> SUBSET Kind]
    <3> DEFINE r == req[t]
    <3>1. r \in Request /\ r.want \subseteq Kind /\ r.kind \in Kind /\ "policy" \in Kind
      BY <2>1, LockConstants DEF Request
    <3>2. CASE UNCHANGED dbVars
      BY <3>2 DEF TypeOK, dbVars
    <3> HIDE DEF r
    <3>3. CASE Exists(r) /\ Write(r) /\ ~UNCHANGED dbVars
      <4>1. CASE r.op \in {"define", "duplicate"}
        BY <3>1, <3>3, <4>1, StoreTypes DEF TypeOK, Write
      <4>2. CASE r.op \in {"update", "assign", "delete"}
        <5>1. r.vm \in defined /\ r.vm \in VM
          BY <3>3, <4>2 DEF Exists, OnVm, TypeOK
        <5>2. CASE r.op = "update"
          BY <3>1, <3>3, <5>2, <5>1, StoreTypes DEF TypeOK, Write
        <5>3. CASE r.op = "assign"
          <6>1. Assigned(r) \in SUBSET Kind
            BY <3>1, <5>1 DEF TypeOK, Assigned
          <6> QED BY <3>3, <5>3, <5>1, <6>1 DEF TypeOK, Write
        <5>4. CASE r.op = "delete"
          BY <3>3, <5>4, <5>1 DEF TypeOK, Write
        <5> QED BY <4>2, <5>2, <5>3, <5>4
      <4>3. CASE r.op \notin {"define", "duplicate", "update", "assign", "delete"}
        BY <3>1, <3>3, <4>3 DEF TypeOK, Write
      <4> QED BY <4>1, <4>2, <4>3
    <3> QED BY <1>7, <3>2, <3>3 DEF Finish, r
  <2> QED BY <1>7, <2>2, LeaveTypes DEF TypeOK, Finish
<1> QED BY <1>1, <1>2, <1>3, <1>4, <1>5, <1>6, <1>7 DEF Run

(* Every step keeps the types. *)
LEMMA NextTypes ==
  ASSUME TypeOK, [Next]_vars
  PROVE  TypeOK'
<1>1. CASE UNCHANGED vars
  BY <1>1 DEF TypeOK, vars, dbVars
<1>2. ASSUME NEW t \in Handler, Abandon(t)
      PROVE  TypeOK'
  BY <1>2, LeaveTypes DEF TypeOK, Abandon, Task, dbVars
<1>3. ASSUME NEW v \in defined, Visit(v)
      PROVE  TypeOK'
  <2>1. v \in VM /\ Monitor \in Task /\ "policy" \in Kind
    BY LockConstants DEF TypeOK, Task
  <2>2. <<Take(Own(v))>> \in Seq(Step)
    BY <2>1, Steps, Libraries
  <2> QED BY <1>3, <2>1, <2>2, BeginTypes DEF Visit
<1> QED BY <1>1, <1>2, <1>3, AskTypes, RunTypes DEF Next

(* The initial state has the types. *)
LEMMA InitTypes == Init => TypeOK
  BY LockConstants DEF Init, TypeOK, Nothing, Request, Task

(* The state of requests, mutexes and database has its types, always. *)
THEOREM LocksTypeCorrect == Spec => []TypeOK
  BY InitTypes, NextTypes, PTL DEF Spec

-----------------------------------------------------------------------------
(* One order of the mutexes leaves no circle *)

(* The VMs whose mutexes come after that of v. *)
Above(v) == {u \in VM : v < u}

(* Of finitely many VMs, one has the highest id. *)
LEMMA Highest ==
  ASSUME NEW A \in SUBSET VM, A # {}
  PROVE  \E v \in A : \A u \in A : u <= v
<1> DEFINE up == {Above(v) : v \in A}
<1>1. IsWellFoundedOn(StrictSubsetOrdering(VM), FiniteSubsetsOf(VM))
  BY FS_StrictSubsetOrderingWellFounded
<1>2. up \subseteq FiniteSubsetsOf(VM) /\ up # {}
  <2>1. \A v \in A : Above(v) \in SUBSET VM
    BY DEF Above
  <2>2. FiniteSubsetsOf(VM) = SUBSET VM
    BY LockConstants, FS_FiniteSubsetsOfFinite
  <2> QED BY <2>1, <2>2
<1> HIDE DEF up
<1>3. PICK x \in up : \A y \in up : <<y, x>> \notin StrictSubsetOrdering(VM)
  BY <1>1, <1>2, WFMin
<1>4. PICK v \in A : x = Above(v)
  BY <1>3 DEF up
<1>5. ASSUME NEW u \in A, v < u
      PROVE  FALSE
  <2>0. VM \subseteq Nat /\ u \in Nat /\ v \in Nat
    BY LockConstants
  <2>1. Above(u) \subseteq Above(v) /\ u \in Above(v) /\ u \notin Above(u)
    <3>1. \A w \in VM : u < w => v < w
      BY <1>5, <2>0
    <3>2. ~(u < u) /\ u \in VM
      BY <2>0
    <3> QED BY <3>1, <3>2, <1>5 DEF Above
  <2>2. <<Above(u), x>> \in StrictSubsetOrdering(VM)
    BY <2>1, <1>4 DEF StrictSubsetOrdering, Above
  <2> QED BY <2>2, <1>3 DEF up
<1> QED BY <1>5, LockConstants

(* The levels of all mutexes. *)
LEMMA Levels ==
  /\ Level(Catalog) = 0 /\ Level(Snapshots) = 2 /\ Level(Assets) = 3
  /\ Level(Kernels) = 4 /\ Level(Networks) = 5
  /\ \A v \in VM : Level(Own(v)) = 1 /\ Own(v)[2] = v
  BY DEF Level, Catalog, Snapshots, Assets, Kernels, Networks, Own

(* A mutex is that of a library or that of a VM. *)
LEMMA MutexCases ==
  \A m \in Mutex : \/ m \in {Catalog, Assets, Kernels, Networks, Snapshots}
                   \/ \E v \in VM : m = Own(v)
  BY DEF Mutex

(* In no set of mutexes has each another one above it. *)
LEMMA NoEndlessAscent ==
  ASSUME NEW M \in SUBSET Mutex, \A m \in M : \E n \in M : Before(m, n)
  PROVE  M = {}
<1>1. Networks \notin M
  BY Levels, MutexCases DEF Before
<1>2. Kernels \notin M
  BY <1>1, Levels, MutexCases DEF Before
<1>3. Assets \notin M
  BY <1>1, <1>2, Levels, MutexCases DEF Before
<1>4. Snapshots \notin M
  BY <1>1, <1>2, <1>3, Levels, MutexCases DEF Before
<1>5. \A v \in VM : Own(v) \notin M
  <2> DEFINE A == {v \in VM : Own(v) \in M}
  <2>1. SUFFICES ASSUME A # {} PROVE FALSE
    OBVIOUS
  <2>2. PICK v \in A : \A u \in A : u <= v
    BY <2>1, Highest
  <2>3. PICK n \in M : Before(Own(v), n)
    OBVIOUS
  <2>4. PICK u \in VM : n = Own(u)
    BY <1>1, <1>2, <1>3, <1>4, <2>3, Levels, MutexCases DEF Before
  <2>5. v < u /\ u <= v
    BY <2>2, <2>3, <2>4, Levels DEF Before
  <2> QED BY <2>5, LockConstants
<1>6. Catalog \notin M
  BY <1>1, <1>2, <1>3, <1>4, <1>5, Levels, MutexCases DEF Before
<1> QED BY <1>1, <1>2, <1>3, <1>4, <1>5, <1>6, MutexCases

(* What a task waits for is a mutex. *)
LEMMA AwaitedTypes ==
  ASSUME TypeOK, NEW t \in Task, NEW m \in Awaited(t)
  PROVE  m \in Mutex
<1>1. CASE Doing(t, "take")
  BY <1>1, OnTypes DEF Awaited, Doing
<1>2. CASE ~Doing(t, "take") /\ Doing(t, "all")
  BY <1>2, OnTypes, Libraries DEF Awaited, Doing
<1> QED BY <1>1, <1>2 DEF Awaited

(* What a task waits for comes after all that it holds. *)
LEMMA AwaitedLast ==
  ASSUME TypeOK, Ascending, NEW t \in Task, NEW m \in Awaited(t), NEW n \in Held(t)
  PROVE  m \in Mutex /\ Before(n, m)
<1> DEFINE s == script[t]
<1>1. s # <<>> /\ s \in Seq(Step) /\ 1 \in DOMAIN s /\ Head(s) = s[1]
  BY TailFacts DEF Awaited, Doing, TypeOK
<1>2. CASE Doing(t, "take")
  BY <1>1, <1>2, OnTypes DEF Ascending, TakesAscend, Awaited, Doing, On
<1>3. CASE ~Doing(t, "take") /\ Doing(t, "all")
  <2>1. PICK v \in On(t) : m = Own(v)
    BY <1>3 DEF Awaited
  <2> QED BY <1>1, <1>3, <2>1, OnTypes, Libraries DEF Ascending, VmsAscend, Doing, On
<1> QED BY <1>2, <1>3 DEF Awaited

(* If all tasks ascend, a circle would make the mutexes awaited in it rise for ever. *)
LEMMA AscendingSuffices == TypeOK /\ Ascending => NoCircularWait
<1> SUFFICES ASSUME TypeOK, Ascending, NEW S \in (SUBSET Task) \ {{}},
                    ~ \E t \in S : \A m \in Awaited(t) : holder[m] \notin S
             PROVE  FALSE
  BY DEF NoCircularWait
<1> DEFINE M == {m \in Mutex : holder[m] \in S /\ \E t \in S : m \in Awaited(t)}
<1>1. ASSUME NEW t \in S, NEW m \in Awaited(t)
      PROVE  m \in Mutex
  BY <1>1, AwaitedTypes
<1>2. \A m \in M : \E n \in M : Before(m, n)
  <2> TAKE m \in M
  <2>1. PICK n \in Awaited(holder[m]) : holder[n] \in S
    OBVIOUS
  <2> QED BY <1>1, <2>1, AwaitedLast DEF Held
<1>3. M # {}
  BY <1>1
<1> QED BY <1>2, <1>3, NoEndlessAscent

-----------------------------------------------------------------------------
(* Every script climbs, and every step keeps what is left of it climbing *)

(* The parts of a step; the records need not be expanded after this. *)
LEMMA StepFacts ==
  /\ \A m : Take(m).do = "take" /\ Take(m).on = m
  /\ \A m : Drop(m).do = "drop" /\ Drop(m).on = m
  /\ \A vms : TakeAll(vms).do = "all" /\ TakeAll(vms).on = vms
  /\ Read.do = "read" /\ Check.do = "check"
  BY DEF Take, Drop, TakeAll, Read, Check

(* What TakesAscend says of the script of a task that holds nothing. *)
Climbs(s) ==
  /\ \A i \in DOMAIN s : s[i].do # "all"
  /\ \A i, j \in DOMAIN s : j < i /\ s[i].do = "take" /\ s[j].do = "take"
       => Before(s[j].on, s[i].on) \/ s[j + 1] = Drop(s[j].on)

(* The longer scripts climb; Duplicate does not. *)
LEMMA ScriptsClimb ==
  /\ Climbs(Define)
  /\ \A v \in VM : Climbs(Update(v)) /\ Climbs(Delete(v)) /\ Climbs(Start(v)) /\ Climbs(Restore(v))
  /\ \A m \in Mutex : Climbs(Add(m))
<1>1. Climbs(Define)
  BY Levels DEF Climbs, Define, Before, Take, Drop, Check
<1>2. ASSUME NEW v \in VM
      PROVE  Climbs(Update(v)) /\ Climbs(Delete(v))
  BY Levels DEF Climbs, Update, Delete, Before, Take, Drop, Check
<1>3. ASSUME NEW v \in VM
      PROVE  Climbs(Start(v)) /\ Climbs(Restore(v))
  BY Levels DEF Climbs, Start, Restore, Before, Take, Drop
<1>4. ASSUME NEW m \in Mutex
      PROVE  Climbs(Add(m))
  BY DEF Climbs, Add, Take, Drop
<1> QED BY <1>1, <1>2, <1>3, <1>4

(* So do the short ones. *)
LEMMA ShortScriptsClimb ==
  /\ \A v \in VM : /\ Climbs(<<Take(Catalog), Take(Own(v)), Check>>)
                   /\ Climbs(<<Take(Own(v)), Take(Snapshots)>>)
                   /\ Climbs(<<Take(Own(v)), Take(Assets), Take(Kernels)>>)
                   /\ Climbs(<<Take(Own(v))>>)
  /\ Climbs(<<Take(Catalog), Read>>)
  /\ \A m \in Mutex : Climbs(<<Take(m), Check>>)
  BY Levels DEF Climbs, Before, Take, Check, Read

(* Ascending, of one task. *)
AscendsOf(t) == (Idle(t) => Held(t) = {} /\ script[t] = <<>>) /\ TakesAscend(t) /\ VmsAscend(t)

(* A script that climbs ascends when it begins. *)
LEMMA FreshAscends ==
  ASSUME NEW t \in Task, NEW s \in Seq(Step), Climbs(s), Held(t)' = {}, script'[t] = s,
         req'[t].op # "none", req'[t].op = "save" => Len(s) = 2 /\ s[1] = Take(Catalog)
  PROVE  AscendsOf(t)'
<1>2. TakesAscend(t)'
  BY DEF TakesAscend, Climbs
<1>3. VmsAscend(t)'
  <2>1. \A i \in DOMAIN script'[t] : script'[t][i].do # "all"
    BY DEF Climbs
  <2>2. CASE req'[t].op = "save"
    <3>1. \A i \in DOMAIN s : i = 1 \/ i = 2
      BY <2>2
    <3>2. \A i \in DOMAIN s : s[i].do = "read" => i = 2
      BY <2>2, <3>1, StepFacts
    <3>3. \A j \in DOMAIN s : j < 2 => s[j] = Take(Catalog)
      BY <2>2, <3>1
    <3> QED BY <2>1, <2>2, <3>2, <3>3 DEF VmsAscend
  <2>3. CASE req'[t].op # "save"
    BY <2>1, <2>3 DEF VmsAscend
  <2> QED BY <2>2, <2>3
<1> QED BY <1>2, <1>3 DEF AscendsOf, Idle

(* So does the task that begins it. *)
LEMMA BeginAscends ==
  ASSUME TypeOK, NEW t \in Task, AscendsOf(t),
         NEW op, NEW v, NEW kind, NEW want, NEW steps \in Seq(Step),
         Climbs(steps), Begin(t, op, v, kind, want, steps),
         op # "none", op = "save" => Len(steps) = 2 /\ steps[1] = Take(Catalog)
  PROVE  AscendsOf(t)'
<1>1. Held(t)' = {} /\ script'[t] = steps /\ req'[t].op = op
  BY DEF Begin, AscendsOf, Held, TypeOK
<1> QED BY <1>1, FreshAscends

(* A task whose script stands still, and that takes nothing, keeps ascending. *)
LEMMA OthersAscend ==
  ASSUME NEW u \in Task, AscendsOf(u),
         script'[u] = script[u], req'[u] = req[u], Held(u)' \subseteq Held(u)
  PROVE  AscendsOf(u)'
<1>1. Idle(u)' => Held(u)' = {} /\ script'[u] = <<>>
  BY DEF AscendsOf, Idle
<1>2. TakesAscend(u)'
  BY DEF AscendsOf, TakesAscend
<1>3. VmsAscend(u)'
  BY DEF AscendsOf, VmsAscend
<1> QED BY <1>1, <1>2, <1>3 DEF AscendsOf

(* A handler that returns holds nothing and has nothing to take. *)
LEMMA LeaveAscends ==
  ASSUME TypeOK, NEW t \in Task, Leave(t)
  PROVE  AscendsOf(t)'
<1>1. script'[t] = <<>> /\ req'[t].op = "none" /\ Held(t)' = {}
  BY LockConstants DEF Leave, Held, TypeOK, Nothing, Task
<1> QED BY <1>1 DEF AscendsOf, Idle, TakesAscend, VmsAscend

(* Taking a mutex keeps the rest of the script above all that is held. *)
LEMMA AcquireAscends ==
  ASSUME TypeOK, NEW t \in Task, AscendsOf(t), Acquire(t)
  PROVE  AscendsOf(t)'
<1> DEFINE s == script[t]
<1>1. /\ s \in Seq(Step) /\ s # <<>> /\ s[1].do = "take" /\ On(t) = s[1].on /\ On(t) \in Mutex
      /\ script'[t] = Tail(s) /\ req' = req /\ Held(t)' = Held(t) \cup {On(t)}
  BY TailFacts, OnTypes DEF TypeOK, Acquire, Doing, GoOn, Held, On
<1> HIDE DEF s
<1>2. /\ Len(s) \in Nat /\ DOMAIN s = 1..Len(s) /\ 1 \in DOMAIN s
      /\ Len(Tail(s)) = Len(s) - 1 /\ DOMAIN Tail(s) = 1..(Len(s) - 1)
      /\ \A i \in DOMAIN Tail(s) : i + 1 \in DOMAIN s /\ i + 1 > 1 /\ Tail(s)[i] = s[i + 1]
  BY <1>1, TailFacts
<1>3. ~Idle(t)
  BY <1>1 DEF AscendsOf, s
<1>4. TakesAscend(t)'
  <2> SUFFICES
        ASSUME NEW i \in DOMAIN Tail(s), Tail(s)[i].do = "take"
        PROVE  /\ \A m \in Held(t)' : Before(m, Tail(s)[i].on) \/ (i > 1 /\ Tail(s)[1] = Drop(m))
               /\ \A j \in DOMAIN Tail(s) : j < i /\ Tail(s)[j].do = "take" =>
                    Before(Tail(s)[j].on, Tail(s)[i].on) \/ Tail(s)[j + 1] = Drop(Tail(s)[j].on)
    BY <1>1 DEF TakesAscend, s
  <2>1. i + 1 \in DOMAIN s /\ Tail(s)[i] = s[i + 1] /\ i \in Nat /\ 1 < i + 1
    BY <1>1, <1>2
  <2>2. ASSUME NEW m \in Held(t)
        PROVE  Before(m, Tail(s)[i].on)
    BY <1>1, <2>1, StepFacts DEF AscendsOf, TakesAscend, s
  <2>3. Before(On(t), Tail(s)[i].on) \/ s[1 + 1] = Drop(On(t))
    BY <1>1, <1>2, <2>1 DEF AscendsOf, TakesAscend, s
  <2>4. s[1 + 1] = Drop(On(t)) => i > 1 /\ Tail(s)[1] = Drop(On(t))
    BY <1>1, <1>2, <2>1, StepFacts
  <2>5. ASSUME NEW j \in DOMAIN Tail(s), j < i, Tail(s)[j].do = "take"
        PROVE  Before(Tail(s)[j].on, Tail(s)[i].on) \/ Tail(s)[j + 1] = Drop(Tail(s)[j].on)
    <3>1. j + 1 \in DOMAIN s /\ j + 1 < i + 1 /\ s[j + 1].do = "take" /\ j + 1 \in DOMAIN Tail(s)
          /\ Tail(s)[j] = s[j + 1] /\ Tail(s)[j + 1] = s[(j + 1) + 1]
      BY <1>1, <1>2, <2>1, <2>5
    <3> QED BY <2>1, <3>1 DEF AscendsOf, TakesAscend, s
  <2> QED BY <1>1, <2>2, <2>3, <2>4, <2>5
<1>5. VmsAscend(t)'
  <2>1. ASSUME NEW i \in DOMAIN Tail(s), Tail(s)[i].do = "all"
        PROVE  FALSE
    <3>1. i + 1 \in DOMAIN s /\ s[i + 1].do = "all" /\ Len(s) # 1
      BY <1>2, <2>1
    <3> QED BY <3>1 DEF AscendsOf, VmsAscend, s
  <2>2. ASSUME req[t].op = "save", NEW i \in DOMAIN Tail(s), Tail(s)[i].do = "read"
        PROVE  /\ i = Len(Tail(s)) /\ Held(t)' \subseteq {Catalog}
               /\ \A j \in DOMAIN Tail(s) : j < i => Tail(s)[j] = Take(Catalog)
    <3>1. i + 1 \in DOMAIN s /\ s[i + 1].do = "read" /\ 1 < i + 1
      BY <1>2, <2>2
    <3>2. i + 1 = Len(s) /\ Held(t) \subseteq {Catalog} /\ s[1] = Take(Catalog)
      BY <1>2, <2>2, <3>1 DEF AscendsOf, VmsAscend, s
    <3>3. \A j \in DOMAIN Tail(s) : j < i => s[j + 1] = Take(Catalog)
      <4> SUFFICES ASSUME NEW j \in DOMAIN Tail(s), j < i PROVE s[j + 1] = Take(Catalog)
        OBVIOUS
      <4>1. j + 1 \in DOMAIN s /\ j + 1 < i + 1
        BY <1>2
      <4> QED BY <2>2, <3>1, <4>1 DEF AscendsOf, VmsAscend, s
    <3> QED BY <1>1, <1>2, <3>1, <3>2, <3>3, StepFacts
  <2> QED BY <1>1, <2>1, <2>2 DEF VmsAscend
<1> QED BY <1>1, <1>3, <1>4, <1>5 DEF AscendsOf, Idle

(* So does taking the lowest of the VMs of a shared update. *)
LEMMA AcquireNextAscends ==
  ASSUME TypeOK, NEW t \in Task, AscendsOf(t), AcquireNext(t)
  PROVE  AscendsOf(t)'
<1>1. PICK v \in On(t) : /\ \A u \in On(t) : v <= u
                         /\ holder' = [holder EXCEPT ![Own(v)] = t]
                         /\ script' = [script EXCEPT ![t] = <<TakeAll(On(t) \ {v})>>]
  BY DEF AcquireNext
<1>2. /\ script[t] # <<>> /\ 1 \in DOMAIN script[t]
      /\ script[t][1].do = "all" /\ On(t) = script[t][1].on /\ On(t) \in SUBSET VM
  BY TailFacts, OnTypes DEF TypeOK, AcquireNext, Doing, On
<1>3. Held(t)' = Held(t) \cup {Own(v)} /\ req' = req
  BY <1>1, <1>2, Libraries DEF TypeOK, Held, AcquireNext
<1> DEFINE s == <<TakeAll(On(t) \ {v})>>
<1>4. script'[t] = s
  BY <1>1 DEF TypeOK
<1>5. /\ Len(s) = 1 /\ DOMAIN s = {1} /\ s[1].do = "all" /\ s[1].on = On(t) \ {v}
  BY StepFacts
<1> HIDE DEF s
<1>6. ~Idle(t)
  BY <1>2 DEF AscendsOf
<1>7. ASSUME NEW m \in Held(t)', NEW u \in On(t) \ {v}
      PROVE  Before(m, Own(u))
  <2>1. CASE m \in Held(t)
    BY <1>2, <2>1 DEF AscendsOf, VmsAscend
  <2>2. CASE m = Own(v)
    <3>1. v < u /\ u \in VM /\ v \in VM
      BY <1>1, <1>2, LockConstants
    <3> QED BY <2>2, <3>1, Levels DEF Before
  <2> QED BY <1>3, <2>1, <2>2
<1>8. VmsAscend(t)'
  BY <1>4, <1>5, <1>7 DEF VmsAscend
<1>9. TakesAscend(t)'
  BY <1>4, <1>5 DEF TakesAscend
<1> QED BY <1>3, <1>6, <1>8, <1>9 DEF AscendsOf, Idle

(* A step that takes nothing leaves a script that ascends. *)
LEMMA ShorterAscends ==
  ASSUME TypeOK, NEW t \in Task, AscendsOf(t), script[t] # <<>>, script'[t] = Tail(script[t]),
         req'[t].op = req[t].op, Held(t)' \subseteq Held(t),
         script[t][1].do = "drop" => script[t][1].on \notin Held(t)',
         script[t][1].do # "take"
  PROVE  AscendsOf(t)'
<1> DEFINE s == script[t]
<1>1. s \in Seq(Step) /\ s # <<>> /\ script'[t] = Tail(s)
  BY DEF TypeOK
<1> HIDE DEF s
<1>2. /\ Len(s) \in Nat /\ DOMAIN s = 1..Len(s) /\ 1 \in DOMAIN s
      /\ Len(Tail(s)) = Len(s) - 1 /\ DOMAIN Tail(s) = 1..(Len(s) - 1)
      /\ \A i \in DOMAIN Tail(s) : i + 1 \in DOMAIN s /\ i + 1 > 1 /\ Tail(s)[i] = s[i + 1]
  BY <1>1, TailFacts
<1>3. ~Idle(t)
  BY <1>1 DEF AscendsOf, s
<1>4. TakesAscend(t)'
  <2> SUFFICES
        ASSUME NEW i \in DOMAIN Tail(s), Tail(s)[i].do = "take"
        PROVE  /\ \A m \in Held(t)' : Before(m, Tail(s)[i].on) \/ (i > 1 /\ Tail(s)[1] = Drop(m))
               /\ \A j \in DOMAIN Tail(s) : j < i /\ Tail(s)[j].do = "take" =>
                    Before(Tail(s)[j].on, Tail(s)[i].on) \/ Tail(s)[j + 1] = Drop(Tail(s)[j].on)
    BY <1>1 DEF TakesAscend, s
  <2>1. i + 1 \in DOMAIN s /\ Tail(s)[i] = s[i + 1] /\ i \in Nat /\ 1 < i + 1
    BY <1>1, <1>2
  <2>2. ASSUME NEW m \in Held(t)'
        PROVE  Before(m, Tail(s)[i].on)
    <3>1. m \in Held(t) /\ s[1] # Drop(m)
      BY StepFacts DEF s
    <3> QED BY <2>1, <3>1 DEF AscendsOf, TakesAscend, s
  <2>5. ASSUME NEW j \in DOMAIN Tail(s), j < i, Tail(s)[j].do = "take"
        PROVE  Before(Tail(s)[j].on, Tail(s)[i].on) \/ Tail(s)[j + 1] = Drop(Tail(s)[j].on)
    <3>1. j + 1 \in DOMAIN s /\ j + 1 < i + 1 /\ s[j + 1].do = "take" /\ j + 1 \in DOMAIN Tail(s)
          /\ Tail(s)[j] = s[j + 1] /\ Tail(s)[j + 1] = s[(j + 1) + 1]
      BY <1>1, <1>2, <2>1, <2>5
    <3> QED BY <2>1, <3>1 DEF AscendsOf, TakesAscend, s
  <2> QED BY <2>2, <2>5
<1>5. VmsAscend(t)'
  <2>1. ASSUME NEW i \in DOMAIN Tail(s), Tail(s)[i].do = "all"
        PROVE  FALSE
    <3>1. i + 1 \in DOMAIN s /\ s[i + 1].do = "all" /\ Len(s) # 1
      BY <1>2, <2>1
    <3> QED BY <3>1 DEF AscendsOf, VmsAscend, s
  <2>2. ASSUME req[t].op = "save", NEW i \in DOMAIN Tail(s), Tail(s)[i].do = "read"
        PROVE  FALSE
    <3>1. i + 1 \in DOMAIN s /\ s[i + 1].do = "read" /\ 1 < i + 1
      BY <1>2, <2>2
    <3>2. s[1] = Take(Catalog)
      BY <1>2, <2>2, <3>1 DEF AscendsOf, VmsAscend, s
    <3> QED BY <3>2, StepFacts DEF s
  <2> QED BY <1>1, <2>1, <2>2 DEF VmsAscend, s
<1> QED BY <1>1, <1>3, <1>4, <1>5 DEF AscendsOf, Idle

(* When a shared update lists its VMs, it holds the catalog, which is below them all. *)
LEMMA SharedUpdateAscends ==
  ASSUME TypeOK, NEW t \in Task, AscendsOf(t), NEW vms \in SUBSET VM,
         script[t] # <<>>, script[t][1].do = "read",
         req[t].op = "save", NEW s \in Seq(Step), Len(s) = 1, s[1] = TakeAll(vms),
         script'[t] = s, req' = req, holder' = holder
  PROVE  AscendsOf(t)'
<1>1. 1 \in DOMAIN script[t]
  BY TailFacts DEF TypeOK
<1>2. Held(t)' \subseteq {Catalog}
  BY <1>1 DEF AscendsOf, VmsAscend, Held
<1>3. DOMAIN s = {1} /\ s[1].do = "all" /\ s[1].on = vms
  BY StepFacts
<1>4. script'[t] = s
  OBVIOUS
<1>5. TakesAscend(t)'
  BY <1>3, <1>4 DEF TakesAscend
<1>6. VmsAscend(t)'
  <2>1. ASSUME NEW v \in vms
        PROVE  Before(Catalog, Own(v))
    <3>1. v \in VM
      OBVIOUS
    <3> QED BY <3>1, Levels DEF Before
  <2> QED BY <1>2, <1>3, <1>4, <2>1 DEF VmsAscend
<1>7. ~Idle(t)
  BY DEF AscendsOf
<1> QED BY <1>5, <1>6, <1>7 DEF AscendsOf, Idle

(* What a task does is no business of the others: they keep script and request. *)
LEMMA RunIsLocal ==
  ASSUME TypeOK, NEW t \in Task, Run(t) \/ Abandon(t), NEW u \in Task \ {t}
  PROVE  script'[u] = script[u] /\ req'[u] = req[u] /\ Held(u)' \subseteq Held(u)
<1>0. NoOne \notin Task
  BY LockConstants DEF Task
<1>1. CASE Leave(t)
  BY <1>0, <1>1 DEF TypeOK, Leave, Held
<1>2. CASE Acquire(t) \/ AllAcquired(t)
  BY <1>2, OnTypes DEF TypeOK, Acquire, AllAcquired, GoOn, Held, Doing
<1>3. CASE AcquireNext(t)
  BY <1>3, OnTypes, Libraries DEF TypeOK, AcquireNext, Held, Doing
<1>4. CASE GiveBack(t)
  BY <1>0, <1>4, OnTypes DEF TypeOK, GiveBack, GoOn, Held, Doing
<1>5. CASE ReadRows(t) \/ CheckRows(t) \/ Finish(t) \/ Abandon(t)
  BY <1>1, <1>5 DEF TypeOK, ReadRows, CheckRows, Finish, Abandon, GoOn, Held
<1> QED BY <1>2, <1>3, <1>4, <1>5 DEF Run

(* Every step of a task keeps it ascending. *)
LEMMA RunAscends ==
  ASSUME TypeOK, "duplicate" \notin Operation, NEW t \in Task, AscendsOf(t), Run(t) \/ Abandon(t)
  PROVE  AscendsOf(t)'
<1>1. CASE Acquire(t) \/ AcquireNext(t)
  BY <1>1, AcquireAscends, AcquireNextAscends
<1>2. CASE Leave(t)
  BY <1>2, LeaveAscends
<1>3. CASE AllAcquired(t) \/ (CheckRows(t) /\ ~Leave(t))
  <2>1. script[t] # <<>> /\ script'[t] = Tail(script[t]) /\ script[t][1].do \in {"all", "check"}
        /\ req' = req /\ Held(t)' = Held(t)
    BY <1>3, TailFacts DEF TypeOK, AllAcquired, CheckRows, Doing, GoOn, Held
  <2> QED BY <2>1, ShorterAscends
<1>4. CASE GiveBack(t)
  <2>1. script[t] # <<>> /\ script'[t] = Tail(script[t]) /\ script[t][1].do = "drop"
        /\ req' = req /\ Held(t)' \subseteq Held(t) /\ script[t][1].on \notin Held(t)'
    BY <1>4, TailFacts, OnTypes, LockConstants DEF TypeOK, GiveBack, Doing, GoOn, Held, On, Task
  <2> QED BY <2>1, ShorterAscends
<1>5. CASE ReadRows(t) /\ ~Leave(t)
  <2>1. req[t].op = "save" /\ UNCHANGED <<req, holder>> /\ Doing(t, "read")
        /\ script' = [script EXCEPT ![t] = <<TakeAll({v \in defined : "policy" \in refs[v]})>>]
    <3>1. req[t].op # "duplicate"
      BY DEF TypeOK, Request
    <3> QED BY <1>5, <3>1 DEF ReadRows
  <2> DEFINE vms == {v \in defined : "policy" \in refs[v]}
             s   == <<TakeAll(vms)>>
  <2>2. vms \in SUBSET VM
    BY DEF TypeOK
  <2>3. s \in Seq(Step) /\ Len(s) = 1 /\ s[1] = TakeAll(vms)
    BY <2>2, Steps
  <2>5. script[t] # <<>> /\ script[t][1].do = "read"
    BY <2>1, TailFacts DEF TypeOK, Doing
  <2>4. script'[t] = s /\ req' = req /\ holder' = holder
    BY <2>1 DEF TypeOK
  <2> HIDE DEF vms, s
  <2> QED BY <2>1, <2>2, <2>3, <2>4, <2>5, SharedUpdateAscends
<1> QED BY <1>1, <1>2, <1>3, <1>4, <1>5 DEF Run, Finish, Abandon, ReadRows, CheckRows

(* A handler that is asked for any operation but duplicate ascends. *)
LEMMA AskAscends ==
  ASSUME TypeOK, "duplicate" \notin Operation, NEW t \in Handler, AscendsOf(t), Ask(t)
  PROVE  AscendsOf(t)'
<1> t \in Task
  BY DEF Task
<1>1. ASSUME NEW op \in Operation, NEW v \in VM, AskVm(t, op, v)
      PROVE  AscendsOf(t)'
  <2>1. CASE op \in {"update", "delete", "start", "restore"}
    BY <1>1, <2>1, Scripts, ScriptsClimb, BeginAscends DEF AskVm
  <2>3. <<Take(Catalog), Take(Own(v)), Check>> \in Seq(Step)
    BY Steps, Libraries
  <2>4. <<Take(Own(v)), Take(Snapshots)>> \in Seq(Step)
    BY Steps, Libraries
  <2>5. <<Take(Own(v)), Take(Assets), Take(Kernels)>> \in Seq(Step)
    BY Steps, Libraries
  <2>6. <<Take(Own(v))>> \in Seq(Step)
    BY Steps, Libraries
  <2>7. CASE op \in {"assign", "capture", "export", "act"}
    BY <1>1, <2>7, <2>3, <2>4, <2>5, <2>6, ShortScriptsClimb, BeginAscends DEF AskVm
  <2> QED BY <1>1, <2>1, <2>7 DEF AskVm
<1>2. ASSUME NEW op \in Operation, AskLibrary(t, op)
      PROVE  AscendsOf(t)'
  <2>1. /\ <<Take(Catalog), Read>> \in Seq(Step)
        /\ Len(<<Take(Catalog), Read>>) = 2 /\ <<Take(Catalog), Read>>[1] = Take(Catalog)
    BY Steps, Libraries
  <2>2. \A kind \in Kind : /\ <<Take(Guard[kind]), Check>> \in Seq(Step)
                           /\ Add(Guard[kind]) \in Seq(Step)
    BY Steps, Scripts, GuardFacts
  <2> QED BY <1>2, <2>1, <2>2, Scripts, ScriptsClimb, ShortScriptsClimb, GuardFacts, BeginAscends
         DEF AskLibrary
<1> QED BY <1>1, <1>2 DEF Ask

(* A task that begins changes no other task. *)
LEMMA BeginIsLocal ==
  ASSUME TypeOK, NEW t \in Task, NEW u \in Task \ {t}, NEW op, NEW v, NEW kind, NEW want, NEW steps,
         Begin(t, op, v, kind, want, steps)
  PROVE  script'[u] = script[u] /\ req'[u] = req[u] /\ Held(u)' \subseteq Held(u)
  BY DEF TypeOK, Begin, Held

(* Nor does a handler that is asked. *)
LEMMA AskIsLocal ==
  ASSUME TypeOK, NEW t \in Handler, Ask(t), NEW u \in Task \ {t}
  PROVE  script'[u] = script[u] /\ req'[u] = req[u] /\ Held(u)' \subseteq Held(u)
<1> t \in Task
  BY DEF Task
<1>1. ASSUME NEW op, NEW v, NEW kind, NEW want, NEW steps, Begin(t, op, v, kind, want, steps)
      PROVE  script'[u] = script[u] /\ req'[u] = req[u] /\ Held(u)' \subseteq Held(u)
  BY <1>1, BeginIsLocal
<1>2. ASSUME NEW op \in Operation, NEW v \in VM, AskVm(t, op, v)
      PROVE  script'[u] = script[u] /\ req'[u] = req[u] /\ Held(u)' \subseteq Held(u)
  BY <1>1, <1>2 DEF AskVm
<1>3. ASSUME NEW op \in Operation, AskLibrary(t, op)
      PROVE  script'[u] = script[u] /\ req'[u] = req[u] /\ Held(u)' \subseteq Held(u)
  BY <1>1, <1>3 DEF AskLibrary
<1> QED BY <1>2, <1>3 DEF Ask

(* Every step keeps all tasks ascending. *)
LEMMA NextAscends ==
  ASSUME TypeOK, "duplicate" \notin Operation, Ascending, [Next]_vars
  PROVE  Ascending'
<1>0. \A t \in Task : AscendsOf(t)
  BY DEF Ascending, AscendsOf
<1> SUFFICES ASSUME NEW u \in Task PROVE AscendsOf(u)'
  BY DEF Ascending, AscendsOf
<1>1. CASE UNCHANGED vars
  BY <1>0, <1>1, OthersAscend DEF vars, Held
<1>2. ASSUME NEW t \in Handler, Ask(t)
      PROVE  AscendsOf(u)'
  BY <1>0, <1>2, AskAscends, AskIsLocal, OthersAscend DEF Task
<1>3. ASSUME NEW t \in Task, Run(t) \/ Abandon(t)
      PROVE  AscendsOf(u)'
  BY <1>0, <1>3, RunAscends, RunIsLocal, OthersAscend
<1>4. ASSUME NEW v \in defined, Visit(v)
      PROVE  AscendsOf(u)'
  <2>1. v \in VM /\ Monitor \in Task
    BY DEF TypeOK, Task
  <2>2. <<Take(Own(v))>> \in Seq(Step)
    BY <2>1, Steps, Libraries
  <2>3. Climbs(<<Take(Own(v))>>)
    BY <2>1, ShortScriptsClimb
  <2> QED BY <1>0, <1>4, <2>1, <2>2, <2>3, BeginAscends, BeginIsLocal, OthersAscend DEF Visit
<1> QED BY <1>1, <1>2, <1>3, <1>4 DEF Next, Task

(* At first nothing is held and nothing is to be taken. *)
LEMMA InitAscends == Init => Ascending
<1>1. NoOne \notin Task
  BY LockConstants DEF Task
<1> QED BY <1>1 DEF Init, Ascending, Held, TakesAscend, VmsAscend, Nothing, Idle

(* No handlers wait for each other in a circle, whichever operations but
   duplicate are asked for, and however many VMs a shared update locks. *)
THEOREM NoCircularWaitAlways ==
  ASSUME "duplicate" \notin Operation
  PROVE  Spec => []NoCircularWait
<1>1. Init => TypeOK /\ Ascending
  BY InitTypes, InitAscends
<1>2. TypeOK /\ Ascending /\ [Next]_vars => (TypeOK /\ Ascending)'
  BY NextTypes, NextAscends
<1>3. TypeOK /\ Ascending => NoCircularWait
  BY AscendingSuffices
<1> QED BY <1>1, <1>2, <1>3, PTL DEF Spec

-----------------------------------------------------------------------------
(* What a request has checked stays true *)

(* The operations that write what they have checked. *)
Checks == {"define", "duplicate", "update", "assign", "remove"}

(* A script at whose end, after the check, all the needs are held. *)
Covers(s, needs) ==
  /\ s # <<>>
  /\ \A i \in DOMAIN s : s[i].do \in {"take", "read", "check"}
  /\ \A i \in DOMAIN s : s[i].do = "check" <=> i = Len(s)
  /\ \A m \in needs : \E i \in DOMAIN s : s[i] = Take(m)

(* The mutexes of all catalogs. *)
Guards == {Guard[k] : k \in Kind}

(* They are among those that definitions take. *)
LEMMA GuardsAre == Guards \subseteq {Catalog, Assets, Kernels, Networks}
  BY LockConstants DEF Guards, Guard

(* The scripts of Checks take all that they need, and check at the end. *)
LEMMA ScriptsCover ==
  /\ Covers(Define, Guards)
  /\ \A v \in VM : Covers(Duplicate(v), Guards) /\ Covers(Update(v), Guards)
  /\ \A v \in VM : Covers(<<Take(Catalog), Take(Own(v)), Check>>, {Catalog})
  /\ \A m \in Mutex : Covers(<<Take(m), Check>>, {m})
<1>1. Covers(Define, Guards)
  <2>1. /\ Len(Define) = 5 /\ DOMAIN Define = {1, 2, 3, 4, 5}
        /\ Define[1] = Take(Catalog) /\ Define[2] = Take(Assets) /\ Define[3] = Take(Kernels)
        /\ Define[4] = Take(Networks) /\ Define[5] = Check /\ Define # <<>>
    BY DEF Define
  <2> QED BY <2>1, GuardsAre, StepFacts DEF Covers
<1>2. ASSUME NEW v \in VM
      PROVE  Covers(Update(v), Guards)
  <2> DEFINE s == Update(v)
  <2>1. /\ Len(s) = 6 /\ DOMAIN s = {1, 2, 3, 4, 5, 6}
        /\ s[1] = Take(Catalog) /\ s[2] = Take(Own(v)) /\ s[3] = Take(Assets)
        /\ s[4] = Take(Kernels)
        /\ s[5] = Take(Networks) /\ s[6] = Check /\ s # <<>>
    BY DEF Update
  <2> HIDE DEF s
  <2>2. Covers(s, Guards)
    BY <2>1, GuardsAre, StepFacts DEF Covers
  <2> QED BY <2>2 DEF s
<1>3. ASSUME NEW v \in VM
      PROVE  Covers(Duplicate(v), Guards)
  <2> DEFINE s == Duplicate(v)
  <2>1. /\ Len(s) = 7 /\ DOMAIN s = {1, 2, 3, 4, 5, 6, 7}
        /\ s[1] = Take(Own(v)) /\ s[2] = Read /\ s[3] = Take(Catalog) /\ s[4] = Take(Assets)
        /\ s[5] = Take(Kernels) /\ s[6] = Take(Networks) /\ s[7] = Check /\ s # <<>>
    BY DEF Duplicate, Define
  <2> HIDE DEF s
  <2>2. Covers(s, Guards)
    BY <2>1, GuardsAre, StepFacts DEF Covers
  <2> QED BY <2>2 DEF s
<1>4. ASSUME NEW v \in VM
      PROVE  Covers(<<Take(Catalog), Take(Own(v)), Check>>, {Catalog})
  BY StepFacts DEF Covers
<1>5. ASSUME NEW m \in Mutex
      PROVE  Covers(<<Take(m), Check>>, {m})
  BY StepFacts DEF Covers
<1> QED BY <1>1, <1>2, <1>3, <1>4, <1>5

(* A task that begins such a script satisfies Checked. *)
LEMMA BeginChecked ==
  ASSUME TypeOK, NEW t \in Task, NEW op, NEW v, NEW kind, NEW want, NEW steps,
         Begin(t, op, v, kind, want, steps),
         op \in Checks => /\ Covers(steps, IF op = "assign" THEN {Catalog}
                                         ELSE IF op = "remove" THEN {Guard[kind]} ELSE Guards)
                          /\ op = "assign" => want \subseteq {"policy"}
  PROVE  Checked(t)'
<1>1. /\ script'[t] = steps
      /\ req'[t].op = op /\ req'[t].kind = kind /\ req'[t].want = want
  BY DEF TypeOK, Begin
<1>2. Needs(req'[t]) = IF op = "assign" THEN {Catalog}
                       ELSE IF op = "remove" THEN {Guard[kind]} ELSE Guards
  BY <1>1 DEF Needs, Guards
<1> QED BY <1>1, <1>2 DEF Checked, Checks, Covers

(* So does a handler that is asked for any operation. *)
LEMMA AskChecked ==
  ASSUME TypeOK, NEW t \in Handler, Ask(t)
  PROVE  Checked(t)'
<1> t \in Task
  BY DEF Task
<1>1. ASSUME NEW op \in Operation, NEW v \in VM, AskVm(t, op, v)
      PROVE  Checked(t)'
  BY <1>1, ScriptsCover, BeginChecked DEF AskVm, Checks
<1>2. ASSUME NEW op \in Operation, AskLibrary(t, op)
      PROVE  Checked(t)'
  BY <1>2, ScriptsCover, GuardFacts, BeginChecked DEF AskLibrary, Checks
<1> QED BY <1>1, <1>2 DEF Ask

(* A task stays Checked while its needs stay held and what it has found stays true. *)
LEMMA OthersChecked ==
  ASSUME NEW u \in Task, Checked(u), script'[u] = script[u], req'[u] = req[u],
         \A m \in Needs(req[u]) : holder[m] = u => holder'[m] = u,
         req[u].op \in Checks /\ script[u] = <<>> => Valid(req[u])'
  PROVE  Checked(u)'
  BY DEF Checked, Checks, Valid

(* A handler that returns has nothing to write. *)
LEMMA LeaveChecked ==
  ASSUME TypeOK, NEW t \in Task, Leave(t)
  PROVE  Checked(t)'
<1>1. req'[t].op = "none"
  BY DEF TypeOK, Leave, Nothing
<1> QED BY <1>1 DEF Checked

(* A sequence with an empty rest has one element. *)
LEMMA LastTail ==
  ASSUME NEW s \in Seq(Step), s # <<>>, Tail(s) = <<>>
  PROVE  Len(s) = 1
<1>1. Len(Tail(s)) = Len(s) - 1 /\ Len(s) \in Nat /\ Len(s) > 0
  BY TailFacts
<1>2. Len(<<>>) = 0
  OBVIOUS
<1> QED BY <1>1, <1>2

(* A step of a script that takes its mutex, or finds its check fulfilled. *)
LEMMA ShorterChecked ==
  ASSUME TypeOK, NEW t \in Task, Checked(t), script[t] # <<>>, script'[t] = Tail(script[t]),
         req'[t].op = req[t].op, Needs(req'[t]) = Needs(req[t]),
         req[t].op = "assign" => req'[t].want = req[t].want,
         \A m \in Needs(req[t]) : holder[m] = t \/ script[t][1] = Take(m) => holder'[m] = t,
         script[t][1].do = "check" => Valid(req[t])'
  PROVE  Checked(t)'
<1> SUFFICES ASSUME req[t].op \in Checks PROVE Checked(t)'
  BY DEF Checked, Checks
<1> DEFINE s == script[t]
<1>1. s \in Seq(Step) /\ s # <<>> /\ script'[t] = Tail(s)
  BY DEF TypeOK
<1>0. /\ \A i \in DOMAIN s : s[i].do \in {"take", "read", "check"}
      /\ \A i \in DOMAIN s : s[i].do = "check" <=> i = Len(s)
      /\ \A m \in Needs(req[t]) : holder[m] = t \/ \E i \in DOMAIN s : s[i] = Take(m)
      /\ req[t].op = "assign" => req[t].want \subseteq {"policy"}
  BY DEF Checked, Checks
<1> HIDE DEF s
<1>2. /\ Len(s) \in Nat /\ DOMAIN s = 1..Len(s) /\ 1 \in DOMAIN s
      /\ Tail(s) \in Seq(Step) /\ Len(Tail(s)) = Len(s) - 1 /\ DOMAIN Tail(s) = 1..(Len(s) - 1)
      /\ \A i \in DOMAIN Tail(s) : i + 1 \in DOMAIN s /\ Tail(s)[i] = s[i + 1]
  BY <1>1, TailFacts
<1>3. \A i \in DOMAIN Tail(s) : Tail(s)[i].do \in {"take", "read", "check"}
  BY <1>0, <1>2
<1>4. ASSUME NEW i \in DOMAIN Tail(s)
      PROVE  Tail(s)[i].do = "check" <=> i = Len(Tail(s))
  <2>1. i \in Nat /\ Len(s) \in Nat /\ Len(Tail(s)) = Len(s) - 1
    BY <1>2
  <2>2. i + 1 = Len(s) <=> i = Len(Tail(s))
    BY <2>1
  <2> QED BY <1>0, <1>2, <2>2
<1>5. ASSUME NEW m \in Needs(req[t])
      PROVE  holder'[m] = t \/ \E i \in DOMAIN Tail(s) : Tail(s)[i] = Take(m)
  <2>1. CASE holder[m] = t \/ s[1] = Take(m)
    BY <2>1 DEF s
  <2>2. ASSUME NEW i \in DOMAIN s, s[i] = Take(m), i # 1
        PROVE  \E j \in DOMAIN Tail(s) : Tail(s)[j] = Take(m)
    <3>1. i - 1 \in DOMAIN Tail(s) /\ (i - 1) + 1 = i
      BY <1>2, <2>2
    <3>2. Tail(s)[i - 1] = Take(m)
      BY <1>2, <2>2, <3>1
    <3> QED BY <3>1, <3>2
  <2> QED BY <1>0, <2>1, <2>2
<1>6. ASSUME Tail(s) = <<>>
      PROVE  Valid(req[t])'
  <2>1. Len(s) = 1
    BY <1>1, <1>6, LastTail
  <2> QED BY <1>0, <1>2, <2>1 DEF s
<1> QED BY <1>0, <1>1, <1>3, <1>4, <1>5, <1>6 DEF Checked, s

(* What a finished task writes it has checked, and it holds what it checked under. *)
LEMMA FinishedHolds ==
  ASSUME Protected, NEW t \in Task, req[t].op \in Checks, script[t] = <<>>
  PROVE  /\ Valid(req[t])
         /\ \A m \in Needs(req[t]) : holder[m] = t
         /\ req[t].op = "assign" => req[t].want \subseteq {"policy"}
  BY DEF Protected, Checked, Checks

(* What a task writes refers to what exists, and what it removes is not referred to. *)
LEMMA FinishKeepsReferences ==
  ASSUME TypeOK, Protected, NEW t \in Task, Finish(t)
  PROVE  ReferencesExist'
<1> DEFINE r == req[t]
<1>1. r \in Request /\ script[t] = <<>>
  BY DEF TypeOK, Finish
<1>2. r.op \in Checks => /\ Valid(r)
                         /\ r.op = "assign" => r.want \subseteq {"policy"}
  BY <1>1, FinishedHolds
<1>3. ReferencesExist
  BY DEF Protected
<1>4. CASE UNCHANGED dbVars
  BY <1>3, <1>4 DEF ReferencesExist, dbVars
<1>5. CASE Exists(r) /\ Write(r)
  <2> HIDE DEF r
  <2>1. ASSUME NEW v \in VM, StoreSpec(r, v), r.op \in {"define", "duplicate", "update"},
               defined' \subseteq defined \cup {v}
        PROVE  ReferencesExist'
    <3>1. r.want \subseteq exists /\ r.op \in Checks
      BY <1>2, <2>1 DEF Valid, Checks
    <3>2. exists \subseteq exists'
      BY <2>1 DEF StoreSpec
    <3>3. refs'[v] \subseteq exists'
      BY <2>1, <3>1 DEF StoreSpec, TypeOK
    <3>4. \A u \in VM \ {v} : refs'[u] = refs[u]
      BY <2>1 DEF StoreSpec, TypeOK
    <3> QED BY <1>3, <2>1, <3>2, <3>3, <3>4 DEF ReferencesExist, TypeOK
  <2>2. CASE r.op \in {"define", "duplicate"}
    BY <1>4, <1>5, <2>1, <2>2 DEF Write
  <2>3. CASE r.op = "update"
    BY <1>5, <2>1, <2>3 DEF Write, Exists, OnVm, TypeOK
  <2>4. CASE r.op = "assign"
    <3>1. r.want \subseteq exists /\ r.vm \in VM
      BY <1>2, <1>5, <2>4 DEF Valid, Checks, Exists, OnVm, TypeOK
    <3> QED BY <1>3, <1>5, <2>4, <3>1 DEF ReferencesExist, Write, Assigned, TypeOK
  <2>5. CASE r.op \in {"delete", "add"}
    BY <1>3, <1>5, <2>5 DEF ReferencesExist, Write, Exists, OnVm, TypeOK
  <2>6. CASE r.op = "remove"
    BY <1>2, <1>3, <1>5, <2>6 DEF ReferencesExist, Write, Valid, Checks
  <2>7. CASE r.op \notin {"define", "duplicate", "update", "assign", "delete", "add", "remove"}
    BY <1>4, <1>5, <2>7 DEF Write
  <2> QED BY <2>2, <2>3, <2>4, <2>5, <2>6, <2>7
<1> QED BY <1>4, <1>5 DEF Finish

(* What a task writes makes nothing untrue that another has checked and is about
   to write: two of them would hold the same mutex. *)
LEMMA FinishKeepsChecks ==
  ASSUME TypeOK, Protected, NEW t \in Task, Finish(t), NEW u \in Task \ {t},
         req[u].op \in Checks, script[u] = <<>>
  PROVE  Valid(req[u])'
<1> DEFINE r == req[t]
           q == req[u]
<1>1. r \in Request /\ q \in Request /\ req'[u] = q
  BY DEF TypeOK, Finish, Leave
<1>2. /\ Valid(q)
      /\ \A m \in Needs(q) : holder[m] = u
      /\ q.op = "assign" => q.want \subseteq {"policy"}
  BY FinishedHolds
<1>3. r.op \in Checks => /\ \A m \in Needs(r) : holder[m] = t
                         /\ r.op = "assign" => r.want \subseteq {"policy"}
  BY FinishedHolds DEF Finish
<1>4. r.op \in Checks => Needs(r) \cap Needs(q) = {}
  BY <1>2, <1>3
<1>5. Valid(req[u])' <=> IF q.op = "remove" THEN \A v \in defined' : q.kind \notin refs'[v]
                         ELSE q.want \subseteq exists'
  BY <1>1 DEF Valid
<1> HIDE DEF r, q
<1>6. CASE UNCHANGED dbVars
  BY <1>2, <1>5, <1>6 DEF Valid, dbVars
<1>7. CASE Write(r) /\ Exists(r)
  <2>1. r.op \notin {"define", "duplicate", "update"} \/ UNCHANGED dbVars
    <3>1. ASSUME r.op \in {"define", "duplicate", "update"} PROVE FALSE
      <4>1. r.op \in Checks /\ Needs(r) = Guards
        BY <3>1 DEF Checks, Needs, Guards
      <4>2. Needs(q) \cap Guards # {}
        <5>1. "policy" \in Kind /\ Catalog \in Guards
          BY GuardFacts, LockConstants DEF Guards
        <5>2. CASE q.op = "assign"
          BY <5>1, <5>2 DEF Needs
        <5>3. CASE q.op = "remove"
          <6>1. q.kind \in Kind
            BY <1>1 DEF Request
          <6> QED BY <5>3, <6>1 DEF Needs, Guards
        <5>4. CASE q.op \notin {"assign", "remove"}
          BY <5>1, <5>4 DEF Needs, Guards
        <5> QED BY <5>2, <5>3, <5>4
      <4> QED BY <1>4, <4>1, <4>2
    <3> QED BY <3>1
  <2>2. CASE r.op = "assign"
    <3>1. r.op \in Checks /\ Needs(r) = {Catalog} /\ r.want \subseteq {"policy"} /\ r.vm \in VM
      BY <1>3, <1>7, <2>2 DEF Checks, Needs, Exists, OnVm, TypeOK
    <3>2. q.op = "remove" /\ q.kind # "policy"
      <4>1. Catalog \notin Needs(q)
        BY <1>4, <3>1
      <4> QED BY <4>1, GuardFacts, LockConstants DEF Needs
    <3>3. refs' = [refs EXCEPT ![r.vm] = Assigned(r)] /\ defined' = defined
      BY <1>7, <2>2 DEF Write
    <3>4. \A v \in VM : q.kind \in refs'[v] => q.kind \in refs[v]
      BY <3>1, <3>2, <3>3 DEF Assigned, TypeOK
    <3>5. defined \subseteq VM
      BY DEF TypeOK
    <3> QED BY <1>2, <1>5, <3>2, <3>3, <3>4, <3>5 DEF Valid
  <2>3. CASE r.op = "remove"
    <3>1. r.op \in Checks /\ Needs(r) = {Guard[r.kind]} /\ r.kind \in Kind
      BY <1>1, <2>3 DEF Checks, Needs, Request
    <3>2. \/ q.op = "remove"
          \/ q.op = "assign" /\ r.kind # "policy"
      <4>1. Guard[r.kind] \notin Needs(q)
        BY <1>4, <3>1
      <4> QED BY <3>1, <4>1, GuardFacts DEF Needs
    <3> QED BY <1>2, <1>5, <1>7, <2>3, <3>1, <3>2 DEF Valid, Write
  <2>4. CASE r.op = "delete"
    BY <1>2, <1>5, <1>7, <2>4 DEF Valid, Write, Exists, OnVm, TypeOK
  <2>5. CASE r.op = "add"
    BY <1>2, <1>5, <1>7, <2>5 DEF Valid, Write
  <2>6. CASE r.op \notin Checks \cup {"delete", "add"}
    BY <1>2, <1>5, <1>6, <1>7, <2>6 DEF Write, Checks
  <2> QED BY <1>6, <2>1, <2>2, <2>3, <2>4, <2>5, <2>6 DEF Checks
<1> QED BY <1>6, <1>7 DEF Finish, r

(* Every step of a task keeps it Checked. *)
LEMMA RunChecked ==
  ASSUME TypeOK, Protected, NEW t \in Task, Run(t) \/ Abandon(t)
  PROVE  Checked(t)'
<1>0. Checked(t)
  BY DEF Protected
<1>1. CASE Leave(t)
  BY <1>1, LeaveChecked
<1>2. ASSUME req'[t].op = req[t].op, req[t].op \notin Checks
      PROVE  Checked(t)'
  BY <1>2 DEF Checked, Checks
<1>3. ASSUME script[t] # <<>>, req[t].op \in Checks
      PROVE  script[t][1].do \in {"take", "read", "check"} /\ Head(script[t]) = script[t][1]
  <2>1. 1 \in DOMAIN script[t] /\ Head(script[t]) = script[t][1]
    BY <1>3, TailFacts DEF TypeOK
  <2> QED BY <1>0, <1>3, <2>1 DEF Checked, Checks
<1>4. CASE Acquire(t)
  <2>0. script[t] # <<>> /\ Head(script[t]).do = "take" /\ req' = req /\ dbVars' = dbVars
    BY <1>4 DEF Acquire, Doing
  <2>1. script'[t] = Tail(script[t]) /\ Head(script[t]) = script[t][1] /\ On(t) \in Mutex
    BY <1>4, <2>0, TailFacts, OnTypes DEF TypeOK, Acquire, GoOn
  <2>2. ASSUME NEW m \in Mutex, holder[m] = t \/ script[t][1] = Take(m)
        PROVE  holder'[m] = t
    <3>1. script[t][1] = Take(m) => m = On(t)
      BY <2>1, StepFacts DEF On
    <3> QED BY <1>4, <2>1, <2>2, <3>1 DEF TypeOK, Acquire
  <2>3. req[t].op \in Checks => Needs(req[t]) \subseteq Mutex
    BY GuardFacts, Libraries DEF Needs, TypeOK, Request
  <2>4. CASE req[t].op \in Checks
    BY <1>0, <2>0, <2>1, <2>2, <2>3, <2>4, ShorterChecked
  <2> QED BY <1>2, <2>0, <2>4
<1>5. CASE AcquireNext(t) \/ AllAcquired(t) \/ GiveBack(t)
  <2>1. script[t] # <<>> /\ Head(script[t]).do \in {"all", "drop"} /\ req' = req
    BY <1>5 DEF AcquireNext, AllAcquired, GiveBack, Doing
  <2> QED BY <1>2, <1>3, <2>1
<1>6. CASE ReadRows(t) /\ ~Leave(t)
  <2>0. script[t] # <<>> /\ Head(script[t]).do = "read"
    BY <1>6 DEF ReadRows, Doing
  <2>1. CASE req[t].op = "save"
    <3>1. req' = req
      BY <1>6, <2>1 DEF ReadRows
    <3> QED BY <1>2, <2>1, <3>1 DEF Checks
  <2>2. CASE req[t].op = "duplicate"
    <3>1. req' = [req EXCEPT ![t] = Copying(req[t])] /\ GoOn(t) /\ UNCHANGED holder
      BY <1>6, <2>2 DEF ReadRows
    <3>2. req'[t] = Copying(req[t]) /\ script'[t] = Tail(script[t])
      BY <3>1 DEF TypeOK, GoOn
    <3>3. req'[t].op = req[t].op /\ Needs(req'[t]) = Needs(req[t])
      BY <2>2, <3>2 DEF Copying, Needs
    <3>4. Head(script[t]) = script[t][1] /\ script[t][1].do = "read"
      BY <2>0, TailFacts DEF TypeOK
    <3>5. \A m : script[t][1] # Take(m)
      BY <3>4, StepFacts
    <3> QED BY <1>0, <2>0, <2>2, <3>1, <3>2, <3>3, <3>4, <3>5, ShorterChecked
  <2> QED BY <1>6, <2>1, <2>2 DEF ReadRows
<1>7. CASE CheckRows(t) /\ ~Leave(t)
  <2>1. /\ script[t] # <<>> /\ Head(script[t]).do = "check" /\ Valid(req[t]) /\ GoOn(t)
        /\ req' = req /\ holder' = holder /\ dbVars' = dbVars
    BY <1>7 DEF CheckRows, Doing
  <2>2. script'[t] = Tail(script[t]) /\ script[t][1].do = "check"
    BY <2>1, TailFacts DEF TypeOK, GoOn
  <2>3. Valid(req[t])'
    BY <2>1 DEF Valid, dbVars
  <2>4. \A m : script[t][1] # Take(m)
    BY <2>2, StepFacts
  <2> QED BY <1>0, <2>1, <2>2, <2>3, <2>4, ShorterChecked
<1> QED BY <1>1, <1>4, <1>5, <1>6, <1>7 DEF Run, Finish, Abandon

(* It keeps the other tasks Checked too. *)
LEMMA RunKeepsOthersChecked ==
  ASSUME TypeOK, Protected, NEW t \in Task, Run(t) \/ Abandon(t), NEW u \in Task \ {t}
  PROVE  Checked(u)'
<1>1. script'[u] = script[u] /\ req'[u] = req[u] /\ Checked(u)
  BY RunIsLocal DEF Protected
<1>2. ASSUME NEW m \in Mutex, holder[m] = u
      PROVE  holder'[m] = u
  <2>1. NoOne # u
    BY LockConstants DEF Task
  <2>2. CASE Leave(t)
    BY <1>2, <2>2 DEF Leave
  <2>3. CASE Acquire(t)
    BY <1>2, <2>1, <2>3, OnTypes DEF TypeOK, Acquire, Doing
  <2>4. CASE AcquireNext(t)
    BY <1>2, <2>1, <2>4, OnTypes, Libraries DEF TypeOK, AcquireNext, Doing
  <2>5. CASE GiveBack(t)
    BY <1>2, <2>1, <2>5, OnTypes DEF TypeOK, GiveBack, Doing
  <2>6. CASE UNCHANGED holder
    BY <1>2, <2>6
  <2> QED BY <2>2, <2>3, <2>4, <2>5, <2>6 DEF Run, AllAcquired, ReadRows, CheckRows, Finish, Abandon
<1>3. req[u].op \in Checks => Needs(req[u]) \subseteq Mutex
  BY GuardFacts, Libraries DEF Needs, TypeOK, Request
<1>4. ASSUME req[u].op \in Checks, script[u] = <<>>
      PROVE  Valid(req[u])'
  <2>1. CASE Finish(t)
    BY <1>4, <2>1, FinishKeepsChecks
  <2>2. CASE UNCHANGED dbVars
    BY <1>1, <1>4, <2>2, FinishedHolds DEF Valid, dbVars
  <2> QED BY <2>1, <2>2
         DEF Run, Acquire, AcquireNext, AllAcquired, GiveBack, ReadRows, CheckRows, Abandon
<1>5. CASE req[u].op \in Checks
  BY <1>1, <1>2, <1>3, <1>4, <1>5, OthersChecked
<1> QED BY <1>1, <1>5 DEF Checked, Checks

(* So does a task that begins: it writes nothing. *)
LEMMA BeginKeepsOthersChecked ==
  ASSUME TypeOK, Protected, NEW t \in Task, NEW u \in Task \ {t},
         script'[u] = script[u], req'[u] = req[u], UNCHANGED <<dbVars, holder>>
  PROVE  Checked(u)'
<1>1. Checked(u)
  BY DEF Protected
<1>2. req[u].op \in Checks /\ script[u] = <<>> => Valid(req[u])'
  BY FinishedHolds DEF Valid, dbVars
<1> QED BY <1>1, <1>2, OthersChecked

(* A handler that is asked writes nothing and takes nothing. *)
LEMMA AskIsABeginning ==
  ASSUME NEW t, Ask(t)
  PROVE  UNCHANGED <<dbVars, holder>>
  BY DEF Ask, AskVm, AskLibrary, Begin

(* Every step keeps the references, and every task Checked. *)
LEMMA NextProtects ==
  ASSUME TypeOK, Protected, [Next]_vars
  PROVE  Protected'
<1>1. CASE UNCHANGED vars
  BY <1>1 DEF Protected, ReferencesExist, Checked, Valid, vars, dbVars
<1>2. ASSUME NEW t \in Handler, Ask(t)
      PROVE  Protected'
  <2>1. t \in Task /\ UNCHANGED <<dbVars, holder>>
    BY <1>2, AskIsABeginning DEF Task
  <2>2. ASSUME NEW u \in Task PROVE Checked(u)'
    BY <1>2, <2>1, AskChecked, AskIsLocal, BeginKeepsOthersChecked
  <2>3. ReferencesExist'
    BY <2>1 DEF Protected, ReferencesExist, dbVars
  <2> QED BY <2>2, <2>3 DEF Protected
<1>3. ASSUME NEW v \in defined, Visit(v)
      PROVE  Protected'
  <2>1. Monitor \in Task /\ UNCHANGED <<dbVars, holder>> /\ v \in VM
    BY <1>3 DEF Task, Visit, Begin, TypeOK
  <2>2. Checked(Monitor)'
    BY <1>3, <2>1, BeginChecked DEF Visit, Checks
  <2>3. ASSUME NEW u \in Task \ {Monitor} PROVE Checked(u)'
    <3>1. script'[u] = script[u] /\ req'[u] = req[u]
      BY <1>3, <2>1, BeginIsLocal DEF Visit
    <3> QED BY <2>1, <3>1, BeginKeepsOthersChecked
  <2>4. ReferencesExist'
    BY <2>1 DEF Protected, ReferencesExist, dbVars
  <2> QED BY <2>2, <2>3, <2>4 DEF Protected
<1>4. ASSUME NEW t \in Task, Run(t) \/ Abandon(t)
      PROVE  Protected'
  <2>1. ReferencesExist'
    <3>1. CASE Finish(t)
      BY <3>1, FinishKeepsReferences
    <3>2. CASE UNCHANGED dbVars
      BY <3>2 DEF Protected, ReferencesExist, dbVars
    <3> QED BY <1>4, <3>1, <3>2
         DEF Run, Acquire, AcquireNext, AllAcquired, GiveBack, ReadRows, CheckRows, Abandon
  <2> QED BY <1>4, <2>1, RunChecked, RunKeepsOthersChecked DEF Protected
<1> QED BY <1>1, <1>2, <1>3, <1>4 DEF Next, Task

(* At first no VM is defined and no request is handled. *)
LEMMA InitProtects == Init => Protected
  BY DEF Init, Protected, ReferencesExist, Checked, Nothing

(* Whatever is defined, edited, assigned, duplicated, imported and removed at the
   same time, no definition names an item that is gone. *)
THEOREM ReferencesExistAlways == Spec => []ReferencesExist
<1>1. Init => TypeOK /\ Protected
  BY InitTypes, InitProtects
<1>2. TypeOK /\ Protected /\ [Next]_vars => (TypeOK /\ Protected)'
  BY NextTypes, NextProtects
<1>3. Protected => ReferencesExist
  BY DEF Protected
<1> QED BY <1>1, <1>2, <1>3, PTL DEF Spec

=============================================================================
