-------------------------- MODULE GuestShellProofs --------------------------
(***************************************************************************)
(* IInv of GuestShell is inductive.  It follows a frame from the terminal  *)
(* to the browser: Item(s, i) is the i-th thing the guest sends, and what  *)
(* the browser has seen, what is on the stream and what is queued are, one *)
(* behind the other, the first Sent(s) of them; and it follows the input   *)
(* the other way, by its numbers.                                          *)
(*                                                                         *)
(* There is one lemma per action.  Its steps are: the values the action    *)
(* leaves to its session; the other sessions keep theirs; the types; and   *)
(* one step per conjunct of Orders.  The steps that end the loop share     *)
(* StopsKeeps, and those round it the lemmas of their alternatives.        *)
(***************************************************************************)
EXTENDS GuestShell, FiniteSetTheorems, SequenceTheorems, TLAPS

(* What the lemmas need of the types.                                     *)
Typed == TypeOK /\ StreamTypes

(* What a step leaves to a session that it is not about.                  *)
Stays(s) ==
  /\ relay'[s] = relay[s] /\ typed'[s] = typed[s] /\ seen'[s] = seen[s] /\ up'[s] = up[s]
  /\ down'[s] = down[s] /\ pc'[s] = pc[s] /\ g'[s] = g[s] /\ sh'[s] = sh[s]

(* A frame has the type and the number it was made with.                  *)
LEMMA FrameFields ==
  \A t, n : Frame(t, n).type = t /\ Frame(t, n).n = n
  BY DEF Frame

(* The types of the thread's variables ...                                *)
LEMMA LocalFields ==
  ASSUME Typed, NEW s \in Sessions
  PROVE  /\ g[s].out \in Seq(Frames) /\ g[s].out \in Seq(Sends) /\ g[s].input \in Seq(1..MaxInput)
         /\ g[s].half \in BOOLEAN /\ g[s].exit \in BOOLEAN /\ g[s].late \in BOOLEAN
         /\ g[s].finishing \in BOOLEAN /\ g[s].closed \in BOOLEAN /\ g[s].failed \in BOOLEAN
         /\ Len(g[s].out) \in Nat /\ Len(g[s].input) \in Nat
<1>1. g[s] \in Local
  BY DEF Typed, TypeOK
<1>2. g[s].out \in Seq(Sends)
  BY <1>1 DEF Local
<1>3. g[s].out \in Seq(Frames)
  BY <1>2, SeqMonotonic DEF Frames
<1> QED BY <1>1, <1>2, <1>3, LenProperties DEF Local

(* ... of the shell's ...                                                 *)
LEMMA ShellFields ==
  ASSUME Typed, NEW s \in Sessions
  PROVE  /\ sh[s].started \in BOOLEAN /\ sh[s].alive \subseteq Procs /\ sh[s].born \subseteq Procs
         /\ sh[s].group \subseteq Procs /\ sh[s].missed \subseteq Procs /\ sh[s].at \in 0..(MaxPid + 1)
         /\ sh[s].wrote \in 0..MaxOutput /\ sh[s].read \in 0..MaxOutput
         /\ sh[s].got \in Seq(1..MaxInput) /\ Len(sh[s].got) \in Nat
  BY LenProperties DEF Typed, TypeOK, Shell

(* What was read is counted.                                              *)
LEMMA ReadNat ==
  ASSUME Typed, NEW s \in Sessions
  PROVE  sh[s].read \in Nat
<1>1. sh[s].read \in 0..MaxOutput
  BY ShellFields
<1> QED BY <1>1, ShellConstants

(* ... and of the streams.                                                *)
LEMMA StreamFields ==
  ASSUME Typed, NEW s \in Sessions
  PROVE  /\ seen[s] \in Seq(Frames) /\ down[s] \in Seq(Frames) /\ up[s] \in Seq(Messages)
         /\ Len(seen[s]) \in Nat /\ Len(down[s]) \in Nat /\ Len(up[s]) \in Nat
         /\ relay[s] \in {"new", "open", "ready", "gone"} /\ typed[s] \in 0..MaxInput
  BY LenProperties DEF Typed, TypeOK, StreamTypes

(* The order of the input depends on these variables only.                *)
LEMMA InputStays ==
  ASSUME NEW s \in Sessions, InputInOrder(s), Open(s)' => Open(s), typed'[s] = typed[s], up'[s] = up[s],
         pc'[s] \in Loop => pc[s] \in Loop, g'[s].input = g[s].input, g'[s].finishing = g[s].finishing,
         sh'[s].got = sh[s].got, sh'[s].started = sh[s].started
  PROVE  InputInOrder(s)'
  BY Zenon DEF InputInOrder, Consumed, Runs, Numbered

(* A session that a step is not about keeps its order.                    *)
LEMMA OthersStay ==
  ASSUME NEW s \in Sessions, Orders(s), Stays(s)
  PROVE  Orders(s)'
<1>1. \A i : Item(s, i)' = Item(s, i)
  BY DEF Stays, Item
<1>2. Sent(s)' = Sent(s) /\ (Open(s)' <=> Open(s))
  BY DEF Stays, Sent, Open
<1>3. Unopened(s)' /\ ProcsInOrder(s)'
  BY DEF Stays, Orders, Unopened, ProcsInOrder
<1>4. SeenInOrder(s)' /\ DownInOrder(s)'
  BY <1>1, <1>2 DEF Stays, Orders, SeenInOrder, DownInOrder
<1>5. OutInOrder(s)'
  BY <1>1, <1>2 DEF Stays, Orders, OutInOrder
<1>6. InputInOrder(s)'
  BY <1>2, InputStays DEF Stays, Orders
<1> QED BY <1>3, <1>4, <1>5, <1>6 DEF Orders

(* What the guest sends is readiness, then the output, then the exit.     *)
LEMMA ItemFields ==
  ASSUME NEW s, NEW i \in Nat
  PROVE  /\ i = 1 => Item(s, i).type = "ready" /\ Item(s, i) = Plain("ready")
         /\ i # 1 /\ i <= sh[s].read + 1 => Item(s, i).type = "output" /\ Item(s, i).n = i - 1
         /\ i # 1 /\ ~(i <= sh[s].read + 1) => Item(s, i).type = "exit" /\ Item(s, i) = Plain("exit")
  BY FrameFields DEF Item, Plain

(* It changes only with what is read from the terminal.                   *)
LEMMA ItemsStay ==
  ASSUME NEW s, sh'[s].read = sh[s].read
  PROVE  \A i : Item(s, i)' = Item(s, i)
  BY DEF Item



(* The place after the last.                                              *)
LEMMA NextPlace ==
  \A m, n \in Nat : m + (n + 1) = m + n + 1
  OBVIOUS

(* A step that ends the loop of a thread: what it may have sent is the    *)
(* frame that was next.                                                   *)
Last(s, f) ==
  /\ f = Item(s, Len(seen[s]) + Len(down[s]) + 1)
  /\ Len(seen[s]) + Len(down[s]) + 1 <= Sent(s)

(* Such a step, in terms of what it leaves alone.                         *)
Stops(s) ==
  /\ pc[s] \in Loop
  /\ Quit(s)
  /\ UNCHANGED <<relay, typed, seen, active>>
  /\ \/ down' = down
     \/ \E f \in Frames : Len(down[s]) < MaxWire /\ down' = [down EXCEPT ![s] = Append(@, f)]
          /\ Last(s, f)
  /\ up' \in [Sessions -> Seq(Messages)] /\ \A x \in Sessions : x # s => up'[x] = up[x]
  /\ g' \in [Sessions -> Local] /\ \A x \in Sessions : x # s => g'[x] = g[x]
  /\ Len(g'[s].out) <= MaxPending + 1
  /\ g'[s].exit = g[s].exit /\ g'[s].late = g[s].late
  /\ g'[s].finishing = g[s].finishing /\ g'[s].closed = g[s].closed
  /\ g'[s].input = g[s].input

(* A step that changes the shell of one session.                          *)
LEMMA SetShell ==
  ASSUME Typed, NEW s \in Sessions, NEW n \in Shell, sh' = [sh EXCEPT ![s] = n]
  PROVE  sh' \in [Sessions -> Shell] /\ sh'[s] = n /\ \A x \in Sessions : x # s => sh'[x] = sh[x]
  BY DEF Typed, TypeOK

(* A step that changes the variables of one thread.                       *)
LEMMA SetLocal ==
  ASSUME Typed, NEW s \in Sessions, NEW n \in Local, g' = [g EXCEPT ![s] = n]
  PROVE  g' \in [Sessions -> Local] /\ g'[s] = n /\ \A x \in Sessions : x # s => g'[x] = g[x]
  BY DEF Typed, TypeOK

(* A step that puts a frame on a stream with room.                        *)
LEMMA SendsOne ==
  ASSUME Typed, NEW s \in Sessions, NEW f \in Frames, Len(down[s]) < MaxWire,
         down' = [down EXCEPT ![s] = Append(@, f)]
  PROVE  /\ down' \in [Sessions -> Seq(Frames)]
         /\ \A x \in Sessions : x # s => down'[x] = down[x]
         /\ Len(down'[s]) = Len(down[s]) + 1 /\ Len(down'[s]) <= MaxWire
         /\ down'[s][Len(down[s]) + 1] = f
         /\ \A i \in 1..Len(down[s]) : down'[s][i] = down[s][i]
         /\ \A i \in 1..Len(down'[s]) : i \in 1..Len(down[s]) \/ i = Len(down[s]) + 1
<1>1. down'[s] = Append(down[s], f) /\ down \in [Sessions -> Seq(Frames)]
  BY DEF Typed, StreamTypes
<1>2. down[s] \in Seq(Frames) /\ Len(down[s]) \in Nat
  BY StreamFields
<1>3. /\ down'[s] \in Seq(Frames) /\ Len(down'[s]) = Len(down[s]) + 1 /\ down'[s][Len(down[s]) + 1] = f
      /\ \A i \in 1..Len(down[s]) : down'[s][i] = down[s][i]
  BY <1>1, <1>2, AppendProperties
<1>4. Len(down'[s]) <= MaxWire
  BY <1>2, <1>3, ShellConstants
<1>5. \A i \in 1..Len(down'[s]) : i \in 1..Len(down[s]) \/ i = Len(down[s]) + 1
  BY <1>2, <1>3
<1>6. down' \in [Sessions -> Seq(Frames)] /\ \A x \in Sessions : x # s => down'[x] = down[x]
  BY <1>1, <1>3
<1> QED BY <1>3, <1>4, <1>5, <1>6

(* A step that ends the loop keeps the order of what was sent, and begins *)
(* the scan: at the first number, or past the last if it sees nobody.     *)
LEMMA StopsKeeps ==
  ASSUME IInv, NEW s \in Sessions, Stops(s)
  PROVE  IInv'
<1>1. Typed /\ Orders(s)
  BY DEF IInv, Typed
<1>2. sh[s] \in Shell
  BY <1>1 DEF Typed, TypeOK
<1>3. PICK at \in 0..(MaxPid + 1), missed \in SUBSET Procs :
        /\ sh' = [sh EXCEPT ![s] = [sh[s] EXCEPT !.at = at, !.missed = missed]]
        /\ missed = sh[s].missed \/ missed = sh[s].alive
        /\ \/ ~sh[s].started /\ at = sh[s].at /\ missed = sh[s].missed
           \/ sh[s].started /\ at = 1
           \/ sh[s].started /\ at = MaxPid + 1 /\ missed = sh[s].alive
  <2>1. sh \in [Sessions -> Shell] /\ sh[s].at \in 0..(MaxPid + 1) /\ sh[s].missed \in SUBSET Procs
        /\ sh[s].alive \in SUBSET Procs
    BY <1>1, <1>2 DEF Shell, Typed, TypeOK
  <2>2. 1 \in 0..(MaxPid + 1) /\ MaxPid + 1 \in 0..(MaxPid + 1)
    BY ShellConstants
  <2>3. CASE ~sh[s].started
    <3>1. sh' = sh
      BY <2>3 DEF Stops, Quit
    <3>2. sh' = [sh EXCEPT ![s] = [sh[s] EXCEPT !.at = sh[s].at, !.missed = sh[s].missed]]
      <4>1. sh[s] = [sh[s] EXCEPT !.at = sh[s].at, !.missed = sh[s].missed]
        BY <1>2 DEF Shell
      <4> QED BY <2>1, <3>1, <4>1
    <3> QED BY <2>1, <2>3, <3>2
  <2>4. CASE sh[s].started /\ sh' = [sh EXCEPT ![s].at = 1]
    <3>1. [sh[s] EXCEPT !.at = 1] = [sh[s] EXCEPT !.at = 1, !.missed = sh[s].missed]
      BY <1>2 DEF Shell
    <3>2. sh' = [sh EXCEPT ![s] = [sh[s] EXCEPT !.at = 1]]
      BY <2>4
    <3> QED BY <2>1, <2>2, <2>4, <3>1, <3>2
  <2>5. CASE sh[s].started /\ sh' = [sh EXCEPT ![s].at = MaxPid + 1, ![s].missed = sh[s].alive]
    <3>1. sh' = [sh EXCEPT ![s] = [sh[s] EXCEPT !.at = MaxPid + 1, !.missed = sh[s].alive]]
      BY <2>1, <2>5
    <3> QED BY <2>1, <2>2, <2>5, <3>1
  <2> QED BY <2>3, <2>4, <2>5 DEF Stops, Quit
<1>4. [sh[s] EXCEPT !.at = at, !.missed = missed] \in Shell
  BY <1>2 DEF Shell
<1>5. /\ sh' \in [Sessions -> Shell] /\ sh'[s] = [sh[s] EXCEPT !.at = at, !.missed = missed]
      /\ \A x \in Sessions : x # s => sh'[x] = sh[x]
  BY <1>1, <1>3, <1>4, SetShell
<1>6. /\ sh'[s].started = sh[s].started /\ sh'[s].alive = sh[s].alive /\ sh'[s].born = sh[s].born
      /\ sh'[s].group = sh[s].group /\ sh'[s].missed = missed /\ sh'[s].at = at
      /\ sh'[s].wrote = sh[s].wrote /\ sh'[s].read = sh[s].read /\ sh'[s].got = sh[s].got
  BY <1>2, <1>5 DEF Shell
<1>7. pc'[s] = IF sh[s].started THEN "scan" ELSE "report"
  BY <1>1 DEF Stops, Quit, Goes, Typed, TypeOK
<1>8. /\ relay'[s] = relay[s] /\ typed'[s] = typed[s] /\ seen'[s] = seen[s] /\ pc[s] \in Loop
      /\ g'[s].finishing = g[s].finishing /\ g'[s].exit = g[s].exit /\ g'[s].late = g[s].late
      /\ g'[s].closed = g[s].closed
      /\ g'[s].input = g[s].input
  BY DEF Stops
<1>9. /\ down' \in [Sessions -> Seq(Frames)]
      /\ \A x \in Sessions : x # s => down'[x] = down[x]
      /\ Len(down'[s]) <= MaxWire
      /\ \A i \in 1..Len(down'[s]) :
           \/ i \in 1..Len(down[s]) /\ down'[s][i] = down[s][i]
           \/ /\ i = Len(down[s]) + 1 /\ down'[s][i] = Item(s, Len(seen[s]) + Len(down[s]) + 1)
              /\ Len(seen[s]) + Len(down[s]) + 1 <= Sent(s)
  <2>1. CASE down' = down
    BY <1>1, <2>1, StreamFields DEF Typed, TypeOK, StreamTypes
  <2>2. CASE \E f \in Frames : Len(down[s]) < MaxWire /\ down' = [down EXCEPT ![s] = Append(@, f)]
               /\ Last(s, f)
    <3>1. PICK f \in Frames : Len(down[s]) < MaxWire /\ down' = [down EXCEPT ![s] = Append(@, f)]
                 /\ Last(s, f)
      BY <2>2
    <3>2. /\ down' \in [Sessions -> Seq(Frames)]
          /\ \A x \in Sessions : x # s => down'[x] = down[x]
          /\ Len(down'[s]) = Len(down[s]) + 1 /\ Len(down'[s]) <= MaxWire
          /\ down'[s][Len(down[s]) + 1] = f
          /\ \A i \in 1..Len(down[s]) : down'[s][i] = down[s][i]
          /\ \A i \in 1..Len(down'[s]) : i \in 1..Len(down[s]) \/ i = Len(down[s]) + 1
      BY <1>1, <3>1, SendsOne
    <3> QED BY <3>1, <3>2 DEF Last
  <2> QED BY <2>1, <2>2 DEF Stops
<1>10. \A x \in Sessions : x # s => Stays(x)
  BY <1>1, <1>5, <1>9 DEF Stays, Stops, Quit, Goes, Typed, TypeOK
<1>11. Typed'
  <2>1. pc' \in [Sessions -> Loop \cup {"off", "scan", "report", "leave", "end"}]
    BY <1>1 DEF Stops, Quit, Goes, Typed, TypeOK
  <2>2. \A x \in Sessions : Len(down'[x]) <= MaxWire /\ Len(g'[x].out) <= MaxPending + 1
    BY <1>1, <1>9 DEF Stops, Typed, TypeOK
  <2>3. \A x \in Sessions : pc'[x] \in {"off", "end"} <=> pc[x] \in {"off", "end"}
    BY <1>7, <1>8, <1>10 DEF Loop, Stays
  <2>4. active' = active /\ relay' = relay /\ typed' = typed /\ seen' = seen
    BY DEF Stops
  <2>5. up' \in [Sessions -> Seq(Messages)] /\ g' \in [Sessions -> Local]
    BY DEF Stops
  <2> QED BY <1>1, <1>5, <1>9, <2>1, <2>2, <2>3, <2>4, <2>5 DEF Typed, TypeOK, StreamTypes
<1>12. Unopened(s)'
  BY <1>1, <1>7, <1>8 DEF Orders, Unopened, Loop
<1>13. ProcsInOrder(s)'
  <2>1. ProcsInOrder(s) /\ sh[s].alive \subseteq Procs
    BY <1>1, ShellFields DEF Orders
  <2>2. {Leader} \cup sh[s].alive \cup sh[s].group \cup missed \subseteq sh[s].born
    BY <1>3, <2>1 DEF ProcsInOrder
  <2>3. \A p \in sh[s].alive \ missed : p >= at
    BY <1>3, <2>1, ShellConstants DEF ProcsInOrder, Procs
  <2>4. ~sh[s].started => at = 0
    BY <1>3, <2>1 DEF ProcsInOrder
  <2> QED BY <1>6, <1>7, <1>8, <2>1, <2>2, <2>3, <2>4 DEF ProcsInOrder
<1>14. (\A i : Item(s, i)' = Item(s, i)) /\ Sent(s)' = Sent(s) /\ (Open(s)' <=> Open(s))
  BY <1>6, <1>8 DEF Item, Sent, Open
<1>15. SeenInOrder(s)'
  BY <1>1, <1>6, <1>8, <1>14 DEF Orders, SeenInOrder
<1>16. DownInOrder(s)'
  <2>1. Len(seen[s]) \in Nat /\ Len(down[s]) \in Nat
    BY <1>1, StreamFields
  <2>2. Len(seen[s]) + (Len(down[s]) + 1) = Len(seen[s]) + Len(down[s]) + 1
    BY <2>1, NextPlace
  <2>3. \A i \in 1..Len(down[s]) : down[s][i] = Item(s, Len(seen[s]) + i) /\ Len(seen[s]) + i <= Sent(s)
    BY <1>1, <1>8 DEF Orders, DownInOrder, Loop
  <2>4. \A i \in 1..Len(down'[s]) : down'[s][i] = Item(s, Len(seen[s]) + i) /\ Len(seen[s]) + i <= Sent(s)
    BY <1>8, <1>9, <2>2, <2>3
  <2> QED BY <1>8, <1>14, <2>4 DEF DownInOrder
<1>17. OutInOrder(s)' /\ InputInOrder(s)'
  BY <1>1, <1>6, <1>7 DEF Orders, OutInOrder, InputInOrder, Loop
<1>18. NoneOutlives'
  BY <1>1, <1>6, <1>7, <1>10 DEF IInv, NoneOutlives, Orders, ProcsInOrder, Stays
<1> QED BY <1>10, <1>11, <1>12, <1>13, <1>15, <1>16, <1>17, <1>18, OthersStay
          DEF IInv, Typed, Orders

(* An error that ends the loop is kept for the end.                       *)
LEMMA FailStops ==
  ASSUME Typed, NEW s \in Sessions, Fail(s)
  PROVE  /\ Quit(s)
         /\ g' \in [Sessions -> Local] /\ \A x \in Sessions : x # s => g'[x] = g[x]
         /\ Len(g'[s].out) <= MaxPending + 1
         /\ g'[s].exit = g[s].exit /\ g'[s].late = g[s].late
         /\ g'[s].finishing = g[s].finishing /\ g'[s].closed = g[s].closed
         /\ g'[s].input = g[s].input
<1>1. g[s] \in Local /\ Len(g[s].out) <= MaxPending + 1
  BY DEF Typed, TypeOK
<1>2. [g[s] EXCEPT !.failed = TRUE] \in Local
  BY <1>1 DEF Local
<1>3. g' = [g EXCEPT ![s] = [g[s] EXCEPT !.failed = TRUE]]
  BY DEF Fail
<1>4. /\ g' \in [Sessions -> Local] /\ g'[s] = [g[s] EXCEPT !.failed = TRUE]
      /\ \A x \in Sessions : x # s => g'[x] = g[x]
  BY <1>2, <1>3, SetLocal
<1> QED BY <1>1, <1>4 DEF Fail, Local

(* 200 ms pass: nothing is sent and nothing is read.                      *)
LEMMA WaitedKeeps ==
  ASSUME IInv, NEW s \in Sessions, Waited(s)
  PROVE  IInv'
<1>1. Typed /\ Orders(s)
  BY DEF IInv, Typed
<1>2. /\ relay'[s] = relay[s] /\ typed'[s] = typed[s] /\ seen'[s] = seen[s]
      /\ up'[s] = up[s] /\ down'[s] = down[s] /\ pc'[s] = pc[s]
      /\ g'[s].out = g[s].out /\ g'[s].input = g[s].input /\ g'[s].exit = g[s].exit
      /\ g'[s].late /\ g'[s].finishing = g[s].finishing /\ g'[s].closed = g[s].closed
      /\ sh'[s].started = sh[s].started /\ sh'[s].alive = sh[s].alive /\ sh'[s].born = sh[s].born
      /\ sh'[s].group = sh[s].group /\ sh'[s].missed = sh[s].missed /\ sh'[s].at = sh[s].at
      /\ sh'[s].wrote = sh[s].wrote /\ sh'[s].read = sh[s].read /\ sh'[s].got = sh[s].got
  BY <1>1 DEF Waited, Typed, TypeOK, StreamTypes, Local, Shell
<1>3. \A x \in Sessions : x # s => Stays(x)
  BY <1>1 DEF Stays, Waited, Typed, TypeOK, StreamTypes
<1>4. Typed'
  <2>1. g[s] \in Local
    BY <1>1 DEF Typed, TypeOK
  <2>2. [g[s] EXCEPT !.late = TRUE] \in Local
    BY <1>1, <2>1 DEF Local, Waited
  <2>3. g' = [g EXCEPT ![s] = [g[s] EXCEPT !.late = TRUE]]
    BY DEF Waited
  <2>4. g' \in [Sessions -> Local]
    BY <1>1, <2>2, <2>3, SetLocal
  <2>5. \A x \in Sessions : g'[x].out = g[x].out
    BY <1>2, <1>3 DEF Stays
  <2> QED BY <1>1, <2>4, <2>5 DEF Waited, Typed, TypeOK, StreamTypes
<1>5. (\A i : Item(s, i)' = Item(s, i)) /\ Sent(s)' = Sent(s) /\ (Open(s)' <=> Open(s))
  BY <1>2 DEF Item, Sent, Open
<1>6. Unopened(s)'
  BY <1>1, <1>2, <1>5 DEF Orders, Unopened
<1>7. ProcsInOrder(s)'
  BY <1>1, <1>2 DEF Orders, ProcsInOrder, Waited
<1>8. SeenInOrder(s)'
  BY <1>1, <1>2, <1>5 DEF Orders, SeenInOrder
<1>9. DownInOrder(s)'
  BY <1>1, <1>2, <1>5 DEF Orders, DownInOrder
<1>10. OutInOrder(s)'
  BY <1>1, <1>2, <1>5 DEF Orders, OutInOrder
<1>11. InputInOrder(s)'
  BY <1>1, <1>2, <1>5, InputStays DEF Orders
<1>12. NoneOutlives'
  BY <1>1, <1>2, <1>3 DEF IInv, NoneOutlives, Stays
<1> QED BY <1>3, <1>4, <1>6, <1>7, <1>8, <1>9, <1>10, <1>11, <1>12, OthersStay
          DEF IInv, Typed, Orders

(* The shell writes: there is more to read, and the rest is as it was.    *)
LEMMA WriteKeeps ==
  ASSUME IInv, NEW s \in Sessions, Write(s)
  PROVE  IInv'
<1>1. Typed /\ Orders(s)
  BY DEF IInv, Typed
<1>2. /\ relay'[s] = relay[s] /\ typed'[s] = typed[s] /\ seen'[s] = seen[s]
      /\ up'[s] = up[s] /\ down'[s] = down[s] /\ pc'[s] = pc[s]
      /\ g'[s].out = g[s].out /\ g'[s].input = g[s].input /\ g'[s].exit = g[s].exit
      /\ g'[s].late = g[s].late /\ g'[s].finishing = g[s].finishing /\ g'[s].closed = g[s].closed
      /\ sh'[s].started = sh[s].started /\ sh'[s].alive = sh[s].alive /\ sh'[s].born = sh[s].born
      /\ sh'[s].group = sh[s].group /\ sh'[s].missed = sh[s].missed /\ sh'[s].at = sh[s].at
      /\ sh'[s].wrote = sh[s].wrote + 1 /\ sh'[s].read = sh[s].read /\ sh'[s].got = sh[s].got
  BY <1>1 DEF Write, Shells, Typed, TypeOK, StreamTypes, Local, Shell
<1>3. \A x \in Sessions : x # s => Stays(x)
  BY <1>1 DEF Stays, Write, Shells, Typed, TypeOK, StreamTypes
<1>4. Typed'
  <2>1. sh[s] \in Shell
    BY <1>1 DEF Typed, TypeOK
  <2>2. sh[s].wrote + 1 \in 0..MaxOutput
    BY <1>1, ShellFields, ShellConstants DEF Write
  <2>3. [sh[s] EXCEPT !.wrote = @ + 1] \in Shell
    BY <2>1, <2>2 DEF Shell, Write, Shells
  <2>4. sh' = [sh EXCEPT ![s] = [sh[s] EXCEPT !.wrote = @ + 1]]
    BY DEF Write, Shells
  <2>5. sh' \in [Sessions -> Shell]
    BY <1>1, <2>3, <2>4, SetShell
  <2> QED BY <1>1, <2>5 DEF Write, Shells, Typed, TypeOK, StreamTypes
<1>5. (\A i : Item(s, i)' = Item(s, i)) /\ Sent(s)' = Sent(s) /\ (Open(s)' <=> Open(s))
  BY <1>2 DEF Item, Sent, Open
<1>6. Unopened(s)'
  BY <1>1, <1>2, <1>5 DEF Orders, Unopened
<1>7. ProcsInOrder(s)'
  BY <1>1, <1>2, ShellFields DEF Orders, ProcsInOrder, Write
<1>8. SeenInOrder(s)'
  BY <1>1, <1>2, <1>5 DEF Orders, SeenInOrder
<1>9. DownInOrder(s)'
  BY <1>1, <1>2, <1>5 DEF Orders, DownInOrder
<1>10. OutInOrder(s)'
  BY <1>1, <1>2, <1>5 DEF Orders, OutInOrder
<1>11. InputInOrder(s)'
  BY <1>1, <1>2, <1>5, InputStays DEF Orders
<1>12. NoneOutlives'
  BY <1>1, <1>2, <1>3 DEF IInv, NoneOutlives, Stays
<1> QED BY <1>3, <1>4, <1>6, <1>7, <1>8, <1>9, <1>10, <1>11, <1>12, OthersStay
          DEF IInv, Typed, Orders

(* A job that is forked is ahead of the scan or missed by it; it joins    *)
(* the leader's group only from there.                                    *)
LEMMA ForkKeeps ==
  ASSUME IInv, NEW s \in Sessions, NEW p \in Procs, Fork(s, p)
  PROVE  IInv'
<1>1. Typed /\ Orders(s)
  BY DEF IInv, Typed
<1>20. PICK group \in {sh[s].group, sh[s].group \cup {p}} :
         /\ p \in group => sh[s].alive \cap sh[s].group # {}
         /\ Shells(s, [sh[s] EXCEPT !.alive = @ \cup {p}, !.born = @ \cup {p}, !.group = group,
                                    !.missed = IF p < sh[s].at THEN @ \cup {p} ELSE @])
  BY DEF Fork
<1> DEFINE missed == IF p < sh[s].at THEN sh[s].missed \cup {p} ELSE sh[s].missed
           next   == [sh[s] EXCEPT !.alive = @ \cup {p}, !.born = @ \cup {p}, !.group = group, !.missed = missed]
<1>21. sh[s].alive # {} /\ p \in Procs \ sh[s].born
  BY DEF Fork
<1>22. /\ sh' = [sh EXCEPT ![s] = next]
       /\ UNCHANGED <<relay, typed, seen, up, down, pc, g, active>>
  BY <1>20 DEF Shells
<1>23. next \in Shell
  <2>1. sh[s] \in Shell
    BY <1>1 DEF Typed, TypeOK
  <2>2. missed \subseteq Procs /\ group \subseteq Procs /\ sh[s].alive \cup {p} \subseteq Procs
        /\ sh[s].born \cup {p} \subseteq Procs
    BY <1>1, ShellFields
  <2> HIDE DEF missed
  <2> QED BY <2>1, <2>2 DEF Shell
<1>24. sh' \in [Sessions -> Shell] /\ sh'[s] = next /\ \A x \in Sessions : x # s => sh'[x] = sh[x]
  BY <1>1, <1>22, <1>23, SetShell
<1>25. /\ sh'[s].started = sh[s].started /\ sh'[s].alive = sh[s].alive \cup {p}
       /\ sh'[s].born = sh[s].born \cup {p} /\ sh'[s].group = group /\ sh'[s].missed = missed
       /\ sh'[s].at = sh[s].at
       /\ sh'[s].wrote = sh[s].wrote /\ sh'[s].read = sh[s].read /\ sh'[s].got = sh[s].got
  <2>1. sh[s] \in Shell
    BY <1>1 DEF Typed, TypeOK
  <2> HIDE DEF missed
  <2> QED BY <1>24, <2>1 DEF Shell
<1> HIDE DEF next
<1>2. /\ relay'[s] = relay[s] /\ typed'[s] = typed[s] /\ seen'[s] = seen[s]
      /\ up'[s] = up[s] /\ down'[s] = down[s] /\ pc'[s] = pc[s]
      /\ g'[s].out = g[s].out /\ g'[s].input = g[s].input /\ g'[s].exit = g[s].exit
      /\ g'[s].late = g[s].late /\ g'[s].finishing = g[s].finishing /\ g'[s].closed = g[s].closed
      /\ sh'[s].started = sh[s].started /\ sh'[s].alive = sh[s].alive \cup {p}
      /\ sh'[s].born = sh[s].born \cup {p} /\ sh'[s].group = group /\ sh'[s].missed = missed
      /\ sh'[s].at = sh[s].at
      /\ sh'[s].wrote = sh[s].wrote /\ sh'[s].read = sh[s].read /\ sh'[s].got = sh[s].got
  BY <1>22, <1>25
<1>3. \A x \in Sessions : x # s => Stays(x)
  BY <1>22, <1>24 DEF Stays
<1>4. Typed'
  BY <1>1, <1>22, <1>24 DEF Typed, TypeOK, StreamTypes
<1>5. (\A i : Item(s, i)' = Item(s, i)) /\ Sent(s)' = Sent(s) /\ (Open(s)' <=> Open(s))
  BY <1>2 DEF Item, Sent, Open
<1>6. Unopened(s)'
  BY <1>1, <1>2, <1>5 DEF Orders, Unopened
<1>7. ProcsInOrder(s)'
  <2>1. ProcsInOrder(s) /\ p \in Nat /\ sh[s].at \in Nat
    BY <1>1, ShellFields, ShellConstants DEF Orders, Procs
  <2>2. {Leader} \cup (sh[s].alive \cup {p}) \cup group \cup missed \subseteq sh[s].born \cup {p}
    BY <1>20, <2>1 DEF ProcsInOrder
  <2>3. \A x \in (sh[s].alive \cup {p}) \ missed : x >= sh[s].at
    BY <2>1 DEF ProcsInOrder
  <2>4. sh[s].started /\ ~g[s].closed
    BY <1>21, <2>1 DEF ProcsInOrder
  <2> HIDE DEF missed
  <2> QED BY <1>2, <2>1, <2>2, <2>3, <2>4 DEF ProcsInOrder
<1>8. SeenInOrder(s)'
  BY <1>1, <1>2, <1>5 DEF Orders, SeenInOrder
<1>9. DownInOrder(s)'
  BY <1>1, <1>2, <1>5 DEF Orders, DownInOrder
<1>10. OutInOrder(s)'
  BY <1>1, <1>2, <1>5 DEF Orders, OutInOrder
<1>11. InputInOrder(s)'
  BY <1>1, <1>2, <1>5, InputStays DEF Orders
<1>12. NoneOutlives'
  <2>1. ASSUME pc[s] \in {"report", "leave", "end"}
        PROVE  sh[s].alive \cup {p} \subseteq missed \ group
    <3>1. sh[s].alive \subseteq sh[s].missed \ sh[s].group /\ ProcsInOrder(s)
      BY <1>1, <2>1 DEF IInv, NoneOutlives, Orders
    <3>2. group = sh[s].group /\ p \notin group
      BY <1>20, <1>21, <3>1 DEF ProcsInOrder
    <3>3. sh[s].at > MaxPid
      BY <1>21, <2>1, <3>1 DEF ProcsInOrder
    <3>4. p < sh[s].at
      BY <1>1, <3>3, ShellFields, ShellConstants DEF Procs
    <3> QED BY <3>1, <3>2, <3>4
  <2> HIDE DEF missed
  <2> QED BY <1>1, <1>2, <1>3, <2>1 DEF IInv, NoneOutlives, Stays
<1> QED BY <1>3, <1>4, <1>6, <1>7, <1>8, <1>9, <1>10, <1>11, <1>12, OthersStay
          DEF IInv, Typed, Orders

(* The scan looks at one number: whoever has it is killed or missed.      *)
LEMMA LookKeeps ==
  ASSUME IInv, NEW s \in Sessions, Look(s)
  PROVE  IInv'
<1>1. Typed /\ Orders(s)
  BY DEF IInv, Typed
<1>2. /\ pc[s] = "scan" /\ sh[s].at <= MaxPid
      /\ UNCHANGED <<relay, typed, seen, up, down, pc, g, active>>
  BY DEF Look
<1>3. sh[s] \in Shell /\ sh \in [Sessions -> Shell]
  BY <1>1 DEF Typed, TypeOK
<1>4. PICK alive \in SUBSET sh[s].alive, missed \in SUBSET Procs :
        /\ sh' = [sh EXCEPT ![s] = [sh[s] EXCEPT !.at = sh[s].at + 1, !.alive = alive, !.missed = missed]]
        /\ sh[s].missed \subseteq missed /\ missed \subseteq sh[s].missed \cup sh[s].alive
        /\ sh[s].at \notin alive \ missed
  <2>1. CASE sh' = [sh EXCEPT ![s].at = sh[s].at + 1,
                              ![s].alive = IF Member(s, sh[s].at) THEN @ \ {sh[s].at} ELSE @]
    <3> DEFINE left == IF Member(s, sh[s].at) THEN sh[s].alive \ {sh[s].at} ELSE sh[s].alive
    <3>1. sh' = [sh EXCEPT ![s] = [sh[s] EXCEPT !.at = sh[s].at + 1, !.alive = left]]
      BY <2>1, <1>3
    <3>2. left \in SUBSET sh[s].alive /\ sh[s].at \notin left
      BY DEF Member
    <3> HIDE DEF left
    <3>3. [sh[s] EXCEPT !.at = sh[s].at + 1, !.alive = left]
            = [sh[s] EXCEPT !.at = sh[s].at + 1, !.alive = left, !.missed = sh[s].missed]
      BY <1>3 DEF Shell
    <3> QED BY <1>3, <3>1, <3>2, <3>3 DEF Shell
  <2>2. CASE sh' = [sh EXCEPT ![s].at = sh[s].at + 1, ![s].missed = @ \cup ({sh[s].at} \cap sh[s].alive)]
    <3> DEFINE more == sh[s].missed \cup ({sh[s].at} \cap sh[s].alive)
    <3>1. sh' = [sh EXCEPT ![s] = [sh[s] EXCEPT !.at = sh[s].at + 1, !.missed = more]]
      BY <2>2, <1>3
    <3>2. /\ more \in SUBSET Procs /\ sh[s].missed \subseteq more /\ more \subseteq sh[s].missed \cup sh[s].alive
          /\ sh[s].at \notin sh[s].alive \ more
      BY <1>3 DEF Shell
    <3> HIDE DEF more
    <3>3. [sh[s] EXCEPT !.at = sh[s].at + 1, !.missed = more]
            = [sh[s] EXCEPT !.at = sh[s].at + 1, !.alive = sh[s].alive, !.missed = more]
      BY <1>3 DEF Shell
    <3> QED BY <3>1, <3>2, <3>3
  <2> QED BY <2>1, <2>2 DEF Look
<1>5. [sh[s] EXCEPT !.at = sh[s].at + 1, !.alive = alive, !.missed = missed] \in Shell
  <2>1. sh[s].at + 1 \in 0..(MaxPid + 1)
    BY <1>1, <1>2, ShellFields, ShellConstants
  <2> QED BY <1>3, <1>4, <2>1 DEF Shell
<1>6. /\ sh' \in [Sessions -> Shell]
      /\ sh'[s] = [sh[s] EXCEPT !.at = sh[s].at + 1, !.alive = alive, !.missed = missed]
      /\ \A x \in Sessions : x # s => sh'[x] = sh[x]
  BY <1>1, <1>4, <1>5, SetShell
<1>7. /\ relay'[s] = relay[s] /\ typed'[s] = typed[s] /\ seen'[s] = seen[s]
      /\ up'[s] = up[s] /\ down'[s] = down[s] /\ pc'[s] = "scan" /\ g'[s] = g[s]
      /\ sh'[s].started = sh[s].started /\ sh'[s].alive = alive /\ sh'[s].born = sh[s].born
      /\ sh'[s].group = sh[s].group /\ sh'[s].missed = missed /\ sh'[s].at = sh[s].at + 1
      /\ sh'[s].wrote = sh[s].wrote /\ sh'[s].read = sh[s].read /\ sh'[s].got = sh[s].got
  BY <1>2, <1>3, <1>6 DEF Shell
<1>8. \A x \in Sessions : x # s => Stays(x)
  BY <1>2, <1>6 DEF Stays
<1>9. Typed'
  BY <1>1, <1>2, <1>6 DEF Typed, TypeOK, StreamTypes
<1>10. (\A i : Item(s, i)' = Item(s, i)) /\ Sent(s)' = Sent(s) /\ (Open(s)' <=> Open(s))
  BY <1>7 DEF Item, Sent, Open
<1>11. Unopened(s)'
  BY <1>1, <1>2, <1>7 DEF Orders, Unopened
<1>12. ProcsInOrder(s)'
  <2>1. ProcsInOrder(s) /\ sh[s].at \in Nat /\ sh[s].alive \subseteq Nat
    BY <1>1, ShellFields, ShellConstants DEF Orders, Procs
  <2>2. {Leader} \cup alive \cup sh[s].group \cup missed \subseteq sh[s].born
    BY <1>4, <2>1 DEF ProcsInOrder
  <2>3. ASSUME NEW x \in alive \ missed
        PROVE  x >= sh[s].at + 1
    <3>1. x >= sh[s].at /\ x # sh[s].at /\ x \in Nat
      BY <1>4, <2>1 DEF ProcsInOrder
    <3> QED BY <2>1, <3>1
  <2>4. sh[s].started
    BY <1>2, <2>1 DEF ProcsInOrder
  <2> QED BY <1>4, <1>7, <2>1, <2>2, <2>3, <2>4 DEF ProcsInOrder
<1>13. SeenInOrder(s)'
  BY <1>1, <1>7, <1>10 DEF Orders, SeenInOrder
<1>14. DownInOrder(s)'
  BY <1>1, <1>2, <1>7, <1>10 DEF Orders, DownInOrder
<1>15. OutInOrder(s)'
  BY <1>7 DEF OutInOrder, Loop
<1>16. InputInOrder(s)'
  BY <1>1, <1>2, <1>7 DEF Orders, InputInOrder, Loop
<1>17. NoneOutlives'
  BY <1>1, <1>7, <1>8 DEF IInv, NoneOutlives, Stays
<1> QED BY <1>8, <1>9, <1>11, <1>12, <1>13, <1>14, <1>15, <1>16, <1>17, OthersStay
          DEF IInv, Typed, Orders

(* A process dies by itself.                                              *)
LEMMA DiesKeeps ==
  ASSUME IInv, NEW s \in Sessions, NEW p \in Procs, Dies(s, p)
  PROVE  IInv'
<1>1. Typed /\ Orders(s)
  BY DEF IInv, Typed
<1>2. /\ relay'[s] = relay[s] /\ typed'[s] = typed[s] /\ seen'[s] = seen[s]
      /\ up'[s] = up[s] /\ down'[s] = down[s] /\ pc'[s] = pc[s]
      /\ g'[s].out = g[s].out /\ g'[s].input = g[s].input /\ g'[s].exit = g[s].exit
      /\ g'[s].late = g[s].late /\ g'[s].finishing = g[s].finishing /\ g'[s].closed = g[s].closed
      /\ sh'[s].started = sh[s].started /\ sh'[s].alive = sh[s].alive \ {p} /\ sh'[s].born = sh[s].born
      /\ sh'[s].group = sh[s].group /\ sh'[s].missed = sh[s].missed /\ sh'[s].at = sh[s].at
      /\ sh'[s].wrote = sh[s].wrote /\ sh'[s].read = sh[s].read /\ sh'[s].got = sh[s].got
  BY <1>1 DEF Dies, Shells, Typed, TypeOK, StreamTypes, Local, Shell
<1>3. \A x \in Sessions : x # s => Stays(x)
  BY <1>1 DEF Stays, Dies, Shells, Typed, TypeOK, StreamTypes
<1>4. Typed'
  <2>1. sh[s] \in Shell
    BY <1>1 DEF Typed, TypeOK
  <2>2. [sh[s] EXCEPT !.alive = @ \ {p}] \in Shell
    BY <1>1, <2>1 DEF Shell, Dies, Shells
  <2>3. sh' = [sh EXCEPT ![s] = [sh[s] EXCEPT !.alive = @ \ {p}]]
    BY DEF Dies, Shells
  <2>4. sh' \in [Sessions -> Shell]
    BY <1>1, <2>2, <2>3, SetShell
  <2> QED BY <1>1, <2>4 DEF Dies, Shells, Typed, TypeOK, StreamTypes
<1>5. (\A i : Item(s, i)' = Item(s, i)) /\ Sent(s)' = Sent(s) /\ (Open(s)' <=> Open(s))
  BY <1>2 DEF Item, Sent, Open
<1>6. Unopened(s)'
  BY <1>1, <1>2, <1>5 DEF Orders, Unopened
<1>7. ProcsInOrder(s)'
  BY <1>1, <1>2 DEF Orders, ProcsInOrder
<1>8. SeenInOrder(s)'
  BY <1>1, <1>2, <1>5 DEF Orders, SeenInOrder
<1>9. DownInOrder(s)'
  BY <1>1, <1>2, <1>5 DEF Orders, DownInOrder
<1>10. OutInOrder(s)'
  BY <1>1, <1>2, <1>5 DEF Orders, OutInOrder
<1>11. InputInOrder(s)'
  BY <1>1, <1>2, <1>5, InputStays DEF Orders
<1>12. NoneOutlives'
  BY <1>1, <1>2, <1>3 DEF IInv, NoneOutlives, Stays
<1> QED BY <1>3, <1>4, <1>6, <1>7, <1>8, <1>9, <1>10, <1>11, <1>12, OthersStay
          DEF IInv, Typed, Orders

(* Taking the first of a sequence.                                        *)
LEMMA TailFields ==
  ASSUME NEW S, NEW q \in Seq(S), q # <<>>
  PROVE  /\ Head(q) \in S /\ Head(q) = q[1] /\ Tail(q) \in Seq(S)
         /\ Len(q) \in Nat /\ Len(q) >= 1 /\ Len(Tail(q)) \in Nat /\ Len(Tail(q)) = Len(q) - 1
         /\ \A i \in 1..Len(Tail(q)) : Tail(q)[i] = q[i + 1] /\ i + 1 \in 1..Len(q)
<1>1. Len(q) \in Nat /\ Len(q) # 0
  BY EmptySeq, LenProperties
<1>2. Head(q) \in S /\ Head(q) = q[1] /\ Tail(q) \in Seq(S) /\ Len(Tail(q)) = Len(q) - 1
  BY <1>1, HeadTailProperties
<1>3. \A i \in 1..Len(Tail(q)) : Tail(q)[i] = q[i + 1]
  BY <1>1, <1>2, HeadTailProperties
<1> QED BY <1>1, <1>2, <1>3

(* Adding to the end of a sequence.                                       *)
LEMMA AppendFields ==
  ASSUME NEW S, NEW q \in Seq(S), NEW e \in S
  PROVE  /\ Append(q, e) \in Seq(S) /\ Len(q) \in Nat /\ Len(Append(q, e)) = Len(q) + 1
         /\ Append(q, e)[Len(q) + 1] = e
         /\ \A i \in 1..Len(q) : Append(q, e)[i] = q[i]
         /\ \A i \in 1..Len(Append(q, e)) : i \in 1..Len(q) \/ i = Len(q) + 1
<1>1. Len(q) \in Nat
  BY LenProperties
<1>2. Append(q, e) \in Seq(S) /\ Len(Append(q, e)) = Len(q) + 1 /\ Append(q, e)[Len(q) + 1] = e
      /\ \A i \in 1..Len(q) : Append(q, e)[i] = q[i]
  BY <1>1, AppendProperties
<1> QED BY <1>1, <1>2

(* A step that changes the stream of one session to its thread.           *)
LEMMA SetUp ==
  ASSUME Typed, NEW s \in Sessions, NEW q \in Seq(Messages), up' = [up EXCEPT ![s] = q]
  PROVE  up' \in [Sessions -> Seq(Messages)] /\ up'[s] = q /\ \A x \in Sessions : x # s => up'[x] = up[x]
  BY DEF Typed, TypeOK

(* A thread that goes round its loop keeps its place among the sessions.  *)
LEMMA GoesOn ==
  ASSUME Typed, NEW s \in Sessions, NEW w \in Loop, Goes(s, w), pc[s] \in Loop
  PROVE  /\ pc' \in [Sessions -> Loop \cup {"off", "scan", "report", "leave", "end"}]
         /\ pc'[s] = w /\ \A x \in Sessions : x # s => pc'[x] = pc[x]
         /\ {x \in Sessions : pc'[x] \notin {"off", "end"}}
              = {x \in Sessions : pc[x] \notin {"off", "end"}}
  BY DEF Goes, Typed, TypeOK, Loop

(* A step of a session's thread from one part of its loop to another.     *)
GoesRound(s, w) ==
  /\ pc[s] \in Loop
  /\ w \in Loop
  /\ Goes(s, w)
  /\ UNCHANGED <<relay, typed, seen, active>>

(* Such a step keeps the types.                                           *)
LEMMA RoundTypes ==
  ASSUME Typed, NEW s \in Sessions, NEW w, GoesRound(s, w),
         up' \in [Sessions -> Seq(Messages)], g' \in [Sessions -> Local], sh' \in [Sessions -> Shell],
         down' \in [Sessions -> Seq(Frames)],
         Len(down'[s]) <= MaxWire, Len(g'[s].out) <= MaxPending + 1,
         \A x \in Sessions : x # s => down'[x] = down[x] /\ g'[x] = g[x]
  PROVE  Typed'
<1>1. /\ pc' \in [Sessions -> Loop \cup {"off", "scan", "report", "leave", "end"}]
      /\ {x \in Sessions : pc'[x] \notin {"off", "end"}} = {x \in Sessions : pc[x] \notin {"off", "end"}}
  BY GoesOn DEF GoesRound
<1>2. relay' = relay /\ typed' = typed /\ seen' = seen /\ active' = active
  BY DEF GoesRound
<1>3. \A x \in Sessions : Len(down'[x]) <= MaxWire /\ Len(g'[x].out) <= MaxPending + 1
  BY DEF Typed, TypeOK
<1> QED BY <1>1, <1>2, <1>3 DEF Typed, TypeOK, StreamTypes

(* A session that is not opened, or whose frames are not taken, ends with *)
(* an error.                                                              *)
LEMMA TimesOutKeeps ==
  ASSUME IInv, NEW s \in Sessions, TimesOut(s)
  PROVE  IInv'
<1>1. Stops(s)
  BY FailStops DEF TimesOut, Stops, Loop, IInv, Typed, TypeOK
<1> QED BY <1>1, StopsKeeps


(* The steps that only go on, ...                                         *)
MovesOn(s, w) == GoesRound(s, w) /\ UNCHANGED <<g, sh, up, down>>

(* ... and those that set a flag of the thread.                           *)
Flags(s, w, n) ==
  /\ GoesRound(s, w)
  /\ n \in Local
  /\ g' = [g EXCEPT ![s] = n]
  /\ n.out = g[s].out /\ n.input = g[s].input /\ n.late = g[s].late /\ n.finishing = g[s].finishing
  /\ n.exit = g[s].exit \/ sh[s].started
  /\ n.closed = g[s].closed \/ (n.closed /\ sh[s].started /\ sh[s].alive = {} /\ sh[s].read = sh[s].wrote)
  /\ UNCHANGED <<sh, up, down>>

(* A request to open that is met, ...                                     *)
Opened(s) ==
  /\ pc[s] = "poll"
  /\ GoesRound(s, "pty")
  /\ up[s] # <<>>
  /\ up' = [up EXCEPT ![s] = Tail(@)]
  /\ Head(up[s]).type = "open"
  /\ ~sh[s].started
  /\ sh' = [sh EXCEPT ![s].started = TRUE, ![s].alive = {Leader}]
  /\ g' = [g EXCEPT ![s].out = Append(@, Plain("ready"))]
  /\ UNCHANGED down

(* ... and input that is taken.                                           *)
Taken(s) ==
  /\ pc[s] = "poll"
  /\ GoesRound(s, "pty")
  /\ up[s] # <<>>
  /\ up' = [up EXCEPT ![s] = Tail(@)]
  /\ Head(up[s]).type = "input"
  /\ sh[s].started /\ ~g[s].finishing
  /\ g' = [g EXCEPT ![s].input = Append(@, Head(up[s]).n)]
  /\ UNCHANGED <<sh, down>>

(* A turn of the loop that finds nothing to do keeps everything.          *)
LEMMA MovesOnKeeps ==
  ASSUME IInv, NEW s \in Sessions, NEW w, MovesOn(s, w)
  PROVE  IInv'
<1>1. Typed /\ Orders(s)
  BY DEF IInv, Typed
<1>2. GoesRound(s, w) /\ pc[s] \in Loop /\ w \in Loop
  BY DEF MovesOn, GoesRound
<1>3. g' = g /\ g \in [Sessions -> Local]
  BY <1>1 DEF MovesOn, Typed, TypeOK, StreamTypes
<1>4. sh' = sh /\ sh \in [Sessions -> Shell]
  BY <1>1 DEF MovesOn, Typed, TypeOK, StreamTypes
<1>5. up' = up /\ up \in [Sessions -> Seq(Messages)]
  BY <1>1 DEF MovesOn, Typed, TypeOK, StreamTypes
<1>6. down' = down /\ down \in [Sessions -> Seq(Frames)] /\ Len(down[s]) <= MaxWire
  BY <1>1 DEF MovesOn, Typed, TypeOK, StreamTypes
<1>7. /\ relay'[s] = relay[s] /\ typed'[s] = typed[s] /\ seen'[s] = seen[s]
      /\ up'[s] = up[s] /\ down'[s] = down[s] /\ pc'[s] = w
  BY <1>1, <1>2, <1>5, <1>6, GoesOn DEF GoesRound
<1>8. /\ g'[s].out = g[s].out /\ g'[s].input = g[s].input /\ g'[s].exit = g[s].exit
      /\ g'[s].late = g[s].late /\ g'[s].finishing = g[s].finishing /\ g'[s].closed = g[s].closed
  BY <1>1, <1>2, <1>3 DEF Typed, TypeOK, Local
<1>9. /\ sh'[s].started = sh[s].started /\ sh'[s].alive = sh[s].alive /\ sh'[s].born = sh[s].born
      /\ sh'[s].group = sh[s].group /\ sh'[s].missed = sh[s].missed /\ sh'[s].at = sh[s].at
      /\ sh'[s].wrote = sh[s].wrote /\ sh'[s].read = sh[s].read /\ sh'[s].got = sh[s].got
  BY <1>1, <1>4 DEF Typed, TypeOK, Shell
<1>10. /\ relay'[s] = relay[s] /\ typed'[s] = typed[s] /\ seen'[s] = seen[s]
       /\ up'[s] = up[s] /\ down'[s] = down[s] /\ pc'[s] = w
       /\ g'[s].out = g[s].out /\ g'[s].input = g[s].input /\ g'[s].exit = g[s].exit
       /\ g'[s].late = g[s].late /\ g'[s].finishing = g[s].finishing /\ g'[s].closed = g[s].closed
       /\ sh'[s].started = sh[s].started /\ sh'[s].alive = sh[s].alive /\ sh'[s].born = sh[s].born
       /\ sh'[s].group = sh[s].group /\ sh'[s].missed = sh[s].missed /\ sh'[s].at = sh[s].at
       /\ sh'[s].wrote = sh[s].wrote /\ sh'[s].read = sh[s].read /\ sh'[s].got = sh[s].got
  BY <1>7, <1>8, <1>9
<1>11. \A x \in Sessions : x # s => Stays(x)
  BY <1>1, <1>2, <1>3, <1>4, <1>5, <1>6, GoesOn DEF Stays, GoesRound
<1>12. Len(g'[s].out) <= MaxPending + 1
  BY <1>1, <1>10 DEF Typed, TypeOK
<1>13. Typed'
  <2>1. /\ down' \in [Sessions -> Seq(Frames)] /\ Len(down'[s]) <= MaxWire
        /\ \A x \in Sessions : x # s => down'[x] = down[x]
    BY <1>6
  <2>2. up' \in [Sessions -> Seq(Messages)] /\ sh' \in [Sessions -> Shell]
    BY <1>4, <1>5
  <2>3. g' \in [Sessions -> Local] /\ \A x \in Sessions : x # s => g'[x] = g[x]
    BY <1>3
  <2> QED BY <1>1, <1>2, <1>12, <2>1, <2>2, <2>3, RoundTypes
<1>14. (\A i : Item(s, i)' = Item(s, i)) /\ Sent(s)' = Sent(s) /\ (Open(s)' <=> Open(s))
  BY <1>10 DEF Item, Sent, Open
<1>15. Unopened(s)'
  BY <1>1, <1>2, <1>10 DEF Orders, Unopened, Loop
<1>16. ProcsInOrder(s)'
  BY <1>1, <1>2, <1>10 DEF Orders, ProcsInOrder, Loop
<1>17. SeenInOrder(s)'
  BY <1>1, <1>10, <1>14 DEF Orders, SeenInOrder
<1>18. DownInOrder(s)'
  BY <1>1, <1>2, <1>10, <1>14 DEF Orders, DownInOrder, Loop
<1>19. OutInOrder(s)'
  BY <1>1, <1>2, <1>10, <1>14 DEF Orders, OutInOrder
<1>20. InputInOrder(s)'
  BY <1>1, <1>2, <1>10, <1>14, InputStays DEF Orders
<1>21. NoneOutlives'
  BY <1>1, <1>2, <1>10, <1>11 DEF IInv, NoneOutlives, Stays, Loop
<1> QED BY <1>11, <1>13, <1>15, <1>16, <1>17, <1>18, <1>19, <1>20, <1>21, OthersStay
          DEF IInv, Typed, Orders

(* So does one that notes the end of the shell, of its terminal or of     *)
(* half a write.                                                          *)
LEMMA FlagsKeeps ==
  ASSUME IInv, NEW s \in Sessions, NEW w, NEW n, Flags(s, w, n)
  PROVE  IInv'
<1>1. Typed /\ Orders(s)
  BY DEF IInv, Typed
<1>2. /\ GoesRound(s, w) /\ pc[s] \in Loop /\ w \in Loop /\ n.out = g[s].out /\ n.input = g[s].input
      /\ n.late = g[s].late /\ n.finishing = g[s].finishing
      /\ (n.exit = g[s].exit \/ sh[s].started)
      /\ (n.closed = g[s].closed
           \/ (n.closed /\ sh[s].started /\ sh[s].alive = {} /\ sh[s].read = sh[s].wrote))
  BY DEF Flags, GoesRound
<1>3. n \in Local
  BY DEF Flags
<1>4. g' = [g EXCEPT ![s] = n]
  BY DEF Flags
<1>5. g' \in [Sessions -> Local] /\ g'[s] = n /\ \A x \in Sessions : x # s => g'[x] = g[x]
  BY <1>1, <1>3, <1>4, SetLocal
<1>6. sh' = sh /\ sh \in [Sessions -> Shell]
  BY <1>1 DEF Flags, Typed, TypeOK, StreamTypes
<1>7. up' = up /\ up \in [Sessions -> Seq(Messages)]
  BY <1>1 DEF Flags, Typed, TypeOK, StreamTypes
<1>8. down' = down /\ down \in [Sessions -> Seq(Frames)] /\ Len(down[s]) <= MaxWire
  BY <1>1 DEF Flags, Typed, TypeOK, StreamTypes
<1>9. /\ relay'[s] = relay[s] /\ typed'[s] = typed[s] /\ seen'[s] = seen[s]
      /\ up'[s] = up[s] /\ down'[s] = down[s] /\ pc'[s] = w
  BY <1>1, <1>2, <1>7, <1>8, GoesOn DEF GoesRound
<1>10. /\ g'[s].out = g[s].out /\ g'[s].input = g[s].input /\ g'[s].exit = n.exit
       /\ g'[s].late = g[s].late /\ g'[s].finishing = g[s].finishing /\ g'[s].closed = n.closed
  BY <1>1, <1>2, <1>5 DEF Typed, TypeOK, Local
<1>11. /\ sh'[s].started = sh[s].started /\ sh'[s].alive = sh[s].alive /\ sh'[s].born = sh[s].born
       /\ sh'[s].group = sh[s].group /\ sh'[s].missed = sh[s].missed /\ sh'[s].at = sh[s].at
       /\ sh'[s].wrote = sh[s].wrote /\ sh'[s].read = sh[s].read /\ sh'[s].got = sh[s].got
  BY <1>1, <1>6 DEF Typed, TypeOK, Shell
<1>12. /\ relay'[s] = relay[s] /\ typed'[s] = typed[s] /\ seen'[s] = seen[s]
       /\ up'[s] = up[s] /\ down'[s] = down[s] /\ pc'[s] = w
       /\ g'[s].out = g[s].out /\ g'[s].input = g[s].input /\ g'[s].exit = n.exit
       /\ g'[s].late = g[s].late /\ g'[s].finishing = g[s].finishing /\ g'[s].closed = n.closed
       /\ sh'[s].started = sh[s].started /\ sh'[s].alive = sh[s].alive /\ sh'[s].born = sh[s].born
       /\ sh'[s].group = sh[s].group /\ sh'[s].missed = sh[s].missed /\ sh'[s].at = sh[s].at
       /\ sh'[s].wrote = sh[s].wrote /\ sh'[s].read = sh[s].read /\ sh'[s].got = sh[s].got
  BY <1>9, <1>10, <1>11
<1>13. \A x \in Sessions : x # s => Stays(x)
  BY <1>1, <1>2, <1>5, <1>6, <1>7, <1>8, GoesOn DEF Stays, GoesRound
<1>14. Len(g'[s].out) <= MaxPending + 1
  BY <1>1, <1>12 DEF Typed, TypeOK
<1>15. Typed'
  <2>1. /\ down' \in [Sessions -> Seq(Frames)] /\ Len(down'[s]) <= MaxWire
        /\ \A x \in Sessions : x # s => down'[x] = down[x]
    BY <1>8
  <2>2. up' \in [Sessions -> Seq(Messages)] /\ sh' \in [Sessions -> Shell]
    BY <1>6, <1>7
  <2>3. g' \in [Sessions -> Local] /\ \A x \in Sessions : x # s => g'[x] = g[x]
    BY <1>5
  <2> QED BY <1>1, <1>2, <1>14, <2>1, <2>2, <2>3, RoundTypes
<1>16. (\A i : Item(s, i)' = Item(s, i)) /\ Sent(s)' = Sent(s) /\ (Open(s)' <=> Open(s))
  BY <1>12 DEF Item, Sent, Open
<1>17. Unopened(s)'
  BY <1>1, <1>2, <1>12 DEF Orders, Unopened, Loop
<1>18. ProcsInOrder(s)'
  BY <1>1, <1>2, <1>12 DEF Orders, ProcsInOrder, Loop
<1>19. SeenInOrder(s)'
  BY <1>1, <1>12, <1>16 DEF Orders, SeenInOrder
<1>20. DownInOrder(s)'
  BY <1>1, <1>2, <1>12, <1>16 DEF Orders, DownInOrder, Loop
<1>21. OutInOrder(s)'
  BY <1>1, <1>2, <1>12, <1>16 DEF Orders, OutInOrder
<1>22. InputInOrder(s)'
  BY <1>1, <1>2, <1>12, <1>16, InputStays DEF Orders
<1>23. NoneOutlives'
  BY <1>1, <1>2, <1>12, <1>13 DEF IInv, NoneOutlives, Stays, Loop
<1> QED BY <1>13, <1>15, <1>17, <1>18, <1>19, <1>20, <1>21, <1>22, <1>23, OthersStay
          DEF IInv, Typed, Orders

(* Messages carry numbers.                                                *)
LEMMA MessageFields ==
  \A m \in Messages : m.n \in Nat /\ (m.type = "input" => m.n \in 1..MaxInput)
  BY ShellConstants DEF Messages, Plain, Frame

(* Taking a numbered message leaves the rest numbered from the next.      *)
LEMMA NumberedTail ==
  ASSUME NEW q \in Seq(Messages), NEW k \in Nat, Numbered(q, k), q # <<>>
  PROVE  Numbered(Tail(q), k + 1) /\ (Head(q).type = "input" => Head(q).n = k)
<1>1. /\ Head(q) = q[1] /\ Head(q) \in Messages /\ Len(q) \in Nat /\ Len(q) >= 1
      /\ \A i \in 1..Len(Tail(q)) : Tail(q)[i] = q[i + 1] /\ i + 1 \in 1..Len(q)
  BY TailFields
<1>2. \A i \in 1..Len(Tail(q)) : Tail(q)[i].type = "input" => Tail(q)[i].n + 1 = (k + 1) + i
  BY <1>1 DEF Numbered
<1>3. Head(q).type = "input" => Head(q).n + 1 = k + 1
  BY <1>1 DEF Numbered
<1>4. Head(q).n \in Nat
  BY <1>1, MessageFields
<1> QED BY <1>2, <1>3, <1>4 DEF Numbered

(* A message that is put at the end needs the next number.                *)
LEMMA NumberedAppend ==
  ASSUME NEW q \in Seq(Messages), NEW k \in Nat, Numbered(q, k), NEW m \in Messages,
         m.type = "input" => m.n + 1 = k + (Len(q) + 1)
  PROVE  Numbered(Append(q, m), k)
  BY AppendFields DEF Numbered

(* The same of a run of numbers: its first is the next, ...               *)
LEMMA RunsTail ==
  ASSUME NEW q \in Seq(1..MaxInput), NEW k \in Nat, Runs(q, k), q # <<>>
  PROVE  Runs(Tail(q), k + 1) /\ Head(q) = k + 1
<1>1. /\ Head(q) = q[1] /\ Len(q) \in Nat /\ Len(q) >= 1
      /\ \A i \in 1..Len(Tail(q)) : Tail(q)[i] = q[i + 1] /\ i + 1 \in 1..Len(q)
  BY TailFields
<1> QED BY <1>1 DEF Runs

(* ... and it goes on with the one behind its last.                       *)
LEMMA RunsAppend ==
  ASSUME NEW q \in Seq(1..MaxInput), NEW k \in Nat, Runs(q, k), NEW n \in 1..MaxInput,
         n = k + (Len(q) + 1)
  PROVE  Runs(Append(q, n), k)
  BY AppendFields DEF Runs

(* One message less on the stream, one more consumed.                     *)
LEMMA TakesMessage ==
  ASSUME NEW q \in Seq(Messages), NEW k \in Nat, NEW t \in Nat, q # <<>>
  PROVE  (t + 1 = k + Len(q) => t + 1 = (k + 1) + Len(Tail(q))) /\ k + 1 \in Nat
<1>1. PICK a, b \in Nat : Len(q) = a /\ Len(Tail(q)) = b /\ b = a - 1 /\ a >= 1
  BY TailFields
<1>2. k + a = (k + 1) + b
  BY <1>1
<1> QED BY <1>1, <1>2

(* How many messages the thread has consumed.                             *)
LEMMA ConsumedNat ==
  ASSUME Typed, NEW s \in Sessions
  PROVE  /\ Consumed(s) \in Nat
         /\ ~sh[s].started => Consumed(s) = Len(sh[s].got) + Len(g[s].input)
         /\ sh[s].started => Consumed(s) = Len(sh[s].got) + Len(g[s].input) + 1
<1>1. Len(sh[s].got) \in Nat /\ Len(g[s].input) \in Nat
  BY LocalFields, ShellFields
<1>2. PICK a, b \in Nat : Len(sh[s].got) = a /\ Len(g[s].input) = b
  BY <1>1
<1> QED BY <1>2 DEF Consumed

(* A message is taken, and Consumed counts it: the order of the input     *)
(* holds.                                                                 *)
LEMMA InputGoesOn ==
  ASSUME Typed, NEW s \in Sessions, up[s] # <<>>, up'[s] = Tail(up[s]), typed'[s] = typed[s],
         pc[s] \in Loop, ~g[s].finishing, InputInOrder(s), Open(s)' <=> Open(s), sh'[s].got = sh[s].got,
         Consumed(s)' = Consumed(s) + 1, Runs(g'[s].input, Len(sh[s].got))
  PROVE  InputInOrder(s)'
<1>1. up[s] \in Seq(Messages) /\ typed[s] \in Nat /\ Consumed(s) \in Nat
  <2>1. typed[s] \in 0..MaxInput /\ MaxInput \in Nat
    BY StreamFields, ShellConstants
  <2>2. PICK t \in 0..MaxInput : typed[s] = t
    BY <2>1
  <2>3. t \in Nat
    BY <2>1
  <2>4. up[s] \in Seq(Messages)
    BY StreamFields
  <2>5. Consumed(s) \in Nat
    BY ConsumedNat
  <2> QED BY <2>2, <2>3, <2>4, <2>5
<1>2. Numbered(up[s], Consumed(s))
  BY DEF InputInOrder
<1>3. Numbered(up'[s], Consumed(s)')
  BY <1>1, <1>2, NumberedTail
<1>4. Open(s) => typed[s] + 1 = Consumed(s) + Len(up[s])
  BY DEF InputInOrder
<1>5. Open(s) => typed[s] + 1 = Consumed(s)' + Len(up'[s])
  BY <1>1, <1>4, TakesMessage
<1>6. Runs(sh[s].got, 0)
  BY DEF InputInOrder
<1>7. Runs(sh'[s].got, 0) /\ Runs(g'[s].input, Len(sh'[s].got))
  BY <1>6
<1>8. Open(s)' => typed'[s] + 1 = Consumed(s)' + Len(up'[s])
  BY <1>5
<1> QED BY <1>3, <1>7, <1>8 DEF InputInOrder

(* The request to open is taken: the shell starts, and readiness is the   *)
(* first thing to send.                                                   *)
LEMMA OpenedKeeps ==
  ASSUME IInv, NEW s \in Sessions, Opened(s)
  PROVE  IInv'
<1>1. Typed /\ Orders(s)
  BY DEF IInv, Typed
<1>2. /\ GoesRound(s, "pty") /\ pc[s] \in Loop /\ "pty" \in Loop /\ pc[s] = "poll" /\ up[s] # <<>>
      /\ Head(up[s]).type = "open" /\ ~sh[s].started
  BY DEF Opened, GoesRound, Loop
<1>3. /\ Head(up[s]) \in Messages /\ Head(up[s]) = up[s][1] /\ Tail(up[s]) \in Seq(Messages)
      /\ Len(up[s]) \in Nat /\ Len(up[s]) >= 1 /\ Len(Tail(up[s])) = Len(up[s]) - 1
      /\ \A i \in 1..Len(Tail(up[s])) : Tail(up[s])[i] = up[s][i + 1] /\ i + 1 \in 1..Len(up[s])
  BY <1>1, <1>2, StreamFields, TailFields
<1>4. g[s] \in Local /\ sh[s] \in Shell
  BY <1>1 DEF Typed, TypeOK
<1>5. /\ ~g[s].finishing /\ sh[s].read = 0 /\ Sent(s) = 0
      /\ Len(seen[s]) = 0 /\ Len(down[s]) = 0 /\ Len(g[s].out) = 0 /\ g[s].out \in Seq(Sends)
  <2>1. ~g[s].finishing /\ sh[s].read = 0 /\ Sent(s) = 0
    BY <1>1, <1>2 DEF Orders, ProcsInOrder, Sent
  <2>2. Len(seen[s]) + Len(down[s]) + Len(g[s].out) = 0
    BY <1>1, <1>2, <2>1 DEF Orders, OutInOrder
  <2>3. PICK a, b, c \in Nat : Len(seen[s]) = a /\ Len(down[s]) = b /\ Len(g[s].out) = c
    BY <1>1, LocalFields, StreamFields
  <2>4. a + b + c = 0
    BY <2>2, <2>3
  <2> QED BY <1>1, <2>1, <2>3, <2>4, LocalFields
<1>6. /\ Append(g[s].out, Plain("ready")) \in Seq(Sends)
      /\ Len(Append(g[s].out, Plain("ready"))) = 1 /\ Append(g[s].out, Plain("ready"))[1] = Plain("ready")
  <2>1. Plain("ready") \in Sends
    BY DEF Sends
  <2>2. /\ Append(g[s].out, Plain("ready")) \in Seq(Sends)
        /\ Len(Append(g[s].out, Plain("ready"))) = Len(g[s].out) + 1
        /\ Append(g[s].out, Plain("ready"))[Len(g[s].out) + 1] = Plain("ready")
    BY <1>5, <2>1, AppendFields
  <2> QED BY <1>5, <2>2
<1>7. [g[s] EXCEPT !.out = Append(@, Plain("ready"))] \in Local
  BY <1>4, <1>6 DEF Local
<1>8. g' = [g EXCEPT ![s] = [g[s] EXCEPT !.out = Append(@, Plain("ready"))]]
  BY DEF Opened
<1>9. /\ g' \in [Sessions -> Local] /\ g'[s] = [g[s] EXCEPT !.out = Append(@, Plain("ready"))]
      /\ \A x \in Sessions : x # s => g'[x] = g[x]
  BY <1>1, <1>7, <1>8, SetLocal
<1>10. [sh[s] EXCEPT !.started = TRUE, !.alive = {Leader}] \in Shell
  BY <1>4, ShellConstants DEF Shell, Procs
<1>11. sh' = [sh EXCEPT ![s] = [sh[s] EXCEPT !.started = TRUE, !.alive = {Leader}]]
  BY DEF Opened
<1>12. /\ sh' \in [Sessions -> Shell] /\ sh'[s] = [sh[s] EXCEPT !.started = TRUE, !.alive = {Leader}]
       /\ \A x \in Sessions : x # s => sh'[x] = sh[x]
  BY <1>1, <1>10, <1>11, SetShell
<1>13. Tail(up[s]) \in Seq(Messages)
  BY <1>3
<1>14. up' = [up EXCEPT ![s] = Tail(up[s])]
  BY DEF Opened
<1>15. /\ up' \in [Sessions -> Seq(Messages)] /\ up'[s] = Tail(up[s])
       /\ \A x \in Sessions : x # s => up'[x] = up[x]
  BY <1>1, <1>13, <1>14, SetUp
<1>16. down' = down /\ down \in [Sessions -> Seq(Frames)] /\ Len(down[s]) <= MaxWire
  BY <1>1 DEF Opened, Typed, TypeOK, StreamTypes
<1>17. /\ relay'[s] = relay[s] /\ typed'[s] = typed[s] /\ seen'[s] = seen[s]
       /\ up'[s] = Tail(up[s]) /\ down'[s] = down[s] /\ pc'[s] = "pty"
  BY <1>1, <1>2, <1>15, <1>16, GoesOn DEF GoesRound
<1>18. /\ g'[s].out = Append(g[s].out, Plain("ready")) /\ g'[s].input = g[s].input
       /\ g'[s].exit = g[s].exit
       /\ g'[s].late = g[s].late /\ g'[s].finishing = g[s].finishing /\ g'[s].closed = g[s].closed
  BY <1>1, <1>2, <1>9 DEF Typed, TypeOK, Local
<1>19. /\ sh'[s].started /\ sh'[s].alive = {Leader} /\ sh'[s].born = sh[s].born /\ sh'[s].group = sh[s].group /\ sh'[s].missed = sh[s].missed /\ sh'[s].at = sh[s].at
       /\ sh'[s].wrote = sh[s].wrote /\ sh'[s].read = sh[s].read /\ sh'[s].got = sh[s].got
  BY <1>1, <1>12 DEF Typed, TypeOK, Shell
<1>20. /\ relay'[s] = relay[s] /\ typed'[s] = typed[s] /\ seen'[s] = seen[s]
       /\ up'[s] = Tail(up[s]) /\ down'[s] = down[s] /\ pc'[s] = "pty"
       /\ g'[s].out = Append(g[s].out, Plain("ready")) /\ g'[s].input = g[s].input
       /\ g'[s].exit = g[s].exit
       /\ g'[s].late = g[s].late /\ g'[s].finishing = g[s].finishing /\ g'[s].closed = g[s].closed
       /\ sh'[s].started /\ sh'[s].alive = {Leader} /\ sh'[s].born = sh[s].born /\ sh'[s].group = sh[s].group /\ sh'[s].missed = sh[s].missed /\ sh'[s].at = sh[s].at
       /\ sh'[s].wrote = sh[s].wrote /\ sh'[s].read = sh[s].read /\ sh'[s].got = sh[s].got
  BY <1>17, <1>18, <1>19
<1>21. \A x \in Sessions : x # s => Stays(x)
  BY <1>1, <1>2, <1>9, <1>12, <1>15, <1>16, GoesOn DEF Stays, GoesRound
<1>22. Len(g'[s].out) <= MaxPending + 1
  BY <1>4, <1>6, <1>9, ShellConstants DEF Local
<1>23. Typed'
  <2>1. /\ down' \in [Sessions -> Seq(Frames)] /\ Len(down'[s]) <= MaxWire
        /\ \A x \in Sessions : x # s => down'[x] = down[x]
    BY <1>16
  <2>2. up' \in [Sessions -> Seq(Messages)] /\ sh' \in [Sessions -> Shell]
    BY <1>12, <1>15
  <2>3. g' \in [Sessions -> Local] /\ \A x \in Sessions : x # s => g'[x] = g[x]
    BY <1>9
  <2> QED BY <1>1, <1>2, <1>22, <2>1, <2>2, <2>3, RoundTypes
<1>24. /\ \A i : Item(s, i)' = Item(s, i)
       /\ Item(s, 1) = Plain("ready") /\ Sent(s)' = 1 /\ (Open(s)' <=> Open(s))
  BY <1>5, <1>20 DEF Item, Sent, Open
<1>25. Unopened(s)'
  BY <1>1, <1>2, <1>20 DEF Orders, Unopened, Loop
<1>26. ProcsInOrder(s)'
  <2>1. Leader >= 0
    BY ShellConstants
  <2>2. ProcsInOrder(s) /\ sh[s].at = 0
    BY <1>1, <1>2 DEF Orders, ProcsInOrder
  <2> QED BY <1>2, <1>20, <2>1, <2>2 DEF ProcsInOrder
<1>27. SeenInOrder(s)'
  BY <1>1, <1>5, <1>20, <1>24 DEF Orders, SeenInOrder
<1>28. DownInOrder(s)'
  BY <1>1, <1>5, <1>20, <1>24 DEF Orders, DownInOrder
<1>29. OutInOrder(s)'
  <2>1. Len(seen'[s]) = 0 /\ Len(down'[s]) = 0 /\ Len(g'[s].out) = 1
    BY <1>5, <1>6, <1>20
  <2>2. g'[s].out[1] = Item(s, 1)'
    BY <1>6, <1>20, <1>24
  <2>3. (\A i \in 1..Len(g[s].out) : g[s].out[i] = Item(s, Len(seen[s]) + Len(down[s]) + i))'
    <3>1. \A i \in 1..1 : i = 1 /\ 0 + 0 + i = i
      OBVIOUS
    <3> QED BY <2>1, <2>2, <3>1
  <2> QED BY <1>24, <2>1, <2>3 DEF OutInOrder
<1>30. InputInOrder(s)'
    <2>1. Consumed(s) \in Nat /\ Consumed(s) = Len(sh[s].got) + Len(g[s].input)
    BY <1>1, <1>2, ConsumedNat
  <2>2. g'[s].input = g[s].input /\ sh'[s].got = sh[s].got /\ sh'[s].started
    BY <1>20
  <2>3. Consumed(s)' = Len(sh[s].got) + Len(g[s].input) + 1
    BY <2>2 DEF Consumed
  <2>4. Runs(g'[s].input, Len(sh[s].got)) /\ InputInOrder(s)
    BY <1>1, <1>2, <1>5, <2>2 DEF Orders, InputInOrder
  <2> QED BY <1>1, <1>2, <1>5, <1>20, <1>24, <2>1, <2>3, <2>4, InputGoesOn
<1>31. NoneOutlives'
  BY <1>1, <1>2, <1>20, <1>21 DEF IInv, NoneOutlives, Stays, Loop
<1> QED BY <1>21, <1>23, <1>25, <1>26, <1>27, <1>28, <1>29, <1>30, <1>31, OthersStay
          DEF IInv, Typed, Orders

(* Input is taken off the stream, where it has the next number, and       *)
(* queued for the terminal.                                               *)
LEMMA TakenKeeps ==
  ASSUME IInv, NEW s \in Sessions, Taken(s)
  PROVE  IInv'
<1>1. Typed /\ Orders(s)
  BY DEF IInv, Typed
<1>2. /\ GoesRound(s, "pty") /\ pc[s] \in Loop /\ "pty" \in Loop /\ pc[s] = "poll" /\ up[s] # <<>>
      /\ Head(up[s]).type = "input" /\ sh[s].started /\ ~g[s].finishing
  BY DEF Taken, GoesRound, Loop
<1>3. /\ Head(up[s]) \in Messages /\ Head(up[s]) = up[s][1] /\ Tail(up[s]) \in Seq(Messages)
      /\ Len(up[s]) \in Nat /\ Len(up[s]) >= 1 /\ Len(Tail(up[s])) = Len(up[s]) - 1
      /\ \A i \in 1..Len(Tail(up[s])) : Tail(up[s])[i] = up[s][i + 1] /\ i + 1 \in 1..Len(up[s])
  BY <1>1, <1>2, StreamFields, TailFields
<1>4. g[s] \in Local
  BY <1>1 DEF Typed, TypeOK
<1>5. Head(up[s]).n \in 1..MaxInput
  BY <1>2, <1>3 DEF Messages, Plain, Frame
<1>6. /\ Append(g[s].input, Head(up[s]).n) \in Seq(1..MaxInput)
      /\ Len(Append(g[s].input, Head(up[s]).n)) = Len(g[s].input) + 1
      /\ Append(g[s].input, Head(up[s]).n)[Len(g[s].input) + 1] = Head(up[s]).n
      /\ \A i \in 1..Len(g[s].input) : Append(g[s].input, Head(up[s]).n)[i] = g[s].input[i]
      /\ \A i \in 1..Len(Append(g[s].input, Head(up[s]).n)) : i \in 1..Len(g[s].input)
           \/ i = Len(g[s].input) + 1
  BY <1>1, <1>5, LocalFields, AppendFields
<1>7. [g[s] EXCEPT !.input = Append(@, Head(up[s]).n)] \in Local
  BY <1>4, <1>6 DEF Local
<1>8. g' = [g EXCEPT ![s] = [g[s] EXCEPT !.input = Append(@, Head(up[s]).n)]]
  BY DEF Taken
<1>9. /\ g' \in [Sessions -> Local] /\ g'[s] = [g[s] EXCEPT !.input = Append(@, Head(up[s]).n)]
      /\ \A x \in Sessions : x # s => g'[x] = g[x]
  BY <1>1, <1>7, <1>8, SetLocal
<1>10. sh' = sh /\ sh \in [Sessions -> Shell]
  BY <1>1 DEF Taken, Typed, TypeOK, StreamTypes
<1>11. Tail(up[s]) \in Seq(Messages)
  BY <1>3
<1>12. up' = [up EXCEPT ![s] = Tail(up[s])]
  BY DEF Taken
<1>13. /\ up' \in [Sessions -> Seq(Messages)] /\ up'[s] = Tail(up[s])
       /\ \A x \in Sessions : x # s => up'[x] = up[x]
  BY <1>1, <1>11, <1>12, SetUp
<1>14. down' = down /\ down \in [Sessions -> Seq(Frames)] /\ Len(down[s]) <= MaxWire
  BY <1>1 DEF Taken, Typed, TypeOK, StreamTypes
<1>15. /\ relay'[s] = relay[s] /\ typed'[s] = typed[s] /\ seen'[s] = seen[s]
       /\ up'[s] = Tail(up[s]) /\ down'[s] = down[s] /\ pc'[s] = "pty"
  BY <1>1, <1>2, <1>13, <1>14, GoesOn DEF GoesRound
<1>16. /\ g'[s].out = g[s].out /\ g'[s].input = Append(g[s].input, Head(up[s]).n)
       /\ g'[s].exit = g[s].exit
       /\ g'[s].late = g[s].late /\ g'[s].finishing = g[s].finishing /\ g'[s].closed = g[s].closed
  BY <1>1, <1>2, <1>9 DEF Typed, TypeOK, Local
<1>17. /\ sh'[s].started = sh[s].started /\ sh'[s].alive = sh[s].alive /\ sh'[s].born = sh[s].born
       /\ sh'[s].group = sh[s].group /\ sh'[s].missed = sh[s].missed /\ sh'[s].at = sh[s].at
       /\ sh'[s].wrote = sh[s].wrote /\ sh'[s].read = sh[s].read /\ sh'[s].got = sh[s].got
  BY <1>1, <1>10 DEF Typed, TypeOK, Shell
<1>18. /\ relay'[s] = relay[s] /\ typed'[s] = typed[s] /\ seen'[s] = seen[s]
       /\ up'[s] = Tail(up[s]) /\ down'[s] = down[s] /\ pc'[s] = "pty"
       /\ g'[s].out = g[s].out /\ g'[s].input = Append(g[s].input, Head(up[s]).n)
       /\ g'[s].exit = g[s].exit
       /\ g'[s].late = g[s].late /\ g'[s].finishing = g[s].finishing /\ g'[s].closed = g[s].closed
       /\ sh'[s].started = sh[s].started /\ sh'[s].alive = sh[s].alive /\ sh'[s].born = sh[s].born
       /\ sh'[s].group = sh[s].group /\ sh'[s].missed = sh[s].missed /\ sh'[s].at = sh[s].at
       /\ sh'[s].wrote = sh[s].wrote /\ sh'[s].read = sh[s].read /\ sh'[s].got = sh[s].got
  BY <1>15, <1>16, <1>17
<1>19. \A x \in Sessions : x # s => Stays(x)
  BY <1>1, <1>2, <1>9, <1>10, <1>13, <1>14, GoesOn DEF Stays, GoesRound
<1>20. Len(g'[s].out) <= MaxPending + 1
  BY <1>1, <1>18 DEF Typed, TypeOK
<1>21. Typed'
  <2>1. /\ down' \in [Sessions -> Seq(Frames)] /\ Len(down'[s]) <= MaxWire
        /\ \A x \in Sessions : x # s => down'[x] = down[x]
    BY <1>14
  <2>2. up' \in [Sessions -> Seq(Messages)] /\ sh' \in [Sessions -> Shell]
    BY <1>10, <1>13
  <2>3. g' \in [Sessions -> Local] /\ \A x \in Sessions : x # s => g'[x] = g[x]
    BY <1>9
  <2> QED BY <1>1, <1>2, <1>20, <2>1, <2>2, <2>3, RoundTypes
<1>22. (\A i : Item(s, i)' = Item(s, i)) /\ Sent(s)' = Sent(s) /\ (Open(s)' <=> Open(s))
  BY <1>18 DEF Item, Sent, Open
<1>23. Unopened(s)'
  BY <1>1, <1>2, <1>18 DEF Orders, Unopened, Loop
<1>24. ProcsInOrder(s)'
  BY <1>1, <1>2, <1>18 DEF Orders, ProcsInOrder
<1>25. SeenInOrder(s)'
  BY <1>1, <1>18, <1>22 DEF Orders, SeenInOrder
<1>26. DownInOrder(s)'
  BY <1>1, <1>2, <1>18, <1>22 DEF Orders, DownInOrder
<1>27. OutInOrder(s)'
  <2>1. OutInOrder(s) /\ pc[s] \in Loop /\ g'[s].out = g[s].out /\ seen'[s] = seen[s] /\ down'[s] = down[s]
    BY <1>1, <1>2, <1>18 DEF Orders
  <2> QED BY <1>22, <2>1 DEF OutInOrder
<1>28. InputInOrder(s)'
    <2>1. PICK m, n \in Nat : Len(sh[s].got) = m /\ Len(g[s].input) = n
    BY <1>1, LocalFields, ShellFields
  <2>2. Len(sh'[s].got) = m /\ Len(g'[s].input) = n + 1 /\ sh'[s].got = sh[s].got /\ sh'[s].started
    BY <1>2, <1>6, <1>18, <2>1
  <2>3. Consumed(s) = m + n + 1 /\ Consumed(s) \in Nat
    BY <1>1, <1>2, <2>1, ConsumedNat
  <2>4. Consumed(s)' = m + (n + 1) + 1
    BY <2>2 DEF Consumed
  <2>5. Consumed(s) = m + n + 1 /\ Consumed(s)' = m + n + 1 + 1 /\ Consumed(s) \in Nat
    BY <2>3, <2>4
  <2>6. Runs(g[s].input, m) /\ Numbered(up[s], Consumed(s)) /\ InputInOrder(s)
    BY <1>1, <1>2, <2>1 DEF Orders, InputInOrder
  <2>7. Head(up[s]).n = m + n + 1
    BY <1>1, <1>2, <2>5, <2>6, NumberedTail, StreamFields
  <2>8. Head(up[s]).n = m + (Len(g[s].input) + 1)
    BY <2>1, <2>7
  <2>9. Runs(Append(g[s].input, Head(up[s]).n), m)
    BY <1>1, <1>5, <2>6, <2>8, RunsAppend, LocalFields
  <2>10. Runs(g'[s].input, Len(sh[s].got))
    BY <1>18, <2>1, <2>9
  <2> QED BY <1>1, <1>2, <1>18, <1>22, <2>2, <2>5, <2>6, <2>10, InputGoesOn
<1>29. NoneOutlives'
  BY <1>1, <1>2, <1>18, <1>19 DEF IInv, NoneOutlives, Stays, Loop
<1> QED BY <1>19, <1>21, <1>23, <1>24, <1>25, <1>26, <1>27, <1>28, <1>29, OthersStay
          DEF IInv, Typed, Orders

(* How much there is to send.                                             *)
LEMMA SentIs ==
  ASSUME Typed, NEW s \in Sessions
  PROVE  /\ Sent(s) \in Nat
         /\ sh[s].started /\ ~g[s].finishing => Sent(s) = sh[s].read + 1
         /\ sh[s].started /\ g[s].finishing => Sent(s) = sh[s].read + 2
<1>1. sh[s].read \in 0..MaxOutput /\ MaxOutput \in Nat
  BY ShellFields, ShellConstants
<1>2. PICK n \in 0..MaxOutput : sh[s].read = n
  BY <1>1
<1>3. n \in Nat
  BY <1>1
<1> QED BY <1>2, <1>3 DEF Sent

(* What was seen stays in order when there is more to send, ...           *)
LEMMA SeenGrows ==
  ASSUME Typed, NEW s \in Sessions, SeenInOrder(s), seen'[s] = seen[s], relay'[s] = relay[s],
         NEW n \in Nat, Sent(s)' = n, Sent(s) <= n, NEW r \in Nat, sh'[s].read = r, sh[s].read <= r,
         \A i \in 1..Sent(s) : Item(s, i)' = Item(s, i)
  PROVE  SeenInOrder(s)'
<1>1. PICK k \in Nat : Len(seen[s]) = k
  BY StreamFields
<1>2. PICK m \in Nat : Sent(s) = m
  BY SentIs
<1>3. PICK o \in Nat : sh[s].read = o
  BY SentIs, ShellFields, ShellConstants
<1>4. ASSUME NEW i \in 1..k
      PROVE  \/ seen[s][i] = Item(s, i)' /\ i <= n /\ (Open(s) \/ i # k => i <= r + 1)
             \/ i = k /\ seen[s][i] = Plain("error") /\ relay[s] = "gone"
  <2>1. CASE i = k /\ seen[s][i] = Plain("error") /\ relay[s] = "gone"
    BY <2>1
  <2>2. CASE seen[s][i] = Item(s, i) /\ i <= m /\ (Open(s) \/ i # k => i <= o + 1)
    BY <1>2, <1>3, <2>2
  <2> QED BY <1>1, <1>2, <1>3, <2>1, <2>2 DEF SeenInOrder
<1>5. Open(s)' <=> Open(s)
  BY DEF Open
<1>6. (relay[s] = "open" => seen[s] = <<>>) /\ (relay[s] = "ready" => seen[s] # <<>>)
  BY DEF SeenInOrder
<1> QED BY <1>1, <1>4, <1>5, <1>6 DEF SeenInOrder

(* ... and so does what is on the stream, ...                             *)
LEMMA DownGrows ==
  ASSUME Typed, NEW s \in Sessions, DownInOrder(s), seen'[s] = seen[s], down'[s] = down[s],
         pc[s] \in Loop, NEW n \in Nat, Sent(s)' = n, Sent(s) <= n,
         \A i \in 1..Sent(s) : Item(s, i)' = Item(s, i)
  PROVE  DownInOrder(s)'
<1>1. PICK k, l \in Nat : Len(seen[s]) = k /\ Len(down[s]) = l
  BY StreamFields
<1>2. PICK m \in Nat : Sent(s) = m
  BY SentIs
<1>3. ASSUME NEW i \in 1..l
      PROVE  down[s][i] = Item(s, k + i)' /\ k + i <= n
  <2>1. down[s][i] = Item(s, k + i) /\ k + i <= m
    BY <1>1, <1>2 DEF DownInOrder, Loop
  <2> QED BY <1>2, <2>1
<1> QED BY <1>1, <1>3 DEF DownInOrder

(* ... and what is queued, with the new frame behind it.                  *)
LEMMA OutGrows ==
  ASSUME Typed, NEW s \in Sessions, OutInOrder(s), pc[s] \in Loop, NEW f \in Sends,
         seen'[s] = seen[s], down'[s] = down[s], g'[s].out = Append(g[s].out, f),
         Sent(s)' = Sent(s) + 1, \A i : i = Sent(s) + 1 => Item(s, i)' = f,
         \A i \in 1..Sent(s) : Item(s, i)' = Item(s, i)
  PROVE  OutInOrder(s)'
<1>1. PICK k, l, m \in Nat : Len(seen[s]) = k /\ Len(down[s]) = l /\ Len(g[s].out) = m
  BY StreamFields, LocalFields
<1>2. Sent(s) = k + l + m
  BY <1>1 DEF OutInOrder
<1>3. /\ Len(g'[s].out) = m + 1 /\ g'[s].out[m + 1] = f
      /\ \A i \in 1..m : g'[s].out[i] = g[s].out[i]
  <2>1. g[s].out \in Seq(Sends)
    BY LocalFields
  <2>2. /\ Len(Append(g[s].out, f)) = Len(g[s].out) + 1 /\ Append(g[s].out, f)[Len(g[s].out) + 1] = f
        /\ \A i \in 1..Len(g[s].out) : Append(g[s].out, f)[i] = g[s].out[i]
    BY <2>1, AppendFields
  <2> QED BY <1>1, <2>2
<1>4. ASSUME NEW i \in 1..(m + 1)
      PROVE  g'[s].out[i] = Item(s, k + l + i)'
  <2>1. CASE i \in 1..m
    <3>1. g[s].out[i] = Item(s, k + l + i)
      BY <1>1, <2>1 DEF OutInOrder
    <3>2. k + l + i \in 1..(k + l + m)
      BY <2>1
    <3> QED BY <1>2, <1>3, <2>1, <3>1, <3>2
  <2>2. CASE i = m + 1
    <3>1. k + l + (m + 1) = k + l + m + 1
      OBVIOUS
    <3>2. Sent(s) + 1 = k + l + (m + 1)
      BY <1>2, <3>1
    <3>3. Item(s, k + l + (m + 1))' = f
      BY <3>2
    <3> QED BY <1>3, <2>2, <3>3
  <2>3. i \in 1..m \/ i = m + 1
    OBVIOUS
  <2> QED BY <2>1, <2>2, <2>3
<1>5. k + l + (m + 1) = k + l + m + 1
  OBVIOUS
<1> QED BY <1>1, <1>2, <1>3, <1>4, <1>5 DEF OutInOrder

(* The first frame of the queue is the one after what was seen and what   *)
(* is on the stream.                                                      *)
LEMMA NextOut ==
  ASSUME Typed, NEW s \in Sessions, OutInOrder(s), pc[s] \in Loop, g[s].out # <<>>
  PROVE  /\ Head(g[s].out) \in Frames
         /\ Head(g[s].out) = Item(s, Len(seen[s]) + Len(down[s]) + 1)
         /\ Len(seen[s]) + Len(down[s]) + 1 <= Sent(s)
<1>1. PICK k, l, m \in Nat : Len(seen[s]) = k /\ Len(down[s]) = l /\ Len(g[s].out) = m
  BY StreamFields, LocalFields
<1>2. Head(g[s].out) \in Frames /\ Head(g[s].out) = g[s].out[1] /\ m >= 1
  BY <1>1, LocalFields, TailFields
<1>3. Sent(s) = k + l + m /\ g[s].out[1] = Item(s, k + l + 1)
  BY <1>1, <1>2 DEF OutInOrder
<1> QED BY <1>1, <1>2, <1>3

(* Output is taken from the terminal, ...                                 *)
ReadsOne(s) ==
  /\ pc[s] = "pty"
  /\ GoesRound(s, "exit")
  /\ Readable(s)
  /\ sh[s].read < sh[s].wrote
  /\ ~TooMany(s)
  /\ g' = [g EXCEPT ![s].out = Append(@, Frame("output", sh[s].read + 1))]
  /\ sh' = [sh EXCEPT ![s].read = sh[s].read + 1]
  /\ UNCHANGED <<up, down>>

(* ... the exit is queued, ...                                            *)
Finishes(s) ==
  /\ pc[s] = "exit"
  /\ GoesRound(s, "flush")
  /\ g[s].exit \/ sh[s].started
  /\ ~g[s].finishing
  /\ MayFinish(s)
  /\ ~TooMany(s)
  /\ g' = [g EXCEPT ![s].out = Append(@, Plain("exit")), ![s].exit = TRUE, ![s].finishing = TRUE,
       ![s].input = <<>>]
  /\ UNCHANGED <<sh, up, down>>

(* ... and a frame is sent.                                               *)
Flushes(s) ==
  /\ pc[s] = "flush"
  /\ GoesRound(s, "poll")
  /\ g[s].out # <<>>
  /\ Len(down[s]) < MaxWire
  /\ down' = [down EXCEPT ![s] = Append(@, Head(g[s].out))]
  /\ g' = [g EXCEPT ![s].out = Tail(@), ![s].half = FALSE]
  /\ UNCHANGED <<sh, up>>

(* Output is taken from the terminal and queued as the next thing to      *)
(* send.                                                                  *)
LEMMA ReadsOneKeeps ==
  ASSUME IInv, NEW s \in Sessions, ReadsOne(s)
  PROVE  IInv'
<1>1. Typed /\ Orders(s)
  BY DEF IInv, Typed
<1>2. /\ GoesRound(s, "exit") /\ pc[s] \in Loop /\ "exit" \in Loop /\ pc[s] = "pty" /\ Readable(s)
      /\ sh[s].read < sh[s].wrote /\ ~TooMany(s)
  BY DEF ReadsOne, GoesRound, Loop
<1>3. g[s] \in Local /\ sh[s] \in Shell
  BY <1>1 DEF Typed, TypeOK
<1>4. sh[s].read + 1 \in 1..MaxOutput /\ sh[s].read + 1 \in 0..MaxOutput /\ sh[s].read + 1 <= sh[s].wrote
  <2>1. sh[s].read \in 0..MaxOutput /\ sh[s].wrote \in 0..MaxOutput /\ MaxOutput \in Nat
    BY <1>1, ShellFields, ShellConstants
  <2>2. PICK r, w \in 0..MaxOutput : sh[s].read = r /\ sh[s].wrote = w
    BY <2>1
  <2>3. r < w
    BY <1>2, <2>2
  <2>4. r + 1 \in 1..MaxOutput /\ r + 1 \in 0..MaxOutput /\ r + 1 <= w
    BY <2>1, <2>3
  <2> QED BY <2>2, <2>4
<1>5. Frame("output", sh[s].read + 1) \in Sends
  BY <1>4 DEF Sends, Outputs
<1>6. /\ Append(g[s].out, Frame("output", sh[s].read + 1)) \in Seq(Sends)
      /\ Len(Append(g[s].out, Frame("output", sh[s].read + 1))) <= MaxPending + 1
  <2>1. g[s].out \in Seq(Sends)
    BY <1>1, LocalFields
  <2>2. /\ Append(g[s].out, Frame("output", sh[s].read + 1)) \in Seq(Sends)
        /\ Len(Append(g[s].out, Frame("output", sh[s].read + 1))) = Len(g[s].out) + 1
    BY <1>5, <2>1, AppendFields
  <2>3. PICK k \in Nat : Len(g[s].out) = k
    BY <1>1, LocalFields
  <2>4. k <= MaxPending
    BY <1>2, <2>3, ShellConstants DEF TooMany
  <2>5. k + 1 <= MaxPending + 1
    BY <2>4, ShellConstants
  <2> QED BY <2>2, <2>3, <2>5
<1>7. sh[s].read \in Nat /\ sh[s].started /\ ~g[s].finishing /\ ~g[s].closed /\ Sent(s) = sh[s].read + 1
  BY <1>1, <1>2, ShellFields, ShellConstants, SentIs DEF Readable
<1>8. [g[s] EXCEPT !.out = Append(@, Frame("output", sh[s].read + 1))] \in Local
  BY <1>3, <1>6 DEF Local
<1>9. g' = [g EXCEPT ![s] = [g[s] EXCEPT !.out = Append(@, Frame("output", sh[s].read + 1))]]
  BY DEF ReadsOne
<1>10. /\ g' \in [Sessions -> Local]
       /\ g'[s] = [g[s] EXCEPT !.out = Append(@, Frame("output", sh[s].read + 1))]
       /\ \A x \in Sessions : x # s => g'[x] = g[x]
  BY <1>1, <1>8, <1>9, SetLocal
<1>11. [sh[s] EXCEPT !.read = sh[s].read + 1] \in Shell
  BY <1>3, <1>4 DEF Shell
<1>12. sh' = [sh EXCEPT ![s] = [sh[s] EXCEPT !.read = sh[s].read + 1]]
  BY DEF ReadsOne
<1>13. /\ sh' \in [Sessions -> Shell] /\ sh'[s] = [sh[s] EXCEPT !.read = sh[s].read + 1]
       /\ \A x \in Sessions : x # s => sh'[x] = sh[x]
  BY <1>1, <1>11, <1>12, SetShell
<1>14. up' = up /\ up \in [Sessions -> Seq(Messages)]
  BY <1>1 DEF ReadsOne, Typed, TypeOK, StreamTypes
<1>15. down' = down /\ down \in [Sessions -> Seq(Frames)] /\ Len(down[s]) <= MaxWire
  BY <1>1 DEF ReadsOne, Typed, TypeOK, StreamTypes
<1>16. /\ relay'[s] = relay[s] /\ typed'[s] = typed[s] /\ seen'[s] = seen[s]
       /\ up'[s] = up[s] /\ down'[s] = down[s] /\ pc'[s] = "exit"
  BY <1>1, <1>2, <1>14, <1>15, GoesOn DEF GoesRound
<1>17. /\ g'[s].out = Append(g[s].out, Frame("output", sh[s].read + 1)) /\ g'[s].input = g[s].input
       /\ g'[s].exit = g[s].exit
       /\ g'[s].late = g[s].late /\ g'[s].finishing = g[s].finishing /\ g'[s].closed = g[s].closed
  BY <1>1, <1>2, <1>10 DEF Typed, TypeOK, Local
<1>18. /\ sh'[s].started = sh[s].started /\ sh'[s].alive = sh[s].alive /\ sh'[s].born = sh[s].born
       /\ sh'[s].group = sh[s].group /\ sh'[s].missed = sh[s].missed /\ sh'[s].at = sh[s].at
       /\ sh'[s].wrote = sh[s].wrote /\ sh'[s].read = sh[s].read + 1 /\ sh'[s].got = sh[s].got
  BY <1>1, <1>13 DEF Typed, TypeOK, Shell
<1>19. /\ relay'[s] = relay[s] /\ typed'[s] = typed[s] /\ seen'[s] = seen[s]
       /\ up'[s] = up[s] /\ down'[s] = down[s] /\ pc'[s] = "exit"
       /\ g'[s].out = Append(g[s].out, Frame("output", sh[s].read + 1)) /\ g'[s].input = g[s].input
       /\ g'[s].exit = g[s].exit
       /\ g'[s].late = g[s].late /\ g'[s].finishing = g[s].finishing /\ g'[s].closed = g[s].closed
       /\ sh'[s].started = sh[s].started /\ sh'[s].alive = sh[s].alive /\ sh'[s].born = sh[s].born
       /\ sh'[s].group = sh[s].group /\ sh'[s].missed = sh[s].missed /\ sh'[s].at = sh[s].at
       /\ sh'[s].wrote = sh[s].wrote /\ sh'[s].read = sh[s].read + 1 /\ sh'[s].got = sh[s].got
  BY <1>16, <1>17, <1>18
<1>20. \A x \in Sessions : x # s => Stays(x)
  BY <1>1, <1>2, <1>10, <1>13, <1>14, <1>15, GoesOn DEF Stays, GoesRound
<1>21. Len(g'[s].out) <= MaxPending + 1
  BY <1>6, <1>19
<1>22. Typed'
  <2>1. /\ down' \in [Sessions -> Seq(Frames)] /\ Len(down'[s]) <= MaxWire
        /\ \A x \in Sessions : x # s => down'[x] = down[x]
    BY <1>15
  <2>2. up' \in [Sessions -> Seq(Messages)] /\ sh' \in [Sessions -> Shell]
    BY <1>13, <1>14
  <2>3. g' \in [Sessions -> Local] /\ \A x \in Sessions : x # s => g'[x] = g[x]
    BY <1>10
  <2> QED BY <1>1, <1>2, <1>21, <2>1, <2>2, <2>3, RoundTypes
<1>23. /\ Sent(s) = sh[s].read + 1 /\ Sent(s)' = (sh[s].read + 1) + 1 /\ Sent(s)' = Sent(s) + 1
       /\ \A i \in 1..Sent(s) : Item(s, i)' = Item(s, i)
       /\ \A i : i = Sent(s) + 1 => Item(s, i)' = Frame("output", sh[s].read + 1)
       /\ Open(s)' <=> Open(s)
  <2>1. PICK r \in Nat : sh[s].read = r
    BY <1>7
  <2>2. sh'[s].read = r + 1 /\ sh'[s].started = sh[s].started /\ g'[s].finishing = g[s].finishing
    BY <1>19, <2>1
  <2>3. Sent(s) = r + 1 /\ Sent(s)' = (r + 1) + 1
    BY <1>7, <2>1, <2>2 DEF Sent
  <2>4. \A i \in 1..(r + 1) : Item(s, i)' = Item(s, i)
    BY <2>1, <2>2 DEF Item
  <2>5. \A i : i = r + 1 + 1 => Item(s, i)' = Frame("output", r + 1)
    <3>1. r + 1 + 1 # 1 /\ r + 1 + 1 <= r + 1 + 1 /\ r + 1 + 1 - 1 = r + 1
      OBVIOUS
    <3> QED BY <2>2, <3>1 DEF Item
  <2>6. Open(s)' <=> Open(s)
    BY <1>19 DEF Open
  <2> QED BY <2>1, <2>3, <2>4, <2>5, <2>6
<1>24. Unopened(s)'
  BY <1>1, <1>2, <1>19 DEF Orders, Unopened, Loop
<1>25. ProcsInOrder(s)'
  BY <1>1, <1>4, <1>7, <1>19 DEF Orders, ProcsInOrder
<1>26. SeenInOrder(s)'
  <2>1. PICK r \in Nat : sh[s].read = r
    BY <1>7
  <2>2. /\ sh'[s].read = r + 1 /\ Sent(s) = r + 1 /\ Sent(s)' = r + 1 + 1 /\ seen'[s] = seen[s]
        /\ relay'[s] = relay[s]
    BY <1>19, <1>23, <2>1
  <2>3. SeenInOrder(s)
    BY <1>1 DEF Orders
  <2>4. r + 1 \in Nat /\ r + 1 + 1 \in Nat /\ r <= r + 1 /\ r + 1 <= r + 1 + 1
    OBVIOUS
  <2> QED BY <1>1, <1>23, <2>1, <2>2, <2>3, <2>4, SeenGrows
<1>27. DownInOrder(s)'
  <2>1. PICK n \in Nat : Sent(s) = n
    BY <1>1, SentIs
  <2>2. Sent(s)' = n + 1 /\ n + 1 \in Nat /\ n <= n + 1
    BY <1>23, <2>1
  <2>3. DownInOrder(s) /\ seen'[s] = seen[s] /\ down'[s] = down[s] /\ pc[s] \in Loop
    BY <1>1, <1>2, <1>19 DEF Orders
  <2> QED BY <1>1, <1>23, <2>1, <2>2, <2>3, DownGrows
<1>28. OutInOrder(s)'
  <2>1. OutInOrder(s) /\ seen'[s] = seen[s] /\ down'[s] = down[s]
        /\ g'[s].out = Append(g[s].out, Frame("output", sh[s].read + 1))
    BY <1>1, <1>19 DEF Orders
  <2> QED BY <1>1, <1>2, <1>5, <1>23, <2>1, OutGrows
<1>29. InputInOrder(s)'
  BY <1>1, <1>2, <1>19, <1>23, InputStays DEF Orders
<1>30. NoneOutlives'
  BY <1>1, <1>2, <1>19, <1>20 DEF IInv, NoneOutlives, Stays, Loop
<1> QED BY <1>20, <1>22, <1>24, <1>25, <1>26, <1>27, <1>28, <1>29, <1>30, OthersStay
          DEF IInv, Typed, Orders

(* The exit code is queued behind the output; no more is read or written. *)
LEMMA FinishesKeeps ==
  ASSUME IInv, NEW s \in Sessions, Finishes(s)
  PROVE  IInv'
<1>1. Typed /\ Orders(s)
  BY DEF IInv, Typed
<1>2. /\ GoesRound(s, "flush") /\ pc[s] \in Loop /\ "flush" \in Loop /\ pc[s] = "exit"
      /\ (g[s].exit \/ sh[s].started) /\ ~g[s].finishing /\ MayFinish(s) /\ ~TooMany(s)
  BY DEF Finishes, GoesRound, Loop
<1>3. g[s] \in Local /\ sh[s] \in Shell
  BY <1>1 DEF Typed, TypeOK
<1>4. Plain("exit") \in Sends
  BY DEF Sends
<1>5. /\ Append(g[s].out, Plain("exit")) \in Seq(Sends)
      /\ Len(Append(g[s].out, Plain("exit"))) <= MaxPending + 1
  <2>1. g[s].out \in Seq(Sends)
    BY <1>1, LocalFields
  <2>2. /\ Append(g[s].out, Plain("exit")) \in Seq(Sends)
        /\ Len(Append(g[s].out, Plain("exit"))) = Len(g[s].out) + 1
    BY <1>4, <2>1, AppendFields
  <2>3. PICK k \in Nat : Len(g[s].out) = k
    BY <1>1, LocalFields
  <2>4. k <= MaxPending
    BY <1>2, <2>3, ShellConstants DEF TooMany
  <2>5. k + 1 <= MaxPending + 1
    BY <2>4, ShellConstants
  <2> QED BY <2>2, <2>3, <2>5
<1>6. sh[s].started
  BY <1>1, <1>2 DEF Orders, ProcsInOrder
<1>7. [g[s] EXCEPT !.out = Append(@, Plain("exit")), !.exit = TRUE, !.finishing = TRUE,
        !.input = <<>>] \in Local
  BY <1>3, <1>5, EmptySeq DEF Local
<1>8. g' = [g EXCEPT ![s] = [g[s] EXCEPT !.out = Append(@, Plain("exit")), !.exit = TRUE,
        !.finishing = TRUE, !.input = <<>>]]
  BY DEF Finishes
<1>9. /\ g' \in [Sessions -> Local]
      /\ g'[s] = [g[s] EXCEPT !.out = Append(@, Plain("exit")), !.exit = TRUE, !.finishing = TRUE,
           !.input = <<>>] /\ \A x \in Sessions : x # s => g'[x] = g[x]
  BY <1>1, <1>7, <1>8, SetLocal
<1>10. sh' = sh /\ sh \in [Sessions -> Shell]
  BY <1>1 DEF Finishes, Typed, TypeOK, StreamTypes
<1>11. up' = up /\ up \in [Sessions -> Seq(Messages)]
  BY <1>1 DEF Finishes, Typed, TypeOK, StreamTypes
<1>12. down' = down /\ down \in [Sessions -> Seq(Frames)] /\ Len(down[s]) <= MaxWire
  BY <1>1 DEF Finishes, Typed, TypeOK, StreamTypes
<1>13. /\ relay'[s] = relay[s] /\ typed'[s] = typed[s] /\ seen'[s] = seen[s]
       /\ up'[s] = up[s] /\ down'[s] = down[s] /\ pc'[s] = "flush"
  BY <1>1, <1>2, <1>11, <1>12, GoesOn DEF GoesRound
<1>14. /\ g'[s].out = Append(g[s].out, Plain("exit")) /\ g'[s].input = <<>> /\ g'[s].exit
       /\ g'[s].late = g[s].late /\ g'[s].finishing /\ g'[s].closed = g[s].closed
  BY <1>1, <1>2, <1>9 DEF Typed, TypeOK, Local
<1>15. /\ sh'[s].started = sh[s].started /\ sh'[s].alive = sh[s].alive /\ sh'[s].born = sh[s].born
       /\ sh'[s].group = sh[s].group /\ sh'[s].missed = sh[s].missed /\ sh'[s].at = sh[s].at
       /\ sh'[s].wrote = sh[s].wrote /\ sh'[s].read = sh[s].read /\ sh'[s].got = sh[s].got
  BY <1>1, <1>10 DEF Typed, TypeOK, Shell
<1>16. /\ relay'[s] = relay[s] /\ typed'[s] = typed[s] /\ seen'[s] = seen[s]
       /\ up'[s] = up[s] /\ down'[s] = down[s] /\ pc'[s] = "flush"
       /\ g'[s].out = Append(g[s].out, Plain("exit")) /\ g'[s].input = <<>> /\ g'[s].exit
       /\ g'[s].late = g[s].late /\ g'[s].finishing /\ g'[s].closed = g[s].closed
       /\ sh'[s].started = sh[s].started /\ sh'[s].alive = sh[s].alive /\ sh'[s].born = sh[s].born
       /\ sh'[s].group = sh[s].group /\ sh'[s].missed = sh[s].missed /\ sh'[s].at = sh[s].at
       /\ sh'[s].wrote = sh[s].wrote /\ sh'[s].read = sh[s].read /\ sh'[s].got = sh[s].got
  BY <1>13, <1>14, <1>15
<1>17. \A x \in Sessions : x # s => Stays(x)
  BY <1>1, <1>2, <1>9, <1>10, <1>11, <1>12, GoesOn DEF Stays, GoesRound
<1>18. Len(g'[s].out) <= MaxPending + 1
  BY <1>5, <1>16
<1>19. Typed'
  <2>1. /\ down' \in [Sessions -> Seq(Frames)] /\ Len(down'[s]) <= MaxWire
        /\ \A x \in Sessions : x # s => down'[x] = down[x]
    BY <1>12
  <2>2. up' \in [Sessions -> Seq(Messages)] /\ sh' \in [Sessions -> Shell]
    BY <1>10, <1>11
  <2>3. g' \in [Sessions -> Local] /\ \A x \in Sessions : x # s => g'[x] = g[x]
    BY <1>9
  <2> QED BY <1>1, <1>2, <1>18, <2>1, <2>2, <2>3, RoundTypes
<1>20. /\ Sent(s)' = Sent(s) + 1
       /\ \A i : Item(s, i)' = Item(s, i)
       /\ \A i : i = Sent(s) + 1 => Item(s, i)' = Plain("exit")
       /\ Open(s)' <=> Open(s)
  <2>1. PICK r \in Nat : sh[s].read = r
    BY <1>1, ShellFields, ShellConstants
  <2>2. sh'[s].read = r /\ sh'[s].started /\ g'[s].finishing
    BY <1>6, <1>16, <2>1
  <2>3. Sent(s) = r + 1 /\ Sent(s)' = r + 2
    BY <1>2, <1>6, <2>1, <2>2 DEF Sent
  <2>4. \A i : Item(s, i)' = Item(s, i)
    BY <2>1, <2>2 DEF Item
  <2>5. \A i : i = r + 1 + 1 => Item(s, i)' = Plain("exit")
    <3>1. r + 1 + 1 # 1 /\ ~(r + 1 + 1 <= r + 1)
      OBVIOUS
    <3> QED BY <2>2, <3>1 DEF Item
  <2>6. Open(s)' <=> Open(s)
    BY <1>16 DEF Open
  <2> QED BY <2>3, <2>4, <2>5, <2>6
<1>21. Unopened(s)'
  BY <1>1, <1>2, <1>16 DEF Orders, Unopened, Loop
<1>22. ProcsInOrder(s)'
  BY <1>1, <1>2, <1>6, <1>16 DEF Orders, ProcsInOrder, MayFinish
<1>23. SeenInOrder(s)'
  <2>1. PICK n, r \in Nat : Sent(s) = n /\ sh[s].read = r
    <3>1. sh[s].read \in Nat
      BY <1>1, ReadNat
    <3> QED BY <1>1, <3>1, SentIs
  <2>2. Sent(s)' = n + 1 /\ n + 1 \in Nat /\ n <= n + 1 /\ r <= r
    BY <1>20, <2>1
  <2>3. SeenInOrder(s) /\ seen'[s] = seen[s] /\ relay'[s] = relay[s] /\ sh'[s].read = r
    BY <1>1, <1>16, <2>1 DEF Orders
  <2> QED BY <1>1, <1>20, <2>1, <2>2, <2>3, SeenGrows
<1>24. DownInOrder(s)'
  <2>1. PICK n \in Nat : Sent(s) = n
    BY <1>1, SentIs
  <2>2. Sent(s)' = n + 1 /\ n + 1 \in Nat /\ n <= n + 1
    BY <1>20, <2>1
  <2>3. DownInOrder(s) /\ seen'[s] = seen[s] /\ down'[s] = down[s] /\ pc[s] \in Loop
    BY <1>1, <1>2, <1>16 DEF Orders
  <2> QED BY <1>1, <1>20, <2>1, <2>2, <2>3, DownGrows
<1>25. OutInOrder(s)'
  <2>1. OutInOrder(s) /\ seen'[s] = seen[s] /\ down'[s] = down[s]
        /\ g'[s].out = Append(g[s].out, Plain("exit"))
    BY <1>1, <1>16 DEF Orders
  <2> QED BY <1>1, <1>2, <1>4, <1>20, <2>1, OutGrows
<1>26. InputInOrder(s)'
  BY <1>1, <1>16 DEF Orders, InputInOrder
<1>27. NoneOutlives'
  BY <1>1, <1>2, <1>16, <1>17 DEF IInv, NoneOutlives, Stays, Loop
<1> QED BY <1>17, <1>19, <1>21, <1>22, <1>23, <1>24, <1>25, <1>26, <1>27, OthersStay
          DEF IInv, Typed, Orders

(* A frame goes from the queue to the stream.                             *)
LEMMA FlushesKeeps ==
  ASSUME IInv, NEW s \in Sessions, Flushes(s)
  PROVE  IInv'
<1>1. Typed /\ Orders(s)
  BY DEF IInv, Typed
<1>2. GoesRound(s, "poll") /\ pc[s] \in Loop /\ "poll" \in Loop /\ pc[s] = "flush" /\ g[s].out # <<>>
  BY DEF Flushes, GoesRound, Loop
<1>3. g[s] \in Local /\ sh[s] \in Shell
  BY <1>1 DEF Typed, TypeOK
<1>4. /\ Head(g[s].out) \in Frames
      /\ Head(g[s].out) = Item(s, Len(seen[s]) + Len(down[s]) + 1)
      /\ Len(seen[s]) + Len(down[s]) + 1 <= Sent(s)
  BY <1>1, <1>2, NextOut DEF Orders
<1>5. /\ Tail(g[s].out) \in Seq(Sends) /\ Len(Tail(g[s].out)) = Len(g[s].out) - 1
      /\ \A i \in 1..Len(Tail(g[s].out)) : Tail(g[s].out)[i] = g[s].out[i + 1]
           /\ i + 1 \in 1..Len(g[s].out)
  BY <1>1, <1>2, LocalFields, TailFields
<1>6. [g[s] EXCEPT !.out = Tail(@), !.half = FALSE] \in Local
  BY <1>3, <1>5 DEF Local
<1>7. g' = [g EXCEPT ![s] = [g[s] EXCEPT !.out = Tail(@), !.half = FALSE]]
  BY DEF Flushes
<1>8. /\ g' \in [Sessions -> Local] /\ g'[s] = [g[s] EXCEPT !.out = Tail(@), !.half = FALSE]
      /\ \A x \in Sessions : x # s => g'[x] = g[x]
  BY <1>1, <1>6, <1>7, SetLocal
<1>9. sh' = sh /\ sh \in [Sessions -> Shell]
  BY <1>1 DEF Flushes, Typed, TypeOK, StreamTypes
<1>10. up' = up /\ up \in [Sessions -> Seq(Messages)]
  BY <1>1 DEF Flushes, Typed, TypeOK, StreamTypes
<1>11. /\ Head(g[s].out) \in Frames /\ Len(down[s]) < MaxWire
       /\ down' = [down EXCEPT ![s] = Append(@, Head(g[s].out))]
  BY <1>4 DEF Flushes
<1>12. /\ down' \in [Sessions -> Seq(Frames)] /\ Len(down'[s]) <= MaxWire
       /\ \A x \in Sessions : x # s => down'[x] = down[x]
  BY <1>1, <1>11, SendsOne
<1>13. Len(down'[s]) = Len(down[s]) + 1
  BY <1>1, <1>11, SendsOne
<1>14. down'[s][Len(down[s]) + 1] = Head(g[s].out) /\ \A i \in 1..Len(down[s]) : down'[s][i] = down[s][i]
  BY <1>1, <1>11, SendsOne
<1>15. /\ relay'[s] = relay[s] /\ typed'[s] = typed[s] /\ seen'[s] = seen[s]
       /\ up'[s] = up[s]  /\ pc'[s] = "poll"
  BY <1>1, <1>2, <1>10, <1>12, GoesOn DEF GoesRound
<1>16. /\ g'[s].out = Tail(g[s].out) /\ g'[s].input = g[s].input /\ g'[s].exit = g[s].exit
       /\ g'[s].late = g[s].late /\ g'[s].finishing = g[s].finishing /\ g'[s].closed = g[s].closed
  BY <1>1, <1>2, <1>8 DEF Typed, TypeOK, Local
<1>17. /\ sh'[s].started = sh[s].started /\ sh'[s].alive = sh[s].alive /\ sh'[s].born = sh[s].born
       /\ sh'[s].group = sh[s].group /\ sh'[s].missed = sh[s].missed /\ sh'[s].at = sh[s].at
       /\ sh'[s].wrote = sh[s].wrote /\ sh'[s].read = sh[s].read /\ sh'[s].got = sh[s].got
  BY <1>1, <1>9 DEF Typed, TypeOK, Shell
<1>18. /\ relay'[s] = relay[s] /\ typed'[s] = typed[s] /\ seen'[s] = seen[s]
       /\ up'[s] = up[s]  /\ pc'[s] = "poll"
       /\ g'[s].out = Tail(g[s].out) /\ g'[s].input = g[s].input /\ g'[s].exit = g[s].exit
       /\ g'[s].late = g[s].late /\ g'[s].finishing = g[s].finishing /\ g'[s].closed = g[s].closed
       /\ sh'[s].started = sh[s].started /\ sh'[s].alive = sh[s].alive /\ sh'[s].born = sh[s].born
       /\ sh'[s].group = sh[s].group /\ sh'[s].missed = sh[s].missed /\ sh'[s].at = sh[s].at
       /\ sh'[s].wrote = sh[s].wrote /\ sh'[s].read = sh[s].read /\ sh'[s].got = sh[s].got
  BY <1>15, <1>16, <1>17
<1>19. \A x \in Sessions : x # s => Stays(x)
  BY <1>1, <1>2, <1>8, <1>9, <1>10, <1>12, GoesOn DEF Stays, GoesRound
<1>20. Len(g'[s].out) <= MaxPending + 1
  <2>1. PICK k \in Nat : Len(g[s].out) = k
    BY <1>1, LocalFields
  <2>2. k <= MaxPending + 1 /\ Len(g'[s].out) = k - 1
    BY <1>1, <1>5, <1>18, <2>1 DEF Typed, TypeOK
  <2> QED BY <2>1, <2>2, ShellConstants
<1>21. Typed'
  <2>1. /\ down' \in [Sessions -> Seq(Frames)] /\ Len(down'[s]) <= MaxWire
        /\ \A x \in Sessions : x # s => down'[x] = down[x]
    BY <1>12
  <2>2. up' \in [Sessions -> Seq(Messages)] /\ sh' \in [Sessions -> Shell]
    BY <1>9, <1>10
  <2>3. g' \in [Sessions -> Local] /\ \A x \in Sessions : x # s => g'[x] = g[x]
    BY <1>8
  <2> QED BY <1>1, <1>2, <1>20, <2>1, <2>2, <2>3, RoundTypes
<1>22. (\A i : Item(s, i)' = Item(s, i)) /\ Sent(s)' = Sent(s) /\ (Open(s)' <=> Open(s))
  BY <1>18 DEF Item, Sent, Open
<1>23. Unopened(s)'
  BY <1>1, <1>2, <1>18 DEF Orders, Unopened, Loop
<1>24. ProcsInOrder(s)'
  BY <1>1, <1>18 DEF Orders, ProcsInOrder
<1>25. SeenInOrder(s)'
  BY <1>1, <1>18, <1>22 DEF Orders, SeenInOrder
<1>26. DownInOrder(s)'
  <2>1. PICK k, l \in Nat : Len(seen[s]) = k /\ Len(down[s]) = l
    BY <1>1, StreamFields
  <2>2. /\ Len(seen'[s]) = k /\ Len(down'[s]) = l + 1
        /\ down'[s][l + 1] = Item(s, k + l + 1) /\ k + l + 1 <= Sent(s)
        /\ \A i \in 1..l : down'[s][i] = down[s][i]
    <3>1. Len(seen'[s]) = k
      BY <1>18, <2>1
    <3>2. down'[s][l + 1] = Item(s, k + l + 1) /\ k + l + 1 <= Sent(s)
      BY <1>4, <1>14, <2>1
    <3>3. Len(down'[s]) = l + 1 /\ \A i \in 1..l : down'[s][i] = down[s][i]
      BY <1>13, <1>14, <2>1
    <3> QED BY <3>1, <3>2, <3>3
  <2>3. \A i \in 1..l : down[s][i] = Item(s, k + i) /\ k + i <= Sent(s)
    BY <1>1, <1>2, <2>1 DEF Orders, DownInOrder
  <2>4. k + (l + 1) = k + l + 1 /\ \A i \in 1..(l + 1) : i \in 1..l \/ i = l + 1
    OBVIOUS
  <2>5. \A i \in 1..(l + 1) : down'[s][i] = Item(s, k + i) /\ k + i <= Sent(s)
    BY <2>2, <2>3, <2>4
  <2>6. \A i \in 1..(l + 1) : down'[s][i] = Item(s, k + i)' /\ k + i <= Sent(s)'
    BY <1>22, <2>5
  <2> QED BY <2>2, <2>6 DEF DownInOrder
<1>27. OutInOrder(s)'
  <2>1. PICK k, l, m \in Nat : Len(seen[s]) = k /\ Len(down[s]) = l /\ Len(g[s].out) = m
    BY <1>1, StreamFields, LocalFields
  <2>2. /\ Len(seen'[s]) = k /\ Len(down'[s]) = l + 1 /\ Len(g'[s].out) = m - 1
        /\ \A i \in 1..(m - 1) : g'[s].out[i] = g[s].out[i + 1] /\ i + 1 \in 1..m
    <3>1. Len(seen'[s]) = k
      BY <1>18, <2>1
    <3>2. Len(down'[s]) = l + 1
      BY <1>13, <2>1
    <3>3. Len(Tail(g[s].out)) = m - 1
      BY <1>5, <2>1
    <3>4. Len(g'[s].out) = m - 1
      BY <1>18, <3>3
    <3>5. \A i \in 1..(m - 1) : g'[s].out[i] = g[s].out[i + 1] /\ i + 1 \in 1..m
      BY <1>5, <1>18, <2>1, <3>3
    <3> QED BY <3>1, <3>2, <3>4, <3>5
  <2>3. Sent(s) = k + l + m /\ \A i \in 1..m : g[s].out[i] = Item(s, k + l + i)
    BY <1>1, <1>2, <2>1 DEF Orders, OutInOrder
  <2>4. k + (l + 1) + (m - 1) = k + l + m /\ \A i \in 1..(m - 1) : k + (l + 1) + i = k + l + (i + 1)
    OBVIOUS
  <2>5. \A i \in 1..(m - 1) : g'[s].out[i] = Item(s, k + (l + 1) + i)
    BY <2>2, <2>3, <2>4
  <2>6. \A i \in 1..(m - 1) : g'[s].out[i] = Item(s, k + (l + 1) + i)'
    BY <1>22, <2>5
  <2>7. Sent(s)' = k + (l + 1) + (m - 1)
    BY <1>22, <2>3, <2>4
  <2> QED BY <2>2, <2>6, <2>7 DEF OutInOrder
<1>28. InputInOrder(s)'
  BY <1>1, <1>2, <1>18, <1>22, InputStays DEF Orders
<1>29. NoneOutlives'
  BY <1>1, <1>2, <1>18, <1>19 DEF IInv, NoneOutlives, Stays, Loop
<1> QED BY <1>19, <1>21, <1>23, <1>24, <1>25, <1>26, <1>27, <1>28, <1>29, OthersStay
          DEF IInv, Typed, Orders

(* The poll that finds no message ends the session or goes on.            *)
LEMMA IdleKeeps ==
  ASSUME IInv, NEW s \in Sessions, Idle(s)
  PROVE  IInv'
<1>1. pc[s] \in Loop /\ "pty" \in Loop /\ UNCHANGED <<relay, typed, seen, up, down, g, active>>
  BY DEF Idle, Loop
<1>2. CASE Quit(s)
  <2>1. Stops(s)
    BY <1>1, <1>2 DEF Stops, IInv, TypeOK
  <2> QED BY <2>1, StopsKeeps
<1>3. CASE Goes(s, "pty") /\ sh' = sh
  <2>1. MovesOn(s, "pty")
    BY <1>1, <1>3 DEF MovesOn, GoesRound
  <2> QED BY <2>1, MovesOnKeeps
<1> QED BY <1>2, <1>3 DEF Idle

(* A message opens the shell, is input, or ends the session.              *)
LEMMA MessageKeeps ==
  ASSUME IInv, NEW s \in Sessions, Message(s)
  PROVE  IInv'
<1>1. Typed /\ Orders(s)
  BY DEF IInv, Typed
<1>2. /\ pc[s] = "poll" /\ pc[s] \in Loop /\ "pty" \in Loop /\ up[s] # <<>>
      /\ UNCHANGED <<relay, typed, seen, active>> /\ up' = [up EXCEPT ![s] = Tail(@)]
  BY DEF Message, Loop
<1>3. up[s] \in Seq(Messages) /\ Head(up[s]) \in Messages /\ Tail(up[s]) \in Seq(Messages)
  BY <1>1, <1>2, StreamFields, TailFields
<1>4. up' \in [Sessions -> Seq(Messages)] /\ \A x \in Sessions : x # s => up'[x] = up[x]
  BY <1>1, <1>2, <1>3, SetUp
<1>5. ASSUME Fail(s) \/ (Quit(s) /\ g' = g), down' = down
      PROVE  Stops(s)
  <2>1. CASE Fail(s)
    BY <1>1, <1>2, <1>4, <1>5, <2>1, FailStops DEF Stops
  <2>2. CASE Quit(s) /\ g' = g
    BY <1>1, <1>2, <1>4, <1>5, <2>2 DEF Stops, Typed, TypeOK
  <2> QED BY <1>5, <2>1, <2>2
<1> DEFINE ToOpen  == /\ Head(up[s]).type = "open" /\ ~sh[s].started
                      /\ sh' = [sh EXCEPT ![s].started = TRUE, ![s].alive = {Leader}]
                      /\ g' = [g EXCEPT ![s].out = Append(@, Plain("ready"))]
                      /\ Goes(s, "pty") /\ down' = down
           ToTake  == /\ Head(up[s]).type = "input" /\ sh[s].started /\ ~g[s].finishing
                      /\ g' = [g EXCEPT ![s].input = Append(@, Head(up[s]).n)]
                      /\ Goes(s, "pty") /\ sh' = sh /\ down' = down
           ToStop  == (Fail(s) \/ (Quit(s) /\ g' = g)) /\ down' = down
<1>6. CASE ToOpen
  <2>1. Opened(s)
    BY <1>2, <1>6 DEF Opened, GoesRound
  <2> QED BY <2>1, OpenedKeeps
<1>7. CASE ToTake
  <2>1. Taken(s)
    BY <1>2, <1>7 DEF Taken, GoesRound
  <2> QED BY <2>1, TakenKeeps
<1>8. CASE ToStop
  BY <1>5, <1>8, StopsKeeps
<1>9. ToOpen \/ ToTake \/ ToStop
  BY DEF Message, Enqueue
<1> HIDE DEF ToOpen, ToTake, ToStop
<1> QED BY <1>6, <1>7, <1>8, <1>9

(* The part of the loop that reads the terminal.                          *)
LEMMA PtyKeeps ==
  ASSUME IInv, NEW s \in Sessions, Pty(s)
  PROVE  IInv'
<1>1. Typed /\ Orders(s)
  BY DEF IInv, Typed
<1>2. /\ pc[s] = "pty" /\ pc[s] \in Loop /\ "exit" \in Loop
      /\ UNCHANGED <<relay, typed, seen, up, active>>
  BY DEF Pty, Loop
<1>3. CASE Fail(s)
  <2>1. down' = down
    BY DEF Pty
  <2>2. Stops(s)
    BY <1>1, <1>2, <1>3, <2>1, FailStops DEF Stops, Typed, TypeOK
  <2> QED BY <2>2, StopsKeeps
<1>4. CASE /\ Readable(s) /\ sh[s].read < sh[s].wrote /\ ~TooMany(s)
           /\ g' = [g EXCEPT ![s].out = Append(@, Frame("output", sh[s].read + 1))]
           /\ sh' = [sh EXCEPT ![s].read = sh[s].read + 1]
           /\ Goes(s, "exit") /\ down' = down
  <2>1. ReadsOne(s)
    BY <1>2, <1>4 DEF ReadsOne, GoesRound
  <2> QED BY <2>1, ReadsOneKeeps
<1>5. CASE /\ Readable(s) /\ sh[s].read = sh[s].wrote /\ sh[s].alive = {}
           /\ g' = [g EXCEPT ![s].closed = TRUE]
           /\ Goes(s, "exit") /\ sh' = sh /\ down' = down
  <2>1. g[s] \in Local
    BY <1>1 DEF Typed, TypeOK
  <2>2. g' = [g EXCEPT ![s] = [g[s] EXCEPT !.closed = TRUE]]
    BY <1>5
  <2>3. Flags(s, "exit", [g[s] EXCEPT !.closed = TRUE])
    BY <1>2, <1>5, <2>1, <2>2 DEF Flags, GoesRound, Local, Readable
  <2> QED BY <2>3, FlagsKeeps
<1>6. CASE Goes(s, "exit") /\ UNCHANGED <<g, sh, down>>
  <2>1. MovesOn(s, "exit")
    BY <1>2, <1>6 DEF MovesOn, GoesRound
  <2> QED BY <2>1, MovesOnKeeps
<1> QED BY <1>3, <1>4, <1>5, <1>6 DEF Pty, Enqueue, Take

(* The part of the loop that looks for the end of the shell.              *)
LEMMA ExitKeeps ==
  ASSUME IInv, NEW s \in Sessions, Exit(s)
  PROVE  IInv'
<1>1. Typed /\ Orders(s)
  BY DEF IInv, Typed
<1>2. /\ pc[s] = "exit" /\ pc[s] \in Loop /\ "flush" \in Loop
      /\ UNCHANGED <<relay, typed, seen, up, active>>
  BY DEF Exit, Loop
<1>3. CASE Fail(s)
  <2>1. down' = down
    BY DEF Exit
  <2>2. Stops(s)
    BY <1>1, <1>2, <1>3, <2>1, FailStops DEF Stops, Typed, TypeOK
  <2> QED BY <2>2, StopsKeeps
<1>4. CASE /\ g[s].exit \/ (sh[s].started /\ Leader \notin sh[s].alive)
           /\ ~g[s].finishing /\ MayFinish(s) /\ ~TooMany(s)
           /\ g' = [g EXCEPT ![s].out = Append(@, Plain("exit")), ![s].exit = TRUE, ![s].finishing = TRUE,
                ![s].input = <<>>]
           /\ Goes(s, "flush") /\ sh' = sh /\ down' = down
  <2>1. Finishes(s)
    BY <1>2, <1>4 DEF Finishes, GoesRound
  <2> QED BY <2>1, FinishesKeeps
<1>5. CASE /\ g' = [g EXCEPT ![s].exit = g[s].exit \/ (sh[s].started /\ Leader \notin sh[s].alive)]
           /\ Goes(s, "flush") /\ sh' = sh /\ down' = down
  <2> DEFINE e == g[s].exit \/ (sh[s].started /\ Leader \notin sh[s].alive)
  <2>1. g[s] \in Local /\ g[s].exit \in BOOLEAN /\ e \in BOOLEAN
    BY <1>1, LocalFields DEF Typed, TypeOK
  <2>2. e = g[s].exit \/ sh[s].started
    BY <2>1
  <2>3. g' = [g EXCEPT ![s] = [g[s] EXCEPT !.exit = e]]
    BY <1>5
  <2> HIDE DEF e
  <2>4. /\ [g[s] EXCEPT !.exit = e] \in Local /\ [g[s] EXCEPT !.exit = e].exit = e
        /\ [g[s] EXCEPT !.exit = e].out = g[s].out /\ [g[s] EXCEPT !.exit = e].input = g[s].input
        /\ [g[s] EXCEPT !.exit = e].late = g[s].late
        /\ [g[s] EXCEPT !.exit = e].finishing = g[s].finishing
        /\ [g[s] EXCEPT !.exit = e].closed = g[s].closed
    BY <2>1 DEF Local
  <2>5. Flags(s, "flush", [g[s] EXCEPT !.exit = e])
    <3>1. GoesRound(s, "flush") /\ UNCHANGED <<sh, up, down>>
      BY <1>2, <1>5 DEF GoesRound
    <3>2. [g[s] EXCEPT !.exit = e].exit = g[s].exit \/ sh[s].started
      BY <2>2, <2>4
    <3>3. PICK n : n = [g[s] EXCEPT !.exit = e]
      OBVIOUS
    <3>4. /\ n \in Local /\ n.out = g[s].out /\ n.input = g[s].input /\ n.late = g[s].late
          /\ n.finishing = g[s].finishing /\ n.closed = g[s].closed
          /\ (n.exit = g[s].exit \/ sh[s].started)
      BY <2>4, <3>2, <3>3
    <3>5. g' = [g EXCEPT ![s] = n]
      BY <2>3, <3>3
    <3>6. Flags(s, "flush", n)
      BY <3>1, <3>4, <3>5 DEF Flags
    <3> QED BY <3>3, <3>6
  <2> QED BY <2>5, FlagsKeeps
<1> QED BY <1>3, <1>4, <1>5 DEF Exit, Enqueue

(* The part of the loop that writes to the stream.                        *)
LEMMA FlushKeeps ==
  ASSUME IInv, NEW s \in Sessions, Flush(s)
  PROVE  IInv'
<1>1. Typed /\ Orders(s)
  BY DEF IInv, Typed
<1>2. /\ pc[s] = "flush" /\ pc[s] \in Loop /\ "poll" \in Loop
      /\ UNCHANGED <<relay, typed, seen, up, active>>
  BY DEF Flush, Loop
<1>3. CASE Quit(s) /\ UNCHANGED <<g, down>>
  <2>1. Stops(s)
    BY <1>1, <1>2, <1>3 DEF Stops, Typed, TypeOK
  <2> QED BY <2>1, StopsKeeps
<1>4. CASE Goes(s, "poll") /\ UNCHANGED <<g, sh, down>>
  <2>1. MovesOn(s, "poll")
    BY <1>2, <1>4 DEF MovesOn, GoesRound
  <2> QED BY <2>1, MovesOnKeeps
<1>5. CASE g' = [g EXCEPT ![s].half = TRUE] /\ Goes(s, "poll") /\ UNCHANGED <<sh, down>>
  <2>1. g[s] \in Local
    BY <1>1 DEF Typed, TypeOK
  <2>2. g' = [g EXCEPT ![s] = [g[s] EXCEPT !.half = TRUE]]
    BY <1>5
  <2>3. /\ [g[s] EXCEPT !.half = TRUE] \in Local /\ [g[s] EXCEPT !.half = TRUE].exit = g[s].exit
        /\ [g[s] EXCEPT !.half = TRUE].out = g[s].out /\ [g[s] EXCEPT !.half = TRUE].input = g[s].input
        /\ [g[s] EXCEPT !.half = TRUE].late = g[s].late
        /\ [g[s] EXCEPT !.half = TRUE].finishing = g[s].finishing
        /\ [g[s] EXCEPT !.half = TRUE].closed = g[s].closed
    BY <2>1 DEF Local
  <2>4. GoesRound(s, "poll") /\ UNCHANGED <<sh, up, down>>
    BY <1>2, <1>5 DEF GoesRound
  <2>5. PICK n : n = [g[s] EXCEPT !.half = TRUE]
    OBVIOUS
  <2>6. /\ n \in Local /\ n.out = g[s].out /\ n.input = g[s].input /\ n.late = g[s].late
        /\ n.finishing = g[s].finishing /\ n.closed = g[s].closed /\ n.exit = g[s].exit
    BY <2>3, <2>5
  <2>7. g' = [g EXCEPT ![s] = n]
    BY <2>2, <2>5
  <2>8. Flags(s, "poll", n)
    BY <2>4, <2>6, <2>7 DEF Flags
  <2> QED BY <2>8, FlagsKeeps
<1>6. CASE /\ g[s].out # <<>> /\ Len(down[s]) < MaxWire
           /\ down' = [down EXCEPT ![s] = Append(@, Head(g[s].out))]
           /\ g' = [g EXCEPT ![s].out = Tail(@), ![s].half = FALSE]
           /\ Goes(s, "poll") /\ sh' = sh
  <2>1. Flushes(s)
    BY <1>2, <1>6 DEF Flushes, GoesRound
  <2> QED BY <2>1, FlushesKeeps
<1>7. CASE /\ g[s].out # <<>> /\ Len(down[s]) < MaxWire
           /\ down' = [down EXCEPT ![s] = Append(@, Head(g[s].out))]
           /\ g' = [g EXCEPT ![s].out = Tail(@), ![s].half = FALSE]
           /\ Quit(s)
  <2>1. /\ Head(g[s].out) \in Frames
        /\ Head(g[s].out) = Item(s, Len(seen[s]) + Len(down[s]) + 1)
        /\ Len(seen[s]) + Len(down[s]) + 1 <= Sent(s)
    BY <1>1, <1>2, <1>7, NextOut DEF Orders
  <2>2. g[s] \in Local /\ g[s].out \in Seq(Sends)
    BY <1>1, LocalFields DEF Typed, TypeOK
  <2>3. PICK k \in Nat : Len(g[s].out) = k
    BY <1>1, LocalFields
  <2>4. Tail(g[s].out) \in Seq(Sends) /\ Len(Tail(g[s].out)) = k - 1
    BY <1>7, <2>2, <2>3, TailFields
  <2>5. [g[s] EXCEPT !.out = Tail(@), !.half = FALSE] \in Local
    BY <2>2, <2>4 DEF Local
  <2>6. g' = [g EXCEPT ![s] = [g[s] EXCEPT !.out = Tail(@), !.half = FALSE]]
    BY <1>7
  <2>7. /\ g' \in [Sessions -> Local] /\ \A x \in Sessions : x # s => g'[x] = g[x]
        /\ g'[s] = [g[s] EXCEPT !.out = Tail(@), !.half = FALSE]
    BY <1>1, <2>5, <2>6, SetLocal
  <2>8. /\ g'[s].out = Tail(g[s].out) /\ g'[s].exit = g[s].exit /\ g'[s].late = g[s].late
        /\ g'[s].finishing = g[s].finishing /\ g'[s].closed = g[s].closed /\ g'[s].input = g[s].input
    BY <2>2, <2>7 DEF Local
  <2>9. k <= MaxPending + 1
    BY <1>1, <2>3 DEF Typed, TypeOK
  <2>10. Len(g'[s].out) <= MaxPending + 1
    BY <2>4, <2>8, <2>9, ShellConstants
  <2>11. up \in [Sessions -> Seq(Messages)]
    BY <1>1 DEF Typed, TypeOK
  <2>12. Last(s, Head(g[s].out))
    BY <2>1 DEF Last
  <2>13. \E f \in Frames : Len(down[s]) < MaxWire /\ down' = [down EXCEPT ![s] = Append(@, f)]
           /\ Last(s, f)
    BY <1>7, <2>1, <2>12
  <2>14. Stops(s)
    BY <1>2, <1>7, <2>7, <2>8, <2>10, <2>11, <2>13 DEF Stops
  <2> QED BY <2>14, StopsKeeps
<1> QED BY <1>3, <1>4, <1>5, <1>6, <1>7 DEF Flush

(* Who counts as a session depends on the threads.                        *)
LEMMA ActiveSame ==
  ASSUME Typed, pc' = pc, active' = active
  PROVE  /\ active' \ Others = {x \in Sessions : pc'[x] \notin {"off", "end"}}
         /\ Cardinality(active') <= MaxSessions /\ IsFiniteSet(active')
         /\ pc' \in [Sessions -> Loop \cup {"off", "scan", "report", "leave", "end"}]
  BY DEF Typed, TypeOK, StreamTypes

(* The terminal takes what is next of the input.                          *)
LEMMA ReadInputKeeps ==
  ASSUME IInv, NEW s \in Sessions, ReadInput(s)
  PROVE  IInv'
<1>1. Typed /\ Orders(s)
  BY DEF IInv, Typed
<1>2. pc[s] \in Loop /\ g[s].input # <<>> /\ ~g[s].finishing
  BY <1>1 DEF ReadInput, Orders, ProcsInOrder
<1>3. /\ g[s] \in Local /\ sh[s] \in Shell /\ g[s].input \in Seq(1..MaxInput)
      /\ sh[s].got \in Seq(1..MaxInput)
      /\ Head(g[s].input) \in 1..MaxInput /\ Tail(g[s].input) \in Seq(1..MaxInput)
      /\ Append(sh[s].got, Head(g[s].input)) \in Seq(1..MaxInput)
  BY <1>1, <1>2, LocalFields, ShellFields, TailFields, AppendFields DEF Typed, TypeOK
<1>4. /\ g' \in [Sessions -> Local] /\ g'[s] = [g[s] EXCEPT !.input = Tail(@)]
      /\ \A x \in Sessions : x # s => g'[x] = g[x]
  <2>1. [g[s] EXCEPT !.input = Tail(@)] \in Local
    BY <1>3 DEF Local
  <2>2. g' = [g EXCEPT ![s] = [g[s] EXCEPT !.input = Tail(@)]]
    BY DEF ReadInput
  <2> QED BY <1>1, <2>1, <2>2, SetLocal
<1>5. /\ sh' \in [Sessions -> Shell] /\ sh'[s] = [sh[s] EXCEPT !.got = Append(@, Head(g[s].input))]
      /\ \A x \in Sessions : x # s => sh'[x] = sh[x]
  <2>1. [sh[s] EXCEPT !.got = Append(@, Head(g[s].input))] \in Shell
    BY <1>3 DEF Shell
  <2>2. sh' = [sh EXCEPT ![s] = [sh[s] EXCEPT !.got = Append(@, Head(g[s].input))]]
    BY DEF ReadInput
  <2> QED BY <1>1, <2>1, <2>2, SetShell
<1>6. PICK m, n \in Nat : Len(sh[s].got) = m /\ Len(g[s].input) = n
  BY <1>1, LocalFields, ShellFields
<1>7. /\ Runs(sh[s].got, 0) /\ Runs(g[s].input, m) /\ Len(Tail(g[s].input)) = n - 1 /\ n >= 1
      /\ Len(Append(sh[s].got, Head(g[s].input))) = m + 1
  BY <1>1, <1>2, <1>3, <1>6, TailFields, AppendFields DEF Orders, InputInOrder
<1>8. /\ relay'[s] = relay[s] /\ typed'[s] = typed[s] /\ seen'[s] = seen[s]
      /\ up'[s] = up[s] /\ down'[s] = down[s] /\ pc'[s] = pc[s]
      /\ g'[s].out = g[s].out /\ g'[s].input = Tail(g[s].input) /\ g'[s].exit = g[s].exit
      /\ g'[s].late = g[s].late /\ g'[s].finishing = g[s].finishing /\ g'[s].closed = g[s].closed
      /\ sh'[s].started = sh[s].started /\ sh'[s].alive = sh[s].alive /\ sh'[s].born = sh[s].born
      /\ sh'[s].group = sh[s].group /\ sh'[s].missed = sh[s].missed /\ sh'[s].at = sh[s].at
      /\ sh'[s].wrote = sh[s].wrote /\ sh'[s].read = sh[s].read
      /\ sh'[s].got = Append(sh[s].got, Head(g[s].input))
  <2>1. /\ g'[s].out = g[s].out /\ g'[s].input = Tail(g[s].input) /\ g'[s].exit = g[s].exit
        /\ g'[s].late = g[s].late /\ g'[s].finishing = g[s].finishing /\ g'[s].closed = g[s].closed
    BY <1>3, <1>4 DEF Local
  <2>2. /\ sh'[s].started = sh[s].started /\ sh'[s].alive = sh[s].alive /\ sh'[s].born = sh[s].born
        /\ sh'[s].group = sh[s].group /\ sh'[s].missed = sh[s].missed /\ sh'[s].at = sh[s].at /\ sh'[s].wrote = sh[s].wrote /\ sh'[s].read = sh[s].read
        /\ sh'[s].got = Append(sh[s].got, Head(g[s].input))
    BY <1>3, <1>5 DEF Shell
  <2>3. /\ relay'[s] = relay[s] /\ typed'[s] = typed[s] /\ seen'[s] = seen[s]
        /\ up'[s] = up[s] /\ down'[s] = down[s] /\ pc'[s] = pc[s]
    BY DEF ReadInput
  <2> QED BY <2>1, <2>2, <2>3
<1>9. \A x \in Sessions : x # s => Stays(x)
  BY <1>1 DEF Stays, ReadInput, Typed, TypeOK, StreamTypes
<1>10. Typed'
  <2>1. \A x \in Sessions : g'[x].out = g[x].out
    BY <1>8, <1>9 DEF Stays
  <2> QED BY <1>1, <1>4, <1>5, <2>1 DEF ReadInput, Typed, TypeOK, StreamTypes
<1>11. (\A i : Item(s, i)' = Item(s, i)) /\ Sent(s)' = Sent(s) /\ (Open(s)' <=> Open(s))
  BY <1>8 DEF Item, Sent, Open
<1>12. Unopened(s)'
  BY <1>1, <1>2, <1>8 DEF Orders, Unopened, Loop
<1>13. ProcsInOrder(s)'
  BY <1>1, <1>2, <1>8 DEF Orders, ProcsInOrder
<1>14. SeenInOrder(s)'
  BY <1>1, <1>8, <1>11 DEF Orders, SeenInOrder
<1>15. DownInOrder(s)'
  BY <1>1, <1>8, <1>11 DEF Orders, DownInOrder
<1>16. OutInOrder(s)'
  BY <1>1, <1>8, <1>11 DEF Orders, OutInOrder
<1>17. InputInOrder(s)'
  <2>1. Head(g[s].input) = m + 1 /\ Runs(Tail(g[s].input), m + 1)
    BY <1>2, <1>3, <1>7, RunsTail
  <2>2. Runs(Append(sh[s].got, Head(g[s].input)), 0)
    <3>1. Head(g[s].input) = 0 + (Len(sh[s].got) + 1)
      BY <1>6, <2>1
    <3> QED BY <1>3, <1>7, <3>1, RunsAppend
  <2>3. Len(sh'[s].got) = m + 1 /\ Len(g'[s].input) = n - 1
    BY <1>7, <1>8
  <2>4. Runs(sh'[s].got, 0) /\ Runs(g'[s].input, Len(sh'[s].got))
    BY <1>8, <2>1, <2>2, <2>3
  <2>5. PICK f \in {0, 1} : (IF sh[s].started THEN 1 ELSE 0) = f
    OBVIOUS
  <2>6. Consumed(s) = m + n + f /\ Consumed(s)' = (m + 1) + (n - 1) + f
    BY <1>6, <1>8, <2>3, <2>5 DEF Consumed
  <2>7. Consumed(s)' = Consumed(s)
    <3>1. (m + 1) + (n - 1) + f = m + n + f
      BY <1>7
    <3> QED BY <2>6, <3>1
  <2>8. Numbered(up'[s], Consumed(s)') /\ (Open(s)' => typed'[s] + 1 = Consumed(s)' + Len(up'[s]))
    <3>1. up'[s] = up[s] /\ typed'[s] = typed[s]
      BY <1>8
    <3>2. Numbered(up[s], Consumed(s)) /\ (Open(s) => typed[s] + 1 = Consumed(s) + Len(up[s]))
      BY <1>1, <1>2 DEF Orders, InputInOrder
    <3> QED BY <1>11, <2>7, <3>1, <3>2
  <2> QED BY <2>4, <2>8 DEF InputInOrder
<1>18. NoneOutlives'
  BY <1>1, <1>8, <1>9 DEF IInv, NoneOutlives, Stays
<1> QED BY <1>9, <1>10, <1>12, <1>13, <1>14, <1>15, <1>16, <1>17, <1>18, OthersStay
          DEF IInv, Typed, Orders

(* The relay ends when the guest has closed the stream.                   *)
LEMMA GuestClosedKeeps ==
  ASSUME IInv, NEW s \in Sessions, GuestClosed(s)
  PROVE  IInv'
<1>1. Typed /\ Orders(s)
  BY DEF IInv, Typed
<1>2. Open(s) /\ pc[s] \in {"leave", "end"} /\ pc[s] # "off"
  BY DEF GuestClosed, Loop
<1>3. /\ relay'[s] = "gone" /\ typed'[s] = typed[s] /\ seen'[s] = seen[s]
      /\ up'[s] = up[s] /\ down'[s] = down[s] /\ pc'[s] = pc[s]
      /\ g'[s].out = g[s].out /\ g'[s].input = g[s].input /\ g'[s].exit = g[s].exit
      /\ g'[s].late = g[s].late /\ g'[s].finishing = g[s].finishing /\ g'[s].closed = g[s].closed
      /\ sh'[s].started = sh[s].started /\ sh'[s].alive = sh[s].alive /\ sh'[s].born = sh[s].born
      /\ sh'[s].group = sh[s].group /\ sh'[s].missed = sh[s].missed /\ sh'[s].at = sh[s].at
      /\ sh'[s].wrote = sh[s].wrote /\ sh'[s].read = sh[s].read /\ sh'[s].got = sh[s].got
  BY <1>1 DEF GuestClosed, Typed, TypeOK, StreamTypes, Local, Shell
<1>4. \A x \in Sessions : x # s => Stays(x)
  BY <1>1 DEF Stays, GuestClosed, Typed, TypeOK, StreamTypes
<1>5. Typed'
  BY <1>1, ActiveSame DEF GuestClosed, Typed, TypeOK, StreamTypes
<1>6. (\A i : Item(s, i)' = Item(s, i)) /\ Sent(s)' = Sent(s) /\ ~Open(s)'
  BY <1>3 DEF Item, Sent, Open
<1>7. Unopened(s)'
  BY <1>1, <1>2, <1>3 DEF Orders, Unopened
<1>8. ProcsInOrder(s)'
  BY <1>1, <1>2, <1>3 DEF Orders, ProcsInOrder
<1>9. SeenInOrder(s)'
  BY <1>1, <1>2, <1>3, <1>6 DEF Orders, SeenInOrder, Open
<1>10. DownInOrder(s)'
  BY <1>1, <1>3, <1>6 DEF Orders, DownInOrder
<1>11. OutInOrder(s)'
  BY <1>1, <1>3, <1>6 DEF Orders, OutInOrder
<1>12. InputInOrder(s)'
  BY <1>1, <1>3, <1>6, InputStays DEF Orders
<1>13. NoneOutlives'
  BY <1>1, <1>3, <1>4 DEF IInv, NoneOutlives, Stays
<1> QED BY <1>4, <1>5, <1>7, <1>8, <1>9, <1>10, <1>11, <1>12, <1>13, OthersStay
          DEF IInv, Typed, Orders

(* A relay that ends may still send the request to close, behind all      *)
(* input.                                                                 *)
LEMMA HangupKeeps ==
  ASSUME IInv, NEW s \in Sessions, Hangup(s)
  PROVE  IInv'
<1>1. Typed /\ Orders(s)
  BY DEF IInv, Typed
<1>2. Open(s) /\ pc[s] # "off"
  BY <1>1 DEF Hangup, Orders, Unopened, Open
<1>3. /\ up' \in [Sessions -> Seq(Messages)] /\ \A x \in Sessions : x # s => up'[x] = up[x]
      /\ up'[s] = up[s] \/ up'[s] = Append(up[s], Plain("close"))
  <2>1. up[s] \in Seq(Messages) /\ Plain("close") \in Messages
    BY <1>1, StreamFields DEF Messages
  <2>2. CASE up' = up
    BY <1>1, <2>2 DEF Typed, TypeOK
  <2>3. CASE up' = [up EXCEPT ![s] = Append(@, Plain("close"))]
    BY <1>1, <2>1, <2>3, AppendFields, SetUp
  <2> QED BY <2>2, <2>3 DEF Hangup
<1>4. /\ relay'[s] = "gone" /\ typed'[s] = typed[s] /\ seen'[s] = seen[s]
      /\ down'[s] = down[s] /\ pc'[s] = pc[s]
      /\ g'[s].out = g[s].out /\ g'[s].input = g[s].input /\ g'[s].exit = g[s].exit
      /\ g'[s].late = g[s].late /\ g'[s].finishing = g[s].finishing /\ g'[s].closed = g[s].closed
      /\ sh'[s].started = sh[s].started /\ sh'[s].alive = sh[s].alive /\ sh'[s].born = sh[s].born
      /\ sh'[s].group = sh[s].group /\ sh'[s].missed = sh[s].missed /\ sh'[s].at = sh[s].at
      /\ sh'[s].wrote = sh[s].wrote /\ sh'[s].read = sh[s].read /\ sh'[s].got = sh[s].got
  BY <1>1 DEF Hangup, Typed, TypeOK
<1>5. \A x \in Sessions : x # s => Stays(x)
  BY <1>1, <1>3 DEF Stays, Hangup, Typed, TypeOK, StreamTypes
<1>6. Typed'
  BY <1>1, <1>3, ActiveSame DEF Hangup, Typed, TypeOK, StreamTypes
<1>7. (\A i : Item(s, i)' = Item(s, i)) /\ Sent(s)' = Sent(s) /\ ~Open(s)'
  BY <1>4 DEF Item, Sent, Open
<1>8. Unopened(s)'
  BY <1>1, <1>2, <1>4 DEF Orders, Unopened
<1>9. ProcsInOrder(s)'
  BY <1>1, <1>4, <1>7 DEF Orders, ProcsInOrder
<1>10. SeenInOrder(s)'
  BY <1>1, <1>2, <1>4, <1>7 DEF Orders, SeenInOrder, Open
<1>11. DownInOrder(s)'
  BY <1>1, <1>4, <1>7 DEF Orders, DownInOrder
<1>12. OutInOrder(s)'
  BY <1>1, <1>4, <1>7 DEF Orders, OutInOrder
<1>13. InputInOrder(s)'
  <2>1. Consumed(s)' = Consumed(s) /\ Consumed(s) \in Nat
    BY <1>1, <1>4, ConsumedNat DEF Consumed
  <2>2. CASE pc[s] \in Loop /\ ~g[s].finishing
    <3>1. Numbered(up[s], Consumed(s)) /\ Runs(g[s].input, Len(sh[s].got))
      BY <1>1, <2>2 DEF Orders, InputInOrder
    <3>2. Numbered(up'[s], Consumed(s))
      <4>1. CASE up'[s] = up[s]
        BY <3>1, <4>1
      <4>2. CASE up'[s] = Append(up[s], Plain("close"))
        <5>1. Plain("close") \in Messages /\ Plain("close").type # "input" /\ up[s] \in Seq(Messages)
          BY <1>1, StreamFields DEF Messages, Plain, Frame
        <5> QED BY <2>1, <3>1, <4>2, <5>1, NumberedAppend
      <4> QED BY <1>3, <4>1, <4>2
    <3> QED BY <1>1, <1>4, <1>7, <2>1, <3>1, <3>2 DEF Orders, InputInOrder
  <2>3. CASE ~(pc[s] \in Loop /\ ~g[s].finishing)
    BY <1>1, <1>4, <2>3 DEF Orders, InputInOrder
  <2> QED BY <2>2, <2>3
<1>14. NoneOutlives'
  BY <1>1, <1>4, <1>5 DEF IInv, NoneOutlives, Stays
<1> QED BY <1>5, <1>6, <1>8, <1>9, <1>10, <1>11, <1>12, <1>13, <1>14, OthersStay
          DEF IInv, Typed, Orders

(* What is typed gets the next number.                                    *)
LEMMA TypeKeeps ==
  ASSUME IInv, NEW s \in Sessions, Type(s)
  PROVE  IInv'
<1>1. Typed /\ Orders(s)
  BY DEF IInv, Typed
<1>2. Open(s) /\ pc[s] # "off" /\ typed[s] < MaxInput
  BY <1>1 DEF Type, Orders, Unopened, Open
<1>3. PICK t \in 0..MaxInput : typed[s] = t
  BY <1>1, StreamFields
<1>4. typed[s] + 1 \in 1..MaxInput /\ typed[s] + 1 \in 0..MaxInput
  BY <1>2, <1>3, ShellConstants
<1>5. /\ typed' \in [Sessions -> 0..MaxInput] /\ typed'[s] = typed[s] + 1
      /\ \A x \in Sessions : x # s => typed'[x] = typed[x]
  BY <1>1, <1>4 DEF Type, Typed, TypeOK
<1>6. Frame("input", typed[s] + 1) \in Messages /\ up[s] \in Seq(Messages)
  BY <1>1, <1>4, StreamFields DEF Messages
<1>7. /\ up' \in [Sessions -> Seq(Messages)] /\ \A x \in Sessions : x # s => up'[x] = up[x]
      /\ up'[s] = Append(up[s], Frame("input", typed[s] + 1))
  <2>1. Append(up[s], Frame("input", typed[s] + 1)) \in Seq(Messages)
    BY <1>6, AppendFields
  <2>2. up' = [up EXCEPT ![s] = Append(up[s], Frame("input", typed[s] + 1))]
    BY <1>5 DEF Type
  <2> QED BY <1>1, <2>1, <2>2, SetUp
<1>8. /\ relay'[s] = relay[s] /\ typed'[s] = typed[s] + 1 /\ seen'[s] = seen[s]
      /\ up'[s] = Append(up[s], Frame("input", typed[s] + 1)) /\ down'[s] = down[s] /\ pc'[s] = pc[s]
      /\ g'[s].out = g[s].out /\ g'[s].input = g[s].input /\ g'[s].exit = g[s].exit
      /\ g'[s].late = g[s].late /\ g'[s].finishing = g[s].finishing /\ g'[s].closed = g[s].closed
      /\ sh'[s].started = sh[s].started /\ sh'[s].alive = sh[s].alive /\ sh'[s].born = sh[s].born
      /\ sh'[s].group = sh[s].group /\ sh'[s].missed = sh[s].missed /\ sh'[s].at = sh[s].at
      /\ sh'[s].wrote = sh[s].wrote /\ sh'[s].read = sh[s].read /\ sh'[s].got = sh[s].got
  BY <1>5, <1>7 DEF Type
<1>9. \A x \in Sessions : x # s => Stays(x)
  BY <1>1 DEF Stays, Type, Typed, TypeOK, StreamTypes
<1>10. Typed'
  BY <1>1, <1>5, <1>7, ActiveSame DEF Type, Typed, TypeOK, StreamTypes
<1>11. (\A i : Item(s, i)' = Item(s, i)) /\ Sent(s)' = Sent(s) /\ (Open(s)' <=> Open(s))
  BY <1>8 DEF Item, Sent, Open
<1>12. Unopened(s)'
  BY <1>1, <1>2, <1>8 DEF Orders, Unopened
<1>13. ProcsInOrder(s)'
  BY <1>1, <1>8, <1>11 DEF Orders, ProcsInOrder
<1>14. SeenInOrder(s)'
  BY <1>1, <1>8, <1>11 DEF Orders, SeenInOrder
<1>15. DownInOrder(s)'
  BY <1>1, <1>8, <1>11 DEF Orders, DownInOrder
<1>16. OutInOrder(s)'
  BY <1>1, <1>8, <1>11 DEF Orders, OutInOrder
<1>17. InputInOrder(s)'
  <2>1. Consumed(s)' = Consumed(s)
    BY <1>8 DEF Consumed
  <2>2. CASE pc[s] \in Loop /\ ~g[s].finishing
    <3>1. /\ Numbered(up[s], Consumed(s)) /\ Runs(g[s].input, Len(sh[s].got))
          /\ typed[s] + 1 = Consumed(s) + Len(up[s])
      BY <1>1, <1>2, <2>2 DEF Orders, InputInOrder
    <3>2. PICK c, l \in Nat : Consumed(s) = c /\ Len(up[s]) = l
      BY <1>1, ConsumedNat, StreamFields
    <3>3. t + 1 = c + l /\ Len(up'[s]) = l + 1
      BY <1>3, <1>6, <1>7, <3>1, <3>2, AppendFields
    <3>4. t \in Nat /\ t + 1 + 1 = c + (l + 1)
      BY <3>3, ShellConstants
    <3>5. Numbered(up'[s], c)
      <4>1. Frame("input", t + 1).type = "input" /\ Frame("input", t + 1).n + 1 = c + (l + 1)
        BY <3>4, FrameFields
      <4>2. up'[s] = Append(up[s], Frame("input", t + 1)) /\ Frame("input", t + 1) \in Messages
        BY <1>3, <1>6, <1>7
      <4> QED BY <1>6, <3>1, <3>2, <4>1, <4>2, NumberedAppend
    <3>6. typed'[s] + 1 = Consumed(s)' + Len(up'[s]) /\ Numbered(up'[s], Consumed(s)')
      BY <1>3, <1>5, <2>1, <3>2, <3>3, <3>4, <3>5
    <3> QED BY <1>1, <1>8, <1>11, <3>1, <3>6 DEF Orders, InputInOrder
  <2>3. CASE ~(pc[s] \in Loop /\ ~g[s].finishing)
    BY <1>1, <1>8, <2>3 DEF Orders, InputInOrder
  <2> QED BY <2>2, <2>3
<1>18. NoneOutlives'
  BY <1>1, <1>8, <1>9 DEF IInv, NoneOutlives, Stays
<1> QED BY <1>9, <1>10, <1>12, <1>13, <1>14, <1>15, <1>16, <1>17, <1>18, OthersStay
          DEF IInv, Typed, Orders

(* What the relay makes of the next frame: it is the next one, and the    *)
(* relay does not take it for one out of place, or it is an error and the *)
(* last.                                                                  *)
LEMMA Received ==
  ASSUME Typed, NEW s \in Sessions, Orders(s), Receive(s)
  PROVE  /\ relay'[s] \in {"ready", "gone"} /\ relay' \in [Sessions -> {"new", "open", "ready", "gone"}]
         /\ \A x \in Sessions : x # s => relay'[x] = relay[x] /\ seen'[x] = seen[x] /\ down'[x] = down[x]
         /\ seen' \in [Sessions -> Seq(Frames)] /\ down' \in [Sessions -> Seq(Frames)]
         /\ down'[s] = Tail(down[s])
         /\ \E f \in Frames :
              /\ seen'[s] = Append(seen[s], f)
              /\ \/ f = Plain("error") /\ relay'[s] = "gone"
                 \/ /\ f = Item(s, Len(seen[s]) + 1) /\ Len(seen[s]) + 1 <= Sent(s)
                    /\ relay'[s] = "ready" => Len(seen[s]) + 1 <= sh[s].read + 1
<1>1. /\ Open(s) /\ down[s] # <<>> /\ down[s] \in Seq(Frames) /\ seen[s] \in Seq(Frames)
      /\ Head(down[s]) \in Frames /\ Head(down[s]) = down[s][1] /\ Tail(down[s]) \in Seq(Frames)
      /\ Len(down[s]) >= 1
  BY StreamFields, TailFields DEF Receive
<1> DEFINE f   == Head(down[s])
           bad == \/ f.type = "torn"
                  \/ f.type = "ready" /\ relay[s] = "ready"
                  \/ f.type \in {"output", "exit"} /\ relay[s] # "ready"
           to  == IF bad \/ f.type \in {"exit", "error"} THEN "gone" ELSE IF f.type = "ready" THEN "ready"
             ELSE relay[s]
           got == IF bad THEN Plain("error") ELSE f
<1>2. /\ seen' = [seen EXCEPT ![s] = Append(@, got)] /\ relay' = [relay EXCEPT ![s] = to]
      /\ down' = [down EXCEPT ![s] = Tail(@)]
  BY DEF Receive
<1>3. f \in Frames /\ got \in Frames /\ Plain("error") \in Frames
  BY <1>1 DEF Frames
<1>4. PICK n, r \in Nat : Len(seen[s]) = n /\ sh[s].read = r
  BY StreamFields, ShellFields, ShellConstants
<1>5. \/ f = Item(s, n + 1) /\ n + 1 <= Sent(s)
      \/ f = Plain("error") \/ f = Plain("torn")
  BY <1>1, <1>4 DEF Orders, DownInOrder
<1>6. /\ relay[s] = "open" => n = 0
      /\ relay[s] = "ready" => n # 0
  BY <1>4, StreamFields, EmptySeq DEF Orders, SeenInOrder
<1>7. relay[s] \in {"open", "ready"}
  BY <1>1 DEF Open
<1>8. /\ to \in {"ready", "gone"}
      /\ \/ got = Plain("error") /\ to = "gone"
         \/ /\ got = Item(s, n + 1) /\ n + 1 <= Sent(s)
            /\ to = "ready" => n + 1 <= r + 1
  <2>1. CASE f = Plain("error")
    <3>1. f.type = "error"
      BY <2>1, FrameFields DEF Plain
    <3> HIDE DEF f
    <3> QED BY <2>1, <3>1
  <2>2. CASE f = Plain("torn")
    <3>1. f.type = "torn"
      BY <2>2, FrameFields DEF Plain
    <3> HIDE DEF f
    <3> QED BY <3>1
  <2>3. CASE f = Item(s, n + 1) /\ n + 1 <= Sent(s) /\ relay[s] = "open"
    <3>1. n + 1 = 1 /\ 1 <= r + 1
      BY <1>6, <2>3
    <3>2. f.type = "ready"
      BY <2>3, <3>1, FrameFields DEF Item, Plain
    <3> HIDE DEF f
    <3> QED BY <2>3, <3>1, <3>2
  <2>4. CASE f = Item(s, n + 1) /\ n + 1 <= Sent(s) /\ relay[s] = "ready"
    <3>1. n + 1 # 1
      BY <1>6, <2>4
    <3>2. CASE n + 1 <= r + 1
      <4>1. f.type = "output"
        BY <1>4, <2>4, <3>1, <3>2, FrameFields DEF Item
      <4> HIDE DEF f
      <4> QED BY <2>4, <3>2, <4>1
    <3>3. CASE ~(n + 1 <= r + 1)
      <4>1. f.type = "exit"
        BY <1>4, <2>4, <3>1, <3>3, FrameFields DEF Item, Plain
      <4> HIDE DEF f
      <4> QED BY <2>4, <4>1
    <3> QED BY <3>2, <3>3
  <2> QED BY <1>5, <1>7, <2>1, <2>2, <2>3, <2>4
<1> HIDE DEF f, to, got, bad
<1>9. /\ relay'[s] = to /\ \A x \in Sessions : x # s => relay'[x] = relay[x]
      /\ seen'[s] = Append(seen[s], got) /\ \A x \in Sessions : x # s => seen'[x] = seen[x]
      /\ down'[s] = Tail(down[s]) /\ \A x \in Sessions : x # s => down'[x] = down[x]
  BY <1>2 DEF Typed, TypeOK, StreamTypes
<1>10. Append(seen[s], got) \in Seq(Frames)
  BY <1>1, <1>3, AppendFields
<1>11. seen' \in [Sessions -> Seq(Frames)] /\ down' \in [Sessions -> Seq(Frames)]
  BY <1>1, <1>2, <1>10 DEF Typed, StreamTypes
<1>12. relay' \in [Sessions -> {"new", "open", "ready", "gone"}]
  BY <1>2, <1>8 DEF Typed, TypeOK
<1> QED BY <1>3, <1>4, <1>8, <1>9, <1>11, <1>12

(* A frame goes from the stream to the browser, or the relay ends with an *)
(* error.                                                                 *)
LEMMA ReceiveKeeps ==
  ASSUME IInv, NEW s \in Sessions, Receive(s)
  PROVE  IInv'
<1>1. /\ Typed /\ Orders(s) /\ Open(s) /\ pc' = pc /\ active' = active /\ up' = up /\ typed' = typed
      /\ g' = g /\ sh' = sh
  BY DEF IInv, Typed, Receive
<1>2. /\ relay'[s] \in {"ready", "gone"} /\ relay' \in [Sessions -> {"new", "open", "ready", "gone"}]
      /\ \A x \in Sessions : x # s => relay'[x] = relay[x] /\ seen'[x] = seen[x] /\ down'[x] = down[x]
      /\ seen' \in [Sessions -> Seq(Frames)] /\ down' \in [Sessions -> Seq(Frames)]
      /\ down'[s] = Tail(down[s])
  BY <1>1, Received
<1>3. PICK f \in Frames :
        /\ seen'[s] = Append(seen[s], f)
        /\ \/ f = Plain("error") /\ relay'[s] = "gone"
           \/ /\ f = Item(s, Len(seen[s]) + 1) /\ Len(seen[s]) + 1 <= Sent(s)
              /\ relay'[s] = "ready" => Len(seen[s]) + 1 <= sh[s].read + 1
  BY <1>1, Received
<1>4. PICK n, l, r \in Nat : Len(seen[s]) = n /\ Len(down[s]) = l /\ sh[s].read = r
  <2>1. sh[s].read \in Nat
    BY <1>1, ReadNat
  <2> QED BY <1>1, <2>1, StreamFields
<1>5. /\ Len(seen'[s]) = n + 1 /\ seen'[s][n + 1] = f /\ \A i \in 1..n : seen'[s][i] = seen[s][i]
  <2>1. seen[s] \in Seq(Frames)
    BY <1>1, StreamFields
  <2>2. /\ Len(Append(seen[s], f)) = Len(seen[s]) + 1 /\ Append(seen[s], f)[Len(seen[s]) + 1] = f
        /\ \A i \in 1..Len(seen[s]) : Append(seen[s], f)[i] = seen[s][i]
    BY <2>1, AppendFields
  <2> QED BY <1>3, <1>4, <2>2
<1>6. /\ l >= 1 /\ Len(down'[s]) = l - 1 /\ \A i \in 1..(l - 1) : down'[s][i] = down[s][i + 1]
           /\ i + 1 \in 1..l
  <2>1. down[s] \in Seq(Frames) /\ down[s] # <<>>
    BY <1>1, StreamFields DEF Receive
  <2>2. /\ Len(down[s]) >= 1 /\ Len(Tail(down[s])) = Len(down[s]) - 1
        /\ \A i \in 1..Len(Tail(down[s])) : Tail(down[s])[i] = down[s][i + 1] /\ i + 1 \in 1..Len(down[s])
    BY <2>1, TailFields
  <2> QED BY <1>2, <1>4, <2>2
<1>7. (\A i : Item(s, i)' = Item(s, i)) /\ Sent(s)' = Sent(s) /\ (Open(s)' <=> relay'[s] = "ready")
  BY <1>1, <1>2 DEF Item, Sent, Open
<1>8. pc[s] # "off" /\ relay[s] # "new" /\ relay[s] # "gone"
  BY <1>1 DEF Orders, Unopened, Open
<1>9. \A x \in Sessions : x # s => Stays(x)
  BY <1>1, <1>2 DEF Stays
<1>10. Typed'
  <2>1. l <= MaxWire
    BY <1>1, <1>4 DEF Typed, TypeOK
  <2>2. Len(down'[s]) <= MaxWire
    BY <1>6, <2>1, ShellConstants
  <2>3. \A x \in Sessions : Len(down'[x]) <= MaxWire
    BY <1>1, <1>2, <2>2 DEF Typed, TypeOK
  <2> QED BY <1>1, <1>2, <2>3, ActiveSame DEF Typed, TypeOK, StreamTypes
<1>11. Unopened(s)'
  BY <1>1, <1>2, <1>8 DEF Unopened
<1>12. ProcsInOrder(s)'
  BY <1>1 DEF Orders, ProcsInOrder
<1>13. SeenInOrder(s)'
  <2>1. \A i \in 1..n : seen[s][i] = Item(s, i) /\ i <= Sent(s) /\ i <= r + 1
    BY <1>1, <1>4, <1>8 DEF Orders, SeenInOrder
  <2>2. \A i \in 1..(n + 1) : i \in 1..n \/ i = n + 1
    OBVIOUS
  <2>3. \A i \in 1..(n + 1) :
          \/ seen'[s][i] = Item(s, i) /\ i <= Sent(s) /\ (relay'[s] = "ready" \/ i # n + 1 => i <= r + 1)
          \/ i = n + 1 /\ seen'[s][i] = Plain("error") /\ relay'[s] = "gone"
    <3>1. TAKE i \in 1..(n + 1)
    <3>2. CASE i \in 1..n
      BY <1>5, <2>1, <3>2
    <3>3. CASE i = n + 1
      BY <1>3, <1>4, <1>5, <3>3
    <3> QED BY <2>2, <3>2, <3>3
  <2>4. seen'[s] # <<>> /\ relay'[s] # "open"
    BY <1>2, <1>5
  <2>5. sh'[s].read = r
    BY <1>1, <1>4
  <2> QED BY <1>5, <1>7, <2>3, <2>4, <2>5 DEF SeenInOrder
<1>14. DownInOrder(s)'
  <2>1. \A i \in 1..l : \/ down[s][i] = Item(s, n + i) /\ n + i <= Sent(s)
                        \/ i = l /\ down[s][i] \in {Plain("error"), Plain("torn")} /\ pc[s] \in {"leave", "end"}
    BY <1>1, <1>4 DEF Orders, DownInOrder
  <2>2. \A i \in 1..(l - 1) : n + (i + 1) = (n + 1) + i /\ (i + 1 = l => i = l - 1)
    OBVIOUS
  <2>3. \A i \in 1..(l - 1) : \/ down'[s][i] = Item(s, (n + 1) + i) /\ (n + 1) + i <= Sent(s)
                              \/ i = l - 1 /\ down'[s][i] \in {Plain("error"), Plain("torn")} /\ pc[s] \in {"leave", "end"}
    <3>1. TAKE i \in 1..(l - 1)
    <3>2. \/ down[s][i + 1] = Item(s, n + (i + 1)) /\ n + (i + 1) <= Sent(s)
          \/ i + 1 = l /\ down[s][i + 1] \in {Plain("error"), Plain("torn")} /\ pc[s] \in {"leave", "end"}
      BY <1>6, <2>1
    <3> QED BY <1>6, <2>2, <3>2
  <2>4. \A i \in 1..(l - 1) : \/ down'[s][i] = Item(s, (n + 1) + i)' /\ (n + 1) + i <= Sent(s)'
                              \/ i = l - 1 /\ down'[s][i] \in {Plain("error"), Plain("torn")} /\ pc'[s] \in {"leave", "end"}
    BY <1>1, <1>7, <2>3
  <2> QED BY <1>5, <1>6, <2>4 DEF DownInOrder
<1>15. OutInOrder(s)'
  <2>1. CASE pc[s] \in Loop
    <3>1. PICK m \in Nat : Len(g[s].out) = m
      BY <1>1, LocalFields
    <3>2. n + l + m = Sent(s) /\ \A i \in 1..m : g[s].out[i] = Item(s, n + l + i)
      BY <1>1, <1>4, <2>1, <3>1 DEF Orders, OutInOrder
    <3>3. (n + 1) + (l - 1) + m = n + l + m /\ \A i \in 1..m : (n + 1) + (l - 1) + i = n + l + i
      OBVIOUS
    <3>4. \A i \in 1..m : g[s].out[i] = Item(s, (n + 1) + (l - 1) + i)'
      BY <1>7, <3>2, <3>3
    <3>5. Sent(s)' = (n + 1) + (l - 1) + m /\ g'[s].out = g[s].out
      BY <1>1, <1>7, <3>2, <3>3
    <3> QED BY <1>5, <1>6, <3>1, <3>4, <3>5 DEF OutInOrder
  <2>2. CASE pc[s] \notin Loop
    BY <1>1, <2>2 DEF OutInOrder
  <2> QED BY <2>1, <2>2
<1>16. InputInOrder(s)'
  BY <1>1, InputStays DEF Orders
<1>17. NoneOutlives'
  BY <1>1 DEF IInv, NoneOutlives
<1> QED BY <1>9, <1>10, <1>11, <1>12, <1>13, <1>14, <1>15, <1>16, <1>17, OthersStay
          DEF IInv, Typed, Orders

(* Taking and giving back a place among the sessions.                     *)
LEMMA Places ==
  ASSUME Typed
  PROVE  /\ IsFiniteSet(active) /\ Cardinality(active) \in Nat
         /\ \A e : e \notin active => IsFiniteSet(active \cup {e})
              /\ Cardinality(active \cup {e}) = Cardinality(active) + 1
         /\ \A e : e \in active => IsFiniteSet(active \ {e})
              /\ Cardinality(active \ {e}) = Cardinality(active) - 1
  BY FS_AddElement, FS_RemoveElement, FS_CardinalityType DEF Typed, StreamTypes

(* Sessions of other browsers come and go within MAX_SESSIONS.            *)
LEMMA JoinsKeeps ==
  ASSUME IInv, NEW o \in Others, Joins(o) \/ Quits(o)
  PROVE  IInv'
<1>1. Typed /\ \A s \in Sessions : Orders(s)
  BY DEF IInv, Typed
<1>2. UNCHANGED <<relay, typed, seen, up, down, pc, g, sh>>
  BY DEF Joins, Quits
<1>3. \A s \in Sessions : Stays(s)
  BY <1>2 DEF Stays
<1>4. IsFiniteSet(active') /\ Cardinality(active') <= MaxSessions
  <2>1. PICK n \in Nat : Cardinality(active) = n
    BY <1>1, Places
  <2>2. CASE Joins(o)
    <3>1. Cardinality(active') = n + 1 /\ IsFiniteSet(active') /\ n < MaxSessions
      BY <1>1, <2>1, <2>2, Places DEF Joins
    <3> QED BY <3>1, ShellConstants
  <2>3. CASE Quits(o)
    <3>1. Cardinality(active') = n - 1 /\ IsFiniteSet(active') /\ n <= MaxSessions
      BY <1>1, <2>1, <2>3, Places DEF Quits, Typed, TypeOK
    <3> QED BY <3>1, ShellConstants
  <2> QED BY <2>2, <2>3
<1>5. active' \ Others = active \ Others
  BY DEF Joins, Quits
<1>6. Typed'
  BY <1>1, <1>2, <1>4, <1>5 DEF Typed, TypeOK, StreamTypes
<1>7. NoneOutlives'
  BY <1>2 DEF IInv, NoneOutlives
<1>8. \A s \in Sessions : Orders(s)'
  BY <1>1, <1>3, OthersStay
<1> QED BY <1>6, <1>7, <1>8 DEF IInv, Typed

(* Behind the scan the leader's group is killed; who then lives was       *)
(* missed.                                                                *)
LEMMA ReapedKeeps ==
  ASSUME IInv, NEW s \in Sessions, Reaped(s)
  PROVE  IInv'
<1>1. Typed /\ Orders(s)
  BY DEF IInv, Typed
<1>2. /\ pc[s] = "scan" /\ sh[s].at > MaxPid
      /\ UNCHANGED <<relay, typed, seen, up, down, g, active>>
  BY DEF Reaped
<1>3. sh[s] \in Shell /\ [sh[s] EXCEPT !.alive = @ \ sh[s].group] \in Shell
  BY <1>1 DEF Typed, TypeOK, Shell
<1>4. sh' = [sh EXCEPT ![s] = [sh[s] EXCEPT !.alive = @ \ sh[s].group]]
  BY DEF Reaped
<1>5. /\ sh' \in [Sessions -> Shell] /\ sh'[s] = [sh[s] EXCEPT !.alive = @ \ sh[s].group]
      /\ \A x \in Sessions : x # s => sh'[x] = sh[x]
  BY <1>1, <1>3, <1>4, SetShell
<1>6. /\ pc' \in [Sessions -> Loop \cup {"off", "scan", "report", "leave", "end"}] /\ pc'[s] = "report"
      /\ \A x \in Sessions : x # s => pc'[x] = pc[x]
  BY <1>1 DEF Reaped, Goes, Typed, TypeOK
<1>7. /\ relay'[s] = relay[s] /\ typed'[s] = typed[s] /\ seen'[s] = seen[s]
      /\ up'[s] = up[s] /\ down'[s] = down[s] /\ pc'[s] = "report" /\ g'[s] = g[s]
      /\ sh'[s].started = sh[s].started /\ sh'[s].alive = sh[s].alive \ sh[s].group /\ sh'[s].born = sh[s].born
      /\ sh'[s].group = sh[s].group /\ sh'[s].missed = sh[s].missed /\ sh'[s].at = sh[s].at
      /\ sh'[s].wrote = sh[s].wrote /\ sh'[s].read = sh[s].read /\ sh'[s].got = sh[s].got
  BY <1>2, <1>3, <1>5, <1>6 DEF Shell
<1>8. \A x \in Sessions : x # s => Stays(x)
  BY <1>2, <1>5, <1>6 DEF Stays
<1>9. Typed'
  <2>1. \A x \in Sessions : pc'[x] \in {"off", "end"} <=> pc[x] \in {"off", "end"}
    BY <1>2, <1>7, <1>8 DEF Stays
  <2> QED BY <1>1, <1>2, <1>5, <1>6, <2>1 DEF Typed, TypeOK, StreamTypes
<1>10. (\A i : Item(s, i)' = Item(s, i)) /\ Sent(s)' = Sent(s) /\ (Open(s)' <=> Open(s))
  BY <1>7 DEF Item, Sent, Open
<1>11. Unopened(s)'
  BY <1>1, <1>2, <1>7 DEF Orders, Unopened
<1>12. ProcsInOrder(s)'
  BY <1>1, <1>2, <1>7 DEF Orders, ProcsInOrder
<1>13. SeenInOrder(s)'
  BY <1>1, <1>7, <1>10 DEF Orders, SeenInOrder
<1>14. DownInOrder(s)'
  BY <1>1, <1>2, <1>7, <1>10 DEF Orders, DownInOrder, Loop
<1>15. OutInOrder(s)'
  BY <1>7 DEF OutInOrder, Loop
<1>16. InputInOrder(s)'
  BY <1>1, <1>2, <1>7 DEF Orders, InputInOrder, Loop
<1>17. NoneOutlives'
  <2>1. sh[s].alive \subseteq Procs /\ sh[s].at \in Nat /\ ProcsInOrder(s)
    BY <1>1, ShellFields, ShellConstants DEF Orders
  <2>2. ASSUME NEW p \in sh[s].alive
        PROVE  p \in sh[s].missed
    <3>1. p \in Nat /\ p <= MaxPid
      BY <2>1, ShellConstants DEF Procs
    <3>2. ~(p >= sh[s].at)
      BY <1>2, <2>1, <3>1, ShellConstants
    <3> QED BY <2>1, <3>2 DEF ProcsInOrder
  <2> QED BY <1>7, <1>8, <2>2 DEF IInv, NoneOutlives, Stays
<1> QED BY <1>8, <1>9, <1>11, <1>12, <1>13, <1>14, <1>15, <1>16, <1>17, OthersStay
          DEF IInv, Typed, Orders

(* An error is the last frame of the stream.                              *)
LEMMA ReportKeeps ==
  ASSUME IInv, NEW s \in Sessions, Report(s)
  PROVE  IInv'
<1>1. Typed /\ Orders(s)
  BY DEF IInv, Typed
<1>2. pc[s] = "report" /\ UNCHANGED <<relay, typed, seen, up, g, sh, active>>
  BY DEF Report
<1>3. /\ down' \in [Sessions -> Seq(Frames)]
      /\ \A x \in Sessions : x # s => down'[x] = down[x]
      /\ Len(down'[s]) <= MaxWire
      /\ \A i \in 1..Len(down'[s]) :
           \/ i \in 1..Len(down[s]) /\ down'[s][i] = down[s][i]
           \/ i = Len(down'[s]) /\ down'[s][i] \in {Plain("error"), Plain("torn")}
  <2>1. CASE down' = down
    BY <1>1, <2>1, StreamFields DEF Typed, TypeOK, StreamTypes
  <2>2. CASE /\ Len(down[s]) < MaxWire
             /\ down' = [down EXCEPT ![s] = Append(@, Plain(IF g[s].half THEN "torn" ELSE "error"))]
    <3>1. PICK f \in {Plain("error"), Plain("torn")} : down' = [down EXCEPT ![s] = Append(@, f)]
      BY <2>2
    <3>2. f \in Frames
      BY <3>1 DEF Frames
    <3>3. /\ down' \in [Sessions -> Seq(Frames)]
          /\ \A x \in Sessions : x # s => down'[x] = down[x]
          /\ Len(down'[s]) = Len(down[s]) + 1 /\ Len(down'[s]) <= MaxWire
          /\ down'[s][Len(down[s]) + 1] = f
          /\ \A i \in 1..Len(down[s]) : down'[s][i] = down[s][i]
          /\ \A i \in 1..Len(down'[s]) : i \in 1..Len(down[s]) \/ i = Len(down[s]) + 1
      BY <1>1, <2>2, <3>1, <3>2, SendsOne
    <3>4. Len(down[s]) \in Nat
      BY <1>1, StreamFields
    <3> QED BY <3>1, <3>3, <3>4
  <2> QED BY <2>1, <2>2 DEF Report
<1>4. /\ pc' \in [Sessions -> Loop \cup {"off", "scan", "report", "leave", "end"}] /\ pc'[s] = "leave"
      /\ \A x \in Sessions : x # s => pc'[x] = pc[x]
  BY <1>1 DEF Report, Goes, Typed, TypeOK
<1>5. \A x \in Sessions : x # s => Stays(x)
  BY <1>2, <1>3, <1>4 DEF Stays
<1>6. Typed'
  <2>1. \A x \in Sessions : pc'[x] \in {"off", "end"} <=> pc[x] \in {"off", "end"}
    BY <1>2, <1>4
  <2>2. \A x \in Sessions : Len(down'[x]) <= MaxWire
    BY <1>1, <1>3 DEF Typed, TypeOK
  <2> QED BY <1>1, <1>2, <1>3, <1>4, <2>1, <2>2 DEF Typed, TypeOK, StreamTypes
<1>7. (\A i : Item(s, i)' = Item(s, i)) /\ Sent(s)' = Sent(s) /\ (Open(s)' <=> Open(s))
  BY <1>2 DEF Item, Sent, Open
<1>8. Unopened(s)'
  BY <1>1, <1>2, <1>4 DEF Orders, Unopened
<1>9. ProcsInOrder(s)'
  BY <1>1, <1>2, <1>4 DEF Orders, ProcsInOrder
<1>10. SeenInOrder(s)'
  BY <1>1, <1>2, <1>7 DEF Orders, SeenInOrder
<1>11. DownInOrder(s)'
  <2>1. \A i \in 1..Len(down[s]) : down[s][i] = Item(s, Len(seen[s]) + i) /\ Len(seen[s]) + i <= Sent(s)
    BY <1>1, <1>2 DEF Orders, DownInOrder
  <2> QED BY <1>2, <1>3, <1>4, <1>7, <2>1 DEF DownInOrder
<1>12. OutInOrder(s)'
  BY <1>4 DEF OutInOrder, Loop
<1>13. InputInOrder(s)'
  BY <1>1, <1>2, <1>4 DEF Orders, InputInOrder, Loop
<1>14. NoneOutlives'
  BY <1>1, <1>2, <1>4, <1>5 DEF IInv, NoneOutlives, Stays
<1> QED BY <1>5, <1>6, <1>8, <1>9, <1>10, <1>11, <1>12, <1>13, <1>14, OthersStay
          DEF IInv, Typed, Orders

(* The thread gives its place back at its end.                            *)
LEMMA LeaveKeeps ==
  ASSUME IInv, NEW s \in Sessions, Leave(s)
  PROVE  IInv'
<1>1. Typed /\ Orders(s)
  BY DEF IInv, Typed
<1>2. pc[s] = "leave" /\ active' = active \ {s}
  BY DEF Leave, Freed
<1>3. /\ relay'[s] = relay[s] /\ typed'[s] = typed[s] /\ seen'[s] = seen[s]
      /\ up'[s] = up[s] /\ down'[s] = down[s] /\ pc'[s] = "end"
      /\ g'[s].out = g[s].out /\ g'[s].input = g[s].input /\ g'[s].exit = g[s].exit
      /\ g'[s].late = g[s].late /\ g'[s].finishing = g[s].finishing /\ g'[s].closed = g[s].closed
      /\ sh'[s].started = sh[s].started /\ sh'[s].alive = sh[s].alive /\ sh'[s].born = sh[s].born
      /\ sh'[s].group = sh[s].group /\ sh'[s].missed = sh[s].missed /\ sh'[s].at = sh[s].at
      /\ sh'[s].wrote = sh[s].wrote /\ sh'[s].read = sh[s].read /\ sh'[s].got = sh[s].got
  BY <1>1 DEF Leave, Goes, Typed, TypeOK, StreamTypes, Local, Shell
<1>4. \A x \in Sessions : x # s => Stays(x)
  BY <1>1 DEF Stays, Leave, Goes, Typed, TypeOK, StreamTypes
<1>5. Typed'
  <2>1. pc' \in [Sessions -> Loop \cup {"off", "scan", "report", "leave", "end"}]
    BY <1>1 DEF Leave, Goes, Typed, TypeOK
  <2>2. \A x \in Sessions : x # s => (pc'[x] \in {"off", "end"} <=> pc[x] \in {"off", "end"})
    BY <1>4 DEF Stays
  <2>3. active' \ Others = {x \in Sessions : pc'[x] \notin {"off", "end"}}
    BY <1>1, <1>2, <1>3, <2>2 DEF Typed, TypeOK
  <2>4. s \in active
    BY <1>1, <1>2 DEF Typed, TypeOK
  <2>5. PICK n \in Nat : Cardinality(active) = n
    BY <1>1, Places
  <2>6. IsFiniteSet(active') /\ Cardinality(active') = n - 1 /\ n <= MaxSessions
    BY <1>1, <1>2, <2>4, <2>5, Places DEF Typed, TypeOK
  <2>7. Cardinality(active') <= MaxSessions
    BY <2>6, ShellConstants
  <2> QED BY <1>1, <2>1, <2>3, <2>6, <2>7 DEF Leave, Typed, TypeOK, StreamTypes
<1>6. (\A i : Item(s, i)' = Item(s, i)) /\ Sent(s)' = Sent(s) /\ (Open(s)' <=> Open(s))
  BY <1>3 DEF Item, Sent, Open
<1>7. Unopened(s)'
  BY <1>1, <1>2, <1>3 DEF Orders, Unopened
<1>8. ProcsInOrder(s)'
  BY <1>1, <1>2, <1>3 DEF Orders, ProcsInOrder
<1>9. SeenInOrder(s)'
  BY <1>1, <1>3, <1>6 DEF Orders, SeenInOrder
<1>10. DownInOrder(s)'
  BY <1>1, <1>3, <1>6 DEF Orders, DownInOrder, Loop
<1>11. OutInOrder(s)'
  BY <1>3 DEF OutInOrder, Loop
<1>12. InputInOrder(s)'
  BY <1>1, <1>3 DEF Orders, InputInOrder, Loop
<1>13. NoneOutlives'
  BY <1>1, <1>2, <1>3, <1>4 DEF IInv, NoneOutlives, Stays
<1> QED BY <1>4, <1>5, <1>7, <1>8, <1>9, <1>10, <1>11, <1>12, <1>13, OthersStay
          DEF IInv, Typed, Orders

(* A new connection begins with nothing seen and nothing typed, or is     *)
(* refused.                                                               *)
LEMMA ConnectKeeps ==
  ASSUME IInv, NEW s \in Sessions, Connect(s)
  PROVE  IInv'
<1>1. Typed /\ Orders(s) /\ relay[s] = "new" /\ pc[s] = "off"
  BY DEF IInv, Typed, Connect, Orders, Unopened
<1>2. /\ typed[s] = 0 /\ seen[s] = <<>> /\ up[s] = <<>> /\ down[s] = <<>>
      /\ g[s].out = <<>> /\ g[s].input = <<>> /\ ~g[s].finishing
      /\ ~sh[s].started /\ sh[s].read = 0 /\ sh[s].got = <<>>
  BY <1>1 DEF Orders, Unopened
<1>3. typed' = typed /\ seen' = seen /\ down' = down /\ g' = g /\ sh' = sh
  BY DEF Connect
<1>4. (\A i : Item(s, i)' = Item(s, i)) /\ Sent(s)' = 0
  BY <1>2, <1>3 DEF Item, Sent
<1>5. Len(<<>>) = 0 /\ 1..0 = {}
  OBVIOUS
<1>6. ProcsInOrder(s)'
  <2>1. pc'[s] \in {"poll", "off"}
    BY <1>1 DEF Connect, Typed, TypeOK
  <2> QED BY <1>1, <1>3, <2>1 DEF Orders, ProcsInOrder
<1>7. DownInOrder(s)'
  BY <1>2, <1>3, <1>5 DEF DownInOrder
<1>8. CASE /\ Cardinality(active) < MaxSessions
           /\ relay' = [relay EXCEPT ![s] = "open"] /\ up' = [up EXCEPT ![s] = <<Plain("open")>>]
           /\ pc' = [pc EXCEPT ![s] = "poll"] /\ active' = active \cup {s}
  <2>1. /\ <<Plain("open")>> \in Seq(Messages) /\ Len(<<Plain("open")>>) = 1
        /\ <<Plain("open")>>[1] = Plain("open")
    BY DEF Messages
  <2>2. /\ relay' \in [Sessions -> {"new", "open", "ready", "gone"}] /\ relay'[s] = "open"
        /\ \A x \in Sessions : x # s => relay'[x] = relay[x]
    BY <1>1, <1>8 DEF Typed, TypeOK
  <2>3. /\ pc' \in [Sessions -> Loop \cup {"off", "scan", "report", "leave", "end"}] /\ pc'[s] = "poll"
        /\ \A x \in Sessions : x # s => pc'[x] = pc[x]
    BY <1>1, <1>8 DEF Typed, TypeOK, Loop
  <2>4. /\ up' \in [Sessions -> Seq(Messages)] /\ up'[s] = <<Plain("open")>>
        /\ \A x \in Sessions : x # s => up'[x] = up[x]
    BY <1>1, <1>8, <2>1, SetUp
  <2>5. \A x \in Sessions : x # s => Stays(x)
    BY <1>3, <2>2, <2>3, <2>4 DEF Stays
  <2>6. s \notin active
    BY <1>1, ShellConstants DEF Typed, TypeOK
  <2>7. PICK n \in Nat : Cardinality(active) = n
    BY <1>1, Places
  <2>8. IsFiniteSet(active') /\ Cardinality(active') = n + 1 /\ n < MaxSessions
    BY <1>1, <1>8, <2>6, <2>7, Places
  <2>9. Cardinality(active') <= MaxSessions
    BY <2>8, ShellConstants
  <2>10. active' \ Others = {x \in Sessions : pc'[x] \notin {"off", "end"}}
    BY <1>1, <1>8, <2>3, ShellConstants DEF Typed, TypeOK
  <2>11. Typed'
    BY <1>1, <1>3, <2>2, <2>3, <2>4, <2>8, <2>9, <2>10 DEF Typed, TypeOK, StreamTypes
  <2>12. Unopened(s)'
    BY <2>2, <2>3 DEF Unopened
  <2>13. SeenInOrder(s)'
    BY <1>2, <1>3, <1>5, <2>2 DEF SeenInOrder
  <2>14. OutInOrder(s)'
    <3>1. Len(seen'[s]) = 0 /\ Len(down'[s]) = 0 /\ Len(g'[s].out) = 0
      BY <1>2, <1>3, <1>5
    <3>2. Len(seen'[s]) + Len(down'[s]) + Len(g'[s].out) = 0
      BY <3>1
    <3> QED BY <1>4, <1>5, <3>1, <3>2 DEF OutInOrder
  <2>15. InputInOrder(s)'
    <3>1. Consumed(s)' = 0
      <4>1. Len(sh'[s].got) = 0 /\ Len(g'[s].input) = 0 /\ ~sh'[s].started
        BY <1>2, <1>3, <1>5
      <4> QED BY <4>1 DEF Consumed
    <3>2. Runs(sh'[s].got, 0) /\ Runs(g'[s].input, Len(sh'[s].got))
      BY <1>2, <1>3, <1>5 DEF Runs
    <3>3. Plain("open").type # "input"
      BY FrameFields DEF Plain
    <3>4. Numbered(up'[s], 0)
      BY <2>1, <2>4, <3>3 DEF Numbered
    <3>5. typed'[s] + 1 = 0 + Len(up'[s])
      BY <1>2, <1>3, <2>1, <2>4
    <3> QED BY <3>1, <3>2, <3>4, <3>5 DEF InputInOrder
  <2>16. NoneOutlives'
    BY <1>3, <2>3 DEF IInv, NoneOutlives
  <2> QED BY <1>6, <1>7, <2>5, <2>11, <2>12, <2>13, <2>14, <2>15, <2>16, OthersStay
            DEF IInv, Typed, Orders
<1>9. CASE relay' = [relay EXCEPT ![s] = "gone"] /\ UNCHANGED <<up, pc, active>>
  <2>1. /\ relay' \in [Sessions -> {"new", "open", "ready", "gone"}] /\ relay'[s] = "gone"
        /\ \A x \in Sessions : x # s => relay'[x] = relay[x]
    BY <1>1, <1>9 DEF Typed, TypeOK
  <2>2. \A x \in Sessions : x # s => Stays(x)
    BY <1>3, <1>9, <2>1 DEF Stays
  <2>3. Typed'
    BY <1>1, <1>3, <1>9, <2>1 DEF Typed, TypeOK, StreamTypes
  <2>4. Unopened(s)'
    BY <1>1, <1>3, <1>9, <2>1 DEF Orders, Unopened
  <2>5. SeenInOrder(s)'
    BY <1>2, <1>3, <1>5, <2>1 DEF SeenInOrder
  <2>6. OutInOrder(s)'
    BY <1>1, <1>9 DEF OutInOrder, Loop
  <2>7. InputInOrder(s)'
    BY <1>1, <1>3, <1>9 DEF Orders, InputInOrder, Loop
  <2>8. NoneOutlives'
    BY <1>3, <1>9 DEF IInv, NoneOutlives
  <2> QED BY <1>6, <1>7, <2>2, <2>3, <2>4, <2>5, <2>6, <2>7, <2>8, OthersStay
            DEF IInv, Typed, Orders
<1> QED BY <1>8, <1>9 DEF Connect

(* Before any connection there is nothing to be out of order.             *)
LEMMA InitKeeps ==
  ASSUME Init
  PROVE  IInv
<1>1. IsFiniteSet({}) /\ Cardinality({}) = 0 /\ <<>> \in Seq(Messages) /\ <<>> \in Seq(Frames)
  BY FS_EmptySet, EmptySeq
<1>2. Len(<<>>) = 0 /\ 1..0 = {}
  OBVIOUS
<1>3. [out |-> <<>>, input |-> <<>>, half |-> FALSE, exit |-> FALSE, late |-> FALSE, finishing |-> FALSE,
        closed |-> FALSE, failed |-> FALSE] \in Local
  BY EmptySeq DEF Local
<1>4. [started |-> FALSE, alive |-> {}, born |-> {Leader}, group |-> {Leader},
        missed |-> {}, at |-> 0, wrote |-> 0, read |-> 0, got |-> <<>>] \in Shell
  BY EmptySeq, ShellConstants DEF Shell, Procs
<1>5. ASSUME NEW s \in Sessions
      PROVE  /\ relay[s] = "new" /\ typed[s] = 0 /\ seen[s] = <<>> /\ up[s] = <<>> /\ down[s] = <<>>
             /\ pc[s] = "off"
             /\ g[s].out = <<>> /\ g[s].input = <<>> /\ ~g[s].exit /\ ~g[s].late /\ ~g[s].finishing
             /\ ~g[s].closed
             /\ ~sh[s].started /\ sh[s].alive = {} /\ sh[s].born = {Leader}
             /\ sh[s].group = {Leader} /\ sh[s].missed = {} /\ sh[s].at = 0
             /\ sh[s].wrote = 0 /\ sh[s].read = 0 /\ sh[s].got = <<>>
  BY DEF Init
<1>6. TypeOK /\ StreamTypes
  <2>1. g \in [Sessions -> Local] /\ sh \in [Sessions -> Shell]
    BY <1>3, <1>4 DEF Init
  <2>2. \A s \in Sessions : Len(down[s]) <= MaxWire /\ Len(g[s].out) <= MaxPending + 1
    BY <1>2, <1>5, ShellConstants
  <2>3. Cardinality(active) <= MaxSessions
    BY <1>1, ShellConstants DEF Init
  <2>4. active \ Others = {s \in Sessions : pc[s] \notin {"off", "end"}}
    BY <1>5 DEF Init
  <2>5. /\ relay \in [Sessions -> {"new", "open", "ready", "gone"}] /\ typed \in [Sessions -> 0..MaxInput]
        /\ up \in [Sessions -> Seq(Messages)]
        /\ pc \in [Sessions -> Loop \cup {"off", "scan", "report", "leave", "end"}]
        /\ seen \in [Sessions -> Seq(Frames)] /\ down \in [Sessions -> Seq(Frames)]
    BY <1>1, ShellConstants DEF Init
  <2> QED BY <1>1, <2>1, <2>2, <2>3, <2>4, <2>5 DEF Init, TypeOK, StreamTypes
<1>7. NoneOutlives
  BY <1>5 DEF NoneOutlives
<1>8. ASSUME NEW s \in Sessions
      PROVE  Orders(s)
  <2>1. Unopened(s) /\ ProcsInOrder(s)
    BY <1>5 DEF Unopened, ProcsInOrder
  <2>2. SeenInOrder(s) /\ DownInOrder(s)
    BY <1>2, <1>5 DEF SeenInOrder, DownInOrder
  <2>3. OutInOrder(s)
    BY <1>5 DEF OutInOrder, Loop
  <2>4. InputInOrder(s)
    BY <1>2, <1>5 DEF InputInOrder, Runs, Loop
  <2> QED BY <2>1, <2>2, <2>3, <2>4 DEF Orders
<1> QED BY <1>6, <1>7, <1>8 DEF IInv

(* Every step keeps the invariant.                                        *)
LEMMA NextKeeps ==
  ASSUME IInv, [Next]_vars
  PROVE  IInv'
<1>1. CASE UNCHANGED vars
  <2>1. Typed' /\ NoneOutlives'
    BY <1>1 DEF vars, IInv, Typed, TypeOK, StreamTypes, NoneOutlives
  <2>2. \A s \in Sessions : Orders(s)'
    BY <1>1, OthersStay DEF vars, IInv, Stays
  <2> QED BY <2>1, <2>2 DEF IInv, Typed
<1>2. ASSUME NEW s \in Sessions,
             \/ Connect(s) \/ Type(s) \/ Hangup(s) \/ Receive(s) \/ GuestClosed(s)
             \/ TimesOut(s) \/ Idle(s) \/ Message(s) \/ Pty(s) \/ Exit(s) \/ Flush(s) \/ Reaped(s)
                  \/ Leave(s)
             \/ Look(s) \/ Report(s) \/ Waited(s) \/ Write(s) \/ ReadInput(s)
      PROVE  IInv'
  BY <1>2, ConnectKeeps, TypeKeeps, HangupKeeps, ReceiveKeeps, GuestClosedKeeps, TimesOutKeeps,
     IdleKeeps, MessageKeeps, PtyKeeps, ExitKeeps, FlushKeeps, ReapedKeeps, LeaveKeeps, LookKeeps,
     ReportKeeps, WaitedKeeps, WriteKeeps, ReadInputKeeps
<1>3. ASSUME NEW s \in Sessions, NEW p \in Procs, Fork(s, p) \/ Dies(s, p)
      PROVE  IInv'
  BY <1>3, ForkKeeps, DiesKeeps
<1>4. ASSUME NEW o \in Others, Joins(o) \/ Quits(o)
      PROVE  IInv'
  BY <1>4, JoinsKeeps
<1> QED BY <1>1, <1>2, <1>3, <1>4 DEF Next

(* The order of all that the browser, the relay, the thread and the shell *)
(* hold is an invariant, for any numbers of sessions, frames, input,      *)
(* output and jobs, and whatever is dropped, delayed or killed.           *)
THEOREM ShellInvariant == Spec => []IInv
<1>1. Init => IInv
  BY InitKeeps
<1>2. IInv /\ [Next]_vars => IInv'
  BY NextKeeps
<1> QED BY <1>1, <1>2, PTL DEF Spec

(* The variables have their types; the queue of the thread is never       *)
(* longer than MAX_OBVIOUS and one, and the threads that run are those    *)
(* counted against MAX_SESSIONS.                                          *)
THEOREM ShellTypeCorrect == Spec => []TypeOK
<1>1. IInv => TypeOK
  BY DEF IInv
<1> QED BY <1>1, ShellInvariant, PTL

(* What is in order is faithful: the i-th thing seen is the i-th that the *)
(* guest sends.                                                           *)
LEMMA OrderIsFaithful ==
  ASSUME IInv
  PROVE  Faithful
<1>1. ASSUME NEW s \in Sessions
      PROVE  /\ \A i \in 1..Len(seen[s]) :
                  /\ seen[s][i].type = "ready" => i = 1
                  /\ seen[s][i].type = "output" => seen[s][1].type = "ready" /\ seen[s][i].n = i - 1
                  /\ seen[s][i].type \in {"exit", "error"} => i = Len(seen[s])
                  /\ seen[s][i].type = "exit" /\ ~g[s].late => i = sh[s].wrote + 2
             /\ \A i \in 1..Len(sh[s].got) : sh[s].got[i] = i
  <2>1. Typed /\ SeenInOrder(s) /\ ProcsInOrder(s) /\ InputInOrder(s)
    BY DEF IInv, Typed, Orders
  <2>2. PICK n, r \in Nat : Len(seen[s]) = n /\ sh[s].read = r
    BY <2>1, StreamFields, ShellFields, ShellConstants
  <2>3. \A i \in 1..Len(sh[s].got) : sh[s].got[i] = i
    <3>1. Runs(sh[s].got, 0)
      BY <2>1 DEF InputInOrder
    <3> QED BY <3>1 DEF Runs
  <2>4. ASSUME NEW i \in 1..n
        PROVE  /\ seen[s][i].type = "ready" => i = 1
               /\ seen[s][i].type = "output" => seen[s][1].type = "ready" /\ seen[s][i].n = i - 1
               /\ seen[s][i].type \in {"exit", "error"} => i = n
               /\ seen[s][i].type = "exit" /\ ~g[s].late => i = sh[s].wrote + 2
    <3>1. CASE i = n /\ seen[s][i] = Plain("error")
      <4>1. seen[s][i].type = "error"
        BY <3>1, FrameFields DEF Plain
      <4> QED BY <3>1, <4>1
    <3>2. CASE seen[s][i] = Item(s, i) /\ i <= Sent(s) /\ (i # n => i <= r + 1)
      <4>1. CASE i = 1
        <5>1. seen[s][i].type = "ready"
          BY <3>2, <4>1, FrameFields DEF Item, Plain
        <5> QED BY <4>1, <5>1
      <4>2. CASE i # 1 /\ i <= r + 1
        <5>1. seen[s][i].type = "output" /\ seen[s][i].n = i - 1
          BY <2>2, <3>2, <4>2, FrameFields DEF Item
        <5>2. 1 \in 1..n /\ 1 # n
          BY <4>2
        <5>3. seen[s][1] = Item(s, 1)
          BY <2>1, <2>2, <5>2 DEF SeenInOrder
        <5>4. seen[s][1].type = "ready"
          BY <5>3, FrameFields DEF Item, Plain
        <5> QED BY <5>1, <5>4
      <4>3. CASE i # 1 /\ ~(i <= r + 1)
        <5>1. seen[s][i].type = "exit"
          BY <2>2, <3>2, <4>3, FrameFields DEF Item, Plain
        <5>2. g[s].finishing /\ sh[s].started /\ Sent(s) = r + 2
          BY <2>1, <2>2, <3>2, <4>3 DEF Sent
        <5>3. i = r + 2
          BY <3>2, <4>3, <5>2
        <5>4. i = n
          BY <3>2, <4>3
        <5>5. ~g[s].late => sh[s].wrote = r
          BY <2>1, <2>2, <5>2 DEF ProcsInOrder
        <5> QED BY <5>1, <5>3, <5>4, <5>5
      <4> QED BY <4>1, <4>2, <4>3
    <3> QED BY <2>1, <2>2, <3>1, <3>2 DEF SeenInOrder
  <2> QED BY <2>2, <2>3, <2>4
<1> QED BY <1>1 DEF Faithful, InOrder, ExitIsLast

(* A browser sees readiness, the shell's output as it was written, and at *)
(* most one exit or error, which is last; the shell gets what was typed   *)
(* in order; the exit code comes after all output unless it was late.     *)
THEOREM FaithfulAlways == Spec => []Faithful
<1>1. IInv => Faithful
  BY OrderIsFaithful
<1> QED BY <1>1, ShellInvariant, PTL

(* When the thread of a session leaves, the only processes left of it are *)
(* ones that its scan of /proc could not see, and none of the leader's    *)
(* own group, whatever was forked meanwhile ahead of the scan.            *)
THEOREM NoneOutlivesAlways == Spec => []NoneOutlives
<1>1. IInv => NoneOutlives
  BY DEF IInv
<1> QED BY <1>1, ShellInvariant, PTL
=============================================================================
