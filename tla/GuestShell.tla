------------------------------ MODULE GuestShell ------------------------------
(***************************************************************************)
(* The Web Shell behind its WebSocket: the relay of the server, the guest  *)
(* agent's session thread on the other end of the vsock stream, and the    *)
(* shell and its jobs on a pseudoterminal.  Who may open one and how long  *)
(* is in Accounts.  The thread is a poll loop; pc says which part is next. *)
(***************************************************************************)
EXTENDS Naturals, FiniteSets, Sequences

CONSTANTS
  Sessions,     \* bound: connections of the browser, each made once
  Others,       \* bound: further sessions, of which only the place they take matters
  MaxSessions,  \* MAX_SESSIONS
  MaxPending,   \* MAX_PENDING, in frames
  MaxWire,      \* bound: frames that the stream holds on the way to the relay
  MaxInput,     \* bound: what is typed in a session
  MaxOutput,    \* bound: what the shell writes in a session
  MaxPid,       \* bound: the numbers of a session's processes, each used once
  Leader        \* the shell's own

ASSUME ShellConstants ==
  /\ {MaxSessions, MaxPending, MaxWire} \subseteq Nat \ {0}
  /\ {MaxInput, MaxOutput} \subseteq Nat
  /\ MaxPid \in Nat /\ Leader \in 1..MaxPid
  /\ Sessions \cap Others = {}

VARIABLES
  relay,    \* the relay of a session: "new", "open", "ready" or "gone"
  typed,    \* how much was typed
  seen,     \* what the browser was sent
  up, down, \* the stream's two directions
  pc,       \* the guest thread of a session: "off", then the parts of its loop, then its end
  g,        \* its local variables
  sh,       \* the shell's session: who lives, who is in the leader's group, how
            \* far the scan of /proc is, whom it missed; what was written and read
  active    \* the counter of sessions, as the set of those it counts

vars == <<relay, typed, seen, up, down, pc, g, sh, active>>

Frame(t, n) == [type |-> t, n |-> n]
Plain(t)    == Frame(t, 0)
Procs       == 1..MaxPid
Loop        == {"poll", "pty", "exit", "flush"}
Outputs     == {Frame("output", n) : n \in 1..MaxOutput}
Sends       == Outputs \cup {Plain("ready"), Plain("exit")}
Frames      == Sends \cup {Plain("error"), Plain("torn")}
Messages    == {Plain("open"), Plain("close")} \cup {Frame("input", n) : n \in 1..MaxInput}
Local       == [out : Seq(Sends), input : Seq(1..MaxInput), half : BOOLEAN,
                exit : BOOLEAN, late : BOOLEAN, finishing : BOOLEAN, closed : BOOLEAN,
                failed : BOOLEAN]
Shell       == [started : BOOLEAN, alive : SUBSET Procs, born : SUBSET Procs,
                group : SUBSET Procs, missed : SUBSET Procs, at : 0..(MaxPid + 1),
                wrote : 0..MaxOutput, read : 0..MaxOutput, got : Seq(1..MaxInput)]

TypeOK ==
  /\ relay \in [Sessions -> {"new", "open", "ready", "gone"}]
  /\ typed \in [Sessions -> 0..MaxInput]
  /\ up \in [Sessions -> Seq(Messages)]
  /\ pc \in [Sessions -> Loop \cup {"off", "scan", "report", "leave", "end"}]
  /\ g \in [Sessions -> Local]
  /\ sh \in [Sessions -> Shell]
  /\ \A s \in Sessions : Len(down[s]) <= MaxWire /\ Len(g[s].out) <= MaxPending + 1
  /\ active \ Others = {s \in Sessions : pc[s] \notin {"off", "end"}}
  /\ Cardinality(active) <= MaxSessions

Init ==
  /\ relay = [s \in Sessions |-> "new"]
  /\ typed = [s \in Sessions |-> 0]
  /\ seen = [s \in Sessions |-> <<>>]
  /\ up = [s \in Sessions |-> <<>>]
  /\ down = [s \in Sessions |-> <<>>]
  /\ pc = [s \in Sessions |-> "off"]
  /\ g = [s \in Sessions |-> [out |-> <<>>, input |-> <<>>, half |-> FALSE, exit |-> FALSE, late |-> FALSE, finishing |-> FALSE, closed |-> FALSE,
                         failed |-> FALSE]]
  /\ sh = [s \in Sessions |-> [started |-> FALSE, alive |-> {}, born |-> {Leader}, group |-> {Leader},
                          missed |-> {}, at |-> 0, wrote |-> 0, read |-> 0, got |-> <<>>]]
  /\ active = {}

-----------------------------------------------------------------------------
(* The relay in the server *)

(* connect_web_shell, then Open; the agent hangs up when it serves enough. *)
Connect(s) ==
  /\ relay[s] = "new"
  /\ IF Cardinality(active) < MaxSessions
     THEN /\ relay' = [relay EXCEPT ![s] = "open"]
          /\ up' = [up EXCEPT ![s] = <<Plain("open")>>]
          /\ pc' = [pc EXCEPT ![s] = "poll"]
          /\ active' = active \cup {s}
     ELSE relay' = [relay EXCEPT ![s] = "gone"] /\ UNCHANGED <<up, pc, active>>
  /\ UNCHANGED <<typed, seen, down, g, sh>>

Joins(o) ==
  /\ o \notin active
  /\ Cardinality(active) < MaxSessions
  /\ active' = active \cup {o}
  /\ UNCHANGED <<relay, typed, seen, up, down, pc, g, sh>>

Quits(o) ==
  /\ o \in active
  /\ active' = active \ {o}
  /\ UNCHANGED <<relay, typed, seen, up, down, pc, g, sh>>

Open(s) == relay[s] \in {"open", "ready"}

Type(s) ==
  /\ Open(s)
  /\ typed[s] < MaxInput
  /\ typed' = [typed EXCEPT ![s] = @ + 1]
  /\ up' = [up EXCEPT ![s] = Append(@, Frame("input", typed'[s]))]
  /\ UNCHANGED <<relay, seen, down, pc, g, sh, active>>

(* The browser leaves, or the heartbeat ends the relay; Close is sent if it can be. *)
Hangup(s) ==
  /\ Open(s)
  /\ relay' = [relay EXCEPT ![s] = "gone"]
  /\ up' \in {up, [up EXCEPT ![s] = Append(@, Plain("close"))]}
  /\ UNCHANGED <<typed, seen, down, pc, g, sh, active>>

(* A frame from the guest; what is torn, early or repeated ends the relay. *)
Receive(s) ==
  /\ Open(s)
  /\ down[s] # <<>>
  /\ LET f == Head(down[s])
         bad == \/ f.type = "torn"
                \/ f.type = "ready" /\ relay[s] = "ready"
                \/ f.type \in {"output", "exit"} /\ relay[s] # "ready" IN
       /\ seen' = [seen EXCEPT ![s] = Append(@, IF bad THEN Plain("error") ELSE f)]
       /\ relay' = [relay EXCEPT ![s] = IF bad \/ f.type \in {"exit", "error"} THEN "gone"
                                        ELSE IF f.type = "ready" THEN "ready" ELSE @]
  /\ down' = [down EXCEPT ![s] = Tail(@)]
  /\ UNCHANGED <<typed, up, pc, g, sh, active>>

GuestClosed(s) ==
  /\ Open(s)
  /\ down[s] = <<>>
  /\ pc[s] \in {"leave", "end"}
  /\ relay' = [relay EXCEPT ![s] = "gone"]
  /\ UNCHANGED <<typed, seen, up, down, pc, g, sh, active>>

-----------------------------------------------------------------------------
(* The guest's session thread *)

Goes(s, where) == pc' = [pc EXCEPT ![s] = where]

(* Shell::drop comes with every end of run(): /proc is gone through from    *)
(* the first number on, or not at all if it cannot be read.                *)
Quit(s) ==
  IF sh[s].started
  THEN /\ Goes(s, "scan")
       /\ \/ sh' = [sh EXCEPT ![s].at = 1]
          \/ sh' = [sh EXCEPT ![s].at = MaxPid + 1, ![s].missed = sh[s].alive]
  ELSE Goes(s, "report") /\ UNCHANGED sh

Fail(s) == Quit(s) /\ g' = [g EXCEPT ![s].failed = TRUE]

Enqueue(out, f) == Append(out, f)
TooMany(s)      == Len(g[s].out) > MaxPending

TimesOut(s) ==
  /\ pc[s] = "poll"
  /\ ~sh[s].started \/ g[s].out # <<>>
  /\ Fail(s)
  /\ UNCHANGED <<relay, typed, seen, up, down, active>>

(* Mutant: the end of the stream goes unnoticed while the shell runs. *)
EndedIdle(s) == relay[s] = "gone" /\ Leader \notin sh[s].alive

Ended(s) == relay[s] = "gone"

Idle(s) ==
  /\ pc[s] = "poll"
  /\ up[s] = <<>>
  /\ IF Ended(s) THEN Quit(s) ELSE Goes(s, "pty") /\ UNCHANGED sh
  /\ UNCHANGED <<relay, typed, seen, up, down, g, active>>

Message(s) ==
  /\ pc[s] = "poll"
  /\ up[s] # <<>>
  /\ up' = [up EXCEPT ![s] = Tail(@)]
  /\ LET m == Head(up[s]) IN
       \/ /\ m.type = "open"
          /\ ~sh[s].started
          /\ \/ /\ sh' = [sh EXCEPT ![s].started = TRUE, ![s].alive = {Leader}]
                /\ g' = [g EXCEPT ![s].out = Enqueue(@, Plain("ready"))]
                /\ Goes(s, "pty")
                /\ UNCHANGED down
             \/ Fail(s) /\ UNCHANGED down   \* the command cannot be started
       \/ /\ m.type = "input"
          /\ sh[s].started
          /\ ~g[s].finishing
          /\ IF Len(g[s].input) = MaxPending THEN Fail(s)
             ELSE g' = [g EXCEPT ![s].input = Append(@, m.n)] /\ Goes(s, "pty") /\ UNCHANGED sh
          /\ UNCHANGED down
       \/ m.type = "close" /\ Quit(s) /\ UNCHANGED <<g, down>>
       \/ m.type = "input" /\ g[s].finishing /\ Fail(s) /\ UNCHANGED down
  /\ UNCHANGED <<relay, typed, seen, active>>

(* Mutant: output is not taken from the terminal when it is read. *)
TakeNothing(s) == sh[s].read

Take(s) == sh[s].read + 1

Readable(s) == sh[s].started /\ ~g[s].finishing /\ ~g[s].closed

Pty(s) ==
  /\ pc[s] = "pty"
  /\ \/ /\ Readable(s)
        /\ sh[s].read < sh[s].wrote
        /\ IF TooMany(s) THEN Fail(s)
           ELSE /\ g' = [g EXCEPT ![s].out = Enqueue(@, Frame("output", sh[s].read + 1))]
                /\ sh' = [sh EXCEPT ![s].read = Take(s)]
                /\ Goes(s, "exit")
     \/ /\ Readable(s)
        /\ sh[s].read = sh[s].wrote
        /\ sh[s].alive = {}
        /\ g' = [g EXCEPT ![s].closed = TRUE]
        /\ Goes(s, "exit")
        /\ UNCHANGED sh
     \/ Goes(s, "exit") /\ UNCHANGED <<g, sh>>   \* poll saw nothing to read
  /\ UNCHANGED <<relay, typed, seen, up, down, active>>

(* Mutant: the exit code is sent as soon as it is known. *)
MayFinishAny(s) == TRUE

(* The terminal is drained, or 200 ms have passed since the exit was seen. *)
MayFinish(s) == g[s].closed \/ g[s].late

Waited(s) ==
  /\ g[s].exit
  /\ ~g[s].late
  /\ ~g[s].finishing
  /\ g' = [g EXCEPT ![s].late = TRUE]
  /\ UNCHANGED <<relay, typed, seen, up, down, pc, sh, active>>

Exit(s) ==
  /\ pc[s] = "exit"
  /\ LET exited == g[s].exit \/ (sh[s].started /\ Leader \notin sh[s].alive) IN
       \/ /\ exited
          /\ ~g[s].finishing
          /\ MayFinish(s)
          /\ IF TooMany(s) THEN Fail(s)
             ELSE /\ g' = [g EXCEPT ![s].out = Enqueue(@, Plain("exit")), ![s].exit = TRUE, ![s].finishing = TRUE,
                                    ![s].input = <<>>]
                  /\ Goes(s, "flush")
                  /\ UNCHANGED sh
       \/ /\ g[s].finishing \/ ~exited \/ ~MayFinish(s)
          /\ g' = [g EXCEPT ![s].exit = exited]
          /\ Goes(s, "flush")
          /\ UNCHANGED sh
  /\ UNCHANGED <<relay, typed, seen, up, down, active>>

(* flush of the outgoing frames: one, the half of one, or nothing when the *)
(* stream is full; writing to a relay that is gone fails.                  *)
Flush(s) ==
  /\ pc[s] = "flush"
  /\ IF g[s].out = <<>> THEN UNCHANGED <<g, down>> /\ (IF g[s].finishing THEN Quit(s) ELSE Goes(s, "poll") /\ UNCHANGED sh)
     ELSE \/ relay[s] = "gone" /\ Quit(s) /\ UNCHANGED <<g, down>>
          \/ Len(down[s]) = MaxWire /\ Goes(s, "poll") /\ UNCHANGED <<g, sh, down>>
          \/ /\ Len(down[s]) < MaxWire
             /\ ~g[s].half
             /\ g' = [g EXCEPT ![s].half = TRUE]
             /\ Goes(s, "poll")
             /\ UNCHANGED <<sh, down>>
          \/ /\ Len(down[s]) < MaxWire
             /\ down' = [down EXCEPT ![s] = Append(@, Head(g[s].out))]
             /\ g' = [g EXCEPT ![s].out = Tail(@), ![s].half = FALSE]
             /\ IF g[s].finishing /\ Len(g[s].out) = 1 THEN Quit(s) ELSE Goes(s, "poll") /\ UNCHANGED sh
  /\ UNCHANGED <<relay, typed, seen, up, active>>

(* Mutant: the scan looks for the shell's process group, as the last kill does. *)
MemberOfGroup(s, p) == p \in sh[s].alive \cap sh[s].group

(* getsid: whatever group a job is in, it is in the session. *)
Member(s, p) == p \in sh[s].alive

(* kill_session_member, of one number after the other.  A process is       *)
(* missed if no pidfd can be had for it.                                   *)
Look(s) ==
  /\ pc[s] = "scan"
  /\ sh[s].at <= MaxPid
  /\ LET p == sh[s].at IN
       \/ sh' = [sh EXCEPT ![s].at = p + 1, ![s].alive = IF Member(s, p) THEN @ \ {p} ELSE @]
       \/ sh' = [sh EXCEPT ![s].at = p + 1, ![s].missed = @ \cup ({p} \cap sh[s].alive)]
  /\ UNCHANGED <<relay, typed, seen, up, down, pc, g, active>>

(* Then the leader's group is killed, and the leader reaped. *)
Reaped(s) ==
  /\ pc[s] = "scan"
  /\ sh[s].at > MaxPid
  /\ sh' = [sh EXCEPT ![s].alive = @ \ sh[s].group]
  /\ Goes(s, "report")
  /\ UNCHANGED <<relay, typed, seen, up, down, g, active>>

(* serve(): then only is an error sent, past what is queued, once, if the  *)
(* stream has room; behind half a frame it cannot be read.                 *)
Report(s) ==
  /\ pc[s] = "report"
  /\ Goes(s, "leave")
  /\ down' = IF g[s].failed /\ Len(down[s]) < MaxWire
             THEN [down EXCEPT ![s] = Append(@, Plain(IF g[s].half THEN "torn" ELSE "error"))] ELSE down
  /\ UNCHANGED <<relay, typed, seen, up, g, sh, active>>

(* Mutant: a session that ends after its shell keeps its place. *)
FreedUnlessExited(s) == IF g[s].exit THEN active ELSE active \ {s}

Freed(s) == active \ {s}

(* SessionCount::drop, after the stream is closed. *)
Leave(s) ==
  /\ pc[s] = "leave"
  /\ Goes(s, "end")
  /\ active' = Freed(s)
  /\ UNCHANGED <<relay, typed, seen, up, down, g, sh>>

-----------------------------------------------------------------------------
(* The shell and its jobs *)

Shells(s, next) == sh' = [sh EXCEPT ![s] = next] /\ UNCHANGED <<relay, typed, seen, up, down, pc, g, active>>

Write(s) ==
  /\ sh[s].alive # {}
  /\ pc[s] \in Loop
  /\ sh[s].wrote < MaxOutput
  /\ Shells(s, [sh[s] EXCEPT !.wrote = @ + 1])

(* A new process gets a number that is still to be looked at, or, after    *)
(* the numbers have wrapped, one that the scan has passed: it is missed.   *)
(* An interactive shell gives a job a process group of its own.            *)
Fork(s, p) ==
  /\ sh[s].alive # {}
  /\ p \in Procs \ sh[s].born
  /\ \E group \in {sh[s].group, sh[s].group \cup {p}} :
       /\ p \in group => sh[s].alive \cap sh[s].group # {}
       /\ Shells(s, [sh[s] EXCEPT !.alive = @ \cup {p}, !.born = @ \cup {p}, !.group = group,
                                  !.missed = IF p < sh[s].at THEN @ \cup {p} ELSE @])

Dies(s, p) ==
  /\ p \in sh[s].alive
  /\ pc[s] \in Loop
  /\ Shells(s, [sh[s] EXCEPT !.alive = @ \ {p}])

(* The agent writes what was typed to the terminal; someone reads it. *)
ReadInput(s) ==
  /\ pc[s] \in Loop
  /\ sh[s].alive # {}
  /\ g[s].input # <<>>
  /\ sh' = [sh EXCEPT ![s].got = Append(@, Head(g[s].input))]
  /\ g' = [g EXCEPT ![s].input = Tail(@)]
  /\ UNCHANGED <<relay, typed, seen, up, down, pc, active>>

Thread(s) == \/ TimesOut(s) \/ Idle(s) \/ Message(s) \/ Pty(s) \/ Exit(s) \/ Flush(s) \/ Reaped(s) \/ Leave(s)
             \/ Look(s) \/ Report(s)

Next ==
  \/ \E s \in Sessions :
       \/ Connect(s) \/ Type(s) \/ Hangup(s) \/ Receive(s) \/ GuestClosed(s)
       \/ TimesOut(s) \/ Idle(s) \/ Message(s) \/ Pty(s) \/ Exit(s) \/ Flush(s) \/ Reaped(s) \/ Leave(s)
       \/ Look(s) \/ Report(s) \/ Waited(s) \/ Write(s) \/ ReadInput(s)
       \/ \E p \in Procs : Fork(s, p) \/ Dies(s, p)
  \/ \E o \in Others : Joins(o) \/ Quits(o)

Spec == Init /\ [][Next]_vars

(* The guest's threads and the relay's task are scheduled. *)
FairSpec == Spec /\ \A s \in Sessions : WF_vars(Thread(s)) /\ WF_vars(Waited(s)) /\ WF_vars(Receive(s)) /\ WF_vars(GuestClosed(s))

-----------------------------------------------------------------------------
(* The browser sees readiness, then the output as it was written, then at  *)
(* most one exit or error; and the shell gets what was typed, in order.    *)
InOrder ==
  \A s \in Sessions :
    /\ \A i \in 1..Len(seen[s]) :
         /\ seen[s][i].type = "ready" => i = 1
         /\ seen[s][i].type = "output" => seen[s][1].type = "ready" /\ seen[s][i].n = i - 1
         /\ seen[s][i].type \in {"exit", "error"} => i = Len(seen[s])
    /\ \A i \in 1..Len(sh[s].got) : sh[s].got[i] = i

(* The exit code comes after all output, unless something else still held  *)
(* the terminal open 200 ms after the shell ended.                         *)
ExitIsLast ==
  \A s \in Sessions : \A i \in 1..Len(seen[s]) :
    seen[s][i].type = "exit" /\ ~g[s].late => i = sh[s].wrote + 2

(* Of a session that has ended, and before its error is sent, no process   *)
(* of the shell's own group is left, and of the others none but those that *)
(* the scan could not see: without /proc, without a pidfd, or forked to a  *)
(* number that it had passed.  Forks ahead of the scan change nothing.     *)
NoneOutlives ==
  \A s \in Sessions : pc[s] \in {"report", "leave", "end"} =>
    sh[s].alive \subseteq sh[s].missed \ sh[s].group

(* A session whose relay is gone, or whose shell has ended, gives back its *)
(* place among MAX_SESSIONS.                                               *)
PlacesReturn == \A s \in Sessions : (relay[s] = "gone" \/ g[s].exit) ~> s \notin active

(* What a browser sees of a shell is what happened, in its order.            *)
Faithful == InOrder /\ ExitIsLast

-----------------------------------------------------------------------------
(* The inductive invariant behind these.                                     *)

StreamTypes ==
  /\ seen \in [Sessions -> Seq(Frames)]
  /\ down \in [Sessions -> Seq(Frames)]
  /\ IsFiniteSet(active)

(* Nothing has happened in a session that was not opened.                    *)
Unopened(s) ==
  /\ relay[s] = "new" => pc[s] = "off"
  /\ pc[s] = "off" => /\ relay[s] \in {"new", "gone"}
                      /\ typed[s] = 0 /\ seen[s] = <<>> /\ up[s] = <<>> /\ down[s] = <<>>
                      /\ g[s].out = <<>> /\ g[s].input = <<>> /\ ~g[s].finishing
                      /\ ~sh[s].started /\ sh[s].read = 0 /\ sh[s].got = <<>>

(* The shell's processes.  The terminal is closed once they are all gone and *)
(* what they wrote is read; then, or 200 ms late, the session finishes.      *)
ProcsInOrder(s) ==
  /\ {Leader} \cup sh[s].alive \cup sh[s].group \cup sh[s].missed \subseteq sh[s].born
  /\ \A p \in sh[s].alive \ sh[s].missed : p >= sh[s].at
  /\ pc[s] = "scan" => sh[s].started
  /\ pc[s] \in {"report", "leave", "end"} /\ sh[s].started => sh[s].at > MaxPid
  /\ ~sh[s].started => /\ sh[s].alive = {} /\ sh[s].read = 0 /\ sh[s].at = 0
                       /\ ~g[s].exit /\ ~g[s].late /\ ~g[s].closed /\ ~g[s].finishing
  /\ sh[s].read <= sh[s].wrote
  /\ g[s].closed => sh[s].alive = {} /\ sh[s].read = sh[s].wrote
  /\ g[s].finishing => (g[s].closed \/ g[s].late) /\ g[s].input = <<>>

(* What the guest sends, and how much of it there is so far.                 *)
Item(s, i) == IF i = 1 THEN Plain("ready")
              ELSE IF i <= sh[s].read + 1 THEN Frame("output", i - 1) ELSE Plain("exit")
Sent(s)    == IF ~sh[s].started THEN 0 ELSE sh[s].read + IF g[s].finishing THEN 2 ELSE 1

(* The browser has seen the first of it, the stream has what follows, and    *)
(* the thread has the rest; an error ends the stream.                        *)
SeenInOrder(s) ==
  /\ relay[s] = "open" => seen[s] = <<>>
  /\ relay[s] = "ready" => seen[s] # <<>>
  /\ \A i \in 1..Len(seen[s]) :
       \/ seen[s][i] = Item(s, i) /\ i <= Sent(s) /\ (Open(s) \/ i # Len(seen[s]) => i <= sh[s].read + 1)
       \/ i = Len(seen[s]) /\ seen[s][i] = Plain("error") /\ relay[s] = "gone"

DownInOrder(s) ==
  \A i \in 1..Len(down[s]) :
    \/ down[s][i] = Item(s, Len(seen[s]) + i) /\ Len(seen[s]) + i <= Sent(s)
    \/ i = Len(down[s]) /\ down[s][i] \in {Plain("error"), Plain("torn")} /\ pc[s] \in {"leave", "end"}

OutInOrder(s) ==
  pc[s] \in Loop =>
    /\ Len(seen[s]) + Len(down[s]) + Len(g[s].out) = Sent(s)
    /\ \A i \in 1..Len(g[s].out) : g[s].out[i] = Item(s, Len(seen[s]) + Len(down[s]) + i)

(* What was typed is with the shell, with the agent, or on its way, behind   *)
(* the request to open: the input n is the message n + 1.                    *)
Runs(q, k)     == \A i \in 1..Len(q) : q[i] = k + i
Numbered(q, k) == \A i \in 1..Len(q) : q[i].type = "input" => q[i].n + 1 = k + i
Consumed(s)    == Len(sh[s].got) + Len(g[s].input) + IF sh[s].started THEN 1 ELSE 0

InputInOrder(s) ==
  /\ Runs(sh[s].got, 0)
  /\ pc[s] \in Loop /\ ~g[s].finishing =>
       /\ Runs(g[s].input, Len(sh[s].got))
       /\ Numbered(up[s], Consumed(s))
       /\ Open(s) => typed[s] + 1 = Consumed(s) + Len(up[s])

Orders(s) ==
  Unopened(s) /\ ProcsInOrder(s) /\ SeenInOrder(s) /\ DownInOrder(s) /\ OutInOrder(s) /\ InputInOrder(s)

IInv == TypeOK /\ StreamTypes /\ NoneOutlives /\ \A s \in Sessions : Orders(s)
=============================================================================
