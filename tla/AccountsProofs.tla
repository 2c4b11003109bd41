--------------------------- MODULE AccountsProofs ---------------------------
(***************************************************************************)
(* IInv of Accounts is inductive, for any numbers of users, credentials,   *)
(* requests, tickets and shells.  Each conjunct has a lemma of its own,    *)
(* which rests on the types and on who writes the variables it is about;   *)
(* the last administrator, revocation, single use and the two properties   *)
(* of steps follow.                                                        *)
(***************************************************************************)
EXTENDS Accounts, FiniteSetTheorems, TLAPS

(* The requests that a session makes and that are served later.             *)
SessionOps == {"token", "refresh", "create", "ticket"}

-----------------------------------------------------------------------------
(* What handlers keep, and what their common steps do *)

(* What a handler keeps, by its operation. *)
LEMMA HandlerFields ==
  ASSUME Types, NEW i \in Handlers
  PROVE  /\ h[i].op = "login" => h[i].user \in Users /\ h[i].row \in User /\ h[i].flow \in Flows \cup {None}
         /\ h[i].op \in SessionOps =>
              h[i].user \in Users /\ h[i].row \in User /\ h[i].cred \in Creds /\ h[i].token \in {0, 1}
         /\ h[i].op = "update" => h[i] \in [op : {"update"}, target : Users, ask : Ask,
                                           row : User \cup {None, Gone}, read : BOOLEAN]
         /\ h[i].op = "delete" => h[i].target \in Users
<1>1. h[i] \in Handler \cup {Unused, Done}
  BY DEF Types
<1>2. Unused.op = None /\ Done.op = Gone
  BY DEF Unused, Done
<1> QED BY <1>1, <1>2, NotAValue DEF Handler, SessionOps

(* A handler that ends is done, and the others stay. *)
LEMMA EndsTypes ==
  ASSUME Types, NEW i \in Handlers, Ends(i)
  PROVE  /\ h' \in [Handlers -> Handler \cup {Unused, Done}]
         /\ \A j \in Handlers : h'[j] = IF j = i THEN Done ELSE h[j]
  BY DEF Types, Ends, Handles

(* A row that is inserted. *)
LEMMA InsertTypes ==
  ASSUME Types, NEW i \in Handlers, NEW kind \in {"session", "api"},
         h[i].user \in Users, h[i].row \in User, Insert(i, kind)
  PROVE  cred' \in [Creds -> Cred \cup {None, Gone}]
<1>1. PICK c \in Creds :
        cred' = [cred EXCEPT ![c] = [user |-> h[i].user, kind |-> kind, token |-> 0, row |-> h[i].row,
                                     late |-> h[i].row # user[h[i].user]]]
  BY DEF Insert
<1>2. [user |-> h[i].user, kind |-> kind, token |-> 0, row |-> h[i].row,
       late |-> h[i].row # user[h[i].user]] \in Cred
  BY DEF Cred
<1> QED BY <1>1, <1>2 DEF Types

(* A login remembers the user that it found. *)
LEMMA LoginTypes ==
  ASSUME Types, NEW i \in Handlers, NEW u \in Users, NEW f \in Flows \cup {None},
         Enabled(u), LoginOf(i, u, f)
  PROVE  /\ h' \in [Handlers -> Handler \cup {Unused, Done}]
         /\ h'[i].op = "login" /\ h'[i].flow = f
         /\ \A j \in Handlers \ {i} : h'[j] = h[j]
<1>1. user[u] \in User
  BY DEF Types, Enabled, There
<1>2. [op |-> "login", user |-> u, row |-> user[u], flow |-> f] \in Handler
  BY <1>1 DEF Handler
<1> QED BY <1>2 DEF Types, LoginOf, Handles

-----------------------------------------------------------------------------
(* Types *)

(* Logins keep the types. *)
LEMMA LoginsTypes ==
  ASSUME Types, Logins
  PROVE  Types'
<1>1. ASSUME NEW i \in Handlers, LoginIssues(i)
      PROVE  Types'
  BY <1>1, HandlerFields, EndsTypes, InsertTypes DEF LoginIssues, Types, Rest
<1>2. ASSUME NEW i \in Handlers, NEW u \in Users, Login(i, u)
      PROVE  Types'
  BY <1>2, LoginTypes DEF Login, Types, Rest
<1>3. ASSUME NEW f \in Flows, FlowStarts(f)
      PROVE  Types'
  BY <1>3 DEF FlowStarts, Types
<1>4. ASSUME NEW f \in Flows, FlowAges(f)
      PROVE  Types'
  BY <1>4 DEF FlowAges, Types
<1>5. ASSUME NEW f \in Flows, NEW i \in Handlers, NEW u \in Users, FlowReturns(i, f, u)
      PROVE  Types'
  BY <1>5, LoginTypes DEF FlowReturns, TakeFlow, Types
<1> QED BY <1>1, <1>2, <1>3, <1>4, <1>5 DEF Logins

(* So does what is done with credentials. *)
LEMMA TokensTypes ==
  ASSUME Types, Tokens
  PROVE  Types'
<1>1. ASSUME NEW i \in Handlers, NEW c \in Creds, NEW op \in SessionOps, Begins(i, op, c)
      PROVE  Types'
  <2>1. cred[c] \in Cred /\ user[cred[c].user] \in User
    BY <1>1 DEF Begins, IsSession, Enabled, There, Types, Cred
  <2>2. [op |-> op, user |-> cred[c].user, row |-> user[cred[c].user], cred |-> c, token |-> cred[c].token] \in Handler
    BY <2>1 DEF Cred, Handler, SessionOps
  <2> QED BY <1>1, <2>2 DEF Begins, Handles, Types, Rest
<1>2. ASSUME NEW i \in Handlers, TokenCreated(i)
      PROVE  Types'
  BY <1>2, HandlerFields, EndsTypes, InsertTypes DEF TokenCreated, Types, Rest, SessionOps
<1>3. ASSUME NEW i \in Handlers, Refreshed(i)
      PROVE  Types'
  <2>1. \A c \in Creds : There(cred[c]) => [cred[c] EXCEPT !.token = 1] \in Cred
    BY DEF Types, There, Cred
  <2> QED BY <1>3, <2>1, EndsTypes DEF Refreshed, Types, Rest
<1>4. ASSUME NEW c \in Creds, Forgotten(c)
      PROVE  Types'
  BY <1>4 DEF Forgotten, Types, Rest
<1> QED BY <1>1, <1>2, <1>3, <1>4 DEF Tokens, SessionOps

(* What update_user writes is a user. *)
LEMMA ChangedTypes ==
  ASSUME Types, NEW u \in Users, NEW row \in User, NEW ask \in Ask, There(user[u]),
         ask.password => user[u].password < MaxPassword
  PROVE  Changed(u, row, ask) \in User
<1>1. user[u] \in User
  BY DEF Types, There
<1> QED BY <1>1, AccountConstants DEF Changed, User, Ask

(* So does the administration of users. *)
LEMMA AdministrationTypes ==
  ASSUME Types, Administration
  PROVE  Types'
<1>1. ASSUME NEW i \in Handlers, NEW c \in Creds, NEW u \in Users, AskDelete(i, c, u)
      PROVE  Types'
  BY <1>1 DEF AskDelete, Handles, Handler, Types, Rest
<1>2. ASSUME NEW i \in Handlers, NEW c \in Creds, NEW u \in Users, NEW ask \in Ask, AskUpdate(i, c, u, ask)
      PROVE  Types'
  BY <1>2 DEF AskUpdate, Handles, Handler, Types, Rest
<1>3. ASSUME NEW i \in Handlers, NEW u \in Users, NEW admin \in BOOLEAN, CreateUser(i, u, admin)
      PROVE  Types'
  BY <1>3, EndsTypes, AccountConstants DEF CreateUser, User, Types, Rest
<1>4. ASSUME NEW i \in Handlers, ReadRow(i)
      PROVE  Types'
  <2>1. [h[i] EXCEPT !.row = user[h[i].target], !.read = TRUE] \in Handler
    <3>1. h[i] \in [op : {"update"}, target : Users, ask : Ask, row : User \cup {None, Gone}, read : BOOLEAN]
      BY <1>4, HandlerFields DEF ReadRow
    <3>2. user[h[i].target] \in User \cup {None, Gone}
      BY <3>1 DEF Types
    <3>3. [h[i] EXCEPT !.row = user[h[i].target], !.read = TRUE]
            \in [op : {"update"}, target : Users, ask : Ask, row : User \cup {None, Gone}, read : BOOLEAN]
      BY <3>1, <3>2
    <3> QED BY <3>3 DEF Handler
  <2> QED BY <1>4, <2>1 DEF ReadRow, TakeLock, Handles, Types, Rest
<1>5. ASSUME NEW i \in Handlers, UpdateUser(i)
      PROVE  Types'
  <2>1. h[i].target \in Users /\ h[i].ask \in Ask /\ (There(h[i].row) => h[i].row \in User)
    BY <1>5, HandlerFields DEF UpdateUser, There
  <2>2. Revoked(h[i].target) \in [Creds -> Cred \cup {None, Gone}]
    BY DEF Revoked, Types
  <2>3. user' \in [Users -> User \cup {None, Gone}] /\ cred' \in [Creds -> Cred \cup {None, Gone}]
    BY <1>5, <2>1, <2>2, ChangedTypes DEF UpdateUser, Types
  <2> QED BY <1>5, <2>3, EndsTypes DEF UpdateUser, Release, Types, Rest
<1>6. ASSUME NEW i \in Handlers, DeleteUser(i)
      PROVE  Types'
  <2>1. Revoked(h[i].target) \in [Creds -> Cred \cup {None, Gone}]
    BY DEF Revoked, Types
  <2> QED BY <1>6, <2>1, EndsTypes DEF DeleteUser, Types, Rest
<1>7. ASSUME NEW i \in Handlers, Disconnects(i)
      PROVE  Types'
  BY <1>7, EndsTypes DEF Disconnects, Release, Types, Rest
<1> QED BY <1>1, <1>2, <1>3, <1>4, <1>5, <1>6, <1>7 DEF Administration

(* And so do web shells. *)
LEMMA WebShellsTypes ==
  ASSUME Types, WebShells
  PROVE  Types'
<1>1. ASSUME NEW i \in Handlers, NEW t \in Tickets, TicketIssued(i, t)
      PROVE  Types'
  BY <1>1, HandlerFields, EndsTypes DEF TicketIssued, SessionOps, Ticket, Types
<1>2. ASSUME NEW t \in Tickets, TicketAges(t)
      PROVE  Types'
  BY <1>2 DEF TicketAges, There, Ticket, Types
<1>3. ASSUME NEW t \in Tickets, NEW c \in Creds, NEW s \in Shells, ShellConnects(t, c, s)
      PROVE  Types'
  <2>1. ticket[t] \in Ticket /\ cred[c] \in Cred
    BY <1>3 DEF ShellConnects, IsAdminSession, IsSession, There, Types
  <2>2. [user |-> ticket[t].user, cred |-> c, token |-> cred[c].token, ticket |-> t] \in Shell
    BY <2>1 DEF Ticket, Cred, Shell
  <2> QED BY <1>3, <2>2 DEF ShellConnects, TakeTicket, Types
<1>4. ASSUME NEW s \in Shells, ShellEnds(s)
      PROVE  Types'
  BY <1>4 DEF ShellEnds, Types
<1>5. CASE VmChanges
  BY <1>5 DEF VmChanges, Types
<1> QED BY <1>1, <1>2, <1>3, <1>4, <1>5 DEF WebShells, Heartbeat
-----------------------------------------------------------------------------
(* Who writes what *)

(* The users table is written by three transactions. *)
LEMMA UserWrites ==
  ASSUME [Next]_vars
  PROVE  \/ UNCHANGED user
         \/ \E i \in Handlers : \/ UpdateUser(i) \/ DeleteUser(i)
                                \/ \E u \in Users, admin \in BOOLEAN : CreateUser(i, u, admin)
<1>1. CASE UNCHANGED vars
  BY <1>1 DEF vars
<1>2. CASE Logins
  BY <1>2 DEF Logins, LoginIssues, Login, FlowStarts, FlowAges, FlowReturns
<1>3. CASE Tokens
  BY <1>3 DEF Tokens, Begins, TokenCreated, Refreshed, Forgotten
<1>4. CASE Administration
  BY <1>4 DEF Administration, AskDelete, AskUpdate, ReadRow, Disconnects
<1>5. CASE WebShells
  BY <1>5 DEF WebShells, TicketIssued, TicketAges, ShellConnects, Heartbeat, ShellEnds, VmChanges
<1> QED BY <1>1, <1>2, <1>3, <1>4, <1>5 DEF Next

(* Relays are opened and ended. *)
LEMMA ShellWrites ==
  ASSUME [Next]_vars
  PROVE  \/ UNCHANGED shell
         \/ \E s \in Shells : ShellEnds(s) \/ \E t \in Tickets, c \in Creds : ShellConnects(t, c, s)
<1>1. CASE UNCHANGED vars
  BY <1>1 DEF vars
<1>2. CASE Logins
  BY <1>2 DEF Logins, LoginIssues, Login, FlowStarts, FlowAges, FlowReturns, Rest
<1>3. CASE Tokens
  BY <1>3 DEF Tokens, Begins, TokenCreated, Refreshed, Forgotten, Rest
<1>4. CASE Administration
  BY <1>4 DEF Administration, AskDelete, AskUpdate, CreateUser, ReadRow, UpdateUser, DeleteUser, Disconnects, Rest
<1>5. CASE WebShells
  BY <1>5 DEF WebShells, TicketIssued, TicketAges, Heartbeat, VmChanges
<1> QED BY <1>1, <1>2, <1>3, <1>4, <1>5 DEF Next

(* Pending logins are started, aged and taken. *)
LEMMA FlowWrites ==
  ASSUME [Next]_vars
  PROVE  \/ UNCHANGED flow
         \/ \E f \in Flows : \/ FlowStarts(f) \/ FlowAges(f)
                             \/ \E i \in Handlers, u \in Users : FlowReturns(i, f, u)
<1>1. CASE UNCHANGED vars
  BY <1>1 DEF vars
<1>2. CASE Logins
  BY <1>2 DEF Logins, LoginIssues, Login, Rest
<1>3. CASE Tokens
  BY <1>3 DEF Tokens, Begins, TokenCreated, Refreshed, Forgotten, Rest
<1>4. CASE Administration
  BY <1>4 DEF Administration, AskDelete, AskUpdate, CreateUser, ReadRow, UpdateUser, DeleteUser, Disconnects, Rest
<1>5. CASE WebShells
  BY <1>5 DEF WebShells, TicketIssued, TicketAges, ShellConnects, Heartbeat, ShellEnds, VmChanges
<1> QED BY <1>1, <1>2, <1>3, <1>4, <1>5 DEF Next

(* A ticket that was used stays used, and is used by the connection only. *)
LEMMA TicketWrites ==
  ASSUME [Next]_vars, Types, NEW t \in Tickets, ticket[t] = Gone
  PROVE  ticket'[t] = Gone
<1>1. CASE UNCHANGED vars
  BY <1>1 DEF vars
<1>2. CASE Logins
  BY <1>2 DEF Logins, LoginIssues, Login, FlowStarts, FlowAges, FlowReturns, Rest
<1>3. CASE Tokens
  BY <1>3 DEF Tokens, Begins, TokenCreated, Refreshed, Forgotten, Rest
<1>4. CASE Administration
  BY <1>4 DEF Administration, AskDelete, AskUpdate, CreateUser, ReadRow, UpdateUser, DeleteUser, Disconnects, Rest
<1>5. CASE WebShells
  BY <1>5, NotAValue DEF WebShells, TicketIssued, TicketAges, ShellConnects, TakeTicket, Heartbeat, ShellEnds,
                         VmChanges, There, Types
<1> QED BY <1>1, <1>2, <1>3, <1>4, <1>5 DEF Next

(* The types are kept. *)
LEMMA TypesKept ==
  ASSUME Types, [Next]_vars
  PROVE  Types'
<1>1. CASE UNCHANGED vars
  BY <1>1 DEF vars, Types
<1> QED BY <1>1, LoginsTypes, TokensTypes, AdministrationTypes, WebShellsTypes DEF Next

-----------------------------------------------------------------------------
(* Limits *)

(* The size of a finite set with an element more ... *)
LEMMA OneMore ==
  ASSUME NEW S, NEW x, IsFiniteSet(S)
  PROVE  /\ IsFiniteSet(S \cup {x})
         /\ Cardinality(S) \in Nat /\ Cardinality(S \cup {x}) \in Nat
         /\ Cardinality(S \cup {x}) <= Cardinality(S) + 1
<1>1. IsFiniteSet(S \cup {x}) /\ Cardinality(S \cup {x}) = IF x \in S THEN Cardinality(S) ELSE Cardinality(S) + 1
  BY FS_AddElement
<1>2. Cardinality(S) \in Nat /\ Cardinality(S \cup {x}) \in Nat
  BY <1>1, FS_CardinalityType
<1> QED BY <1>1, <1>2

(* ... and without one of its elements. *)
LEMMA OneLess ==
  ASSUME NEW S, NEW x \in S, IsFiniteSet(S)
  PROVE  Cardinality(S \ {x}) = Cardinality(S) - 1
  BY FS_RemoveElement, Zenon

(* There are never more relays than permits, nor more pending logins than   *)
(* the table holds.                                                         *)
LEMMA LimitsKept ==
  ASSUME Types, WithinLimits, [Next]_vars
  PROVE  WithinLimits'
<1> USE AccountConstants
<1>1. IsFiniteSet(Relays) /\ IsFiniteSet(Fresh)
  BY FS_Subset DEF Relays, Fresh
<1>2. Cardinality(Relays) \in Nat /\ Cardinality(Fresh) \in Nat
  BY <1>1, FS_CardinalityType
<1>3. Cardinality(Relays') <= Sessions
  <2>1. CASE UNCHANGED shell
    BY <2>1 DEF WithinLimits, Relays
  <2>2. ASSUME NEW s \in Shells, ShellEnds(s)
        PROVE  Cardinality(Relays') <= Sessions
    <3>1. Relays' \subseteq Relays
      BY <2>2 DEF ShellEnds, Relays, Types
    <3> QED BY <3>1, <1>1, <1>2, FS_Subset, FS_CardinalityType DEF WithinLimits
  <2>3. ASSUME NEW s \in Shells, NEW t \in Tickets, NEW c \in Creds, ShellConnects(t, c, s)
        PROVE  Cardinality(Relays') <= Sessions
    <3>1. CASE UNCHANGED shell
      BY <3>1 DEF WithinLimits, Relays
    <3>2. CASE Cardinality(Relays) < Sessions /\ Relays' \subseteq Relays \cup {s}
      <4>1. /\ IsFiniteSet(Relays \cup {s}) /\ Cardinality(Relays \cup {s}) <= Cardinality(Relays) + 1
            /\ Cardinality(Relays \cup {s}) \in Nat
        BY <1>1, OneMore
      <4>2. Cardinality(Relays') <= Cardinality(Relays \cup {s}) /\ Cardinality(Relays') \in Nat
        BY <3>2, <4>1, FS_Subset, FS_CardinalityType
      <4> QED BY <3>2, <4>1, <4>2, <1>2
    <3> QED BY <2>3, <3>1, <3>2 DEF ShellConnects, Relays, Types
  <2> QED BY <2>1, <2>2, <2>3, ShellWrites
<1>4. Cardinality(Fresh') <= MaxFlows
  <2>1. ASSUME Fresh' \subseteq Fresh
        PROVE  Cardinality(Fresh') <= MaxFlows
    BY <2>1, <1>1, <1>2, FS_Subset, FS_CardinalityType DEF WithinLimits
  <2>2. ASSUME NEW f \in Flows, FlowStarts(f)
        PROVE  Cardinality(Fresh') <= MaxFlows
    <3>1. PICK out \in {{}} \cup {{g} : g \in Fresh} :
            /\ (out # {}) <=> Cardinality(Fresh) >= MaxFlows
            /\ flow' = [g \in Flows |-> IF g = f THEN "fresh"
                                        ELSE IF flow[g] = "stale" \/ g \in out THEN Gone ELSE flow[g]]
      BY <2>2 DEF FlowStarts
    <3>2. Fresh' \subseteq (Fresh \ out) \cup {f}
      BY <3>1, NotAValue DEF Fresh
    <3>3. IsFiniteSet(Fresh \ out) /\ Cardinality(Fresh \ out) \in Nat
      BY <1>1, FS_Subset, FS_CardinalityType
    <3>4. Cardinality(Fresh \ out) < MaxFlows
      <4>1. CASE out = {}
        BY <4>1, <3>1, <1>2 
      <4>2. ASSUME NEW g \in Fresh, out = {g}
            PROVE  Cardinality(Fresh \ out) < MaxFlows
        BY <4>2, <1>1, <1>2, OneLess DEF WithinLimits
      <4> QED BY <3>1, <4>1, <4>2
    <3>5. Cardinality((Fresh \ out) \cup {f}) <= Cardinality(Fresh \ out) + 1
      BY <3>3, OneMore
    <3>6. IsFiniteSet((Fresh \ out) \cup {f}) /\ Cardinality((Fresh \ out) \cup {f}) \in Nat
      BY <3>3, FS_AddElement, FS_CardinalityType
    <3>7. Cardinality(Fresh') <= Cardinality((Fresh \ out) \cup {f}) /\ Cardinality(Fresh') \in Nat
      BY <3>2, <3>6, FS_Subset, FS_CardinalityType
    <3> QED BY <3>3, <3>4, <3>5, <3>6, <3>7
  <2>3. CASE UNCHANGED flow
    BY <2>1, <2>3 DEF Fresh
  <2>4. ASSUME NEW f \in Flows, FlowAges(f) \/ \E i \in Handlers, u \in Users : FlowReturns(i, f, u)
        PROVE  Fresh' \subseteq Fresh
    BY <2>4, NotAValue DEF FlowAges, FlowReturns, TakeFlow, Fresh, Types
  <2> QED BY <2>1, <2>2, <2>3, <2>4, FlowWrites
<1> QED BY <1>3, <1>4 DEF WithinLimits

-----------------------------------------------------------------------------
(* The mutex and the row read under it *)

(* One lock for every handler that has read a row, and the row is still     *)
(* that of the user: whoever else changes users waits for the mutex.        *)
LEMMA LockKept ==
  ASSUME Types, LockHeld, RowCurrent, [Next]_vars
  PROVE  LockHeld' /\ RowCurrent'
<1> USE NotAValue DEF LockHeld, RowCurrent
<1> DEFINE Reads(i) == h[i].op = "update" /\ h[i].read
<1>1. Unused.op = None /\ Done.op = Gone
  BY DEF Unused, Done
<1>2. CASE UNCHANGED <<user, lock, h>>
  BY <1>2
(* A handler that does not hold the mutex begins or ends. *)
<1>3. ASSUME NEW i \in Handlers, UNCHANGED <<user, lock>>, \A j \in Handlers \ {i} : h'[j] = h[j],
             ~Reads(i), h'[i].op = "update" => ~h'[i].read
      PROVE  LockHeld' /\ RowCurrent'
  BY <1>3
<1>4. CASE Logins
  <2>1. ASSUME NEW i \in Handlers, LoginIssues(i)
        PROVE  LockHeld' /\ RowCurrent'
    BY <2>1, <1>1, <1>3, EndsTypes DEF LoginIssues
  <2>2. ASSUME NEW i \in Handlers, NEW u \in Users, NEW f \in Flows \cup {None},
               h[i] = Unused, Enabled(u), LoginOf(i, u, f), UNCHANGED <<user, lock>>
        PROVE  LockHeld' /\ RowCurrent'
    BY <2>2, <1>1, <1>3, LoginTypes
  <2>3. ASSUME NEW f \in Flows, FlowStarts(f) \/ FlowAges(f)
        PROVE  UNCHANGED <<user, lock, h>>
    BY <2>3 DEF FlowStarts, FlowAges
  <2> QED BY <1>2, <1>4, <2>1, <2>2, <2>3 DEF Logins, Login, FlowReturns
<1>5. CASE Tokens
  <2>1. ASSUME NEW i \in Handlers, NEW c \in Creds, NEW op \in SessionOps, Begins(i, op, c)
        PROVE  LockHeld' /\ RowCurrent'
    BY <2>1, <1>1, <1>3 DEF Begins, Handles, SessionOps, Types
  <2>2. ASSUME NEW i \in Handlers, TokenCreated(i) \/ Refreshed(i)
        PROVE  LockHeld' /\ RowCurrent'
    BY <2>2, <1>1, <1>3, EndsTypes DEF TokenCreated, Refreshed
  <2>3. ASSUME NEW c \in Creds, Forgotten(c)
        PROVE  UNCHANGED <<user, lock, h>>
    BY <2>3 DEF Forgotten
  <2> QED BY <1>2, <1>5, <2>1, <2>2, <2>3 DEF Tokens, SessionOps
<1>6. CASE Administration
  <2>1. ASSUME NEW i \in Handlers, NEW c \in Creds, NEW u \in Users, AskDelete(i, c, u)
        PROVE  LockHeld' /\ RowCurrent'
    BY <2>1, <1>1, <1>3 DEF AskDelete, Handles, Types
  <2>2. ASSUME NEW i \in Handlers, NEW c \in Creds, NEW u \in Users, NEW ask \in Ask, AskUpdate(i, c, u, ask)
        PROVE  LockHeld' /\ RowCurrent'
    BY <2>2, <1>1, <1>3 DEF AskUpdate, Handles, Types
  <2>3. ASSUME NEW i \in Handlers, NEW u \in Users, NEW admin \in BOOLEAN, CreateUser(i, u, admin)
        PROVE  LockHeld' /\ RowCurrent'
    <3>1. \A j \in Handlers : h[j].op = "update" /\ There(h[j].row) /\ user[h[j].target] = h[j].row => h[j].target # u
      BY <2>3 DEF CreateUser, There
    <3>2. \A j \in Handlers : h[j].op = "update" => h[j].target \in Users
      BY HandlerFields
    <3>3. \A j \in Handlers : Reads(j) /\ There(h[j].row) => user'[h[j].target] = h[j].row
      BY <2>3, <3>1, <3>2 DEF CreateUser, Types
    <3>4. lock' = lock /\ h[i].op = "create" /\ \A j \in Handlers : h'[j] = IF j = i THEN Done ELSE h[j]
      BY <2>3, EndsTypes DEF CreateUser
    <3> QED BY <3>3, <3>4, <1>1
  <2>4. ASSUME NEW i \in Handlers, ReadRow(i)
        PROVE  LockHeld' /\ RowCurrent'
    <3>1. h'[i].op = "update" /\ h'[i].read /\ h'[i].target = h[i].target /\ h'[i].row = user[h[i].target]
      BY <2>4, HandlerFields DEF ReadRow, Handles, Types
    <3>2. \A j \in Handlers \ {i} : h'[j] = h[j] /\ ~Reads(j)
      BY <2>4 DEF ReadRow, TakeLock, Handles, Types
    <3> QED BY <2>4, <3>1, <3>2 DEF ReadRow, TakeLock
  <2>5. ASSUME NEW i \in Handlers, UpdateUser(i)
        PROVE  LockHeld' /\ RowCurrent'
    <3>1. lock = i /\ lock' = None /\ \A j \in Handlers \ {i} : ~Reads(j)
      BY <2>5 DEF UpdateUser, Release
    <3> QED BY <2>5, <3>1, <1>1, EndsTypes DEF UpdateUser
  <2>6. ASSUME NEW i \in Handlers, DeleteUser(i)
        PROVE  LockHeld' /\ RowCurrent'
    <3>1. \A j \in Handlers : ~Reads(j)
      BY <2>6 DEF DeleteUser
    <3> QED BY <2>6, <3>1, <1>1, EndsTypes DEF DeleteUser
  <2>7. ASSUME NEW i \in Handlers, Disconnects(i)
        PROVE  LockHeld' /\ RowCurrent'
    BY <2>7, <1>1, EndsTypes DEF Disconnects, Release
  <2> QED BY <1>6, <2>1, <2>2, <2>3, <2>4, <2>5, <2>6, <2>7 DEF Administration
<1>7. CASE WebShells
  <2>1. ASSUME NEW i \in Handlers, NEW t \in Tickets, TicketIssued(i, t)
        PROVE  LockHeld' /\ RowCurrent'
    BY <2>1, <1>1, <1>3, EndsTypes DEF TicketIssued
  <2> QED BY <1>2, <1>7, <2>1 DEF WebShells, TicketAges, ShellConnects, Heartbeat, ShellEnds, VmChanges
<1> QED BY <1>2, <1>4, <1>5, <1>6, <1>7 DEF Next, vars

-----------------------------------------------------------------------------
(* Administrators and what they revoke *)

(* A transaction that may take the last administrator away looks for        *)
(* another one first.                                                       *)
LEMMA LastAdminKept ==
  ASSUME Types, LastAdmin, [Next]_vars
  PROVE  LastAdmin'
<1>1. IsFiniteSet(Admins) /\ Cardinality(Admins) \in Nat
  BY AccountConstants, FS_Subset, FS_CardinalityType DEF Admins
<1>2. ASSUME NEW u \in Users, MayLose(u)
      PROVE  \E w \in Admins : w # u
  <2>1. CASE u \in Admins
    <3>1. Cardinality(Admins) # 1
      BY <1>1, <1>2, <2>1 DEF MayLose
    <3> QED BY <1>1, <2>1, <3>1, FS_Singleton
  <2> QED BY <2>1 DEF LastAdmin
<1>3. ASSUME NEW w \in Admins, user'[w] = user[w]
      PROVE  LastAdmin'
  BY <1>3 DEF LastAdmin, Admins, Enabled, There
<1>4. ASSUME NEW i \in Handlers, UpdateUser(i), ~UNCHANGED user
      PROVE  LastAdmin'
  <2> DEFINE u == h[i].target
             new == Changed(u, h[i].row, h[i].ask)
  <2>1. u \in Users /\ h[i].row \in User /\ h[i].ask \in Ask /\ There(user[u])
        /\ (h[i].ask.password => user[u].password < MaxPassword)
    BY <1>4, HandlerFields DEF UpdateUser, There
  <2>2. user' = [user EXCEPT ![u] = new] /\ ((new.admin /\ new.enabled) \/ MayLose(u))
    BY <1>4 DEF UpdateUser
  <2>3. CASE MayLose(u)
    <3>1. PICK w \in Admins : w # u
      BY <1>2, <2>1, <2>3
    <3> QED BY <1>3, <2>2, <3>1 DEF Types
  <2>4. CASE new.admin /\ new.enabled
    <3>1. user'[u] = new /\ new \in User
      BY <2>1, <2>2, ChangedTypes DEF Types
    <3>2. There(user'[u])
      BY <3>1, NotAValue DEF There
    <3> QED BY <2>1, <2>4, <3>1, <3>2 DEF LastAdmin, Admins, Enabled, There
  <2> QED BY <2>2, <2>3, <2>4
<1>5. ASSUME NEW i \in Handlers, DeleteUser(i), ~UNCHANGED user
      PROVE  LastAdmin'
  <2>1. h[i].target \in Users /\ MayLose(h[i].target) /\ user' = [user EXCEPT ![h[i].target] = Gone]
    BY <1>5, HandlerFields DEF DeleteUser
  <2>2. PICK w \in Admins : w # h[i].target
    BY <1>2, <2>1
  <2> QED BY <1>3, <2>1, <2>2 DEF Types
<1>6. ASSUME NEW i \in Handlers, NEW u \in Users, NEW admin \in BOOLEAN, CreateUser(i, u, admin)
      PROVE  LastAdmin'
  <2>1. PICK w \in Admins : TRUE
    BY DEF LastAdmin
  <2>2. w # u
    BY <1>6 DEF CreateUser, Admins, Enabled, There
  <2> QED BY <1>3, <1>6, <2>1, <2>2 DEF CreateUser, Types
<1>7. CASE UNCHANGED user
  BY <1>7 DEF LastAdmin, Admins, Enabled, There
<1> QED BY <1>4, <1>5, <1>6, <1>7, UserWrites

(* The credentials table: a row is inserted, rotated, forgotten or revoked. *)
LEMMA CredWrites ==
  ASSUME [Next]_vars
  PROVE  \/ UNCHANGED <<user, cred>>
         \/ UNCHANGED user /\ \E i \in Handlers : LoginIssues(i) \/ TokenCreated(i) \/ Refreshed(i)
         \/ UNCHANGED user /\ \E c \in Creds : Forgotten(c)
         \/ \E i \in Handlers : \/ UpdateUser(i) \/ DeleteUser(i)
                                \/ \E u \in Users, admin \in BOOLEAN : CreateUser(i, u, admin)
<1>1. CASE UNCHANGED vars
  BY <1>1 DEF vars
<1>2. CASE Logins
  BY <1>2 DEF Logins, LoginIssues, Login, FlowStarts, FlowAges, FlowReturns
<1>3. CASE Tokens
  BY <1>3 DEF Tokens, Begins, TokenCreated, Refreshed, Forgotten
<1>4. CASE Administration
  BY <1>4 DEF Administration, AskDelete, AskUpdate, ReadRow, Disconnects
<1>5. CASE WebShells
  BY <1>5 DEF WebShells, TicketIssued, TicketAges, ShellConnects, Heartbeat, ShellEnds, VmChanges
<1> QED BY <1>1, <1>2, <1>3, <1>4, <1>5 DEF Next

(* Whoever changes a user revokes, and whoever inserts compares.            *)
LEMMA RevokedKept ==
  ASSUME Types, RevokedStays, [Next]_vars
  PROVE  RevokedStays'
<1> USE NotAValue DEF RevokedStays, There
<1>1. CASE UNCHANGED <<user, cred>>
  BY <1>1
<1>2. ASSUME NEW i \in Handlers, UNCHANGED user, LoginIssues(i) \/ TokenCreated(i)
      PROVE  RevokedStays'
  <2>1. PICK c \in Creds, kind \in {"session", "api"} :
          cred' = [cred EXCEPT ![c] = [user |-> h[i].user, kind |-> kind, token |-> 0, row |-> h[i].row,
                                       late |-> h[i].row # user[h[i].user]]]
    BY <1>2 DEF LoginIssues, TokenCreated, Insert
  <2> QED BY <1>2, <2>1 DEF Types
<1>3. ASSUME NEW i \in Handlers, UNCHANGED user, Refreshed(i)
      PROVE  RevokedStays'
  <2>1. \A c \in Creds : There(cred[c]) => cred[c] \in Cred
    BY DEF Types
  <2>2. \A c \in Creds : There(cred'[c]) => /\ There(cred[c]) /\ cred'[c].late = cred[c].late
                                            /\ cred'[c].row = cred[c].row /\ cred'[c].user = cred[c].user
    BY <1>3, <2>1 DEF Refreshed, Cred
  <2> QED BY <1>3, <2>2
<1>4. ASSUME NEW c \in Creds, UNCHANGED user, Forgotten(c)
      PROVE  RevokedStays'
  BY <1>4 DEF Forgotten, Types
(* A user changes and its credentials are revoked. *)
<1>5. ASSUME NEW u \in Users, cred' = Revoked(u), \A w \in Users \ {u} : user'[w] = user[w]
      PROVE  RevokedStays'
  <2>1. \A c \in Creds : There(cred'[c]) => cred'[c] = cred[c] /\ cred[c].user # u
    BY <1>5 DEF Revoked
  <2>2. \A c \in Creds : There(cred[c]) => cred[c].user \in Users
    BY DEF Types, Cred
  <2> QED BY <1>5, <2>1, <2>2
<1>6. ASSUME NEW i \in Handlers, UpdateUser(i)
      PROVE  RevokedStays'
  <2>1. CASE UNCHANGED <<user, cred>>
    BY <1>1, <2>1
  <2>2. CASE ~UNCHANGED <<user, cred>>
    <3>1. h[i].target \in Users
      BY <1>6, HandlerFields DEF UpdateUser
    <3>2. PICK new : /\ user' = [user EXCEPT ![h[i].target] = new]
                     /\ cred' = IF new # user[h[i].target] THEN Revoked(h[i].target) ELSE cred
      BY <1>6, <2>2 DEF UpdateUser
    <3>3. new # user[h[i].target]
      BY <2>2, <3>1, <3>2 DEF Types
    <3> QED BY <1>5, <3>1, <3>2, <3>3 DEF Types
  <2> QED BY <2>1, <2>2
<1>7. ASSUME NEW i \in Handlers, DeleteUser(i)
      PROVE  RevokedStays'
  <2>1. h[i].target \in Users
    BY <1>7, HandlerFields DEF DeleteUser
  <2> QED BY <1>1, <1>5, <1>7, <2>1 DEF DeleteUser, Types
<1>8. ASSUME NEW i \in Handlers, NEW u \in Users, NEW admin \in BOOLEAN, CreateUser(i, u, admin)
      PROVE  RevokedStays'
  <2>1. \A c \in Creds : There(cred[c]) => cred[c].row \in User /\ cred[c].user \in Users
    BY DEF Types, Cred
  <2>2. \A c \in Creds : There(cred[c]) /\ ~cred[c].late => cred[c].user # u
    BY <1>8, <2>1 DEF CreateUser
  <2> QED BY <1>8, <2>1, <2>2 DEF CreateUser, Types
<1> QED BY <1>1, <1>2, <1>3, <1>4, <1>6, <1>7, <1>8, CredWrites

-----------------------------------------------------------------------------
(* Used once *)

(* A shell is opened with a pending ticket, which is spent from then on.    *)
LEMMA TicketKept ==
  ASSUME Types, TicketSpent, TicketOnce, [Next]_vars
  PROVE  TicketSpent' /\ TicketOnce'
<1>1. \A s \in Relays : shell[s] \in Shell /\ shell[s].ticket \in Tickets
  BY DEF Types, Relays, Shell
<1>2. \A s \in Relays : ticket'[shell[s].ticket] = Gone
  BY <1>1, TicketWrites DEF TicketSpent
<1>3. CASE UNCHANGED shell
  BY <1>2, <1>3 DEF TicketSpent, TicketOnce, Relays
<1>4. ASSUME NEW s \in Shells, ShellEnds(s)
      PROVE  TicketSpent' /\ TicketOnce'
  <2>1. \A x \in Relays' : x \in Relays /\ shell'[x] = shell[x]
    BY <1>4 DEF ShellEnds, Relays, Types
  <2> QED BY <1>2, <2>1 DEF TicketSpent, TicketOnce
<1>5. ASSUME NEW s \in Shells, NEW t \in Tickets, NEW c \in Creds, ShellConnects(t, c, s), ~UNCHANGED shell
      PROVE  TicketSpent' /\ TicketOnce'
  <2>1. ticket[t] # Gone /\ ticket'[t] = Gone
    BY <1>5 DEF ShellConnects, TakeTicket, There, Types
  <2>2. shell[s] = None /\ shell'[s].ticket = t /\ \A x \in Shells \ {s} : shell'[x] = shell[x]
    BY <1>5 DEF ShellConnects, Types
  <2>3. \A x \in Relays' \ {s} : x \in Relays /\ shell'[x] = shell[x] /\ shell[x].ticket # t
    BY <2>1, <2>2 DEF Relays, TicketSpent
  <2> QED BY <1>2, <2>1, <2>2, <2>3 DEF TicketSpent, TicketOnce
<1> QED BY <1>3, <1>4, <1>5, ShellWrites

(* What a handler came from: a login is begun by Login or FlowReturns only. *)
LEMMA LoginWrites ==
  ASSUME Types, [Next]_vars
  PROVE  \/ \E i \in Handlers, u \in Users, f \in Flows \cup {None} :
              Enabled(u) /\ LoginOf(i, u, f) /\ (f = None \/ TakeFlow(f)) /\ (f = None => UNCHANGED flow)
         \/ \A i \in Handlers : h'[i].op = "login" => h'[i] = h[i]
<1> USE NotAValue
<1>1. Unused.op = None /\ Done.op = Gone
  BY DEF Unused, Done
<1>2. CASE UNCHANGED h
  BY <1>2
<1>3. ASSUME NEW i \in Handlers, Ends(i)
      PROVE  \A j \in Handlers : h'[j].op = "login" => h'[j] = h[j]
  BY <1>1, <1>3, EndsTypes
<1>4. ASSUME NEW i \in Handlers, \A j \in Handlers \ {i} : h'[j] = h[j], h'[i].op # "login"
      PROVE  \A j \in Handlers : h'[j].op = "login" => h'[j] = h[j]
  BY <1>4
<1>5. CASE Logins
  BY <1>2, <1>3, <1>5 DEF Logins, LoginIssues, Login, FlowStarts, FlowAges, FlowReturns, Rest
<1>6. CASE Tokens
  <2>1. ASSUME NEW i \in Handlers, NEW c \in Creds, NEW op \in SessionOps, Begins(i, op, c)
        PROVE  h'[i].op # "login" /\ \A j \in Handlers \ {i} : h'[j] = h[j]
    BY <2>1 DEF Begins, Handles, SessionOps, Types
  <2> QED BY <1>2, <1>3, <1>4, <1>6, <2>1 DEF Tokens, TokenCreated, Refreshed, Forgotten, SessionOps
<1>7. CASE Administration
  <2>1. ASSUME NEW i \in Handlers, NEW c \in Creds, NEW u \in Users,
               AskDelete(i, c, u) \/ \E ask \in Ask : AskUpdate(i, c, u, ask)
        PROVE  h'[i].op # "login" /\ \A j \in Handlers \ {i} : h'[j] = h[j]
    BY <2>1 DEF AskDelete, AskUpdate, Handles, Types
  <2>2. ASSUME NEW i \in Handlers, ReadRow(i)
        PROVE  h'[i].op # "login" /\ \A j \in Handlers \ {i} : h'[j] = h[j]
    BY <2>2, HandlerFields DEF ReadRow, Handles, Types
  <2> QED BY <1>3, <1>4, <1>7, <2>1, <2>2 DEF Administration, CreateUser, UpdateUser, DeleteUser, Disconnects
<1>8. CASE WebShells
  BY <1>2, <1>3, <1>8 DEF WebShells, TicketIssued, TicketAges, ShellConnects, Heartbeat, ShellEnds, VmChanges
<1> QED BY <1>2, <1>5, <1>6, <1>7, <1>8 DEF Next, vars

(* An OIDC state that was taken is not taken again.                         *)
LEMMA FlowKept ==
  ASSUME Types, FlowOnce, [Next]_vars
  PROVE  FlowOnce'
<1> USE NotAValue
<1> DEFINE Use(f) == {i \in Handlers : h[i].op = "login" /\ h[i].flow = f}
<1>1. \A f \in Flows : flow[f] = Gone => flow'[f] = Gone
  BY FlowWrites DEF FlowStarts, FlowAges, FlowReturns, TakeFlow, Types
<1>2. SUFFICES ASSUME NEW f \in Flows, Use(f)' # {}
               PROVE  flow'[f] = Gone /\ Cardinality(Use(f)') = 1
  BY DEF FlowOnce
<1>3. ASSUME Use(f)' \subseteq Use(f)
      PROVE  flow'[f] = Gone /\ Cardinality(Use(f)') = 1
  <2>1. flow[f] = Gone /\ Cardinality(Use(f)) = 1
    BY <1>2, <1>3 DEF FlowOnce
  <2>2. IsFiniteSet(Use(f))
    BY AccountConstants, FS_Subset
  <2>3. PICK i : Use(f) = {i}
    BY <2>1, <2>2, FS_Singleton
  <2>4. Use(f)' = {i}
    BY <1>2, <1>3, <2>3
  <2> QED BY <1>1, <2>1, <2>4, FS_Singleton
<1>4. CASE \A i \in Handlers : h'[i].op = "login" => h'[i] = h[i]
  BY <1>3, <1>4
<1>5. ASSUME NEW i \in Handlers, NEW u \in Users, NEW g \in Flows \cup {None}, Enabled(u), LoginOf(i, u, g),
             g = None \/ TakeFlow(g)
      PROVE  flow'[f] = Gone /\ Cardinality(Use(f)') = 1
  <2>1. h'[i].flow = g /\ \A j \in Handlers \ {i} : h'[j] = h[j]
    BY <1>5, LoginTypes
  <2>2. CASE g = f
    <3>1. flow[f] = "fresh" /\ flow'[f] = Gone
      BY <1>5, <2>2 DEF TakeFlow, Types
    <3>2. Use(f) = {}
      BY <3>1 DEF FlowOnce
    <3>3. Use(f)' = {i}
      BY <1>2, <2>1, <3>2
    <3> QED BY <3>1, <3>3, FS_Singleton
  <2>3. CASE g # f
    BY <1>3, <2>1, <2>3
  <2> QED BY <2>2, <2>3
<1> QED BY <1>4, <1>5, LoginWrites

-----------------------------------------------------------------------------
(* The invariant *)

(* Every step keeps the invariant, ...                                      *)
LEMMA NextKeeps ==
  ASSUME IInv, [Next]_vars
  PROVE  IInv'
<1>1. TypeOK'
  BY TypesKept, LimitsKept, LockKept DEF IInv, TypeOK
<1>2. RowCurrent'
  BY LockKept DEF IInv, TypeOK
<1>3. LastAdmin' /\ RevokedStays'
  BY LastAdminKept, RevokedKept DEF IInv, TypeOK
<1>4. TicketSpent' /\ UsedOnce'
  BY TicketKept, FlowKept DEF IInv, TypeOK, UsedOnce
<1> QED BY <1>1, <1>2, <1>3, <1>4 DEF IInv

(* ... and the server starts with it.                                       *)
LEMMA InitHolds ==
  ASSUME Init
  PROVE  IInv
<1> USE AccountConstants, NotAValue
<1>1. Administrator \in User
  BY DEF Administrator, User
<1>2. PICK others \in SUBSET (Users \ {Root}) :
        user = [u \in Users |-> IF u \in {Root} \cup others THEN Administrator ELSE None]
  BY DEF Init
<1>3. PICK c \in Creds :
        cred = [x \in Creds |-> IF x = c THEN [user |-> Root, kind |-> "session", token |-> 0,
                                             row |-> Administrator, late |-> FALSE] ELSE None]
  BY DEF Init
<1>4. user[Root] = Administrator /\ There(user[Root])
  BY <1>1, <1>2 DEF There
<1>5. Types
  <2>1. [user |-> Root, kind |-> "session", token |-> 0, row |-> Administrator, late |-> FALSE] \in Cred
    BY <1>1 DEF Cred
  <2> QED BY <1>1, <1>2, <1>3, <2>1 DEF Init, Types
<1>6. LockHeld /\ RowCurrent
  BY DEF Init, LockHeld, RowCurrent, Unused
<1>7. WithinLimits /\ TicketSpent /\ TicketOnce
  <2>1. Relays = {} /\ Fresh = {}
    BY DEF Init, Relays, Fresh
  <2> QED BY <2>1, FS_EmptySet DEF WithinLimits, TicketSpent, TicketOnce
<1>8. FlowOnce
  BY DEF Init, FlowOnce, Unused
<1>9. LastAdmin
  BY <1>4 DEF LastAdmin, Admins, Enabled, Administrator
<1>10. RevokedStays
  BY <1>3, <1>4 DEF RevokedStays, There
<1> QED BY <1>5, <1>6, <1>7, <1>8, <1>9, <1>10 DEF IInv, TypeOK, UsedOnce

-----------------------------------------------------------------------------
(* The theorems *)

(* The invariant always holds, for any numbers of users, requests, sessions *)
(* and tickets.                                                             *)
THEOREM AccountsInvariant == Spec => []IInv
<1>1. Init => IInv
  BY InitHolds
<1>2. IInv /\ [Next]_vars => IInv'
  BY NextKeeps
<1> QED BY <1>1, <1>2, PTL DEF Spec

(* The model keeps its types, and tables, relays and logins their limits.   *)
THEOREM AccountsTypeCorrect == Spec => []TypeOK
<1>1. IInv => TypeOK
  BY DEF IInv
<1> QED BY <1>1, AccountsInvariant, PTL

(* An administrator that can log in is always left (update_user,            *)
(* remove_user), however many requests run at once.                         *)
THEOREM LastAdminAlways == Spec => []LastAdmin
<1>1. IInv => LastAdmin
  BY DEF IInv
<1> QED BY <1>1, AccountsInvariant, PTL

(* No credential outlives a change of its user's role or password, but one  *)
(* whose request was under way then.                                        *)
THEOREM RevokedStaysAlways == Spec => []RevokedStays
<1>1. IInv => RevokedStays
  BY DEF IInv
<1> QED BY <1>1, AccountsInvariant, PTL

(* OIDC states and shell tickets are good for one use.                      *)
THEOREM UsedOnceAlways == Spec => []UsedOnce
<1>1. IInv => UsedOnce
  BY DEF IInv
<1> QED BY <1>1, AccountsInvariant, PTL

(* A password changes only by a request that brings one: the row that an    *)
(* update writes back is the one there is.                                  *)
LEMMA PasswordStep ==
  ASSUME IInv, [Next]_vars, NEW u \in Users, There(user[u]), There(user'[u]),
         user'[u].password # user[u].password
  PROVE  \E i \in Handlers : /\ h[i].op = "update" /\ h[i].target = u /\ h[i].ask.password
                             /\ h'[i] = Done
<1> USE NotAValue DEF IInv, TypeOK
<1>1. ASSUME NEW i \in Handlers, UpdateUser(i)
      PROVE  h[i].op = "update" /\ h[i].target = u /\ h[i].ask.password /\ h'[i] = Done
  <2>1. h[i].op = "update" /\ h'[i] = Done /\ h[i].target \in Users
    BY <1>1, EndsTypes, HandlerFields DEF UpdateUser
  <2>2. user' = [user EXCEPT ![h[i].target] = Changed(h[i].target, h[i].row, h[i].ask)]
    BY <1>1 DEF UpdateUser
  <2>3. h[i].target = u
    BY <2>1, <2>2 DEF Types
  <2>4. user[u] = h[i].row
    BY <1>1, <2>3 DEF UpdateUser, RowCurrent
  <2> QED BY <2>1, <2>2, <2>3, <2>4 DEF Changed, Types
<1>2. ASSUME NEW i \in Handlers, DeleteUser(i) \/ \E w \in Users, admin \in BOOLEAN : CreateUser(i, w, admin)
      PROVE  user'[u] = user[u] \/ ~There(user'[u]) \/ ~There(user[u])
  BY <1>2, HandlerFields DEF DeleteUser, CreateUser, There, Types
<1> QED BY <1>1, <1>2, UserWrites

(* A shell is opened by the session that its ticket was made for.           *)
LEMMA ShellStep ==
  ASSUME IInv, [Next]_vars, NEW s \in Shells, shell[s] = None, shell'[s] # None
  PROVE  LET t == ticket[shell'[s].ticket] IN t.cred = shell'[s].cred /\ t.user = shell'[s].user
<1>1. PICK x \in Shells, t \in Tickets, c \in Creds : ShellConnects(t, c, x)
  BY ShellWrites DEF ShellEnds, IInv, TypeOK, Types
<1>2. shell' = [shell EXCEPT ![x] = [user |-> ticket[t].user, cred |-> c, token |-> cred[c].token, ticket |-> t]]
      /\ IsBoundTo(t, c)
  BY <1>1 DEF ShellConnects
<1> QED BY <1>2 DEF IsBoundTo, IInv, TypeOK, Types

(* Passwords and shells go by what was asked, and by whom.                  *)
THEOREM AsAskedAlways == Spec => AsAsked
<1> DEFINE PasswordsAsAsked ==
      \A u \in Users :
        There(user[u]) /\ There(user'[u]) /\ user'[u].password # user[u].password =>
          \E i \in Handlers : /\ h[i].op = "update" /\ h[i].target = u /\ h[i].ask.password
                              /\ h'[i] = Done
    ShellsAsIssued ==
      \A s \in Shells : shell[s] = None /\ shell'[s] # None =>
        LET t == ticket[shell'[s].ticket] IN t.cred = shell'[s].cred /\ t.user = shell'[s].user
<1>1. IInv /\ [Next]_vars => PasswordsAsAsked
  BY PasswordStep
<1>2. IInv /\ [Next]_vars => ShellsAsIssued
  BY ShellStep
<1>3. PasswordAsked <=> [][PasswordsAsAsked]_vars
  BY DEF PasswordAsked
<1>4. ShellAsIssued <=> [][ShellsAsIssued]_vars
  BY DEF ShellAsIssued
<1> HIDE DEF PasswordsAsAsked, ShellsAsIssued
<1> QED BY <1>1, <1>2, <1>3, <1>4, AccountsInvariant, PTL DEF Spec, AsAsked
=============================================================================
