------------------------------ MODULE Accounts ------------------------------
(***************************************************************************)
(* Users, credentials, logins and the authorisation of web shells.  The    *)
(* database has one connection (store.rs), so a query or a transaction is  *)
(* one step; a handler is a record that keeps what it read between two of  *)
(* them, and its client may disconnect at any.  Handlers run at once: only *)
(* update and delete of users hold a mutex ("users").                      *)
(*                                                                         *)
(* Rows, tickets and OIDC states have random names that never return, so a *)
(* name here goes from None to its value to Gone; so does a handler.       *)
(***************************************************************************)
EXTENDS Naturals, FiniteSets

CONSTANTS
  Users, Root,   \* user rows; Root is the administrator of first setup
  Creds,         \* bound: credential rows
  Tickets,       \* bound: shell tickets
  Flows,         \* bound: logins started at the OIDC provider
  Shells,        \* bound: relays at once
  Handlers,      \* bound: requests
  Sessions,      \* Semaphore::new(32) of ShellState
  MaxTickets,    \* at most 128 pending tickets
  MaxFlows,      \* at most 64 pending browser logins
  MaxPassword,   \* bound: changes of a user's password
  None, Gone

ASSUME AccountConstants ==
  /\ Root \in Users
  /\ {Sessions, MaxTickets, MaxFlows, MaxPassword} \subseteq Nat
  /\ IsFiniteSet(Users) /\ IsFiniteSet(Flows) /\ IsFiniteSet(Shells) /\ IsFiniteSet(Handlers)

VARIABLES
  user,    \* the users table
  cred,    \* the credentials table
  lock,    \* the holder of the mutex "users"
  h,       \* the handlers
  ticket,  \* ShellState.pending
  flow,    \* BrowserState: pending OIDC logins
  shell,   \* the relays of web shells, each with its permit
  vm       \* whether the VM is the process that it was (one stop is enough here)

vars == <<user, cred, lock, h, ticket, flow, shell, vm>>
Rest == <<ticket, flow, shell, vm>>

(* The security data of a user; names do not matter here, and the OIDC     *)
(* binding is treated by the code as the password is.                      *)
User   == [admin : BOOLEAN, enabled : BOOLEAN, password : 0..MaxPassword]
(* `row` is the user that the request had read, `late` that it was not so  *)
(* any more when the credential was stored.                                *)
Cred   == [user : Users, kind : {"session", "api"}, token : {0, 1}, row : User, late : BOOLEAN]
Ticket == [user : Users, cred : Creds, fresh : BOOLEAN]
Shell  == [user : Users, cred : Creds, token : {0, 1}, ticket : Tickets]
Ask    == [admin : BOOLEAN, enabled : BOOLEAN, password : BOOLEAN]  \* UpdateUser

Unused  == [op |-> None]
Done    == [op |-> Gone]
Handler ==
  [op : {"login"}, user : Users, row : User, flow : Flows \cup {None}]
  \cup [op : {"token", "refresh", "create", "ticket"}, user : Users, row : User,
        cred : Creds, token : {0, 1}]
  \cup [op : {"update"}, target : Users, ask : Ask, row : User \cup {None, Gone}, read : BOOLEAN]
  \cup [op : {"delete"}, target : Users]

(* What stands for no value is none. *)
ASSUME NotAValue ==
  /\ None # Gone
  /\ {None, Gone} \cap (Users \cup Creds \cup Tickets \cup Flows \cup Handlers) = {}
  /\ {None, Gone} \cap (User \cup Cred \cup Ticket \cup Shell) = {}
  /\ {None, Gone} \cap {"fresh", "stale", "login", "token", "refresh", "create", "ticket", "update", "delete"} = {}

Administrator == [admin |-> TRUE, enabled |-> TRUE, password |-> 0]

(* The server starts with the administrator of first setup, who has logged *)
(* in before, and maybe others.                                            *)
Init ==
  /\ \E others \in SUBSET (Users \ {Root}) :
       user = [u \in Users |-> IF u \in {Root} \cup others THEN Administrator ELSE None]
  /\ \E c \in Creds :
       cred = [x \in Creds |-> IF x = c THEN [user |-> Root, kind |-> "session", token |-> 0,
                                            row |-> Administrator, late |-> FALSE] ELSE None]
  /\ lock = None
  /\ h = [i \in Handlers |-> Unused]
  /\ ticket = [t \in Tickets |-> None]
  /\ flow = [f \in Flows |-> None]
  /\ shell = [s \in Shells |-> None]
  /\ vm = TRUE

-----------------------------------------------------------------------------
There(x)   == x \notin {None, Gone}
Enabled(u) == There(user[u]) /\ user[u].enabled
Admins     == {u \in Users : Enabled(u) /\ user[u].admin}

(* authenticate: the row of the token's hash, and a user not disabled.  An *)
(* expired row is as good as a deleted one.                                *)
Authenticates(c, token) == There(cred[c]) /\ cred[c].token = token /\ Enabled(cred[c].user)

(* A session that its holder can present now (Identity, ensure_session). *)
IsSession(c) == There(cred[c]) /\ cred[c].kind = "session" /\ Enabled(cred[c].user)

(* ... of an administrator (ensure_admin) *)
IsAdminSession(c) == IsSession(c) /\ cred[c].user \in Admins

Handles(i, f) == h' = [h EXCEPT ![i] = f]
Ends(i)       == Handles(i, Done)

(* insert_credential; its user must exist, by the foreign key. *)
Insert(i, kind) ==
  \E c \in Creds :
    /\ cred[c] = None
    /\ There(user[h[i].user])
    /\ cred' = [cred EXCEPT ![c] = [user |-> h[i].user, kind |-> kind, token |-> 0, row |-> h[i].row,
                                    late |-> h[i].row # user[h[i].user]]]

-----------------------------------------------------------------------------
(* Logins *)

LoginOf(i, u, f) == Handles(i, [op |-> "login", user |-> u, row |-> user[u], flow |-> f])

(* password_user reads the user, then has the password hashed and compared; *)
(* exchange is the same with a token of the OIDC provider.                  *)
Login(i, u) ==
  /\ h[i] = Unused
  /\ Enabled(u)
  /\ LoginOf(i, u, None)
  /\ UNCHANGED <<user, cred, lock, Rest>>

(* session: the credential of a login that was found valid. *)
LoginIssues(i) ==
  /\ h[i].op = "login"
  /\ Insert(i, "session")
  /\ Ends(i)
  /\ UNCHANGED <<user, lock, Rest>>

Fresh == {f \in Flows : flow[f] = "fresh"}

(* browser::oidc::start: entries past their time go, and when the table is *)
(* full the oldest makes room (which one is the oldest is left open).      *)
FlowStarts(f) ==
  /\ flow[f] = None
  /\ \E out \in {{}} \cup {{g} : g \in Fresh} :
       /\ (out # {}) <=> Cardinality(Fresh) >= MaxFlows
       /\ flow' = [g \in Flows |-> IF g = f THEN "fresh"
                                   ELSE IF flow[g] = "stale" \/ g \in out THEN Gone ELSE flow[g]]
  /\ UNCHANGED <<user, cred, lock, h, ticket, shell, vm>>

FlowAges(f) ==
  /\ flow[f] = "fresh"
  /\ flow' = [flow EXCEPT ![f] = "stale"]
  /\ UNCHANGED <<user, cred, lock, h, ticket, shell, vm>>

(* Mutant: the entry stays for another callback with the same state. *)
TakeFlowAgain(f) == flow[f] = "fresh" /\ UNCHANGED flow

(* BrowserState::take *)
TakeFlow(f) == flow[f] = "fresh" /\ flow' = [flow EXCEPT ![f] = Gone]

(* browser::oidc::finish, for the user that verify returns. *)
FlowReturns(i, f, u) ==
  /\ h[i] = Unused
  /\ Enabled(u)
  /\ TakeFlow(f)
  /\ LoginOf(i, u, f)
  /\ UNCHANGED <<user, cred, lock, ticket, shell, vm>>

-----------------------------------------------------------------------------
(* Credentials: Identity reads one, the handler acts on it later *)

Begins(i, op, c) ==
  /\ h[i] = Unused
  /\ IsSession(c)
  /\ op \in {"create", "ticket"} => IsAdminSession(c)
  /\ op = "refresh" => cred[c].token = 0  \* bound: one rotation of a token
  /\ Handles(i, [op |-> op, user |-> cred[c].user, row |-> user[cred[c].user],
                 cred |-> c, token |-> cred[c].token])
  /\ UNCHANGED <<user, cred, lock, Rest>>

TokenCreated(i) ==
  /\ h[i].op = "token"
  /\ Insert(i, "api")
  /\ Ends(i)
  /\ UNCHANGED <<user, lock, Rest>>

(* rotate: only a row that still has the hash is updated. *)
Refreshed(i) ==
  /\ h[i].op = "refresh"
  /\ cred' = [c \in Creds |-> IF c = h[i].cred /\ There(cred[c]) /\ cred[c].token = h[i].token
                              THEN [cred[c] EXCEPT !.token = 1] ELSE cred[c]]
  /\ Ends(i)
  /\ UNCHANGED <<user, lock, Rest>>

(* A credential expires, or its owner deletes it: by logging out, by name, *)
(* or with the login that replaces a browser's session.                    *)
Forgotten(c) ==
  /\ There(cred[c])
  /\ cred' = [cred EXCEPT ![c] = Gone]
  /\ UNCHANGED <<user, lock, h, Rest>>

-----------------------------------------------------------------------------
(* Administration of users *)

CreateUser(i, u, admin) ==
  /\ h[i].op = "create"
  /\ user[u] = None
  /\ user' = [user EXCEPT ![u] = [admin |-> admin, enabled |-> TRUE, password |-> 0]]
  /\ Ends(i)
  /\ UNCHANGED <<cred, lock, Rest>>

AskUpdate(i, c, u, ask) ==
  /\ h[i] = Unused
  /\ IsAdminSession(c)
  /\ Handles(i, [op |-> "update", target |-> u, ask |-> ask, row |-> None, read |-> FALSE])
  /\ UNCHANGED <<user, cred, lock, Rest>>

AskDelete(i, c, u) ==
  /\ h[i] = Unused
  /\ IsAdminSession(c)
  /\ Handles(i, [op |-> "delete", target |-> u])
  /\ UNCHANGED <<user, cred, lock, Rest>>

(* Mutant: the mutex is not taken. *)
TakeNoLock(i) == UNCHANGED lock

TakeLock(i) == lock = None /\ lock' = i

(* users::update reads the row under the mutex; the hashing of a new       *)
(* password comes between that and the transaction.                        *)
ReadRow(i) ==
  /\ h[i].op = "update"
  /\ ~h[i].read
  /\ TakeLock(i)
  /\ Handles(i, [h[i] EXCEPT !.row = user[h[i].target], !.read = TRUE])
  /\ UNCHANGED <<user, cred, Rest>>

(* What the request makes of the row that it read: it always names the     *)
(* role, and a password only when there is a new one.                      *)
Changed(u, row, ask) ==
  [admin |-> ask.admin, enabled |-> ask.enabled,
   password |-> IF ask.password THEN user[u].password + 1 ELSE row.password]

(* Mutant: the request's own change is looked at, not who is left. *)
MayLoseAny(u) == user[u].admin

(* The check of update_user and remove_user, within the transaction. *)
MayLose(u) == u \in Admins => Cardinality(Admins) > 1

(* Mutant: credentials are deleted when the account is disabled only. *)
RevokedWhenDisabled(u) ==
  [c \in Creds |-> IF There(cred[c]) /\ cred[c].user = u /\ ~user[u].enabled THEN Gone ELSE cred[c]]

Revoked(u) == [c \in Creds |-> IF There(cred[c]) /\ cred[c].user = u THEN Gone ELSE cred[c]]

(* Mutant: the guard outlives its handler. *)
ReleaseNot(i) == UNCHANGED lock

Release(i) == lock' = IF lock = i THEN None ELSE lock

UpdateUser(i) ==
  /\ h[i].op = "update"
  /\ h[i].read
  /\ LET u == h[i].target IN
       IF ~There(h[i].row) \/ ~There(user[u])
       THEN UNCHANGED <<user, cred>>
       ELSE /\ h[i].ask.password => user[u].password < MaxPassword
            /\ LET new == Changed(u, h[i].row, h[i].ask) IN
                 IF (new.admin /\ new.enabled) \/ MayLose(u)
                 THEN /\ user' = [user EXCEPT ![u] = new]
                      /\ cred' = IF new # user[u] THEN Revoked(u) ELSE cred
                 ELSE UNCHANGED <<user, cred>>
  /\ Ends(i)
  /\ Release(i)
  /\ UNCHANGED Rest

(* remove_user, under the mutex; that the user still has VMs, networks or  *)
(* assets is one more reason for it to refuse.                             *)
DeleteUser(i) ==
  /\ h[i].op = "delete"
  /\ lock = None
  /\ LET u == h[i].target IN
       \/ /\ There(user[u])
          /\ MayLose(u)
          /\ user' = [user EXCEPT ![u] = Gone]
          /\ cred' = Revoked(u)
       \/ UNCHANGED <<user, cred>>
  /\ Ends(i)
  /\ UNCHANGED <<lock, Rest>>

(* The client disconnects from a handler that holds the mutex; a handler   *)
(* that holds nothing simply takes no more steps.                          *)
Disconnects(i) ==
  /\ lock = i
  /\ Ends(i)
  /\ Release(i)
  /\ UNCHANGED <<user, cred, Rest>>

-----------------------------------------------------------------------------
(* Web shells *)

(* web_shell::create; an insertion first drops the tickets past their time. *)
TicketIssued(i, t) ==
  /\ h[i].op = "ticket"
  /\ vm
  /\ ticket[t] = None
  /\ Cardinality({x \in Tickets : There(ticket[x]) /\ ticket[x].fresh}) < MaxTickets
  /\ ticket' = [x \in Tickets |->
                  IF x = t THEN [user |-> h[i].user, cred |-> h[i].cred, fresh |-> TRUE]
                  ELSE IF There(ticket[x]) /\ ~ticket[x].fresh THEN Gone ELSE ticket[x]]
  /\ Ends(i)
  /\ UNCHANGED <<user, cred, lock, flow, shell, vm>>

TicketAges(t) ==
  /\ There(ticket[t])
  /\ ticket[t].fresh
  /\ ticket' = [ticket EXCEPT ![t].fresh = FALSE]
  /\ UNCHANGED <<user, cred, lock, h, flow, shell, vm>>

(* Mutant: the ticket is looked up, not removed. *)
TakeTicketAgain(t) == UNCHANGED ticket

(* ShellState::take *)
TakeTicket(t) == ticket' = [ticket EXCEPT ![t] = Gone]

(* Mutant: a ticket admits every session of its user. *)
IsBoundToUser(t, c) == ticket[t].user = cred[c].user

(* Ticket::is_bound_to, for the one VM there is. *)
IsBoundTo(t, c) == ticket[t].user = cred[c].user /\ ticket[t].cred = c

Relays == {s \in Shells : shell[s] # None}

(* web_shell::connect: the ticket is gone whatever comes after. *)
ShellConnects(t, c, s) ==
  /\ There(ticket[t])
  /\ IsAdminSession(c)
  /\ TakeTicket(t)
  /\ IF ticket[t].fresh /\ IsBoundTo(t, c) /\ vm /\ Cardinality(Relays) < Sessions
     THEN /\ shell[s] = None
          /\ shell' = [shell EXCEPT ![s] = [user |-> ticket[t].user, cred |-> c,
                                            token |-> cred[c].token, ticket |-> t]]
     ELSE UNCHANGED shell
  /\ UNCHANGED <<user, cred, lock, h, flow, vm>>

(* What the heartbeat asks of the database every second. *)
IsCurrent(s) ==
  /\ Authenticates(shell[s].cred, shell[s].token)
  /\ cred[shell[s].cred].user \in Admins
  /\ vm

ShellEnds(s) ==
  /\ shell[s] # None
  /\ shell' = [shell EXCEPT ![s] = None]
  /\ UNCHANGED <<user, cred, lock, h, ticket, flow, vm>>

Heartbeat(s) == shell[s] # None /\ ~IsCurrent(s) /\ ShellEnds(s)

(* The VM stops; were it started again, its process would be another. *)
VmChanges ==
  /\ vm
  /\ vm' = FALSE
  /\ UNCHANGED <<user, cred, lock, h, ticket, flow, shell>>

-----------------------------------------------------------------------------
Logins ==
  \/ \E i \in Handlers : LoginIssues(i) \/ (\E u \in Users : Login(i, u))
  \/ \E f \in Flows : \/ FlowStarts(f) \/ FlowAges(f)
                      \/ \E i \in Handlers, u \in Users : FlowReturns(i, f, u)

Tokens ==
  \/ \E i \in Handlers, c \in Creds, op \in {"token", "refresh", "create", "ticket"} : Begins(i, op, c)
  \/ \E i \in Handlers : TokenCreated(i) \/ Refreshed(i)
  \/ \E c \in Creds : Forgotten(c)

Administration ==
  \/ \E i \in Handlers, c \in Creds, u \in Users : AskDelete(i, c, u) \/ \E ask \in Ask : AskUpdate(i, c, u, ask)
  \/ \E i \in Handlers, u \in Users, admin \in BOOLEAN : CreateUser(i, u, admin)
  \/ \E i \in Handlers : ReadRow(i) \/ UpdateUser(i) \/ DeleteUser(i) \/ Disconnects(i)

WebShells ==
  \/ \E i \in Handlers, t \in Tickets : TicketIssued(i, t)
  \/ \E t \in Tickets : TicketAges(t) \/ (\E c \in Creds, s \in Shells : ShellConnects(t, c, s))
  \/ \E s \in Shells : Heartbeat(s) \/ ShellEnds(s)
  \/ VmChanges

Next == Logins \/ Tokens \/ Administration \/ WebShells

Spec == Init /\ [][Next]_vars

-----------------------------------------------------------------------------
Types ==
  /\ user \in [Users -> User \cup {None, Gone}]
  /\ cred \in [Creds -> Cred \cup {None, Gone}]
  /\ lock \in Handlers \cup {None}
  /\ h \in [Handlers -> Handler \cup {Unused, Done}]
  /\ ticket \in [Tickets -> Ticket \cup {None, Gone}]
  /\ flow \in [Flows -> {None, "fresh", "stale", Gone}]
  /\ shell \in [Shells -> Shell \cup {None}]
  /\ vm \in BOOLEAN

(* The mutex is held by the handler that has read a row under it. *)
LockHeld == \A i \in Handlers : lock = i <=> h[i].op = "update" /\ h[i].read

WithinLimits == Cardinality(Relays) <= Sessions /\ Cardinality(Fresh) <= MaxFlows

TypeOK == Types /\ LockHeld /\ WithinLimits

(* However administrators disable, demote and delete each other at the same *)
(* time, one that can log in is left (update_user, remove_user).            *)
LastAdmin == Admins # {}

(* A change of a user that was sent without a password never brings an      *)
(* older one back: only a request with a password changes it.               *)
PasswordAsked ==
  [][\A u \in Users :
       There(user[u]) /\ There(user'[u]) /\ user'[u].password # user[u].password =>
         \E i \in Handlers : /\ h[i].op = "update" /\ h[i].target = u /\ h[i].ask.password
                             /\ h'[i] = Done]_vars

(* Security changes revoke what was issued before: a credential was made    *)
(* from the user's present role and password, unless the request for it was *)
(* already under way when they changed.                                     *)
RevokedStays == \A c \in Creds : There(cred[c]) => cred[c].late \/ cred[c].row = user[cred[c].user]

(* The state of an OIDC login is good for one callback, however often the   *)
(* browser repeats it.                                                      *)
FlowOnce ==
  \A f \in Flows : LET use == {i \in Handlers : h[i].op = "login" /\ h[i].flow = f} IN
    use # {} => flow[f] = Gone /\ Cardinality(use) = 1

(* Two shells are never opened with one ticket. *)
TicketOnce == \A s, t \in Relays : s # t => shell[s].ticket # shell[t].ticket

(* Only the session that asked for a ticket opens a shell with it, even if  *)
(* it is presented by another session of the same administrator.            *)
ShellAsIssued ==
  [][\A s \in Shells : shell[s] = None /\ shell'[s] # None =>
       LET t == ticket[shell'[s].ticket] IN t.cred = shell'[s].cred /\ t.user = shell'[s].user]_vars

(* What is issued for one use is used once. *)
UsedOnce == FlowOnce /\ TicketOnce

(* Passwords and shells go by what was asked and by whom, however requests   *)
(* of several sessions come together.                                        *)
AsAsked == PasswordAsked /\ ShellAsIssued

-----------------------------------------------------------------------------
(* The inductive invariant behind these.                                    *)

(* The row that update has read under the mutex is still that of the user.  *)
RowCurrent ==
  \A i \in Handlers : h[i].op = "update" /\ h[i].read /\ There(h[i].row) => user[h[i].target] = h[i].row

(* The ticket of an open shell is not pending any more.                     *)
TicketSpent == \A s \in Relays : ticket[shell[s].ticket] = Gone

IInv ==
  /\ TypeOK
  /\ LastAdmin
  /\ RevokedStays
  /\ RowCurrent
  /\ TicketSpent
  /\ UsedOnce

=============================================================================
