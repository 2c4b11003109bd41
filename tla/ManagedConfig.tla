---------------------------- MODULE ManagedConfig ----------------------------
(***************************************************************************)
(* The server's TOML configuration: edited by administrators in the web    *)
(* console (webui/page-config), checked and saved by ManagedConfig::edit   *)
(* under a mutex and a file lock, and edited on the host by its operator,  *)
(* who takes no lock.  A revision is the hash of a file and stands for it. *)
(*                                                                         *)
(* A file has two fields that the API may change (session_ttl, which a save *)
(* applies at once, and public_url), one that is managed on the host, and a *)
(* secret that the API shows as a placeholder, if there is one.             *)
(***************************************************************************)
EXTENDS FiniteSets

CONSTANTS
  Tabs,       \* bound: consoles of administrators
  Drafts,     \* bound: what administrators type: [ttl, url, host, secret]
  HostFiles,  \* bound: what the operator writes: [ttl, url, host, secret]
  Override,   \* [ttl, url, host] of command line and environment; None if unset
  Redacted, None

VARIABLES
  saved,      \* the configuration file
  live,       \* current.session_ttl of the running server
  editing,    \* the edit() that is past its checks: [tab, base, next], or None
  leftover,   \* a temporary file that a crash left behind
  writer,     \* who wrote the file last: "api", "host", or "beside" a save under way (history)
  lost,       \* a save overwrote what its author had not seen (history)
  tabs        \* tab -> [revision, draft, asked, review]

vars == <<saved, live, editing, leftover, writer, lost, tabs>>

Written   == Drafts \cup HostFiles
Secrets   == {f.secret : f \in Written} \cup {Redacted}
Documents == {[f EXCEPT !.secret = s] : f \in Written, s \in Secrets}
Asked     == [save : BOOLEAN, draft : Documents]
Tab       == [revision : Documents \cup {None}, draft : Documents \cup {None},
              asked : Asked \cup {None}, review : Documents \cup {None}]

(* What the constants stand for: files have four fields, the operator writes *)
(* no placeholder for a secret, and None is what is absent.                  *)
ConfigConstants ==
  /\ \A f \in Written : f = [ttl |-> f.ttl, url |-> f.url, host |-> f.host, secret |-> f.secret]
  /\ \A f \in HostFiles : f.secret # Redacted
  /\ None \notin Documents /\ None # Redacted

TypeOK ==
  /\ saved \in Documents
  /\ editing # None => editing.tab \in Tabs /\ {editing.base, editing.next} \subseteq Documents
  /\ {leftover, lost} \subseteq BOOLEAN
  /\ writer \in {"host", "beside", "api"}
  /\ tabs \in [Tabs -> Tab]

(* overrides.merge(file), for the lifetime of sessions. *)
EffectiveTtl(f) == IF Override.ttl # None THEN Override.ttl ELSE f.ttl

(* Server::validate of the file under the overrides, which a start requires. *)
Valid(f) == (IF Override.url # None THEN Override.url ELSE f.url) = "good"

Init ==
  /\ saved \in {f \in HostFiles : Valid(f)}
  /\ live = EffectiveTtl(saved)
  /\ editing = None
  /\ leftover = FALSE /\ lost = FALSE
  /\ writer = "host"
  /\ tabs = [t \in Tabs |-> [revision |-> None, draft |-> None, asked |-> None, review |-> None]]

-----------------------------------------------------------------------------
(* Mutant: secrets are shown as they are. *)
ShowAll(f) == f

(* redact() *)
Redact(f) == IF f.secret = None THEN f ELSE [f EXCEPT !.secret = Redacted]

Idle(t) == tabs[t].asked = None

(* describe(): what the page takes over from an answer. *)
Shown(f) == [revision |-> f, draft |-> Redact(f), asked |-> None, review |-> None]

(* The page is opened, or reloaded while nothing is under way; view() takes *)
(* the mutex too.                                                           *)
Load(t) ==
  /\ Idle(t) /\ editing = None
  /\ tabs' = [tabs EXCEPT ![t] = Shown(saved)]
  /\ UNCHANGED <<saved, live, editing, leftover, writer, lost>>

(* The editor takes text even while a request is under way. *)
Type(t, d) ==
  /\ tabs[t].revision # None /\ tabs[t].review = None
  /\ tabs' = [tabs EXCEPT ![t].draft = d]
  /\ UNCHANGED <<saved, live, editing, leftover, writer, lost>>

(* The request carries the draft and the revision the tab has. *)
Ask(t, save) ==
  /\ Idle(t) /\ tabs[t].revision # None
  /\ save <=> tabs[t].review # None
  /\ tabs' = [tabs EXCEPT ![t].asked = [save |-> save, draft |-> tabs[t].draft]]
  /\ UNCHANGED <<saved, live, editing, leftover, writer, lost>>

Keep(t) ==
  /\ Idle(t) /\ tabs[t].review # None
  /\ tabs' = [tabs EXCEPT ![t].review = None]
  /\ UNCHANGED <<saved, live, editing, leftover, writer, lost>>

-----------------------------------------------------------------------------
(* preserve(): a placeholder keeps the stored value. *)
Preserve(next, original) ==
  IF next.secret = Redacted THEN [next EXCEPT !.secret = original.secret] ELSE next

(* Mutant: any revision will do. *)
IsCurrentAny(revision) == TRUE

IsCurrent(revision) == revision = saved

(* Mutant: fields are compared as the overrides leave them. *)
EditableEffective(next) ==
  (Override.host # None \/ next.host = saved.host) /\ next.secret = saved.secret

(* Only MUTABLE_FIELDS may differ, in the file itself, overridden or not; *)
(* secrets are not among them.                                            *)
Editable(next) == next.host = saved.host /\ next.secret = saved.secret

(* Mutant: what is saved is not validated. *)
StartableAny(next) == TRUE

Startable(next) == Valid(next)

(* edit(): everything that it checks. *)
Accepts(t) ==
  /\ IsCurrent(tabs[t].revision)
  /\ tabs[t].asked.draft.secret = Redacted => saved.secret # None
  /\ Startable(Preserve(tabs[t].asked.draft, saved))
  /\ Editable(Preserve(tabs[t].asked.draft, saved))

Refuse(t) ==
  /\ ~Idle(t) /\ editing = None
  /\ \/ ~Accepts(t)
     \/ tabs[t].asked.save /\ leftover
  /\ tabs' = [tabs EXCEPT ![t].asked = None]
  /\ UNCHANGED <<saved, live, editing, leftover, writer, lost>>

Validate(t) ==
  /\ ~Idle(t) /\ editing = None
  /\ ~tabs[t].asked.save
  /\ Accepts(t)
  /\ tabs' = [tabs EXCEPT ![t].asked = None,
                          ![t].review = Redact(Preserve(tabs[t].asked.draft, saved))]
  /\ UNCHANGED <<saved, live, editing, leftover, writer, lost>>

BeginSave(t) ==
  /\ ~Idle(t) /\ editing = None
  /\ tabs[t].asked.save
  /\ Accepts(t)
  /\ ~leftover
  /\ editing' = [tab |-> t, base |-> saved, next |-> Preserve(tabs[t].asked.draft, saved)]
  /\ writer' = IF writer = "beside" THEN "host" ELSE writer
  /\ UNCHANGED <<saved, live, leftover, lost, tabs>>

(* The rename.  The answer may be lost, or the activity not be recorded. *)
Commit ==
  /\ editing # None
  /\ saved' = editing.next
  /\ live' = EffectiveTtl(editing.next)
  /\ editing' = None
  /\ writer' = "api"
  /\ lost' = (lost \/ (writer # "beside" /\ tabs[editing.tab].revision # saved))
  /\ LET t == editing.tab IN
     tabs' \in {[tabs EXCEPT ![t].asked = None],
                [tabs EXCEPT ![t] = Shown(editing.next)]}
  /\ UNCHANGED leftover

(* The server ends and starts again; requests under way fail.  With a file *)
(* that is not valid it stays down until the operator changes it.          *)
Restart ==
  /\ Valid(saved)
  /\ leftover' = (leftover \/ editing # None)
  /\ editing' = None
  /\ live' = EffectiveTtl(saved)
  /\ tabs' = [t \in Tabs |-> [tabs[t] EXCEPT !.asked = None]]
  /\ UNCHANGED <<saved, writer, lost>>

(* The operator of the host writes the file, a save under way or not. *)
HostEdit(f) ==
  /\ f # saved
  /\ saved' = f
  /\ writer' = IF editing # None THEN "beside" ELSE "host"
  /\ UNCHANGED <<live, editing, leftover, lost, tabs>>

Next ==
  \/ Commit \/ Restart
  \/ \E f \in HostFiles : HostEdit(f)
  \/ \E t \in Tabs : \/ Load(t) \/ Keep(t) \/ Refuse(t) \/ Validate(t) \/ BeginSave(t)
                     \/ \E d \in Drafts : Type(t, d)
                     \/ \E save \in BOOLEAN : Ask(t, save)

Spec == Init /\ [][Next]_vars

-----------------------------------------------------------------------------
(* No save overwrites what was written since the revision that its author's *)
(* page has, by another administrator or by the operator of the host, but   *)
(* for what the operator writes between a save's checks and its rename; no  *)
(* placeholder is ever stored for a secret nor a secret shown; secrets and  *)
(* what else is managed on the host change there only, even where an        *)
(* override hides the value; the server can start with what was saved; and  *)
(* sessions live as long as the file that was saved last says.  What is     *)
(* saved is the draft as it is by then, typed on or not since its review.   *)
ConfigHolds ==
  /\ ~lost
  /\ saved.secret # Redacted
  /\ \A t \in Tabs : tabs[t].review # None => tabs[t].review.secret \in {Redacted, None}
  /\ editing # None => editing.next = [editing.base EXCEPT !.ttl = editing.next.ttl, !.url = editing.next.url]
  /\ writer = "api" => live = EffectiveTtl(saved) /\ Valid(saved)

=============================================================================
