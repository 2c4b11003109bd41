------------------------------- MODULE VmConsole -------------------------------
(***************************************************************************)
(* The browser's pages of one VM, as they replace each other in a window:  *)
(* the VM's page (VmPage, VmDetail and its tabs) asks for the VM every     *)
(* five seconds and edits one section of its definition at a time; the     *)
(* form (VmEditor) edits the whole definition, guided or as TOML, with     *)
(* dialogs for sections of the draft.  Every save is a PUT of a whole      *)
(* definition, which the server takes whenever the VM is inactive:         *)
(* definitions have no revision, and others change them as well.           *)
(*                                                                         *)
(* A definition is a value for each of three sections: "shell" is in the   *)
(* fields of the form; "boot", the userdata and the attachments, in its    *)
(* fields and in a dialog; the form keeps the "environment", here one      *)
(* variable, and shows it in a dialog only.                                *)
(***************************************************************************)
EXTENDS Naturals, FiniteSets

CONSTANTS
  Values,     \* of a section
  MaxWrites,  \* bound: changes of the VM's row
  MaxEdits,   \* bound: changes made in the form
  Broken,     \* TOML that does not parse
  None

VARIABLES
  row,      \* the server's VM: [active, spec, version], or None once deleted
  gets,     \* GETs of the VM's page under way: "asked", or <<its answer>>
  view,     \* what that page shows, or None
  newest,   \* the newest version it has shown (a history variable)
  dialog,   \* what is open on it: [kind, value, previous], or None
  call,     \* its request to change the VM, or None
  form,     \* the form: [fields, base, toml, advanced, sent], or None
  wish,     \* the definition its user has put together (a history variable)
  edits     \* changes made in it so far

vars == <<row, gets, view, newest, dialog, call, form, wish, edits>>

Sections == {"shell", "boot", "environment"}
InFields == {"shell", "boot"}
InDialog == {"boot", "environment"}
Specs    == [Sections -> Values]
Vms      == [active : BOOLEAN, spec : Specs, version : 0..MaxWrites]
Form     == [fields : [InFields -> Values], base : Specs, toml : Specs \cup {Broken},
             advanced : BOOLEAN, sent : Specs \cup {None}]

(* What the constants stand for: a bound is a number, None is what is absent, *)
(* and Broken is no definition.                                               *)
ConsoleConstants ==
  /\ MaxWrites \in Nat /\ MaxEdits \in Nat
  /\ None \notin Vms /\ None \notin Specs /\ None \notin Form
  /\ Broken \notin Specs /\ Broken # None

TypeOK ==
  /\ row \in Vms \cup {None}
  /\ gets \subseteq {<<"asked">>} \cup ({"answer"} \X (Vms \cup {None}))
  /\ view \in Vms \cup {None}
  /\ newest \in 0..MaxWrites
  /\ dialog # None => /\ dialog.kind \in InDialog \cup {"delete", "stop"}
                      /\ dialog.kind \in InDialog => dialog.value \in Values
  /\ call # None => /\ call.op \in {"read", "apply", "put", "stop", "start", "delete", "done", "error"}
                    /\ call.op \in {"read", "apply"} => call.kind \in Sections /\ call.value \in Values
                    /\ call.op = "apply" => call.vm \in Vms
                    /\ call.op = "put" => call.spec \in Specs
  /\ form \in Form \cup {None}
  /\ wish \in Specs \cup {Broken, None}
  /\ edits \in 0..MaxEdits
  /\ form = None <=> wish = None
  /\ form # None => view = None /\ gets = {} /\ dialog = None /\ call = None

Init ==
  /\ \E v \in Values : row = [active |-> FALSE, spec |-> [s \in Sections |-> v], version |-> 0]
  /\ gets = {} /\ view = None /\ newest = 0
  /\ dialog = None /\ call = None
  /\ form = None /\ wish = None /\ edits = 0

-----------------------------------------------------------------------------
(* The server *)

Writable == row # None /\ row.version < MaxWrites

(* update_vm *)
Put(spec) ==
  /\ Writable /\ ~row.active
  /\ row' = [row EXCEPT !.spec = spec, !.version = @ + 1]

Refuses == row # None => row.active

(* Another administrator. *)
Elsewhere ==
  /\ \/ \E s \in Sections, v \in Values : row # None /\ row.spec[s] # v /\ Put([row.spec EXCEPT ![s] = v])
     \/ Writable /\ row' = [row EXCEPT !.active = ~@, !.version = @ + 1]
  /\ UNCHANGED <<gets, view, newest, dialog, call, form, wish, edits>>

-----------------------------------------------------------------------------
(* What the VM's page shows *)

(* Mutant: the answer to an earlier GET is still waited for. *)
RestartOneMore == gets \cup {<<"asked">>}

(* use_resource: asked again, the task of the GET before is dropped. *)
Restart == {<<"asked">>}

Poll ==
  /\ form = None
  /\ gets' = Restart
  /\ UNCHANGED <<row, view, newest, dialog, call, form, wish, edits>>

Read ==
  /\ <<"asked">> \in gets
  /\ gets' = (gets \ {<<"asked">>}) \cup {<<"answer", row>>}
  /\ UNCHANGED <<row, view, newest, dialog, call, form, wish, edits>>

(* Without the VM its components are gone, and the tasks they have spawned. *)
Show ==
  /\ \E get \in gets \ {<<"asked">>} :
       /\ gets' = gets \ {get}
       /\ view' = get[2]
       /\ IF get[2] = None
          THEN dialog' = None /\ call' = None /\ UNCHANGED newest
          ELSE /\ newest' = IF get[2].version > newest THEN get[2].version ELSE newest
               /\ UNCHANGED <<dialog, call>>
  /\ UNCHANGED <<row, form, wish, edits>>

-----------------------------------------------------------------------------
(* What is done on the VM's page *)

Idle     == view # None /\ call = None
Editable == Idle /\ ~view.active

Open(kind) ==
  /\ dialog = None /\ Editable
  /\ dialog' = [kind |-> kind, value |-> view.spec[kind], previous |-> view.spec[kind]]
  /\ UNCHANGED <<row, gets, view, newest, call, form, wish, edits>>

Type(v) ==
  /\ dialog # None /\ dialog.kind \in InDialog /\ Idle
  /\ v # dialog.value
  /\ dialog' = [dialog EXCEPT !.value = v]
  /\ UNCHANGED <<row, gets, view, newest, call, form, wish, edits>>

(* The definition as the page shows it now, with new boot inputs. *)
SaveBoot ==
  /\ dialog # None /\ dialog.kind = "boot" /\ Idle
  /\ call' = [op |-> "put", kind |-> "boot", previous |-> None,
             spec |-> [view.spec EXCEPT !.boot = dialog.value], seen |-> view.version]
  /\ UNCHANGED <<row, gets, view, newest, dialog, form, wish, edits>>

(* mutation::save reads the VM first. *)
SaveVariable ==
  /\ dialog # None /\ dialog.kind = "environment" /\ Idle
  /\ call' = [op |-> "read", kind |-> "environment", previous |-> dialog.previous, value |-> dialog.value]
  /\ UNCHANGED <<row, gets, view, newest, dialog, form, wish, edits>>

(* So does the button that enables the shell. *)
EnableShell(v) ==
  /\ dialog = None /\ Editable
  /\ call' = [op |-> "read", kind |-> "shell", previous |-> None, value |-> v]
  /\ UNCHANGED <<row, gets, view, newest, dialog, form, wish, edits>>

ReadFirst ==
  /\ call # None /\ call.op = "read"
  /\ call' = IF row = None THEN [op |-> "error"]
             ELSE [op |-> "apply", kind |-> call.kind, previous |-> call.previous, value |-> call.value, vm |-> row]
  /\ UNCHANGED <<row, gets, view, newest, dialog, form, wish, edits>>

(* Mutant: the variable is replaced whatever it is by now. *)
UnchangedAny == TRUE

(* ensure_unchanged *)
Unchanged == call.vm.spec.environment = call.previous

Apply ==
  /\ call # None /\ call.op = "apply"
  /\ call' = IF call.kind = "environment" /\ (call.vm.active \/ ~Unchanged)
             THEN [op |-> "error"]
             ELSE [op |-> "put", kind |-> call.kind, previous |-> call.previous,
                   spec |-> [call.vm.spec EXCEPT ![call.kind] = call.value], seen |-> call.vm.version]
  /\ UNCHANGED <<row, gets, view, newest, dialog, form, wish, edits>>

Press ==
  /\ Idle /\ dialog = None
  /\ IF view.active
     THEN dialog' = [kind |-> "stop"] /\ UNCHANGED call
     ELSE \/ call' = [op |-> "start"] /\ UNCHANGED dialog
          \/ dialog' = [kind |-> "delete"] /\ UNCHANGED call
  /\ UNCHANGED <<row, gets, view, newest, form, wish, edits>>

(* Whatever the page shows by now. *)
Confirm ==
  /\ dialog # None /\ dialog.kind \in {"stop", "delete"}
  /\ call' = [op |-> dialog.kind]
  /\ dialog' = None
  /\ UNCHANGED <<row, gets, view, newest, form, wish, edits>>

Close ==
  /\ dialog # None /\ call = None
  /\ dialog' = None
  /\ UNCHANGED <<row, gets, view, newest, call, form, wish, edits>>

(* The server serves the request; its answer may be lost. *)
Serve ==
  /\ call # None
  /\ \/ call.op = "put" /\ Put(call.spec)
     \/ /\ call.op \in {"start", "stop"} /\ Writable
        /\ row' = [row EXCEPT !.active = (call.op = "start"), !.version = @ + 1]
     \/ call.op = "delete" /\ ~Refuses /\ row' = None
  /\ \E op \in {"done", "error"} : call' = [op |-> op]
  /\ UNCHANGED <<gets, view, newest, dialog, form, wish, edits>>

Refuse ==
  /\ call # None /\ call.op \in {"put", "start", "stop", "delete"}
  /\ Refuses
  /\ call' = [op |-> "error"]
  /\ UNCHANGED <<row, gets, view, newest, dialog, form, wish, edits>>

(* Once saved the dialog is closed and the VM asked for. *)
Answered ==
  /\ call # None /\ call.op \in {"done", "error"}
  /\ call' = None
  /\ IF call.op = "done" THEN dialog' = None /\ gets' = Restart ELSE UNCHANGED <<dialog, gets>>
  /\ UNCHANGED <<row, view, newest, form, wish, edits>>

-----------------------------------------------------------------------------
(* The form *)

(* "Configure" leaves the VM's page for EditVmPage, which asks for the VM once. *)
OpenForm ==
  /\ dialog = None /\ Editable
  /\ row # None /\ ~row.active
  /\ gets' = {} /\ view' = None
  /\ form' = [fields |-> [s \in InFields |-> row.spec[s]], base |-> row.spec, toml |-> row.spec,
              advanced |-> FALSE, sent |-> None]
  /\ wish' = row.spec
  /\ UNCHANGED <<row, newest, dialog, call, edits>>

(* Mutant: what the form does not show is left out. *)
MergedOnly(base, fields) == [s \in Sections |-> IF s \in InFields THEN fields[s] ELSE CHOOSE v \in Values : TRUE]

(* merge_guided: "Replace guided fields while retaining settings edited *)
(* elsewhere."                                                          *)
Merged(base, fields) == [s \in Sections |-> IF s \in InFields THEN fields[s] ELSE base[s]]

Editing(advanced) ==
  /\ form # None /\ form.sent = None /\ form.advanced = advanced
  /\ edits < MaxEdits /\ edits' = edits + 1
  /\ UNCHANGED <<row, gets, view, newest, dialog, call>>

EditField(s, v) ==
  /\ Editing(FALSE)
  /\ form' = [form EXCEPT !.fields[s] = v]
  /\ wish' = [wish EXCEPT ![s] = v]

(* Mutant: a section is applied to what the fields do not show only. *)
AppliedToBase(kind, v) == form.fields

(* apply_section *)
Applied(kind, v) == IF kind \in InFields THEN [form.fields EXCEPT ![kind] = v] ELSE form.fields

(* A dialog on a section of the draft, from its opening to "Apply to draft". *)
EditSection(kind, v) ==
  /\ Editing(FALSE)
  /\ form' = [form EXCEPT !.base = [Merged(form.base, form.fields) EXCEPT ![kind] = v],
                          !.fields = Applied(kind, v)]
  /\ wish' = [wish EXCEPT ![kind] = v]

EditToml(text) ==
  /\ Editing(TRUE)
  /\ form' = [form EXCEPT !.toml = text]
  /\ wish' = text

Switching(advanced) ==
  /\ form # None /\ form.sent = None /\ form.advanced # advanced
  /\ UNCHANGED <<row, gets, view, newest, dialog, call, wish, edits>>

(* Mutant: the text is made once. *)
TomlAtFirst == form.toml

Toml == Merged(form.base, form.fields)

ToToml ==
  /\ Switching(TRUE)
  /\ form' = [form EXCEPT !.toml = Toml, !.advanced = TRUE]

(* Mutant: the fields stay as they were. *)
LoadedNot(spec) == form.fields

(* Fields::load *)
Loaded(spec) == [s \in InFields |-> spec[s]]

ToGuided ==
  /\ Switching(FALSE)
  /\ form.toml # Broken
  /\ form' = [form EXCEPT !.fields = Loaded(form.toml), !.base = form.toml, !.advanced = FALSE]

SubmitForm ==
  /\ form # None /\ form.sent = None
  /\ form.advanced => form.toml # Broken
  /\ form' = [form EXCEPT !.sent = IF form.advanced THEN form.toml ELSE Merged(form.base, form.fields)]
  /\ UNCHANGED <<row, gets, view, newest, dialog, call, wish, edits>>

(* The form is left once it is saved, and stays with the error otherwise. *)
ServeForm ==
  /\ form # None /\ form.sent # None
  /\ \/ /\ Put(form.sent)
        /\ \/ form' = None /\ wish' = None
           \/ form' = [form EXCEPT !.sent = None] /\ UNCHANGED wish
     \/ Refuses /\ form' = [form EXCEPT !.sent = None] /\ UNCHANGED <<row, wish>>
  /\ UNCHANGED <<gets, view, newest, dialog, call, edits>>

CancelForm ==
  /\ form # None /\ form.sent = None
  /\ form' = None /\ wish' = None
  /\ UNCHANGED <<row, gets, view, newest, dialog, call, edits>>

Next ==
  \/ Elsewhere \/ Poll \/ Read \/ Show
  \/ \E kind \in InDialog : Open(kind)
  \/ \E v \in Values : Type(v) \/ EnableShell(v)
  \/ SaveBoot \/ SaveVariable \/ ReadFirst \/ Apply
  \/ Press \/ Confirm \/ Close \/ Serve \/ Refuse \/ Answered
  \/ OpenForm \/ ToToml \/ ToGuided \/ SubmitForm \/ ServeForm \/ CancelForm
  \/ \E s \in InFields, v \in Values : EditField(s, v)
  \/ \E kind \in InDialog, v \in Values : EditSection(kind, v)
  \/ \E text \in Specs \cup {Broken} : EditToml(text)

Spec == Init /\ [][Next]_vars

-----------------------------------------------------------------------------
(* The page never goes back to an older VM.  Whichever way the form was put *)
(* together, in fields, dialogs and text and back, what it shows and saves  *)
(* is what its user has put together on the definition it was opened with.  *)
(* And a save from the page replaces nothing but its own section of the     *)
(* definition that it has read, a variable only if it was by then still     *)
(* what the user has seen.  Definitions have no revision: what others save  *)
(* between the read and the PUT is lost without a word, and so is all that  *)
(* they save while a form is open.                                          *)
ConsoleHolds ==
  /\ view # None => view.version = newest
  /\ form # None => /\ wish = IF form.advanced THEN form.toml ELSE Merged(form.base, form.fields)
                    /\ form.sent \in {None, wish}
  /\ (call # None /\ call.op = "put" /\ row # None /\ row.version = call.seen) =>
       /\ \A s \in Sections \ {call.kind} : row.spec[s] = call.spec[s]
       /\ call.kind = "environment" => row.spec.environment = call.previous

================================================================================
