------------------------------- MODULE Library -------------------------------
(***************************************************************************)
(* The catalogs of files: snapshots, file assets and kernels.  Each keeps  *)
(* files in a directory beside rows in the database, under one mutex, and  *)
(* a crash or a client that disconnects may separate the two.  A behaviour *)
(* is about one of them, chosen at the start; they share no state.         *)
(***************************************************************************)
EXTENDS Naturals, FiniteSets

CONSTANTS
  Uuids,      \* bound: names the server makes up for uploads, used once
  Plain,      \* bound: names that an administrator gives to a file
  Aliases,    \* bound: aliases
  Contents,   \* bound: contents of a file
  Handlers,   \* bound: requests, each served once
  MaxFaults,  \* bound: dropped handlers, crashes and failing calls together
  None

ASSUME LibraryConstants ==
  /\ Uuids \cap Plain = {}
  /\ MaxFaults \in Nat
  /\ None \notin Aliases \cup Contents \cup Handlers \cup {"put", "delete", "done"}

Names == Uuids \cup Plain
Kinds == {"snapshots", "assets", "kernels"}

VARIABLES
  kind,    \* which catalog this is
  file,    \* the directory: the content of each file
  row,     \* the table: alias, the content that was hashed, and for a snapshot if it is trusted
  mutex,   \* its mutex: "snapshot-library", "file-assets" or "kernels"
  h,       \* the handlers
  late,    \* writes on the blocking pool whose handler is gone
  cut,     \* names on which an operation was cut off or failed half-way (a history variable)
  faults   \* how often something failed

library == <<kind, file, row, mutex, h, late, cut, faults>>

Row     == [alias : Aliases, content : Contents, trusted : BOOLEAN]
Idle    == [op |-> None]
Done    == [op |-> "done"]
Put     == [op : {"put"}, step : {"check", "again", "file", "row"}, name : Names, alias : Aliases,
            content : Contents, trusted : BOOLEAN]
Delete  == [op : {"delete"}, step : {"unlink", "row"}, name : Names]

ASSUME NoneIsNoRow == None \notin Row

LibraryTypeOK ==
  /\ kind \in Kinds
  /\ file \in [Names -> Contents \cup {None}]
  /\ row \in [Names -> Row \cup {None}]
  /\ mutex \in Handlers \cup {None}
  /\ h \in [Handlers -> Put \cup Delete \cup {Idle, Done}]
  /\ late \subseteq Names \X Contents
  /\ cut \subseteq Names
  /\ faults \in 0..MaxFaults
  /\ \A i \in Handlers : mutex = i <=> h[i] \in Delete \/ (h[i] \in Put /\ h[i].step \in {"file", "row"})

LibraryInit ==
  /\ kind \in Kinds
  /\ file = [n \in Names |-> None]
  /\ row = [n \in Names |-> None]
  /\ mutex = None
  /\ h = [i \in Handlers |-> Idle]
  /\ late = {}
  /\ cut = {}
  /\ faults = 0

-----------------------------------------------------------------------------
Fault     == faults < MaxFaults /\ faults' = faults + 1
Kept      == UNCHANGED <<kind, faults>>
Goes(i, s) == h' = [h EXCEPT ![i].step = s]

(* Mutant: a request that fails keeps the mutex. *)
EndsHolding(i) == h' = [h EXCEPT ![i] = Done] /\ UNCHANGED mutex

Ends(i)   == h' = [h EXCEPT ![i] = Done] /\ mutex' = IF mutex = i THEN None ELSE mutex
Used(n)   == \E i \in Handlers : h[i] \in Put /\ h[i].name = n
Taken     == {row[n].alias : n \in {m \in Names : row[m] # None}}

(* Mutant: an upload that was interrupted is taken for a new file. *)
AdoptableAny(n) == row[n] = None /\ file[n] # None

(* A file that an administrator put into the directory: kernels_locked,    *)
(* discover_file_assets.  Names of the server's own are left alone.        *)
Adoptable(n) == row[n] = None /\ file[n] # None /\ kind # "snapshots" /\ (kind = "assets" => n \in Plain)

(* What a listing of the catalog adopts, with an alias that is free        *)
(* (available_alias derives it from the file's name).                      *)
Adopted(new) ==
  /\ \A n \in Names : IF Adoptable(n) THEN new[n] \in [alias : Aliases \ Taken, content : {file[n]}, trusted : {FALSE}]
                                      ELSE new[n] = row[n]
  /\ \A m, n \in Names : m # n /\ Adoptable(m) /\ Adoptable(n) => new[m].alias # new[n].alias

Listed == \E new \in [Names -> Row \cup {None}] : Adopted(new) /\ row' = new

(* GET of the catalog; only kernels are also listed by its other handlers. *)
List ==
  /\ kind # "snapshots"
  /\ mutex = None
  /\ \E n \in Names : Adoptable(n)
  /\ Listed
  /\ cut' = {n \in cut : row'[n] = row[n]}
  /\ UNCHANGED <<kind, file, mutex, h, late, faults>>

(* An administrator copies a file into the directory. *)
ServerAdds(n, c) ==
  /\ kind # "snapshots"
  /\ n \in Plain
  /\ file[n] = None
  /\ row[n] = None
  /\ file' = [file EXCEPT ![n] = c]
  /\ UNCHANGED <<kind, row, mutex, h, late, cut, faults>>

-----------------------------------------------------------------------------
(* Uploads and imports *)

(* An upload is checked once, an import before and after its download. *)
AskPut(i, n, a, c, t) ==
  /\ h[i] = Idle
  /\ IF kind = "kernels" THEN n \in Plain ELSE n \in Uuids /\ file[n] = None /\ row[n] = None /\ ~Used(n)
                                               /\ n \notin cut /\ \A x \in late : x[1] # n
  /\ t => kind = "snapshots"
  /\ \E s \in {"check", "again"} :
       h' = [h EXCEPT ![i] = [op |-> "put", step |-> s, name |-> n, alias |-> a, content |-> c, trusted |-> t]]
  /\ UNCHANGED <<kind, file, row, mutex, late, cut, faults>>

(* ensure_asset_alias_available, ensure_kernel_alias_available_locked and  *)
(* the check of publish_snapshot.                                          *)
Available(a, n) == \A m \in Names : row[m] # None /\ row[m].alias = a => kind = "kernels" /\ m = n

Check(i) ==
  /\ h[i] \in Put
  /\ h[i].step = "check"
  /\ mutex = None
  /\ IF Available(h[i].alias, h[i].name) THEN Goes(i, "again") /\ UNCHANGED mutex ELSE Ends(i)
  /\ UNCHANGED <<kind, file, row, late, cut, faults>>

(* Mutant: what was checked before the download is taken for granted. *)
StillAvailableAny(i) == TRUE

StillAvailable(i) == Available(h[i].alias, h[i].name)

Recheck(i) ==
  /\ h[i] \in Put
  /\ h[i].step = "again"
  /\ mutex = None
  /\ IF StillAvailable(i) THEN Goes(i, "file") /\ mutex' = i ELSE Ends(i)
  /\ UNCHANGED <<kind, file, row, late, cut, faults>>

(* Mutant: the new file replaces one of the same name. *)
PublishOver(n, c) == file' = [file EXCEPT ![n] = c]

(* Directory::publish (persist_noclobber); a snapshot's file is renamed to *)
(* a name that nothing has.                                                *)
Publish(n, c) == file' = IF file[n] = None THEN [file EXCEPT ![n] = c] ELSE file

PutFile(i) ==
  /\ h[i] \in Put
  /\ h[i].step = "file"
  /\ Publish(h[i].name, h[i].content)
  /\ IF file[h[i].name] = None THEN Goes(i, "row") /\ UNCHANGED mutex ELSE Ends(i)
  /\ UNCHANGED <<kind, row, late, cut, faults>>

PutRow(i) ==
  /\ h[i] \in Put
  /\ h[i].step = "row"
  /\ row' = [row EXCEPT ![h[i].name] = [alias |-> h[i].alias, content |-> h[i].content, trusted |-> h[i].trusted]]
  /\ cut' = cut \ {h[i].name}
  /\ Ends(i)
  /\ UNCHANGED <<kind, file, late, faults>>

(* Mutant: the file of a row that was not written stays. *)
UndoNot(n) == UNCHANGED file

Undo(n) == file' = [file EXCEPT ![n] = None]

(* The row cannot be written: the file is removed again, if that works. *)
PutRowFails(i) ==
  /\ h[i] \in Put
  /\ h[i].step = "row"
  /\ Fault
  /\ \/ Undo(h[i].name) /\ UNCHANGED cut
     \/ cut' = cut \cup {h[i].name} /\ UNCHANGED file
  /\ Ends(i)
  /\ UNCHANGED <<kind, row, late>>

-----------------------------------------------------------------------------
(* Deletion, of what no VM refers to (ResourceLocks) *)

AskDelete(i, n) ==
  /\ h[i] = Idle
  /\ mutex = None
  /\ IF kind = "kernels" THEN file[n] # None ELSE row[n] # None
  /\ h' = [h EXCEPT ![i] = [op |-> "delete", step |-> "unlink", name |-> n]]
  /\ mutex' = i
  /\ UNCHANGED <<kind, file, row, late, cut, faults>>

(* Directory::remove fails when there is no file; delete_snapshot_locked   *)
(* goes on, so that a deletion that was cut off can be repeated.           *)
Unlink(i) ==
  /\ h[i] \in Delete
  /\ h[i].step = "unlink"
  /\ IF file[h[i].name] # None \/ kind = "snapshots"
     THEN Goes(i, "row") /\ UNCHANGED mutex ELSE Ends(i)
  /\ file' = [file EXCEPT ![h[i].name] = None]
  /\ UNCHANGED <<kind, row, late, cut, faults>>

Unrow(i) ==
  /\ h[i] \in Delete
  /\ h[i].step = "row"
  /\ \/ row' = [row EXCEPT ![h[i].name] = None] /\ cut' = cut \ {h[i].name} /\ UNCHANGED faults
     \/ Fault /\ cut' = cut \cup {h[i].name} /\ UNCHANGED row
  /\ Ends(i)
  /\ UNCHANGED <<kind, file, late>>

-----------------------------------------------------------------------------
(* alias_file_asset, alias_kernel *)
SetAlias(n, a) ==
  /\ kind # "snapshots"
  /\ mutex = None
  /\ row[n] # None
  /\ kind = "kernels" => file[n] # None
  /\ \A m \in Names : row[m] # None /\ row[m].alias = a => m = n
  /\ row' = [row EXCEPT ![n].alias = a]
  /\ UNCHANGED <<kind, file, mutex, h, late, cut, faults>>

(* trust_snapshot *)
Trust(n) ==
  /\ kind = "snapshots"
  /\ mutex = None
  /\ row[n] # None
  /\ row' = [row EXCEPT ![n].trusted = TRUE]
  /\ UNCHANGED <<kind, file, mutex, h, late, cut, faults>>

Half(i) == IF h[i] \in Put \cup Delete /\ h[i].step = "row" THEN {h[i].name} ELSE {}

(* The client disconnects.  A write handed to the blocking pool goes on.   *)
Dropped(i) ==
  /\ mutex = i
  /\ Fault
  /\ late' = IF h[i] \in Put /\ h[i].step = "file" THEN late \cup {<<h[i].name, h[i].content>>} ELSE late
  /\ cut' = cut \cup Half(i)
  /\ Ends(i)
  /\ UNCHANGED <<kind, file, row>>

LateWrite(x) ==
  /\ x \in late
  /\ late' = late \ {x}
  /\ Publish(x[1], x[2])
  /\ cut' = IF file[x[1]] = None THEN cut \cup {x[1]} ELSE cut
  /\ UNCHANGED <<kind, row, mutex, h, faults>>

Crash ==
  /\ Fault
  /\ cut' = cut \cup UNION {Half(i) : i \in Handlers}
  /\ late' = {}
  /\ mutex' = None
  /\ h' = [i \in Handlers |-> IF h[i] = Idle THEN Idle ELSE Done]
  /\ UNCHANGED <<kind, file, row>>

LibraryStep ==
  \/ List
  \/ \E n \in Names : \/ \E c \in Contents : ServerAdds(n, c)
                      \/ \E a \in Aliases : SetAlias(n, a)
                      \/ Trust(n)
  \/ \E i \in Handlers :
       \/ \E n \in Names : \/ AskDelete(i, n)
                           \/ \E a \in Aliases, c \in Contents, t \in BOOLEAN : AskPut(i, n, a, c, t)
       \/ Check(i) \/ Recheck(i) \/ PutFile(i) \/ PutRow(i) \/ PutRowFails(i)
       \/ Unlink(i) \/ Unrow(i) \/ Dropped(i)
  \/ \E x \in late : LateWrite(x)

LibraryNext == LibraryStep \/ Crash

LibrarySpec == LibraryInit /\ [][LibraryNext]_library

-----------------------------------------------------------------------------
Worked(n) == \E i \in Handlers : n \in Half(i)

(* Every row has the file that was hashed for it, and every file that the  *)
(* server made has its row, except where an operation was cut off between  *)
(* the two and nothing has repaired it since.                              *)
Coherent ==
  \A n \in Names \ cut :
    \/ Worked(n)
    \/ /\ row[n] # None => file[n] = row[n].content
       /\ row[n] = None /\ file[n] # None => kind # "snapshots" /\ n \in Plain

(* However uploads, imports, renames and adoptions overlap, the unique     *)
(* index on aliases has nothing to refuse.                                 *)
AliasesUnique ==
  \A m, n \in Names : m # n /\ row[m] # None /\ row[n] # None => row[m].alias # row[n].alias

(* A file in a catalog never becomes another: what a row's hash was taken  *)
(* of stays until it is deleted.                                           *)
NoClobber == [][\A n \in Names : file[n] # None => file'[n] \in {file[n], None}]_library

(* What an interrupted upload left behind is never listed as an asset or a  *)
(* snapshot (the comment in import.rs).                                     *)
InterruptedStaysOut ==
  [][\A n \in Uuids : row[n] = None /\ row'[n] # None => \E i \in Handlers : n \in Half(i)]_library

-----------------------------------------------------------------------------
(* The inductive invariant behind these.                                     *)

(* A name that the server made up is used for one upload: while that is      *)
(* under way, or its write is late, the name has no row; and a deletion is   *)
(* of a row.                                                                 *)
NamesOnce ==
  kind # "kernels" =>
    /\ \A i \in Handlers : h[i] \in Put => h[i].name \in Uuids /\ row[h[i].name] = None
    /\ \A i, j \in Handlers : h[i] \in Put /\ h[j] \in Put /\ h[i].name = h[j].name => i = j
    /\ \A x \in late : x[1] \in Uuids /\ row[x[1]] = None /\ ~Used(x[1])
    /\ \A i \in Handlers : h[i] \in Delete => row[h[i].name] # None

(* Kernels have the names that administrators gave them.                     *)
KernelNames ==
  kind = "kernels" =>
    /\ \A n \in Uuids : file[n] = None /\ row[n] = None
    /\ \A i \in Handlers : h[i] \in Put => h[i].name \in Plain
    /\ \A x \in late : x[1] \in Plain

(* What a handler has found and done stays so until it gives the mutex back. *)
PutInOrder ==
  \A i \in Handlers : h[i] \in Put =>
    /\ h[i].step \in {"file", "row"} => Available(h[i].alias, h[i].name)
    /\ h[i].step = "row" => /\ file[h[i].name] = h[i].content
                            /\ row[h[i].name] = None \/ h[i].name \in cut

DeleteInOrder ==
  \A i \in Handlers : h[i] \in Delete /\ h[i].step = "row" =>
    file[h[i].name] = None \/ (kind # "snapshots" /\ h[i].name \in Plain)

LibraryInv ==
  /\ LibraryTypeOK
  /\ NamesOnce
  /\ KernelNames
  /\ PutInOrder
  /\ DeleteInOrder
  /\ Coherent
  /\ AliasesUnique
=============================================================================
