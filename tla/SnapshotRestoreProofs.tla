----------------------- MODULE SnapshotRestoreProofs -----------------------
(***************************************************************************)
(* IInv of SnapshotRestore is inductive.  Its part about the library,      *)
(* LibraryInv, is kept by every step of Library whatever the VM does; the  *)
(* other conjuncts follow a file of the VM from its place to the backup of *)
(* a restore and back.                                                     *)
(*                                                                         *)
(* There is one lemma per action.  That of an action of the library has    *)
(* one step per conjunct of LibraryInv; that of an action of the VM has    *)
(* one per conjunct of IInv, and one for AnswersWhole, which is about the  *)
(* step itself.                                                            *)
(***************************************************************************)
EXTENDS SnapshotRestore, TLAPS

-----------------------------------------------------------------------------
(* The library *)

(* What a handler does tells its records apart.                           *)
LEMMA HandlerTags ==
  /\ Idle \notin Put \cup Delete /\ Done \notin Put \cup Delete /\ Idle # Done
  /\ Put \cap Delete = {}
  BY LibraryConstants DEF Idle, Done, Put, Delete

(* A handler that goes on keeps its name, and the others their places.    *)
LEMMA GoesOn ==
  ASSUME LibraryTypeOK, NEW i \in Handlers, NEW s, Goes(i, s),
         (h[i] \in Put /\ s \in {"again", "file", "row"}) \/ (h[i] \in Delete /\ s = "row")
  PROVE  /\ h' \in [Handlers -> Put \cup Delete \cup {Idle, Done}]
         /\ h'[i].step = s /\ h'[i].name = h[i].name
         /\ h[i] \in Put => h'[i] \in Put /\ h'[i].alias = h[i].alias /\ h'[i].content = h[i].content
         /\ h[i] \in Delete => h'[i] \in Delete
         /\ \A j \in Handlers : j # i => h'[j] = h[j]
<1>1. h' = [h EXCEPT ![i].step = s] /\ h \in [Handlers -> Put \cup Delete \cup {Idle, Done}]
  BY DEF Goes, LibraryTypeOK
<1>2. h'[i] = [h[i] EXCEPT !.step = s] /\ \A j \in Handlers : j # i => h'[j] = h[j]
  BY <1>1
<1>3. CASE h[i] \in Put
  <2>1. /\ h'[i] \in Put /\ h'[i].step = s
        /\ h'[i].name = h[i].name /\ h'[i].alias = h[i].alias /\ h'[i].content = h[i].content
    BY <1>2, <1>3 DEF Put
  <2> QED BY <1>1, <1>3, <2>1, HandlerTags
<1>4. CASE h[i] \in Delete
  <2>1. h'[i] \in Delete /\ h'[i].step = s /\ h'[i].name = h[i].name
    BY <1>2, <1>4, HandlerTags DEF Delete
  <2> QED BY <1>1, <1>4, <2>1, HandlerTags
<1> QED BY <1>3, <1>4

(* A handler that ends gives back the mutex, if it holds it.              *)
LEMMA EndsDone ==
  ASSUME LibraryTypeOK, NEW i \in Handlers, Ends(i)
  PROVE  /\ h' \in [Handlers -> Put \cup Delete \cup {Idle, Done}]
         /\ h'[i] = Done
         /\ \A j \in Handlers : j # i => h'[j] = h[j]
         /\ mutex' = IF mutex = i THEN None ELSE mutex
  BY DEF Ends, LibraryTypeOK

(* The fields of a publication, ...                                       *)
LEMMA PutFields ==
  ASSUME NEW p \in Put
  PROVE  /\ p.name \in Names /\ p.alias \in Aliases /\ p.content \in Contents
         /\ p.trusted \in BOOLEAN /\ p.step \in {"check", "again", "file", "row"}
  BY DEF Put

(* ... of a deletion, ...                                                 *)
LEMMA DeleteFields ==
  ASSUME NEW p \in Delete
  PROVE  p.name \in Names /\ p.step \in {"unlink", "row"}
  BY DEF Delete

(* ... and of a row.                                                      *)
LEMMA RowFields ==
  ASSUME NEW r \in Row
  PROVE  r # None /\ r.alias \in Aliases /\ r.content \in Contents
  BY NoneIsNoRow DEF Row

(* A row has what it was made of.                                         *)
LEMMA PutRowFields ==
  ASSUME NEW a, NEW c, NEW t
  PROVE  /\ [alias |-> a, content |-> c, trusted |-> t].alias = a
         /\ [alias |-> a, content |-> c, trusted |-> t].content = c
         /\ (a \in Aliases /\ c \in Contents /\ t \in BOOLEAN)
              => [alias |-> a, content |-> c, trusted |-> t] \in Row
  BY DEF Row

(* Where a publication begins, ...                                        *)
LEMMA NewPut ==
  ASSUME NEW s \in {"check", "again"}, NEW n \in Names, NEW a \in Aliases, NEW c \in Contents,
         NEW t \in BOOLEAN
  PROVE  LET p == [op |-> "put", step |-> s, name |-> n, alias |-> a, content |-> c, trusted |-> t]
         IN  p \in Put /\ p.step = s /\ p.name = n
  BY DEF Put

(* ... and where a deletion does.                                         *)
LEMMA NewDelete ==
  ASSUME NEW n \in Names
  PROVE  LET d == [op |-> "delete", step |-> "unlink", name |-> n]
         IN  d \in Delete /\ d.step = "unlink" /\ d.name = n
  BY DEF Delete

(* What changes when an alias or the trust of a row does.                 *)
LEMMA RowChanges ==
  ASSUME NEW r \in Row
  PROVE  /\ \A a \in Aliases : /\ [r EXCEPT !.alias = a] \in Row /\ [r EXCEPT !.alias = a].alias = a
                             /\ [r EXCEPT !.alias = a].content = r.content
         /\ [r EXCEPT !.trusted = TRUE] \in Row /\ [r EXCEPT !.trusted = TRUE].alias = r.alias
         /\ [r EXCEPT !.trusted = TRUE].content = r.content
  BY DEF Row

(* What the rows are after startup has taken over the files.              *)
LEMMA ListRows ==
  ASSUME LibraryTypeOK, List
  PROVE  /\ row' \in [Names -> Row \cup {None}]
         /\ \A n \in Names : Adoptable(n) => /\ row'[n] \in Row /\ row'[n].content = file[n]
                                              /\ \A m \in Names : row[m] # None
                                                   => row'[n].alias # row[m].alias
         /\ \A n \in Names : ~Adoptable(n) => row'[n] = row[n]
         /\ \A m, n \in Names : m # n /\ Adoptable(m) /\ Adoptable(n) => row'[m].alias # row'[n].alias
<1>1. PICK new \in [Names -> Row \cup {None}] : Adopted(new) /\ row' = new
  BY DEF List, Listed
<1>2. \A n \in Names : Adoptable(n) => /\ row'[n] \in Row /\ row'[n].content = file[n]
                                        /\ row'[n].alias \notin Taken
  BY <1>1 DEF Adopted, Row, Adoptable, LibraryTypeOK
<1>3. \A n, m \in Names : Adoptable(n) /\ row[m] # None => row'[n].alias # row[m].alias
  BY <1>2 DEF Taken
<1> QED BY <1>1, <1>2, <1>3 DEF Adopted

(* Startup gives a row to each file that may be taken over, under an      *)
(* alias of its own.                                                      *)
LEMMA ListKeeps ==
  ASSUME LibraryInv, List
  PROVE  LibraryInv'
<1>1. LibraryTypeOK'
  BY ListRows DEF LibraryInv, LibraryTypeOK, Half, Fault, List, Adoptable
<1>2. NamesOnce'
  <2>1. UNCHANGED <<kind, h, late>> /\ kind # "snapshots"
    BY DEF List
  <2>2. kind # "kernels" => \A n \in Uuids : ~Adoptable(n)
    BY <2>1, LibraryConstants DEF Adoptable, LibraryInv, LibraryTypeOK, Kinds
  <2>3. \A n \in Names : row[n] # None => row'[n] # None
    BY ListRows DEF Adoptable, LibraryInv
  <2>4. kind # "kernels" => \A n \in Uuids : row'[n] = row[n]
    BY <2>2, ListRows DEF LibraryInv, Names
  <2>5. \A x \in late : Used(x[1])' <=> Used(x[1])
    BY <2>1 DEF Used
  <2> QED BY <2>1, <2>3, <2>4, <2>5, DeleteFields DEF LibraryInv, NamesOnce
<1>3. KernelNames'
  BY ListRows DEF LibraryInv, LibraryTypeOK, KernelNames, Names, List, Adoptable
<1>4. PutInOrder'
  BY LibraryConstants, PutFields, DeleteFields, RowFields, NoneIsNoRow, ListRows
    DEF LibraryInv, LibraryTypeOK, PutInOrder, Available, Coherent, Worked, Half, List, Adoptable
<1>5. DeleteInOrder'
  BY DEF LibraryInv, LibraryTypeOK, DeleteInOrder, NamesOnce, KernelNames, List, Adoptable
<1>6. Coherent'
  BY ListRows
    DEF LibraryInv, LibraryTypeOK, Coherent, Worked, Half, NamesOnce, KernelNames, PutInOrder,
        DeleteInOrder, Names, List, Adoptable
<1>7. AliasesUnique'
  BY ListRows
    DEF LibraryInv, LibraryTypeOK, AliasesUnique, PutInOrder, Available, Taken, List, Adoptable
<1> QED BY <1>1, <1>2, <1>3, <1>4, <1>5, <1>6, <1>7 DEF LibraryInv

(* The server puts a file under a name that no row has.                   *)
LEMMA ServerAddsKeeps ==
  ASSUME LibraryInv, NEW n \in Names, NEW c \in Contents, ServerAdds(n, c)
  PROVE  LibraryInv'
<1>1. LibraryTypeOK'
  BY DEF LibraryInv, LibraryTypeOK, Half, Fault, ServerAdds
<1>2. NamesOnce'
  BY DEF LibraryInv, LibraryTypeOK, NamesOnce, Used, Half, KernelNames, Adoptable, ServerAdds
<1>3. KernelNames'
  BY LibraryConstants, RowFields, NoneIsNoRow
    DEF LibraryInv, LibraryTypeOK, KernelNames, Names, ServerAdds
<1>4. PutInOrder'
  BY LibraryConstants, PutFields, DeleteFields, RowFields, NoneIsNoRow
    DEF LibraryInv, LibraryTypeOK, PutInOrder, Available, Coherent, Worked, Half, ServerAdds
<1>5. DeleteInOrder'
  BY DEF LibraryInv, LibraryTypeOK, DeleteInOrder, NamesOnce, KernelNames, ServerAdds
<1>6. Coherent'
  BY DEF LibraryInv, LibraryTypeOK, Coherent, Worked, Half, NamesOnce, KernelNames, PutInOrder,
      DeleteInOrder, Names, ServerAdds
<1>7. AliasesUnique'
  BY DEF LibraryInv, LibraryTypeOK, AliasesUnique, PutInOrder, Available, Taken, ServerAdds
<1> QED BY <1>1, <1>2, <1>3, <1>4, <1>5, <1>6, <1>7 DEF LibraryInv

(* A publication begins under a name that nothing has had.                *)
LEMMA AskPutKeeps ==
  ASSUME LibraryInv, NEW i \in Handlers, NEW n \in Names, NEW a \in Aliases, NEW c \in Contents,
         NEW t \in BOOLEAN, AskPut(i, n, a, c, t)
  PROVE  LibraryInv'
<1>1. LibraryTypeOK'
  BY HandlerTags, RowFields, NoneIsNoRow, NewPut DEF LibraryInv, LibraryTypeOK, Half, Fault, AskPut
<1>2. NamesOnce'
  BY DeleteFields, NoneIsNoRow, NewPut
    DEF LibraryInv, LibraryTypeOK, NamesOnce, Used, Half, KernelNames, Adoptable, AskPut
<1>3. KernelNames'
  BY DEF LibraryInv, LibraryTypeOK, KernelNames, Names, AskPut
<1>4. PutInOrder'
  BY DEF LibraryInv, LibraryTypeOK, PutInOrder, Available, Coherent, Worked, Half, AskPut
<1>5. DeleteInOrder'
  BY DEF LibraryInv, LibraryTypeOK, DeleteInOrder, NamesOnce, KernelNames, AskPut
<1>6. Coherent'
  BY HandlerTags, PutFields, DeleteFields, RowFields, NoneIsNoRow, NewPut
    DEF LibraryInv, LibraryTypeOK, Coherent, Worked, Half, NamesOnce, KernelNames, PutInOrder,
        DeleteInOrder, Names, AskPut
<1>7. AliasesUnique'
  BY DEF LibraryInv, LibraryTypeOK, AliasesUnique, PutInOrder, Available, Taken, AskPut
<1> QED BY <1>1, <1>2, <1>3, <1>4, <1>5, <1>6, <1>7 DEF LibraryInv

(* The first check reads only.                                            *)
LEMMA CheckKeeps ==
  ASSUME LibraryInv, NEW i \in Handlers, Check(i)
  PROVE  LibraryInv'
<1>1. LibraryTypeOK'
  BY HandlerTags, PutFields, DeleteFields, RowFields, NoneIsNoRow, GoesOn, EndsDone
    DEF LibraryInv, LibraryTypeOK, Half, Fault, Check, Kept
<1>2. NamesOnce'
  BY HandlerTags, PutFields, DeleteFields, RowFields, NoneIsNoRow, GoesOn, EndsDone
    DEF LibraryInv, LibraryTypeOK, NamesOnce, Used, Half, KernelNames, Adoptable, Check, Kept
<1>3. KernelNames'
  BY HandlerTags, PutFields, DeleteFields, RowFields, NoneIsNoRow, GoesOn, EndsDone
    DEF LibraryInv, LibraryTypeOK, KernelNames, Names, Check, Kept
<1>4. PutInOrder'
  BY HandlerTags, PutFields, DeleteFields, RowFields, NoneIsNoRow, GoesOn, EndsDone
    DEF LibraryInv, LibraryTypeOK, PutInOrder, Available, Coherent, Worked, Half, Check, Kept
<1>5. DeleteInOrder'
  BY HandlerTags, PutFields, DeleteFields, RowFields, NoneIsNoRow, GoesOn, EndsDone
    DEF LibraryInv, LibraryTypeOK, DeleteInOrder, NamesOnce, KernelNames, Check, Kept
<1>6. Coherent'
  BY GoesOn, EndsDone
    DEF LibraryInv, LibraryTypeOK, Coherent, Worked, Half, NamesOnce, KernelNames, PutInOrder,
        DeleteInOrder, Names, Check, Kept
<1>7. AliasesUnique'
  BY DEF LibraryInv, LibraryTypeOK, AliasesUnique, PutInOrder, Available, Taken, Check, Kept
<1> QED BY <1>1, <1>2, <1>3, <1>4, <1>5, <1>6, <1>7 DEF LibraryInv

(* The check that is repeated under the mutex finds alias and name free;  *)
(* nobody else takes them now.                                            *)
LEMMA RecheckKeeps ==
  ASSUME LibraryInv, NEW i \in Handlers, Recheck(i)
  PROVE  LibraryInv'
<1>1. LibraryTypeOK'
  BY LibraryConstants, HandlerTags, PutFields, DeleteFields, RowFields, NoneIsNoRow, GoesOn,
     EndsDone
    DEF LibraryInv, LibraryTypeOK, Half, Fault, Recheck, StillAvailable
<1>2. NamesOnce'
  BY HandlerTags, PutFields, DeleteFields, RowFields, NoneIsNoRow, GoesOn, EndsDone
    DEF LibraryInv, LibraryTypeOK, NamesOnce, Used, Half, KernelNames, Adoptable, Recheck,
        StillAvailable
<1>3. KernelNames'
  BY HandlerTags, PutFields, DeleteFields, RowFields, NoneIsNoRow, GoesOn, EndsDone
    DEF LibraryInv, LibraryTypeOK, KernelNames, Names, Recheck, StillAvailable
<1>4. PutInOrder'
  BY HandlerTags, PutFields, DeleteFields, RowFields, NoneIsNoRow, GoesOn, EndsDone
    DEF LibraryInv, LibraryTypeOK, PutInOrder, Available, Coherent, Worked, Half, Recheck,
        StillAvailable
<1>5. DeleteInOrder'
  BY HandlerTags, PutFields, DeleteFields, RowFields, NoneIsNoRow, GoesOn, EndsDone
    DEF LibraryInv, LibraryTypeOK, DeleteInOrder, NamesOnce, KernelNames, Recheck, StillAvailable
<1>6. Coherent'
  BY GoesOn, EndsDone
    DEF LibraryInv, LibraryTypeOK, Coherent, Worked, Half, NamesOnce, KernelNames, PutInOrder,
        DeleteInOrder, Names, Recheck, StillAvailable
<1>7. AliasesUnique'
  BY DEF LibraryInv, LibraryTypeOK, AliasesUnique, PutInOrder, Available, Taken, Recheck,
      StillAvailable
<1> QED BY <1>1, <1>2, <1>3, <1>4, <1>5, <1>6, <1>7 DEF LibraryInv

(* The file appears under its name, and is the worked one until its row   *)
(* is there.                                                              *)
LEMMA PutFileKeeps ==
  ASSUME LibraryInv, NEW i \in Handlers, PutFile(i)
  PROVE  LibraryInv'
<1>1. LibraryTypeOK'
  BY LibraryConstants, HandlerTags, PutFields, DeleteFields, RowFields, NoneIsNoRow, GoesOn,
     EndsDone
    DEF LibraryInv, LibraryTypeOK, Half, Fault, PutFile, Publish
<1>2. NamesOnce'
  BY HandlerTags, PutFields, DeleteFields, RowFields, NoneIsNoRow, GoesOn, EndsDone
    DEF LibraryInv, LibraryTypeOK, NamesOnce, Used, Half, KernelNames, Adoptable, PutFile, Publish
<1>3. KernelNames'
  BY LibraryConstants, HandlerTags, PutFields, DeleteFields, RowFields, NoneIsNoRow, GoesOn,
     EndsDone
    DEF LibraryInv, LibraryTypeOK, KernelNames, Names, PutFile, Publish
<1>4. PutInOrder'
  BY LibraryConstants, HandlerTags, PutFields, DeleteFields, RowFields, NoneIsNoRow, GoesOn,
     EndsDone
    DEF LibraryInv, LibraryTypeOK, PutInOrder, Available, Coherent, Worked, Half, PutFile, Publish
<1>5. DeleteInOrder'
  BY HandlerTags, PutFields, DeleteFields, RowFields, NoneIsNoRow, GoesOn, EndsDone
    DEF LibraryInv, LibraryTypeOK, DeleteInOrder, NamesOnce, KernelNames, PutFile, Publish
<1>6. Coherent'
  BY GoesOn, EndsDone
    DEF LibraryInv, LibraryTypeOK, Coherent, Worked, Half, NamesOnce, KernelNames, PutInOrder,
        DeleteInOrder, Names, PutFile, Publish
<1>7. AliasesUnique'
  BY DEF LibraryInv, LibraryTypeOK, AliasesUnique, PutInOrder, Available, Taken, PutFile, Publish
<1> QED BY <1>1, <1>2, <1>3, <1>4, <1>5, <1>6, <1>7 DEF LibraryInv

(* The row appears under the file that its handler has put.               *)
LEMMA PutRowKeeps ==
  ASSUME LibraryInv, NEW i \in Handlers, PutRow(i)
  PROVE  LibraryInv'
<1>1. LibraryTypeOK'
  BY LibraryConstants, HandlerTags, PutFields, DeleteFields, RowFields, NoneIsNoRow, EndsDone,
     PutRowFields
    DEF LibraryInv, LibraryTypeOK, Half, Fault, PutRow
<1>2. NamesOnce'
  BY HandlerTags, PutFields, DeleteFields, RowFields, NoneIsNoRow, EndsDone, PutRowFields
    DEF LibraryInv, LibraryTypeOK, NamesOnce, Used, Half, KernelNames, Adoptable, PutRow
<1>3. KernelNames'
  BY LibraryConstants, HandlerTags, PutFields, DeleteFields, RowFields, NoneIsNoRow, EndsDone,
     PutRowFields
    DEF LibraryInv, LibraryTypeOK, KernelNames, Names, PutRow
<1>4. PutInOrder'
  BY HandlerTags, PutFields, DeleteFields, RowFields, NoneIsNoRow, EndsDone, PutRowFields
    DEF LibraryInv, LibraryTypeOK, PutInOrder, Available, Coherent, Worked, Half, PutRow
<1>5. DeleteInOrder'
  BY HandlerTags, PutFields, DeleteFields, RowFields, NoneIsNoRow, EndsDone, PutRowFields
    DEF LibraryInv, LibraryTypeOK, DeleteInOrder, NamesOnce, KernelNames, PutRow
<1>6. Coherent'
  BY PutFields, DeleteFields, RowFields, NoneIsNoRow, EndsDone, PutRowFields
    DEF LibraryInv, LibraryTypeOK, Coherent, Worked, Half, NamesOnce, KernelNames, PutInOrder,
        DeleteInOrder, Names, PutRow
<1>7. AliasesUnique'
  BY DEF LibraryInv, LibraryTypeOK, AliasesUnique, PutInOrder, Available, Taken, PutRow
<1> QED BY <1>1, <1>2, <1>3, <1>4, <1>5, <1>6, <1>7 DEF LibraryInv

(* A row that is refused takes its file with it, or leaves a file without *)
(* a row.                                                                 *)
LEMMA PutRowFailsKeeps ==
  ASSUME LibraryInv, NEW i \in Handlers, PutRowFails(i)
  PROVE  LibraryInv'
<1>1. LibraryTypeOK'
  BY LibraryConstants, HandlerTags, PutFields, DeleteFields, RowFields, NoneIsNoRow, EndsDone
    DEF LibraryInv, LibraryTypeOK, Half, Fault, PutRowFails, Undo
<1>2. NamesOnce'
  BY HandlerTags, PutFields, DeleteFields, RowFields, NoneIsNoRow, EndsDone
    DEF LibraryInv, LibraryTypeOK, NamesOnce, Used, Half, KernelNames, Adoptable, PutRowFails,
        Undo, Fault
<1>3. KernelNames'
  BY HandlerTags, PutFields, DeleteFields, RowFields, NoneIsNoRow, EndsDone
    DEF LibraryInv, LibraryTypeOK, KernelNames, Names, PutRowFails, Undo, Fault
<1>4. PutInOrder'
  BY HandlerTags, PutFields, DeleteFields, RowFields, NoneIsNoRow, EndsDone
    DEF LibraryInv, LibraryTypeOK, PutInOrder, Available, Coherent, Worked, Half, PutRowFails,
        Undo, Fault
<1>5. DeleteInOrder'
  BY HandlerTags, PutFields, DeleteFields, RowFields, NoneIsNoRow, EndsDone
    DEF LibraryInv, LibraryTypeOK, DeleteInOrder, NamesOnce, KernelNames, PutRowFails, Undo, Fault
<1>6. Coherent'
  BY DEF LibraryInv, LibraryTypeOK, Coherent, Worked, Half, NamesOnce, KernelNames, PutInOrder,
      DeleteInOrder, Names, PutRowFails, Undo, Fault
<1>7. AliasesUnique'
  BY DEF LibraryInv, LibraryTypeOK, AliasesUnique, PutInOrder, Available, Taken, PutRowFails, Undo,
      Fault
<1> QED BY <1>1, <1>2, <1>3, <1>4, <1>5, <1>6, <1>7 DEF LibraryInv

(* A deletion begins with a row.                                          *)
LEMMA AskDeleteKeeps ==
  ASSUME LibraryInv, NEW i \in Handlers, NEW n \in Names, AskDelete(i, n)
  PROVE  LibraryInv'
<1>1. LibraryTypeOK'
  BY LibraryConstants, RowFields, NoneIsNoRow, NewDelete
    DEF LibraryInv, LibraryTypeOK, Half, Fault, AskDelete
<1>2. NamesOnce'
  BY PutFields, NoneIsNoRow, NewDelete
    DEF LibraryInv, LibraryTypeOK, NamesOnce, Used, Half, KernelNames, Adoptable, AskDelete
<1>3. KernelNames'
  BY DEF LibraryInv, LibraryTypeOK, KernelNames, Names, AskDelete
<1>4. PutInOrder'
  BY DEF LibraryInv, LibraryTypeOK, PutInOrder, Available, Coherent, Worked, Half, AskDelete
<1>5. DeleteInOrder'
  BY DEF LibraryInv, LibraryTypeOK, DeleteInOrder, NamesOnce, KernelNames, AskDelete
<1>6. Coherent'
  BY HandlerTags, PutFields, DeleteFields, RowFields, NoneIsNoRow, NewDelete
    DEF LibraryInv, LibraryTypeOK, Coherent, Worked, Half, NamesOnce, KernelNames, PutInOrder,
        DeleteInOrder, Names, AskDelete
<1>7. AliasesUnique'
  BY DEF LibraryInv, LibraryTypeOK, AliasesUnique, PutInOrder, Available, Taken, AskDelete
<1> QED BY <1>1, <1>2, <1>3, <1>4, <1>5, <1>6, <1>7 DEF LibraryInv

(* The file goes first, ...                                               *)
LEMMA UnlinkKeeps ==
  ASSUME LibraryInv, NEW i \in Handlers, Unlink(i)
  PROVE  LibraryInv'
<1>1. LibraryTypeOK'
  BY LibraryConstants, HandlerTags, PutFields, DeleteFields, RowFields, NoneIsNoRow, GoesOn,
     EndsDone
    DEF LibraryInv, LibraryTypeOK, Half, Fault, Unlink
<1>2. NamesOnce'
  BY HandlerTags, PutFields, DeleteFields, RowFields, NoneIsNoRow, GoesOn, EndsDone
    DEF LibraryInv, LibraryTypeOK, NamesOnce, Used, Half, KernelNames, Adoptable, Unlink
<1>3. KernelNames'
  BY HandlerTags, PutFields, DeleteFields, RowFields, NoneIsNoRow, GoesOn, EndsDone
    DEF LibraryInv, LibraryTypeOK, KernelNames, Names, Unlink
<1>4. PutInOrder'
  BY HandlerTags, PutFields, DeleteFields, RowFields, NoneIsNoRow, GoesOn, EndsDone
    DEF LibraryInv, LibraryTypeOK, PutInOrder, Available, Coherent, Worked, Half, Unlink
<1>5. DeleteInOrder'
  BY HandlerTags, PutFields, DeleteFields, RowFields, NoneIsNoRow, GoesOn, EndsDone
    DEF LibraryInv, LibraryTypeOK, DeleteInOrder, NamesOnce, KernelNames, Unlink
<1>6. Coherent'
  BY GoesOn, EndsDone
    DEF LibraryInv, LibraryTypeOK, Coherent, Worked, Half, NamesOnce, KernelNames, PutInOrder,
        DeleteInOrder, Names, Unlink
<1>7. AliasesUnique'
  BY DEF LibraryInv, LibraryTypeOK, AliasesUnique, PutInOrder, Available, Taken, Unlink
<1> QED BY <1>1, <1>2, <1>3, <1>4, <1>5, <1>6, <1>7 DEF LibraryInv

(* ... and its row second.                                                *)
LEMMA UnrowKeeps ==
  ASSUME LibraryInv, NEW i \in Handlers, Unrow(i)
  PROVE  LibraryInv'
<1>1. LibraryTypeOK'
  BY LibraryConstants, HandlerTags, PutFields, DeleteFields, RowFields, NoneIsNoRow, EndsDone
    DEF LibraryInv, LibraryTypeOK, Half, Fault, Unrow
<1>2. NamesOnce'
  BY HandlerTags, PutFields, DeleteFields, RowFields, NoneIsNoRow, EndsDone
    DEF LibraryInv, LibraryTypeOK, NamesOnce, Used, Half, KernelNames, Adoptable, Unrow, Fault
<1>3. KernelNames'
  BY HandlerTags, PutFields, DeleteFields, RowFields, NoneIsNoRow, EndsDone
    DEF LibraryInv, LibraryTypeOK, KernelNames, Names, Unrow, Fault
<1>4. PutInOrder'
  BY HandlerTags, PutFields, DeleteFields, RowFields, NoneIsNoRow, EndsDone
    DEF LibraryInv, LibraryTypeOK, PutInOrder, Available, Coherent, Worked, Half, Unrow, Fault
<1>5. DeleteInOrder'
  BY HandlerTags, PutFields, DeleteFields, RowFields, NoneIsNoRow, EndsDone
    DEF LibraryInv, LibraryTypeOK, DeleteInOrder, NamesOnce, KernelNames, Unrow, Fault
<1>6. Coherent'
  BY DEF LibraryInv, LibraryTypeOK, Coherent, Worked, Half, NamesOnce, KernelNames, PutInOrder,
      DeleteInOrder, Names, Unrow, Fault
<1>7. AliasesUnique'
  BY DEF LibraryInv, LibraryTypeOK, AliasesUnique, PutInOrder, Available, Taken, Unrow, Fault
<1> QED BY <1>1, <1>2, <1>3, <1>4, <1>5, <1>6, <1>7 DEF LibraryInv

(* A row gets an alias that no other has.                                 *)
LEMMA SetAliasKeeps ==
  ASSUME LibraryInv, NEW n \in Names, NEW a \in Aliases, SetAlias(n, a)
  PROVE  LibraryInv'
<1> DEFINE r == [row[n] EXCEPT !.alias = a]
<1>1. /\ row[n] \in Row /\ row' = [row EXCEPT ![n] = r] /\ r \in Row
      /\ r.content = row[n].content
  <2>1. row[n] \in Row /\ row' = [row EXCEPT ![n] = r]
    BY DEF SetAlias, LibraryInv, LibraryTypeOK
  <2> QED BY <2>1, RowChanges
<1> HIDE DEF r
<1>2. LibraryTypeOK'
  BY <1>1 DEF LibraryInv, LibraryTypeOK, SetAlias
<1>3. NamesOnce'
  BY LibraryConstants, PutFields, DeleteFields, RowFields, NoneIsNoRow, RowChanges
    DEF LibraryInv, LibraryTypeOK, NamesOnce, Used, Half, KernelNames, Adoptable, SetAlias
<1>4. KernelNames'
  BY DEF LibraryInv, LibraryTypeOK, KernelNames, Names, SetAlias
<1>5. PutInOrder'
  BY LibraryConstants, PutFields, DeleteFields, RowFields, NoneIsNoRow, RowChanges
    DEF LibraryInv, LibraryTypeOK, PutInOrder, Available, Coherent, Worked, Half, SetAlias
<1>6. DeleteInOrder'
  BY DEF LibraryInv, LibraryTypeOK, DeleteInOrder, NamesOnce, KernelNames, SetAlias
<1>7. Coherent'
  BY <1>1, NoneIsNoRow, RowChanges
    DEF LibraryInv, LibraryTypeOK, Coherent, Worked, Half, NamesOnce, KernelNames, PutInOrder,
        DeleteInOrder, Names, SetAlias
<1>8. AliasesUnique'
  BY DEF LibraryInv, LibraryTypeOK, AliasesUnique, PutInOrder, Available, Taken, SetAlias
<1> QED BY <1>2, <1>3, <1>4, <1>5, <1>6, <1>7, <1>8 DEF LibraryInv

(* A row is trusted: nothing else of it changes.                          *)
LEMMA TrustKeeps ==
  ASSUME LibraryInv, NEW n \in Names, Trust(n)
  PROVE  LibraryInv'
<1> DEFINE r == [row[n] EXCEPT !.trusted = TRUE]
<1>1. /\ row[n] \in Row /\ row' = [row EXCEPT ![n] = r] /\ r \in Row
      /\ r.content = row[n].content
  <2>1. row[n] \in Row /\ row' = [row EXCEPT ![n] = r]
    BY DEF Trust, LibraryInv, LibraryTypeOK
  <2> QED BY <2>1, RowChanges
<1> HIDE DEF r
<1>2. LibraryTypeOK'
  BY <1>1, LibraryConstants DEF LibraryInv, LibraryTypeOK, Trust
<1>3. NamesOnce'
  BY NoneIsNoRow, RowChanges
    DEF LibraryInv, LibraryTypeOK, NamesOnce, Used, Half, KernelNames, Adoptable, Trust
<1>4. KernelNames'
  BY DEF KernelNames, Names, Trust
<1>5. PutInOrder'
  BY DEF LibraryInv, LibraryTypeOK, PutInOrder, Available, Coherent, Worked, Half, Trust
<1>6. DeleteInOrder'
  BY DEF LibraryInv, LibraryTypeOK, DeleteInOrder, NamesOnce, KernelNames, Trust
<1>7. Coherent'
  BY <1>1, NoneIsNoRow, RowChanges
    DEF LibraryInv, LibraryTypeOK, Coherent, Worked, Half, NamesOnce, KernelNames, PutInOrder,
        DeleteInOrder, Names, Trust
<1>8. AliasesUnique'
  BY DEF LibraryInv, LibraryTypeOK, AliasesUnique, PutInOrder, Available, Taken, Trust
<1> QED BY <1>2, <1>3, <1>4, <1>5, <1>6, <1>7, <1>8 DEF LibraryInv

(* A handler that is dropped leaves what it has done, marked as cut.      *)
LEMMA DroppedKeeps ==
  ASSUME LibraryInv, NEW i \in Handlers, Dropped(i)
  PROVE  LibraryInv'
<1>1. LibraryTypeOK'
  BY LibraryConstants, HandlerTags, PutFields, DeleteFields, RowFields, NoneIsNoRow, EndsDone
    DEF LibraryInv, LibraryTypeOK, Half, Fault, Dropped
<1>2. NamesOnce'
  BY HandlerTags, PutFields, DeleteFields, RowFields, NoneIsNoRow, EndsDone
    DEF LibraryInv, LibraryTypeOK, NamesOnce, Used, Half, KernelNames, Adoptable, Dropped, Fault
<1>3. KernelNames'
  BY HandlerTags, PutFields, DeleteFields, RowFields, NoneIsNoRow, EndsDone
    DEF LibraryInv, LibraryTypeOK, KernelNames, Names, Dropped, Fault, Half
<1>4. PutInOrder'
  BY HandlerTags, PutFields, DeleteFields, RowFields, NoneIsNoRow, EndsDone
    DEF LibraryInv, LibraryTypeOK, PutInOrder, Available, Coherent, Worked, Half, Dropped, Fault
<1>5. DeleteInOrder'
  BY HandlerTags, PutFields, DeleteFields, RowFields, NoneIsNoRow, EndsDone
    DEF LibraryInv, LibraryTypeOK, DeleteInOrder, NamesOnce, KernelNames, Dropped, Fault, Half
<1>6. Coherent'
  BY DEF LibraryInv, LibraryTypeOK, Coherent, Worked, Half, NamesOnce, KernelNames, PutInOrder,
      DeleteInOrder, Names, Dropped, Fault
<1>7. AliasesUnique'
  BY DEF LibraryInv, LibraryTypeOK, AliasesUnique, PutInOrder, Available, Taken, Dropped, Fault,
      Half
<1> QED BY <1>1, <1>2, <1>3, <1>4, <1>5, <1>6, <1>7 DEF LibraryInv

(* What a dropped handler had asked for is done later.                    *)
LEMMA LateWriteKeeps ==
  ASSUME LibraryInv, NEW x \in late, LateWrite(x)
  PROVE  LibraryInv'
<1>1. LibraryTypeOK'
  BY DEF LibraryInv, LibraryTypeOK, Half, Fault, LateWrite, Publish
<1>2. NamesOnce'
  BY DEF LibraryInv, LibraryTypeOK, NamesOnce, Used, Half, KernelNames, Adoptable, LateWrite,
      Publish
<1>3. KernelNames'
  BY LibraryConstants, RowFields, NoneIsNoRow
    DEF LibraryInv, LibraryTypeOK, KernelNames, Names, LateWrite, Publish
<1>4. PutInOrder'
  BY LibraryConstants, PutFields, DeleteFields, RowFields, NoneIsNoRow
    DEF LibraryInv, LibraryTypeOK, PutInOrder, Available, Coherent, Worked, Half, LateWrite,
        Publish
<1>5. DeleteInOrder'
  BY DEF LibraryInv, LibraryTypeOK, DeleteInOrder, NamesOnce, KernelNames, LateWrite, Publish
<1>6. Coherent'
  BY DEF LibraryInv, LibraryTypeOK, Coherent, Worked, Half, NamesOnce, KernelNames, PutInOrder,
      DeleteInOrder, Names, LateWrite, Publish
<1>7. AliasesUnique'
  BY DEF LibraryInv, LibraryTypeOK, AliasesUnique, PutInOrder, Available, Taken, LateWrite, Publish
<1> QED BY <1>1, <1>2, <1>3, <1>4, <1>5, <1>6, <1>7 DEF LibraryInv

(* A crash ends all handlers.                                             *)
LEMMA CrashKeeps ==
  ASSUME LibraryInv, Crash
  PROVE  LibraryInv'
<1>1. LibraryTypeOK'
  BY LibraryConstants, HandlerTags, PutFields, DeleteFields, RowFields, NoneIsNoRow
    DEF LibraryInv, LibraryTypeOK, Half, Fault, Crash
<1>2. NamesOnce'
  BY HandlerTags, PutFields, DeleteFields, RowFields, NoneIsNoRow
    DEF LibraryInv, LibraryTypeOK, NamesOnce, Used, Half, KernelNames, Adoptable, Crash, Fault
<1>3. KernelNames'
  BY HandlerTags, PutFields, DeleteFields, RowFields, NoneIsNoRow
    DEF LibraryInv, LibraryTypeOK, KernelNames, Names, Crash, Fault, Half
<1>4. PutInOrder'
  BY HandlerTags, PutFields, DeleteFields, RowFields, NoneIsNoRow
    DEF LibraryInv, LibraryTypeOK, PutInOrder, Available, Coherent, Worked, Half, Crash, Fault
<1>5. DeleteInOrder'
  BY HandlerTags, PutFields, DeleteFields, RowFields, NoneIsNoRow
    DEF LibraryInv, LibraryTypeOK, DeleteInOrder, NamesOnce, KernelNames, Crash, Fault, Half
<1>6. Coherent'
  BY DEF LibraryInv, LibraryTypeOK, Coherent, Worked, Half, NamesOnce, KernelNames, PutInOrder,
      DeleteInOrder, Names, Crash, Fault
<1>7. AliasesUnique'
  BY DEF LibraryInv, LibraryTypeOK, AliasesUnique, PutInOrder, Available, Taken, Crash, Fault, Half
<1> QED BY <1>1, <1>2, <1>3, <1>4, <1>5, <1>6, <1>7 DEF LibraryInv

(* Every step of a catalog keeps its invariant.                           *)
LEMMA LibraryStepKeeps ==
  ASSUME LibraryInv, LibraryStep
  PROVE  LibraryInv'
  BY ListKeeps, ServerAddsKeeps, SetAliasKeeps, TrustKeeps, AskDeleteKeeps, AskPutKeeps, CheckKeeps,
     RecheckKeeps, PutFileKeeps, PutRowKeeps, PutRowFailsKeeps, UnlinkKeeps, UnrowKeeps,
     DroppedKeeps, LateWriteKeeps
    DEF LibraryStep

(* The invariant of the library does not depend on the VM.                *)
LEMMA LibraryStays ==
  ASSUME LibraryInv, UNCHANGED <<kind, file, row, mutex, h, late, cut>>, faults' = faults \/ Fault
  PROVE  LibraryInv'
<1>1. faults' \in 0..MaxFaults
  BY LibraryConstants DEF LibraryInv, LibraryTypeOK, Fault
<1> QED BY <1>1
          DEF LibraryInv, LibraryTypeOK, NamesOnce, KernelNames, PutInOrder, DeleteInOrder,
              Coherent, AliasesUnique, Available, Used, Worked, Half

(* An empty catalog satisfies it.                                         *)
LEMMA LibraryStarts ==
  ASSUME LibraryInit
  PROVE  LibraryInv
<1>1. \A i \in Handlers : h[i] \notin Put \cup Delete
  BY HandlerTags DEF LibraryInit
<1>2. LibraryTypeOK
  BY <1>1, LibraryConstants DEF LibraryInit, LibraryTypeOK
<1> QED BY <1>1, <1>2
          DEF LibraryInit, Names, LibraryInv, NamesOnce, KernelNames, PutInOrder, DeleteInOrder,
              Coherent, AliasesUnique

(* A publication that is under way after a step was so before, or begins  *)
(* under a name that nothing has had.                                     *)
LEMMA PutsGoOn ==
  ASSUME LibraryInv, LibraryStep, NEW j \in Handlers, h'[j] \in Put
  PROVE  \/ h[j] \in Put /\ h[j].name = h'[j].name
         \/ row' = row /\ (kind # "kernels" => row[h'[j].name] = None /\ ~Used(h'[j].name))
<1>1. LibraryTypeOK
  BY DEF LibraryInv
<1>2. CASE h'[j] = h[j]
  BY <1>2
<1>3. ASSUME NEW i \in Handlers, NEW n \in Names, NEW a \in Aliases, NEW c \in Contents, NEW t \in BOOLEAN,
             AskPut(i, n, a, c, t)
      PROVE  \/ h[j] \in Put /\ h[j].name = h'[j].name
             \/ row' = row /\ (kind # "kernels" => row[h'[j].name] = None /\ ~Used(h'[j].name))
  <2>1. CASE j # i
    <3>1. h'[j] = h[j]
      BY <1>1, <1>3, <2>1 DEF AskPut
    <3> QED BY <3>1
  <2>2. CASE j = i
    <3>1. row' = row /\ h'[j].name = n
      BY <1>1, <1>3, <2>2 DEF AskPut, LibraryTypeOK
    <3>2. kind # "kernels" => row[n] = None /\ ~Used(n)
      BY <1>3 DEF AskPut
    <3> QED BY <3>1, <3>2
  <2> QED BY <2>1, <2>2
<1>4. ASSUME NEW i \in Handlers, NEW n \in Names, AskDelete(i, n)
      PROVE  h'[j] = h[j]
  BY <1>1, <1>4, NewDelete, HandlerTags DEF AskDelete, LibraryTypeOK
<1>5. ASSUME NEW i \in Handlers, Ends(i)
      PROVE  h'[j] = h[j]
  BY <1>1, <1>5, EndsDone, HandlerTags
<1>6. ASSUME NEW i \in Handlers, Check(i) \/ Recheck(i) \/ PutFile(i)
      PROVE  h[j] \in Put /\ h[j].name = h'[j].name
  BY <1>1, <1>5, <1>6, GoesOn DEF Check, Recheck, PutFile
<1>7. ASSUME NEW i \in Handlers, Unlink(i)
      PROVE  h'[j] = h[j]
  BY <1>1, <1>5, <1>7, GoesOn, HandlerTags DEF Unlink
<1>8. ASSUME NEW i \in Handlers, PutRow(i) \/ PutRowFails(i) \/ Unrow(i) \/ Dropped(i)
      PROVE  h'[j] = h[j]
  BY <1>5, <1>8 DEF PutRow, PutRowFails, Unrow, Dropped
<1>9. ASSUME List \/ \E n \in Names : (\E c \in Contents : ServerAdds(n, c))
               \/ (\E a \in Aliases : SetAlias(n, a)) \/ Trust(n)
      PROVE  h'[j] = h[j]
  BY <1>9 DEF List, ServerAdds, SetAlias, Trust
<1>10. ASSUME NEW x \in late, LateWrite(x)
      PROVE  h'[j] = h[j]
  BY <1>10 DEF LateWrite
<1> QED BY <1>3, <1>4, <1>6, <1>7, <1>8, <1>9, <1>10 DEF LibraryStep

-----------------------------------------------------------------------------
(* The virtual machine *)

(* The steps of a restore that is under way, ...                          *)
RestoreSteps == {"verify", "install", "launch", "spawn", "load", "loaded", "error", "undo", "rollback"}
(* ... and those of a deletion.                                           *)
RemovalSteps == {"disks", "snapshots", "row"}

(* What a request is tells its records apart.                             *)
LEMMA RequestTags ==
  /\ Idle \notin Restore \cup Removal
  /\ \A p \in Restore : p.op = "restore" /\ p.step \in RestoreSteps \cup Ended /\ p.name \in Names
                        /\ p.old \in SUBSET Files /\ p.new \in SUBSET Disks
                        /\ p.before \in [Files -> Owners]
  /\ \A p \in Removal : p.op = "delete" /\ p.step \in RemovalSteps \cup Ended /\ p.purge \in BOOLEAN
  BY DEF Idle, Restore, Removal, RestoreSteps, RemovalSteps

(* A step belongs to one of them.                                         *)
LEMMA WhoseStep ==
  ASSUME TypeOK, NEW r \in Requests
  PROVE  /\ At(r, RestoreSteps) => q[r] \in Restore
         /\ At(r, RemovalSteps) => q[r] \in Removal
         /\ IsRestore(r) <=> q[r] \in Restore
         /\ IsRemoval(r) <=> q[r] \in Removal
  BY RequestTags DEF TypeOK, At, IsRestore, IsRemoval, RestoreSteps, RemovalSteps, Ended

(* A request that goes on keeps its other fields.                         *)
LEMMA StepChanges ==
  /\ \A p \in Restore, s \in RestoreSteps \cup Ended : LET x == [p EXCEPT !.step = s] IN
       x \in Restore /\ x.step = s /\ x.name = p.name /\ x.old = p.old /\ x.new = p.new
         /\ x.before = p.before
  /\ \A p \in Removal, s \in RemovalSteps \cup Ended : LET x == [p EXCEPT !.step = s] IN
       x \in Removal /\ x.step = s /\ x.purge = p.purge
  BY DEF Restore, Removal, RestoreSteps, RemovalSteps

(* A restore that goes on, or ends, ...                                   *)
LEMMA RestoreGoes ==
  ASSUME TypeOK, NEW r \in Requests, q[r] \in Restore, NEW s \in RestoreSteps \cup Ended, To(r, s)
  PROVE  /\ q' \in [Requests -> Restore \cup Removal \cup {Idle}]
         /\ q'[r] \in Restore /\ q'[r] # Idle /\ q'[r].op = "restore" /\ q'[r].step = s
         /\ q'[r].name = q[r].name
         /\ q'[r].old = q[r].old /\ q'[r].new = q[r].new /\ q'[r].before = q[r].before
         /\ \A x \in Requests : x # r => q'[x] = q[x]
         /\ lock' = IF s \in Ended THEN None ELSE lock
<1>1. q'[r] = [q[r] EXCEPT !.step = s] /\ \A x \in Requests : x # r => q'[x] = q[x]
  BY DEF To, TypeOK
<1>2. q' = [q EXCEPT ![r] = [q[r] EXCEPT !.step = s]] /\ lock' = IF s \in Ended THEN None ELSE lock
  BY DEF To
<1>3. q' \in [Requests -> Restore \cup Removal \cup {Idle}]
  BY <1>2, StepChanges DEF TypeOK
<1> QED BY <1>1, <1>2, <1>3, StepChanges, RequestTags

(* ... and a deletion.                                                    *)
LEMMA RemovalGoes ==
  ASSUME TypeOK, NEW r \in Requests, q[r] \in Removal, NEW s \in RemovalSteps \cup Ended, To(r, s)
  PROVE  /\ q' \in [Requests -> Restore \cup Removal \cup {Idle}]
         /\ q'[r] \in Removal /\ q'[r] # Idle /\ q'[r].op = "delete" /\ q'[r].step = s
         /\ q'[r].purge = q[r].purge
         /\ \A x \in Requests : x # r => q'[x] = q[x]
         /\ lock' = IF s \in Ended THEN None ELSE lock
<1>1. q'[r] = [q[r] EXCEPT !.step = s] /\ \A x \in Requests : x # r => q'[x] = q[x]
  BY DEF To, TypeOK
<1>2. q' = [q EXCEPT ![r] = [q[r] EXCEPT !.step = s]] /\ lock' = IF s \in Ended THEN None ELSE lock
  BY DEF To
<1>3. q' \in [Requests -> Restore \cup Removal \cup {Idle}]
  BY <1>2, StepChanges DEF TypeOK
<1> QED BY <1>2, <1>3, StepChanges, RequestTags

(* A restore that has moved, or put back, a file, ...                     *)
LEMMA OldChanges ==
  ASSUME TypeOK, NEW r \in Requests, q[r] \in Restore, NEW X \in SUBSET Files,
         q' = [q EXCEPT ![r].old = X]
  PROVE  /\ q' \in [Requests -> Restore \cup Removal \cup {Idle}]
         /\ q'[r] \in Restore /\ q'[r].old = X /\ q'[r].new = q[r].new /\ q'[r].step = q[r].step
         /\ q'[r].before = q[r].before
         /\ \A x \in Requests : x # r => q'[x] = q[x]
<1>1. q' = [q EXCEPT ![r] = [q[r] EXCEPT !.old = X]]
  OBVIOUS
<1>2. LET p == [q[r] EXCEPT !.old = X] IN
        p \in Restore /\ p.old = X /\ p.new = q[r].new /\ p.step = q[r].step /\ p.before = q[r].before
  BY DEF Restore
<1> QED BY <1>2 DEF TypeOK

(* ... and one that has put, or removed, a disk of the snapshot.          *)
LEMMA NewChanges ==
  ASSUME TypeOK, NEW r \in Requests, q[r] \in Restore, NEW X \in SUBSET Disks, NEW s \in RestoreSteps,
         q' = [q EXCEPT ![r] = [q[r] EXCEPT !.new = X, !.step = s]]
  PROVE  /\ q' \in [Requests -> Restore \cup Removal \cup {Idle}]
         /\ q'[r] \in Restore /\ q'[r].new = X /\ q'[r].old = q[r].old /\ q'[r].step = s
         /\ q'[r].before = q[r].before
         /\ \A x \in Requests : x # r => q'[x] = q[x]
<1>1. LET p == [q[r] EXCEPT !.new = X, !.step = s] IN
        p \in Restore /\ p.new = X /\ p.old = q[r].old /\ p.step = s /\ p.before = q[r].before
  BY DEF Restore, RestoreSteps
<1> QED BY <1>1 DEF TypeOK

(* A restore that ends by itself has all new disks in place, or all       *)
(* former ones, unless it says that the state is unknown.                 *)
AnswersWhole ==
  \A r \in Requests :
    IsRestore(r) /\ q[r].step \notin Ended /\ q'[r].step \in Ended \ {"cut", "half"} =>
      \/ state' = "unknown"
      \/ dir' = IF q'[r].step = "given" THEN [f \in Files |-> IF f \in Disks THEN r ELSE None]
           ELSE q[r].before

(* Who is active holds the lock.                                          *)
LEMMA OneActive ==
  ASSUME IInv, NEW r \in Requests, Active(r)
  PROVE  lock = r /\ \A x \in Requests : Active(x) => x = r
  BY DEF IInv, Locked

(* The VM starts on the disks that are in place, when no request has      *)
(* them.                                                                  *)
LEMMA StartKeeps ==
  ASSUME IInv, Start
  PROVE  IInv' /\ AnswersWhole
<1>1. \A x \in Requests : ~Active(x)
  BY RestoreConstants DEF Start, IInv, Locked
<1>2. LibraryInv'
  BY LibraryStays DEF Start, IInv, library, Stopped
<1>3. TypeOK'
  BY <1>1, <1>2 DEF IInv, TypeOK, Owners, LibraryInv, Fault, Start, Stopped, library
<1>4. Locked'
  BY <1>1 DEF Locked, Active, Ended, Start, Stopped, library
<1>5. NoBackupYet'
  BY <1>1 DEF IInv, NoBackupYet, At, Start, Stopped, library
<1>6. DisksInOrder'
  BY <1>1
    DEF DisksInOrder, At, Moved, Installed, Active, Ended, Files, TypeOK, Start, Stopped, library
<1>7. NothingRuns'
  BY <1>1 DEF NothingRuns, At, Active, Ended, Start, Stopped, library
<1>8. RestoresExist'
  BY <1>1
    DEF RestoresExist, IsRestore, Active, Ended, PurgeDone, IsRemoval, At, Start, Stopped, library
<1>9. CapturedKnown'
  BY <1>1 DEF IInv, CapturedKnown, TypeOK, Start, Stopped, library
<1>10. PurgeDone'
  BY <1>1
    DEF IInv, PurgeDone, IsRemoval, IsRestore, At, RestoresExist, Active, Ended, Start, Stopped,
        library
<1>11. DisksSurvive'
  BY <1>1, RestoreConstants, NoneIsNoBackup, RequestTags
    DEF IInv, DisksSurvive, OriginalsKept, LiveDisksStay, IsRemoval, IsRestore, At, NothingRuns,
        DisksInOrder, Moved, Installed, TypeOK, NoBackupYet, Start, Stopped, library
<1>12. AnswersWhole
  BY <1>1
    DEF AnswersWhole, IInv, TypeOK, Ended, IsRestore, At, DisksInOrder, Moved, Installed, Start,
        Stopped
<1> QED BY <1>2, <1>3, <1>4, <1>5, <1>6, <1>7, <1>8, <1>9, <1>10, <1>11, <1>12 DEF IInv

(* A pause changes the state only.                                        *)
LEMMA PauseKeeps ==
  ASSUME IInv, Pause
  PROVE  IInv' /\ AnswersWhole
<1>1. \A x \in Requests : ~Active(x)
  BY RestoreConstants DEF Pause, IInv, Locked
<1>2. LibraryInv'
  BY LibraryStays DEF Pause, IInv, library
<1>3. TypeOK'
  BY <1>1, <1>2 DEF IInv, TypeOK, Owners, LibraryInv, Fault, Pause, library
<1>4. Locked'
  BY <1>1 DEF Locked, Active, Ended, Pause, library
<1>5. NoBackupYet'
  BY <1>1 DEF IInv, NoBackupYet, At, Pause, library
<1>6. DisksInOrder'
  BY <1>1 DEF DisksInOrder, At, Moved, Installed, Active, Ended, Files, TypeOK, Pause, library
<1>7. NothingRuns'
  BY <1>1 DEF NothingRuns, At, Active, Ended, Pause, library
<1>8. RestoresExist'
  BY <1>1 DEF RestoresExist, IsRestore, Active, Ended, PurgeDone, IsRemoval, At, Pause, library
<1>9. CapturedKnown'
  BY <1>1 DEF IInv, CapturedKnown, TypeOK, Pause, library
<1>10. PurgeDone'
  BY <1>1
    DEF IInv, PurgeDone, IsRemoval, IsRestore, At, RestoresExist, Active, Ended, Pause, library
<1>11. DisksSurvive'
  BY <1>1
    DEF IInv, DisksSurvive, OriginalsKept, LiveDisksStay, IsRemoval, IsRestore, At, NothingRuns,
        DisksInOrder, Moved, Installed, TypeOK, NoBackupYet, Pause, library
<1>12. AnswersWhole
  BY <1>1
    DEF AnswersWhole, IInv, TypeOK, Ended, IsRestore, At, DisksInOrder, Moved, Installed, Pause
<1> QED BY <1>2, <1>3, <1>4, <1>5, <1>6, <1>7, <1>8, <1>9, <1>10, <1>11, <1>12 DEF IInv

(* A stop ends the process and what it has open.                          *)
LEMMA StopKeeps ==
  ASSUME IInv, Stop
  PROVE  IInv' /\ AnswersWhole
<1>1. \A x \in Requests : ~Active(x)
  BY RestoreConstants DEF Stop, IInv, Locked
<1>2. LibraryInv'
  BY LibraryStays DEF Stop, IInv, library
<1>3. TypeOK'
  BY <1>1, <1>2 DEF IInv, TypeOK, Owners, LibraryInv, Fault, Stop, library
<1>4. Locked'
  BY <1>1 DEF Locked, Active, Ended, Stop, library
<1>5. NoBackupYet'
  BY <1>1 DEF IInv, NoBackupYet, At, Stop, library
<1>6. DisksInOrder'
  BY <1>1 DEF DisksInOrder, At, Moved, Installed, Active, Ended, Files, TypeOK, Stop, library
<1>7. NothingRuns'
  BY <1>1 DEF NothingRuns, At, Active, Ended, Stop, library
<1>8. RestoresExist'
  BY <1>1 DEF RestoresExist, IsRestore, Active, Ended, PurgeDone, IsRemoval, At, Stop, library
<1>9. CapturedKnown'
  BY <1>1 DEF IInv, CapturedKnown, TypeOK, Stop, library
<1>10. PurgeDone'
  BY <1>1 DEF IInv, PurgeDone, IsRemoval, IsRestore, At, RestoresExist, Active, Ended, Stop, library
<1>11. DisksSurvive'
  BY <1>1, RestoreConstants, NoneIsNoBackup, RequestTags
    DEF IInv, DisksSurvive, OriginalsKept, LiveDisksStay, IsRemoval, IsRestore, At, NothingRuns,
        DisksInOrder, Moved, Installed, TypeOK, NoBackupYet, Stop, library
<1>12. AnswersWhole
  BY <1>1 DEF AnswersWhole, IInv, TypeOK, Ended, IsRestore, At, DisksInOrder, Moved, Installed, Stop
<1> QED BY <1>2, <1>3, <1>4, <1>5, <1>6, <1>7, <1>8, <1>9, <1>10, <1>11, <1>12 DEF IInv

(* A restore takes the lock, and notes the disks as they are.             *)
LEMMA AskRestoreKeeps ==
  ASSUME IInv, NEW r \in Requests, NEW n \in Names, AskRestore(r, n)
  PROVE  IInv' /\ AnswersWhole
<1>1. /\ q'[r] = [op |-> "restore", step |-> "verify", name |-> n, old |-> {}, new |-> {}, before |-> dir]
      /\ q'[r] \in Restore
      /\ q' \in [Requests -> Restore \cup Removal \cup {Idle}]
      /\ \A x \in Requests : x # r => q'[x] = q[x]
  BY DEF AskRestore, IInv, TypeOK, Restore, Removal
<1>2. LibraryInv'
  BY LibraryStays DEF AskRestore, IInv, library, Stopped
<1>3. TypeOK'
  BY <1>1, <1>2 DEF IInv, TypeOK, Owners, LibraryInv, Fault, AskRestore, Stopped, library
<1>4. Locked'
  BY <1>1, RestoreConstants DEF IInv, Locked, Active, Ended, AskRestore, Stopped, library
<1>5. NoBackupYet'
  BY <1>1 DEF IInv, NoBackupYet, At, AskRestore, Stopped, library
<1>6. DisksInOrder'
  BY <1>1
    DEF IInv, DisksInOrder, At, Moved, Installed, Active, Ended, Files, TypeOK, AskRestore,
        Stopped, library
<1>7. NothingRuns'
  BY <1>1 DEF NothingRuns, At, Active, Ended, AskRestore, Stopped, library
<1>8. RestoresExist'
  BY <1>1
    DEF RestoresExist, IsRestore, Active, Ended, PurgeDone, IsRemoval, At, AskRestore, Stopped,
        library
<1>9. CapturedKnown'
  BY <1>1, LibraryConstants DEF IInv, CapturedKnown, TypeOK, AskRestore, Stopped, library
<1>10. PurgeDone'
  BY <1>1
    DEF IInv, PurgeDone, IsRemoval, IsRestore, At, RestoresExist, Active, Ended, AskRestore,
        Stopped, library
<1>11. DisksSurvive'
  BY <1>1
    DEF IInv, DisksSurvive, OriginalsKept, LiveDisksStay, IsRemoval, IsRestore, At, NothingRuns,
        DisksInOrder, Moved, Installed, TypeOK, NoBackupYet, AskRestore, Stopped, library
<1>12. AnswersWhole
  BY <1>1
    DEF AnswersWhole, IInv, TypeOK, Ended, IsRestore, At, DisksInOrder, Moved, Installed,
        AskRestore, Stopped
<1> QED BY <1>2, <1>3, <1>4, <1>5, <1>6, <1>7, <1>8, <1>9, <1>10, <1>11, <1>12 DEF IInv

(* Once the snapshot is verified, an empty backup is made, or the request *)
(* is refused.                                                            *)
LEMMA VerifyKeeps ==
  ASSUME IInv, NEW r \in Requests, Verify(r)
  PROVE  IInv' /\ AnswersWhole
<1>1. q[r] \in Restore /\ At(r, RestoreSteps)
  BY WhoseStep DEF Verify, At, RestoreSteps, RemovalSteps, IInv
<1>2. PICK s \in {"install", "refused"} : /\ To(r, s)
                                        /\ backup' = IF s = "install"
                                             THEN [backup EXCEPT ![r] = [f \in Files |-> None]]
                                               ELSE backup
  BY DEF Verify
<1>3. /\ q' \in [Requests -> Restore \cup Removal \cup {Idle}] /\ q'[r] # Idle /\ q'[r].step = s
      /\ q'[r] \in Restore /\ q'[r].op = "restore" /\ q'[r].old = q[r].old /\ q'[r].new = q[r].new
      /\ q'[r].before = q[r].before /\ q'[r].name = q[r].name
      /\ \A x \in Requests : x # r => q'[x] = q[x]
      /\ lock' = IF s \in Ended THEN None ELSE lock
  BY <1>1, <1>2, RestoreGoes DEF IInv, RestoreSteps, RemovalSteps, Ended
<1>4. lock = r /\ \A x \in Requests : Active(x) => x = r
  BY <1>1, OneActive DEF At, Active, RestoreSteps, RemovalSteps, Ended
<1>5. LibraryInv'
  BY LibraryStays DEF Verify, IInv, library, To
<1>6. TypeOK'
  BY <1>1, <1>2, <1>3, <1>4, <1>5 DEF IInv, TypeOK, Owners, LibraryInv, Fault, Verify, library
<1>7. Locked'
  BY <1>1, <1>2, <1>3, <1>4 DEF Locked, Active, Ended, Verify, library
<1>8. NoBackupYet'
  BY <1>1, <1>2, <1>3, <1>4 DEF IInv, TypeOK, NoBackupYet, At, Verify, library
<1>9. At(r, {"verify"}) /\ UNCHANGED dir /\ backup \in [Requests -> [Files -> Owners] \cup {None}]
  BY DEF Verify, IInv, TypeOK
<1>10. s = "install" => backup'[r] = [f \in Files |-> None] /\ q[r].old = {} /\ q[r].new = {}
         /\ dir = q[r].before
  BY <1>2, <1>9 DEF IInv, DisksInOrder
<1>11. s = "install" => Moved(r)'
  BY <1>2, <1>3, <1>9, <1>10, NoneIsNoBackup DEF Moved, Owners
<1>12. DisksInOrder'
  BY <1>1, <1>2, <1>3, <1>4, <1>9, <1>11 DEF DisksInOrder, At, Active, Ended
<1>13. NothingRuns'
  BY <1>1, <1>2, <1>3, <1>4 DEF IInv, NothingRuns, At, Active, Ended, Verify, library
<1>14. RestoresExist'
  BY <1>1, <1>2, <1>3, <1>4, RequestTags
    DEF IInv, RestoresExist, IsRestore, Active, Ended, PurgeDone, IsRemoval, At, Verify, library
<1>15. CapturedKnown'
  BY <1>1, <1>2, <1>3, <1>4, RestoreConstants, NoneIsNoBackup, RequestTags
    DEF IInv, CapturedKnown, TypeOK, Verify, library
<1>16. PurgeDone'
  BY <1>1, <1>2, <1>3, <1>4
    DEF IInv, PurgeDone, IsRemoval, IsRestore, At, RestoresExist, Active, Ended, Verify, library
<1>17. DisksSurvive'
  BY <1>1, <1>2, <1>3, <1>4, RequestTags
    DEF IInv, DisksSurvive, OriginalsKept, LiveDisksStay, IsRemoval, IsRestore, At, NothingRuns,
        DisksInOrder, Moved, Installed, TypeOK, NoBackupYet, Verify, library
<1>18. AnswersWhole
  BY <1>1, <1>2, <1>3, <1>4
    DEF AnswersWhole, IInv, TypeOK, Ended, IsRestore, At, DisksInOrder, Moved, Installed, Verify
<1> QED BY <1>5, <1>6, <1>7, <1>8, <1>12, <1>13, <1>14, <1>15, <1>16, <1>17, <1>18 DEF IInv

(* A file goes from its place to the same place in the backup, ...        *)
LEMMA MoveOldKeeps ==
  ASSUME IInv, NEW r \in Requests, NEW f \in Files, MoveOld(r, f)
  PROVE  IInv' /\ AnswersWhole
<1>1. q[r] \in Restore /\ q[r].step \in {"install"}
  BY WhoseStep DEF MoveOld, At, RestoreSteps, IInv
<1>2. /\ TypeOK /\ Moved(r) /\ backup[r] \in [Files -> Owners]
      /\ backup \in [Requests -> [Files -> Owners] \cup {None}]
      /\ dir \in [Files -> Owners]
  BY <1>1, RequestTags DEF IInv, DisksInOrder, At, Moved, TypeOK
<1>3. q[r].old \cup {f} \in SUBSET Files
  BY <1>1, RequestTags
<1>4. q' = [q EXCEPT ![r].old = q[r].old \cup {f}]
  BY DEF MoveOld
<1>5. /\ q' \in [Requests -> Restore \cup Removal \cup {Idle}]
      /\ q'[r] \in Restore /\ q'[r].old = q[r].old \cup {f} /\ q'[r].new = q[r].new
      /\ q'[r].step = q[r].step
      /\ q'[r].before = q[r].before
      /\ \A x \in Requests : x # r => q'[x] = q[x]
  BY <1>1, <1>2, <1>3, <1>4, OldChanges
<1>6. /\ q'[r] # Idle /\ q'[r].op = "restore" /\ lock' = lock
  BY <1>5, RequestTags DEF MoveOld
<1>7. lock = r /\ \A x \in Requests : Active(x) => x = r
  BY <1>1, OneActive, RequestTags DEF Active, Ended
<1>8. LibraryInv'
  BY LibraryStays DEF MoveOld, IInv, library, Moves
<1>9. TypeOK'
  BY <1>1, <1>2, <1>5, <1>6, <1>7, <1>8
    DEF TypeOK, Owners, LibraryInv, Fault, MoveOld, Moves, library
<1>10. Locked'
  BY <1>1, <1>2, <1>5, <1>6, <1>7 DEF Locked, Active, Ended, MoveOld, Moves, library
<1>11. NoBackupYet'
  BY <1>1, <1>2, <1>5, <1>6, <1>7 DEF IInv, TypeOK, NoBackupYet, At, MoveOld, Moves, library
<1>12. DisksInOrder'
  BY <1>1, <1>2, <1>5, <1>6, <1>7, NoneIsNoBackup, RequestTags
    DEF DisksInOrder, At, Moved, Installed, Active, Ended, Files, Owners, MoveOld, Moves, library
<1>13. NothingRuns'
  BY <1>1, <1>2, <1>5, <1>6, <1>7 DEF IInv, NothingRuns, At, Active, Ended, MoveOld, Moves, library
<1>14. RestoresExist'
  BY <1>1, <1>2, <1>5, <1>6, <1>7
    DEF IInv, RestoresExist, IsRestore, Active, Ended, PurgeDone, IsRemoval, At, MoveOld, Moves,
        library
<1>15. CapturedKnown'
  BY <1>1, <1>2, <1>5, <1>6, <1>7 DEF IInv, CapturedKnown, TypeOK, MoveOld, Moves, library
<1>16. PurgeDone'
  BY <1>1, <1>2, <1>5, <1>6, <1>7
    DEF IInv, PurgeDone, IsRemoval, IsRestore, At, RestoresExist, Active, Ended, MoveOld, Moves,
        library
<1>17. DisksSurvive'
  <2>1. OriginalsKept'
    BY <1>1, <1>2, <1>5, <1>6, <1>7, NoneIsNoBackup, RequestTags
      DEF IInv, DisksSurvive, OriginalsKept, IsRemoval, IsRestore, At, Moved, Installed, MoveOld,
          Moves
  <2>2. LiveDisksStay'
    BY <1>1 DEF IInv, DisksSurvive, LiveDisksStay, At, NothingRuns, MoveOld, library
  <2> QED BY <2>1, <2>2 DEF DisksSurvive
<1>18. AnswersWhole
  BY <1>1, <1>2, <1>5, <1>6, <1>7
    DEF AnswersWhole, IInv, TypeOK, Ended, IsRestore, At, DisksInOrder, Moved, Installed, MoveOld,
        Moves
<1> QED BY <1>8, <1>9, <1>10, <1>11, <1>12, <1>13, <1>14, <1>15, <1>16, <1>17, <1>18 DEF IInv

(* ... and the snapshot's disk comes to its place.                        *)
LEMMA PutNewKeeps ==
  ASSUME IInv, NEW r \in Requests, NEW f \in Files, PutNew(r, f)
  PROVE  IInv' /\ AnswersWhole
<1>1. q[r] \in Restore /\ q[r].step \in {"install"}
  BY WhoseStep DEF PutNew, At, RestoreSteps, IInv
<1>2. /\ TypeOK /\ Moved(r) /\ backup[r] \in [Files -> Owners]
      /\ backup \in [Requests -> [Files -> Owners] \cup {None}]
      /\ dir \in [Files -> Owners]
  BY <1>1, RequestTags DEF IInv, DisksInOrder, At, Moved, TypeOK
<1>3. /\ q[r].new \cup {f} \in SUBSET Disks
      /\ (IF q[r].new \cup {f} = Disks THEN "launch" ELSE "install") \in RestoreSteps
  BY <1>1, RequestTags DEF PutNew, RestoreSteps
<1>4. q' = [q EXCEPT ![r] = [q[r] EXCEPT !.new = q[r].new \cup {f}, !.step = IF q[r].new \cup {f} = Disks
        THEN "launch" ELSE "install"]]
  BY DEF PutNew
<1> DEFINE s == IF q[r].new \cup {f} = Disks THEN "launch" ELSE "install"
<1>5. /\ s \in {"launch", "install"}
      /\ q' = [q EXCEPT ![r] = [q[r] EXCEPT !.new = q[r].new \cup {f}, !.step = s]]
  BY <1>4
<1> HIDE DEF s
<1>6. /\ q' \in [Requests -> Restore \cup Removal \cup {Idle}]
      /\ q'[r] \in Restore /\ q'[r].new = q[r].new \cup {f} /\ q'[r].old = q[r].old
      /\ q'[r].step = s
      /\ q'[r].before = q[r].before
      /\ \A x \in Requests : x # r => q'[x] = q[x]
  BY <1>1, <1>2, <1>3, <1>5, NewChanges DEF RestoreSteps
<1>7. /\ q'[r] # Idle /\ q'[r].op = "restore" /\ lock' = lock
  BY <1>6, RequestTags DEF PutNew
<1>8. lock = r /\ \A x \in Requests : Active(x) => x = r
  BY <1>1, OneActive, RequestTags DEF Active, Ended
<1>9. LibraryInv'
  BY LibraryStays DEF PutNew, IInv, library, Moves
<1>10. TypeOK'
  BY <1>1, <1>2, <1>5, <1>6, <1>7, <1>8, <1>9
    DEF TypeOK, Owners, LibraryInv, Fault, PutNew, Moves, library
<1>11. Locked'
  BY <1>1, <1>2, <1>5, <1>6, <1>7, <1>8 DEF Locked, Active, Ended, PutNew, Moves, library
<1>12. NoBackupYet'
  BY <1>1, <1>2, <1>5, <1>6, <1>7, <1>8 DEF IInv, TypeOK, NoBackupYet, At, PutNew, Moves, library
<1>13. Moved(r)'
  BY <1>1, <1>2, <1>6 DEF Moved, Moves, PutNew, Files, Owners
<1>14. q'[r].step = "launch" => Installed(r)'
  <2>1. s = "launch" => q'[r].new = Disks
    BY <1>6 DEF s
  <2>2. \A x \in Files : x \notin q'[r].new => dir'[x] = None
    BY <1>6 DEF Moves, PutNew
  <2> QED BY <1>6, <1>13, <2>1, <2>2 DEF Installed, Moved
<1>15. DisksInOrder'
  BY <1>1, <1>5, <1>6, <1>7, <1>8, <1>13, <1>14 DEF DisksInOrder, At, Active, Ended
<1>16. NothingRuns'
  BY <1>1, <1>2, <1>5, <1>6, <1>7, <1>8
    DEF IInv, NothingRuns, At, Active, Ended, PutNew, Moves, library
<1>17. RestoresExist'
  BY <1>1, <1>2, <1>5, <1>6, <1>7, <1>8
    DEF IInv, RestoresExist, IsRestore, Active, Ended, PurgeDone, IsRemoval, At, PutNew, Moves,
        library
<1>18. CapturedKnown'
  BY <1>1, <1>2, <1>5, <1>6, <1>7, <1>8 DEF IInv, CapturedKnown, TypeOK, PutNew, Moves, library
<1>19. PurgeDone'
  BY <1>1, <1>2, <1>5, <1>6, <1>7, <1>8
    DEF IInv, PurgeDone, IsRemoval, IsRestore, At, RestoresExist, Active, Ended, PutNew, Moves,
        library
<1>20. DisksSurvive'
  BY <1>1, <1>2, <1>5, <1>6, <1>7, <1>8, RestoreConstants, LibraryConstants, NoneIsNoBackup,
     RequestTags
    DEF IInv, DisksSurvive, OriginalsKept, LiveDisksStay, IsRemoval, IsRestore, At, NothingRuns,
        DisksInOrder, Moved, Installed, TypeOK, NoBackupYet, PutNew, Moves, library
<1>21. AnswersWhole
  BY <1>1, <1>2, <1>5, <1>6, <1>7, <1>8
    DEF AnswersWhole, IInv, TypeOK, Ended, IsRestore, At, DisksInOrder, Moved, Installed, PutNew,
        Moves
<1> QED BY <1>9, <1>10, <1>11, <1>12, <1>15, <1>16, <1>17, <1>18, <1>19, <1>20, <1>21 DEF IInv

(* An installation that fails goes on to undo what it did, or leaves it   *)
(* in the backup.                                                         *)
LEMMA InstallFailsKeeps ==
  ASSUME IInv, NEW r \in Requests, InstallFails(r)
  PROVE  IInv' /\ AnswersWhole
<1>1. q[r] \in Restore /\ At(r, RestoreSteps)
  BY WhoseStep DEF InstallFails, At, RestoreSteps, RemovalSteps, IInv
<1>2. PICK s \in {"undo"} : To(r, s)
  BY DEF InstallFails
<1>3. /\ q' \in [Requests -> Restore \cup Removal \cup {Idle}] /\ q'[r] # Idle /\ q'[r].step = s
      /\ q'[r] \in Restore /\ q'[r].op = "restore" /\ q'[r].old = q[r].old /\ q'[r].new = q[r].new
      /\ q'[r].before = q[r].before /\ q'[r].name = q[r].name
      /\ \A x \in Requests : x # r => q'[x] = q[x]
      /\ lock' = IF s \in Ended THEN None ELSE lock
  BY <1>1, <1>2, RestoreGoes DEF IInv, RestoreSteps, RemovalSteps, Ended
<1>4. lock = r /\ \A x \in Requests : Active(x) => x = r
  BY <1>1, OneActive DEF At, Active, RestoreSteps, RemovalSteps, Ended
<1>5. LibraryInv'
  BY LibraryStays DEF InstallFails, IInv, library
<1>6. TypeOK'
  BY <1>1, <1>2, <1>3, <1>4, <1>5 DEF IInv, TypeOK, Owners, LibraryInv, Fault, InstallFails, library
<1>7. Locked'
  BY <1>1, <1>2, <1>3, <1>4 DEF Locked, Active, Ended, InstallFails, library
<1>8. NoBackupYet'
  BY <1>1, <1>2, <1>3, <1>4 DEF IInv, TypeOK, NoBackupYet, At, InstallFails, library
<1>9. DisksInOrder'
  BY <1>1, <1>2, <1>3, <1>4
    DEF IInv, DisksInOrder, At, Moved, Installed, Active, Ended, Files, TypeOK, InstallFails,
        library
<1>10. NothingRuns'
  BY <1>1, <1>2, <1>3, <1>4 DEF IInv, NothingRuns, At, Active, Ended, InstallFails, library
<1>11. RestoresExist'
  BY <1>1, <1>2, <1>3, <1>4, RequestTags
    DEF IInv, RestoresExist, IsRestore, Active, Ended, PurgeDone, IsRemoval, At, InstallFails,
        library
<1>12. CapturedKnown'
  BY <1>1, <1>2, <1>3, <1>4, RestoreConstants, NoneIsNoBackup, RequestTags
    DEF IInv, CapturedKnown, TypeOK, InstallFails, library
<1>13. PurgeDone'
  BY <1>1, <1>2, <1>3, <1>4
    DEF IInv, PurgeDone, IsRemoval, IsRestore, At, RestoresExist, Active, Ended, InstallFails,
        library
<1>14. DisksSurvive'
  BY <1>1, <1>2, <1>3, <1>4, RequestTags
    DEF IInv, DisksSurvive, OriginalsKept, LiveDisksStay, IsRemoval, IsRestore, At, NothingRuns,
        DisksInOrder, Moved, Installed, TypeOK, NoBackupYet, InstallFails, library
<1>15. AnswersWhole
  BY <1>1, <1>2, <1>3, <1>4
    DEF AnswersWhole, IInv, TypeOK, Ended, IsRestore, At, DisksInOrder, Moved, Installed,
        InstallFails
<1> QED BY <1>5, <1>6, <1>7, <1>8, <1>9, <1>10, <1>11, <1>12, <1>13, <1>14, <1>15 DEF IInv

(* The process is launched once all disks are in place, ...               *)
LEMMA LaunchKeeps ==
  ASSUME IInv, NEW r \in Requests, Launch(r)
  PROVE  IInv' /\ AnswersWhole
<1>1. q[r] \in Restore /\ At(r, RestoreSteps)
  BY WhoseStep DEF Launch, At, RestoreSteps, RemovalSteps, IInv
<1>2. PICK s \in {"spawn"} : To(r, s)
  BY DEF Launch
<1>3. /\ q' \in [Requests -> Restore \cup Removal \cup {Idle}] /\ q'[r] # Idle /\ q'[r].step = s
      /\ q'[r] \in Restore /\ q'[r].op = "restore" /\ q'[r].old = q[r].old /\ q'[r].new = q[r].new
      /\ q'[r].before = q[r].before /\ q'[r].name = q[r].name
      /\ \A x \in Requests : x # r => q'[x] = q[x]
      /\ lock' = IF s \in Ended THEN None ELSE lock
  BY <1>1, <1>2, RestoreGoes DEF IInv, RestoreSteps, RemovalSteps, Ended
<1>4. lock = r /\ \A x \in Requests : Active(x) => x = r
  BY <1>1, OneActive DEF At, Active, RestoreSteps, RemovalSteps, Ended
<1>5. LibraryInv'
  BY LibraryStays DEF Launch, IInv, library
<1>6. TypeOK'
  BY <1>1, <1>2, <1>3, <1>4, <1>5 DEF IInv, TypeOK, Owners, LibraryInv, Fault, Launch, library
<1>7. Locked'
  BY <1>1, <1>2, <1>3, <1>4 DEF Locked, Active, Ended, Launch, library
<1>8. NoBackupYet'
  BY <1>1, <1>2, <1>3, <1>4 DEF IInv, TypeOK, NoBackupYet, At, Launch, library
<1>9. DisksInOrder'
  BY <1>1, <1>2, <1>3, <1>4
    DEF IInv, DisksInOrder, At, Moved, Installed, Active, Ended, Files, TypeOK, Launch, library
<1>10. NothingRuns'
  BY <1>1, <1>2, <1>3, <1>4 DEF IInv, NothingRuns, At, Active, Ended, Launch, library
<1>11. RestoresExist'
  BY <1>1, <1>2, <1>3, <1>4
    DEF RestoresExist, IsRestore, Active, Ended, PurgeDone, IsRemoval, At, Launch, library
<1>12. CapturedKnown'
  BY <1>1, <1>2, <1>3, <1>4, RestoreConstants, NoneIsNoBackup, RequestTags
    DEF IInv, CapturedKnown, TypeOK, Launch, library
<1>13. PurgeDone'
  BY <1>1, <1>2, <1>3, <1>4, RequestTags
    DEF IInv, PurgeDone, IsRemoval, IsRestore, At, RestoresExist, Active, Ended, Launch, library
<1>14. DisksSurvive'
  BY <1>1, <1>2, <1>3, <1>4, RequestTags
    DEF IInv, DisksSurvive, OriginalsKept, LiveDisksStay, IsRemoval, IsRestore, At, NothingRuns,
        DisksInOrder, Moved, Installed, TypeOK, NoBackupYet, Launch, library
<1>15. AnswersWhole
  BY <1>1, <1>2, <1>3, <1>4
    DEF AnswersWhole, IInv, TypeOK, Ended, IsRestore, At, DisksInOrder, Moved, Installed, Launch
<1> QED BY <1>5, <1>6, <1>7, <1>8, <1>9, <1>10, <1>11, <1>12, <1>13, <1>14, <1>15 DEF IInv

(* ... opens them, ...                                                    *)
LEMMA SpawnKeeps ==
  ASSUME IInv, NEW r \in Requests, Spawn(r)
  PROVE  IInv' /\ AnswersWhole
<1>1. q[r] \in Restore /\ At(r, RestoreSteps)
  BY WhoseStep DEF Spawn, At, RestoreSteps, RemovalSteps, IInv
<1>2. PICK s \in {"load"} : To(r, s)
  BY DEF Spawn
<1>3. /\ q' \in [Requests -> Restore \cup Removal \cup {Idle}] /\ q'[r] # Idle /\ q'[r].step = s
      /\ q'[r] \in Restore /\ q'[r].op = "restore" /\ q'[r].old = q[r].old /\ q'[r].new = q[r].new
      /\ q'[r].before = q[r].before /\ q'[r].name = q[r].name
      /\ \A x \in Requests : x # r => q'[x] = q[x]
      /\ lock' = IF s \in Ended THEN None ELSE lock
  BY <1>1, <1>2, RestoreGoes DEF IInv, RestoreSteps, RemovalSteps, Ended
<1>4. lock = r /\ \A x \in Requests : Active(x) => x = r
  BY <1>1, OneActive DEF At, Active, RestoreSteps, RemovalSteps, Ended
<1>5. LibraryInv'
  BY LibraryStays DEF Spawn, IInv, library
<1>6. TypeOK'
  BY <1>1, <1>2, <1>3, <1>4, <1>5 DEF IInv, TypeOK, Owners, LibraryInv, Fault, Spawn, library
<1>7. Locked'
  BY <1>1, <1>2, <1>3, <1>4 DEF Locked, Active, Ended, Spawn, library
<1>8. NoBackupYet'
  BY <1>1, <1>2, <1>3, <1>4 DEF IInv, TypeOK, NoBackupYet, At, Spawn, library
<1>9. DisksInOrder'
  BY <1>1, <1>2, <1>3, <1>4
    DEF IInv, DisksInOrder, At, Moved, Installed, Active, Ended, Files, TypeOK, Spawn, library
<1>10. NothingRuns'
  BY <1>1, <1>2, <1>3, <1>4 DEF NothingRuns, At, Active, Ended, Spawn, library
<1>11. RestoresExist'
  BY <1>1, <1>2, <1>3, <1>4, RequestTags
    DEF IInv, RestoresExist, IsRestore, Active, Ended, PurgeDone, IsRemoval, At, Spawn, library
<1>12. CapturedKnown'
  BY <1>1, <1>2, <1>3, <1>4, RestoreConstants, NoneIsNoBackup, RequestTags
    DEF IInv, CapturedKnown, TypeOK, Spawn, library
<1>13. PurgeDone'
  BY <1>1, <1>2, <1>3, <1>4
    DEF IInv, PurgeDone, IsRemoval, IsRestore, At, RestoresExist, Active, Ended, Spawn, library
<1>14. DisksSurvive'
  BY <1>1, <1>2, <1>3, <1>4, RequestTags
    DEF IInv, DisksSurvive, OriginalsKept, LiveDisksStay, IsRemoval, IsRestore, At, NothingRuns,
        DisksInOrder, Moved, Installed, TypeOK, NoBackupYet, Spawn, library
<1>15. AnswersWhole
  BY <1>1, <1>2, <1>3, <1>4
    DEF AnswersWhole, IInv, TypeOK, Ended, IsRestore, At, DisksInOrder, Moved, Installed, Spawn
<1> QED BY <1>5, <1>6, <1>7, <1>8, <1>9, <1>10, <1>11, <1>12, <1>13, <1>14, <1>15 DEF IInv

(* ... loads the state ...                                                *)
LEMMA LoadKeeps ==
  ASSUME IInv, NEW r \in Requests, Load(r)
  PROVE  IInv' /\ AnswersWhole
<1>1. q[r] \in Restore /\ At(r, RestoreSteps)
  BY WhoseStep DEF Load, At, RestoreSteps, RemovalSteps, IInv
<1>2. PICK s \in {"loaded"} : To(r, s)
  BY DEF Load
<1>3. /\ q' \in [Requests -> Restore \cup Removal \cup {Idle}] /\ q'[r] # Idle /\ q'[r].step = s
      /\ q'[r] \in Restore /\ q'[r].op = "restore" /\ q'[r].old = q[r].old /\ q'[r].new = q[r].new
      /\ q'[r].before = q[r].before /\ q'[r].name = q[r].name
      /\ \A x \in Requests : x # r => q'[x] = q[x]
      /\ lock' = IF s \in Ended THEN None ELSE lock
  BY <1>1, <1>2, RestoreGoes DEF IInv, RestoreSteps, RemovalSteps, Ended
<1>4. lock = r /\ \A x \in Requests : Active(x) => x = r
  BY <1>1, OneActive DEF At, Active, RestoreSteps, RemovalSteps, Ended
<1>5. LibraryInv'
  BY LibraryStays DEF Load, IInv, library
<1>6. TypeOK'
  BY <1>1, <1>2, <1>3, <1>4, <1>5 DEF IInv, TypeOK, Owners, LibraryInv, Fault, Load, library
<1>7. Locked'
  BY <1>1, <1>2, <1>3, <1>4 DEF Locked, Active, Ended, Load, library
<1>8. NoBackupYet'
  BY <1>1, <1>2, <1>3, <1>4 DEF IInv, TypeOK, NoBackupYet, At, Load, library
<1>9. DisksInOrder'
  BY <1>1, <1>2, <1>3, <1>4
    DEF IInv, DisksInOrder, At, Moved, Installed, Active, Ended, Files, TypeOK, Load, library
<1>10. NothingRuns'
  BY <1>1, <1>2, <1>3, <1>4 DEF NothingRuns, At, Active, Ended, Load, library
<1>11. RestoresExist'
  BY <1>1, <1>2, <1>3, <1>4
    DEF RestoresExist, IsRestore, Active, Ended, PurgeDone, IsRemoval, At, Load, library
<1>12. CapturedKnown'
  BY <1>1, <1>2, <1>3, <1>4, RestoreConstants, NoneIsNoBackup, RequestTags
    DEF IInv, CapturedKnown, TypeOK, Load, library
<1>13. PurgeDone'
  BY <1>1, <1>2, <1>3, <1>4, RequestTags
    DEF IInv, PurgeDone, IsRemoval, IsRestore, At, RestoresExist, Active, Ended, Load, library
<1>14. DisksSurvive'
  BY <1>1, <1>2, <1>3, <1>4, RequestTags
    DEF IInv, DisksSurvive, OriginalsKept, LiveDisksStay, IsRemoval, IsRestore, At, NothingRuns,
        DisksInOrder, Moved, Installed, TypeOK, NoBackupYet, Load, library
<1>15. AnswersWhole
  BY <1>1, <1>2, <1>3, <1>4
    DEF AnswersWhole, IInv, TypeOK, Ended, IsRestore, At, DisksInOrder, Moved, Installed, Load
<1> QED BY <1>5, <1>6, <1>7, <1>8, <1>9, <1>10, <1>11, <1>12, <1>13, <1>14, <1>15 DEF IInv

(* ... and the backup goes.                                               *)
LEMMA CommitKeeps ==
  ASSUME IInv, NEW r \in Requests, Commit(r)
  PROVE  IInv' /\ AnswersWhole
<1>1. q[r] \in Restore /\ At(r, RestoreSteps)
  BY WhoseStep DEF Commit, At, RestoreSteps, RemovalSteps, IInv
<1>2. PICK s \in {"given"} : To(r, s)
  BY DEF Commit
<1>3. /\ q' \in [Requests -> Restore \cup Removal \cup {Idle}] /\ q'[r] # Idle /\ q'[r].step = s
      /\ q'[r] \in Restore /\ q'[r].op = "restore" /\ q'[r].old = q[r].old /\ q'[r].new = q[r].new
      /\ q'[r].before = q[r].before /\ q'[r].name = q[r].name
      /\ \A x \in Requests : x # r => q'[x] = q[x]
      /\ lock' = IF s \in Ended THEN None ELSE lock
  BY <1>1, <1>2, RestoreGoes DEF IInv, RemovalSteps, Ended
<1>4. lock = r /\ \A x \in Requests : Active(x) => x = r
  BY <1>1, OneActive DEF At, Active, RestoreSteps, RemovalSteps, Ended
<1>5. LibraryInv'
  BY LibraryStays DEF Commit, IInv, library
<1>6. TypeOK'
  BY <1>1, <1>2, <1>3, <1>4, <1>5 DEF IInv, TypeOK, Owners, LibraryInv, Fault, Commit, library
<1>7. Locked'
  BY <1>1, <1>2, <1>3, <1>4 DEF Locked, Active, Ended, Commit, library
<1>8. NoBackupYet'
  BY <1>1, <1>2, <1>3, <1>4 DEF IInv, TypeOK, NoBackupYet, At, Commit, library
<1>9. DisksInOrder'
  BY <1>1, <1>2, <1>3, <1>4
    DEF DisksInOrder, At, Moved, Installed, Active, Ended, Files, TypeOK, Commit, library
<1>10. NothingRuns'
  BY <1>1, <1>2, <1>3, <1>4 DEF NothingRuns, At, Active, Ended, Commit, library
<1>11. RestoresExist'
  BY <1>1, <1>2, <1>3, <1>4
    DEF RestoresExist, IsRestore, Active, Ended, PurgeDone, IsRemoval, At, Commit, library
<1>12. CapturedKnown'
  BY <1>1, <1>2, <1>3, <1>4, RestoreConstants, NoneIsNoBackup, RequestTags
    DEF IInv, CapturedKnown, TypeOK, Commit, library
<1>13. PurgeDone'
  BY <1>1, <1>2, <1>3, <1>4
    DEF IInv, PurgeDone, IsRemoval, IsRestore, At, RestoresExist, Active, Ended, Commit, library
<1>14. DisksSurvive'
  BY <1>1, <1>2, <1>3, <1>4
    DEF IInv, DisksSurvive, OriginalsKept, LiveDisksStay, IsRemoval, IsRestore, At, NothingRuns,
        DisksInOrder, Moved, Installed, TypeOK, NoBackupYet, Commit, library
<1>15. AnswersWhole
  BY <1>1, <1>2, <1>3, <1>4
    DEF AnswersWhole, IInv, TypeOK, Ended, IsRestore, At, DisksInOrder, Moved, Installed, Commit
<1> QED BY <1>5, <1>6, <1>7, <1>8, <1>9, <1>10, <1>11, <1>12, <1>13, <1>14, <1>15 DEF IInv

(* A launch that fails is rolled back.                                    *)
LEMMA RestoreFailsKeeps ==
  ASSUME IInv, NEW r \in Requests, RestoreFails(r)
  PROVE  IInv' /\ AnswersWhole
<1>1. q[r] \in Restore /\ At(r, RestoreSteps)
  BY WhoseStep DEF RestoreFails, At, RestoreSteps, RemovalSteps, IInv
<1>2. PICK s \in {"error"} : To(r, s)
  BY DEF RestoreFails
<1>3. /\ q' \in [Requests -> Restore \cup Removal \cup {Idle}] /\ q'[r] # Idle /\ q'[r].step = s
      /\ q'[r] \in Restore /\ q'[r].op = "restore" /\ q'[r].old = q[r].old /\ q'[r].new = q[r].new
      /\ q'[r].before = q[r].before /\ q'[r].name = q[r].name
      /\ \A x \in Requests : x # r => q'[x] = q[x]
      /\ lock' = IF s \in Ended THEN None ELSE lock
  BY <1>1, <1>2, RestoreGoes DEF IInv, RestoreSteps, RemovalSteps, Ended
<1>4. lock = r /\ \A x \in Requests : Active(x) => x = r
  BY <1>1, OneActive DEF At, Active, RestoreSteps, RemovalSteps, Ended
<1>5. LibraryInv'
  BY LibraryStays DEF RestoreFails, IInv, library
<1>6. TypeOK'
  BY <1>1, <1>2, <1>3, <1>4, <1>5 DEF IInv, TypeOK, Owners, LibraryInv, Fault, RestoreFails, library
<1>7. Locked'
  BY <1>1, <1>2, <1>3, <1>4 DEF Locked, Active, Ended, RestoreFails, library
<1>8. NoBackupYet'
  BY <1>1, <1>2, <1>3, <1>4 DEF IInv, TypeOK, NoBackupYet, At, RestoreFails, library
<1>9. DisksInOrder'
  BY <1>1, <1>2, <1>3, <1>4
    DEF IInv, DisksInOrder, At, Moved, Installed, Active, Ended, Files, TypeOK, RestoreFails,
        library
<1>10. NothingRuns'
  BY <1>1, <1>2, <1>3, <1>4 DEF NothingRuns, At, Active, Ended, RestoreFails, library
<1>11. RestoresExist'
  BY <1>1, <1>2, <1>3, <1>4, RequestTags
    DEF IInv, RestoresExist, IsRestore, Active, Ended, PurgeDone, IsRemoval, At, RestoreFails,
        library
<1>12. CapturedKnown'
  BY <1>1, <1>2, <1>3, <1>4, RestoreConstants, NoneIsNoBackup, RequestTags
    DEF IInv, CapturedKnown, TypeOK, RestoreFails, library
<1>13. PurgeDone'
  BY <1>1, <1>2, <1>3, <1>4
    DEF IInv, PurgeDone, IsRemoval, IsRestore, At, RestoresExist, Active, Ended, RestoreFails,
        library
<1>14. DisksSurvive'
  BY <1>1, <1>2, <1>3, <1>4, RequestTags
    DEF IInv, DisksSurvive, OriginalsKept, LiveDisksStay, IsRemoval, IsRestore, At, NothingRuns,
        DisksInOrder, Moved, Installed, TypeOK, NoBackupYet, RestoreFails, library
<1>15. AnswersWhole
  BY <1>1, <1>2, <1>3, <1>4
    DEF AnswersWhole, IInv, TypeOK, Ended, IsRestore, At, DisksInOrder, Moved, Installed,
        RestoreFails
<1> QED BY <1>5, <1>6, <1>7, <1>8, <1>9, <1>10, <1>11, <1>12, <1>13, <1>14, <1>15 DEF IInv

(* Before it is, the process is gone; else the disks stay with it.        *)
LEMMA StopProcessKeeps ==
  ASSUME IInv, NEW r \in Requests, StopProcess(r)
  PROVE  IInv' /\ AnswersWhole
<1>1. q[r] \in Restore /\ At(r, RestoreSteps)
  BY WhoseStep DEF StopProcess, At, RestoreSteps, RemovalSteps, IInv
<1>2. PICK s \in {"rollback", "unknown"} : To(r, s) /\ IF s = "rollback" THEN proc' = None
             ELSE state' = "unknown"
  BY DEF StopProcess, KillFails
<1>3. /\ q' \in [Requests -> Restore \cup Removal \cup {Idle}] /\ q'[r] # Idle /\ q'[r].step = s
      /\ q'[r] \in Restore /\ q'[r].op = "restore" /\ q'[r].old = q[r].old /\ q'[r].new = q[r].new
      /\ q'[r].before = q[r].before /\ q'[r].name = q[r].name
      /\ \A x \in Requests : x # r => q'[x] = q[x]
      /\ lock' = IF s \in Ended THEN None ELSE lock
  BY <1>1, <1>2, RestoreGoes DEF IInv, RestoreSteps, RemovalSteps, Ended
<1>4. lock = r /\ \A x \in Requests : Active(x) => x = r
  BY <1>1, OneActive DEF At, Active, RestoreSteps, RemovalSteps, Ended
<1>5. LibraryInv'
  BY LibraryStays DEF StopProcess, IInv, library, KillFails
<1>6. TypeOK'
  BY <1>1, <1>2, <1>3, <1>4, <1>5
    DEF IInv, TypeOK, Owners, LibraryInv, Fault, StopProcess, KillFails, library
<1>7. Locked'
  BY <1>1, <1>2, <1>3, <1>4 DEF Locked, Active, Ended, StopProcess, KillFails, library
<1>8. NoBackupYet'
  BY <1>1, <1>2, <1>3, <1>4 DEF IInv, TypeOK, NoBackupYet, At, StopProcess, KillFails, library
<1>9. DisksInOrder'
  BY <1>1, <1>2, <1>3, <1>4
    DEF IInv, DisksInOrder, At, Moved, Installed, Active, Ended, Files, TypeOK, StopProcess,
        KillFails, library
<1>10. NothingRuns'
  BY <1>1, <1>2, <1>3, <1>4 DEF NothingRuns, At, Active, Ended, StopProcess, KillFails, library
<1>11. RestoresExist'
  BY <1>1, <1>2, <1>3, <1>4, RequestTags
    DEF IInv, RestoresExist, IsRestore, Active, Ended, PurgeDone, IsRemoval, At, StopProcess,
        KillFails, library
<1>12. CapturedKnown'
  BY <1>1, <1>2, <1>3, <1>4, RestoreConstants, NoneIsNoBackup, RequestTags
    DEF IInv, CapturedKnown, TypeOK, StopProcess, KillFails, library
<1>13. PurgeDone'
  BY <1>1, <1>2, <1>3, <1>4, RequestTags
    DEF IInv, PurgeDone, IsRemoval, IsRestore, At, RestoresExist, Active, Ended, StopProcess,
        KillFails, library
<1>14. DisksSurvive'
  BY <1>1, <1>2, <1>3, <1>4, RestoreConstants, LibraryConstants, NoneIsNoBackup, RequestTags
    DEF IInv, DisksSurvive, OriginalsKept, LiveDisksStay, IsRemoval, IsRestore, At, NothingRuns,
        DisksInOrder, Moved, Installed, TypeOK, NoBackupYet, StopProcess, KillFails, library
<1>15. AnswersWhole
  BY <1>1, <1>2, <1>3, <1>4
    DEF AnswersWhole, IInv, TypeOK, Ended, IsRestore, At, DisksInOrder, Moved, Installed,
        StopProcess, KillFails
<1> QED BY <1>5, <1>6, <1>7, <1>8, <1>9, <1>10, <1>11, <1>12, <1>13, <1>14, <1>15 DEF IInv

(* Rolling back takes the snapshot's disks away ...                       *)
LEMMA RemoveNewKeeps ==
  ASSUME IInv, NEW r \in Requests, NEW f \in Files, RemoveNew(r, f)
  PROVE  IInv' /\ AnswersWhole
<1>1. q[r] \in Restore /\ q[r].step \in {"undo", "rollback"}
  BY WhoseStep DEF RemoveNew, At, RestoreSteps, IInv
<1>2. /\ TypeOK /\ Moved(r) /\ backup[r] \in [Files -> Owners]
      /\ backup \in [Requests -> [Files -> Owners] \cup {None}]
      /\ dir \in [Files -> Owners]
  BY <1>1, RequestTags DEF IInv, DisksInOrder, At, Moved, TypeOK
<1>3. q[r].new \ {f} \in SUBSET Disks /\ (q[r].step) \in RestoreSteps
  BY <1>1, RequestTags DEF RestoreSteps
<1>4. q' = [q EXCEPT ![r] = [q[r] EXCEPT !.new = q[r].new \ {f}, !.step = q[r].step]]
  BY DEF RemoveNew
<1>5. /\ q' \in [Requests -> Restore \cup Removal \cup {Idle}]
      /\ q'[r] \in Restore /\ q'[r].new = q[r].new \ {f} /\ q'[r].old = q[r].old
      /\ q'[r].step = q[r].step
      /\ q'[r].before = q[r].before
      /\ \A x \in Requests : x # r => q'[x] = q[x]
  BY <1>1, <1>2, <1>3, <1>4, NewChanges
<1>6. /\ q'[r] # Idle /\ q'[r].op = "restore" /\ lock' = lock
  BY <1>5, RequestTags DEF RemoveNew
<1>7. lock = r /\ \A x \in Requests : Active(x) => x = r
  BY <1>1, OneActive, RequestTags DEF Active, Ended
<1>8. LibraryInv'
  BY LibraryStays DEF RemoveNew, IInv, library
<1>9. TypeOK'
  BY <1>1, <1>2, <1>5, <1>6, <1>7, <1>8 DEF TypeOK, Owners, LibraryInv, Fault, RemoveNew, library
<1>10. Locked'
  BY <1>1, <1>2, <1>5, <1>6, <1>7 DEF Locked, Active, Ended, RemoveNew, library
<1>11. NoBackupYet'
  BY <1>1, <1>2, <1>5, <1>6, <1>7 DEF IInv, TypeOK, NoBackupYet, At, RemoveNew, library
<1>12. DisksInOrder'
  BY <1>1, <1>2, <1>5, <1>6, <1>7
    DEF DisksInOrder, At, Moved, Installed, Active, Ended, Files, Owners, RemoveNew, library
<1>13. NothingRuns'
  BY <1>1, <1>2, <1>5, <1>6, <1>7 DEF IInv, NothingRuns, At, Active, Ended, RemoveNew, library
<1>14. RestoresExist'
  BY <1>1, <1>2, <1>5, <1>6, <1>7
    DEF IInv, RestoresExist, IsRestore, Active, Ended, PurgeDone, IsRemoval, At, RemoveNew, library
<1>15. CapturedKnown'
  BY <1>1, <1>2, <1>5, <1>6, <1>7 DEF IInv, CapturedKnown, TypeOK, RemoveNew, library
<1>16. PurgeDone'
  BY <1>1, <1>2, <1>5, <1>6, <1>7
    DEF IInv, PurgeDone, IsRemoval, IsRestore, At, RestoresExist, Active, Ended, RemoveNew, library
<1>17. DisksSurvive'
  BY <1>1, <1>2, <1>5, <1>6, <1>7, RestoreConstants, NoneIsNoBackup, RequestTags
    DEF IInv, DisksSurvive, OriginalsKept, LiveDisksStay, IsRemoval, IsRestore, At, NothingRuns,
        DisksInOrder, Moved, Installed, TypeOK, NoBackupYet, RemoveNew, library
<1>18. AnswersWhole
  BY <1>1, <1>2, <1>5, <1>6, <1>7
    DEF AnswersWhole, IInv, TypeOK, Ended, IsRestore, At, DisksInOrder, Moved, Installed, RemoveNew
<1> QED BY <1>8, <1>9, <1>10, <1>11, <1>12, <1>13, <1>14, <1>15, <1>16, <1>17, <1>18 DEF IInv

(* ... and puts back each file whose place is empty.                      *)
LEMMA PutOldKeeps ==
  ASSUME IInv, NEW r \in Requests, NEW f \in Files, PutOld(r, f)
  PROVE  IInv' /\ AnswersWhole
<1>1. q[r] \in Restore /\ q[r].step \in {"undo", "rollback"}
  BY WhoseStep DEF PutOld, At, RestoreSteps, IInv
<1>2. /\ TypeOK /\ Moved(r) /\ backup[r] \in [Files -> Owners]
      /\ backup \in [Requests -> [Files -> Owners] \cup {None}]
      /\ dir \in [Files -> Owners]
  BY <1>1, RequestTags DEF IInv, DisksInOrder, At, Moved, TypeOK
<1>3. q[r].old \ {f} \in SUBSET Files
  BY <1>1, RequestTags
<1>4. q' = [q EXCEPT ![r].old = q[r].old \ {f}]
  BY DEF PutOld
<1>5. /\ q' \in [Requests -> Restore \cup Removal \cup {Idle}]
      /\ q'[r] \in Restore /\ q'[r].old = q[r].old \ {f} /\ q'[r].new = q[r].new
      /\ q'[r].step = q[r].step
      /\ q'[r].before = q[r].before
      /\ \A x \in Requests : x # r => q'[x] = q[x]
  BY <1>1, <1>2, <1>3, <1>4, OldChanges
<1>6. /\ q'[r] # Idle /\ q'[r].op = "restore" /\ lock' = lock
  BY <1>5, RequestTags DEF PutOld
<1>7. lock = r /\ \A x \in Requests : Active(x) => x = r
  BY <1>1, OneActive, RequestTags DEF Active, Ended
<1>8. LibraryInv'
  BY LibraryStays DEF PutOld, IInv, library
<1>9. TypeOK'
  BY <1>1, <1>2, <1>5, <1>6, <1>7, <1>8 DEF TypeOK, Owners, LibraryInv, Fault, PutOld, library
<1>10. Locked'
  BY <1>1, <1>2, <1>5, <1>6, <1>7 DEF Locked, Active, Ended, PutOld, library
<1>11. NoBackupYet'
  BY <1>1, <1>2, <1>5, <1>6, <1>7 DEF IInv, TypeOK, NoBackupYet, At, PutOld, library
<1>12. DisksInOrder'
  BY <1>1, <1>2, <1>5, <1>6, <1>7, NoneIsNoBackup, RequestTags
    DEF DisksInOrder, At, Moved, Installed, Active, Ended, Files, Owners, PutOld, library
<1>13. NothingRuns'
  BY <1>1, <1>2, <1>5, <1>6, <1>7 DEF IInv, NothingRuns, At, Active, Ended, PutOld, library
<1>14. RestoresExist'
  BY <1>1, <1>2, <1>5, <1>6, <1>7
    DEF IInv, RestoresExist, IsRestore, Active, Ended, PurgeDone, IsRemoval, At, PutOld, library
<1>15. CapturedKnown'
  BY <1>1, <1>2, <1>5, <1>6, <1>7 DEF IInv, CapturedKnown, TypeOK, PutOld, library
<1>16. PurgeDone'
  BY <1>1, <1>2, <1>5, <1>6, <1>7
    DEF IInv, PurgeDone, IsRemoval, IsRestore, At, RestoresExist, Active, Ended, PutOld, library
<1>17. DisksSurvive'
  BY <1>1, <1>2, <1>5, <1>6, <1>7, RestoreConstants, NoneIsNoBackup, RequestTags
    DEF IInv, DisksSurvive, OriginalsKept, LiveDisksStay, IsRemoval, IsRestore, At, NothingRuns,
        DisksInOrder, Moved, Installed, TypeOK, NoBackupYet, PutOld, library
<1>18. AnswersWhole
  BY <1>1, <1>2, <1>5, <1>6, <1>7
    DEF AnswersWhole, IInv, TypeOK, Ended, IsRestore, At, DisksInOrder, Moved, Installed, PutOld
<1> QED BY <1>8, <1>9, <1>10, <1>11, <1>12, <1>13, <1>14, <1>15, <1>16, <1>17, <1>18 DEF IInv

(* When all are back, the disks are as before.                            *)
LEMMA RolledBackKeeps ==
  ASSUME IInv, NEW r \in Requests, RolledBack(r)
  PROVE  IInv' /\ AnswersWhole
<1>1. q[r] \in Restore /\ At(r, RestoreSteps)
  BY WhoseStep DEF RolledBack, At, RestoreSteps, RemovalSteps, IInv
<1>2. PICK s \in {"undone"} : To(r, s)
  BY DEF RolledBack
<1>3. /\ q' \in [Requests -> Restore \cup Removal \cup {Idle}] /\ q'[r] # Idle /\ q'[r].step = s
      /\ q'[r] \in Restore /\ q'[r].op = "restore" /\ q'[r].old = q[r].old /\ q'[r].new = q[r].new
      /\ q'[r].before = q[r].before /\ q'[r].name = q[r].name
      /\ \A x \in Requests : x # r => q'[x] = q[x]
      /\ lock' = IF s \in Ended THEN None ELSE lock
  BY <1>1, <1>2, RestoreGoes DEF IInv, RemovalSteps, Ended
<1>4. lock = r /\ \A x \in Requests : Active(x) => x = r
  BY <1>1, OneActive DEF At, Active, RestoreSteps, RemovalSteps, Ended
<1>5. LibraryInv'
  BY LibraryStays DEF RolledBack, IInv, library
<1>6. TypeOK'
  BY <1>1, <1>2, <1>3, <1>4, <1>5 DEF IInv, TypeOK, Owners, LibraryInv, Fault, RolledBack, library
<1>7. Locked'
  BY <1>1, <1>2, <1>3, <1>4 DEF Locked, Active, Ended, RolledBack, library
<1>8. NoBackupYet'
  BY <1>1, <1>2, <1>3, <1>4 DEF IInv, TypeOK, NoBackupYet, At, RolledBack, library
<1>9. DisksInOrder'
  BY <1>1, <1>2, <1>3, <1>4
    DEF DisksInOrder, At, Moved, Installed, Active, Ended, Files, TypeOK, RolledBack, library
<1>10. NothingRuns'
  BY <1>1, <1>2, <1>3, <1>4 DEF NothingRuns, At, Active, Ended, RolledBack, library
<1>11. RestoresExist'
  BY <1>1, <1>2, <1>3, <1>4
    DEF RestoresExist, IsRestore, Active, Ended, PurgeDone, IsRemoval, At, RolledBack, library
<1>12. CapturedKnown'
  BY <1>1, <1>2, <1>3, <1>4, RestoreConstants, NoneIsNoBackup, RequestTags
    DEF IInv, CapturedKnown, TypeOK, RolledBack, library
<1>13. PurgeDone'
  BY <1>1, <1>2, <1>3, <1>4, RequestTags
    DEF IInv, PurgeDone, IsRemoval, IsRestore, At, RestoresExist, Active, Ended, RolledBack,
        library
<1>14. DisksSurvive'
  BY <1>1, <1>2, <1>3, <1>4, RestoreConstants, NoneIsNoBackup, RequestTags
    DEF IInv, DisksSurvive, OriginalsKept, LiveDisksStay, IsRemoval, IsRestore, At, NothingRuns,
        DisksInOrder, Moved, Installed, TypeOK, NoBackupYet, RolledBack, library
<1>15. AnswersWhole
  BY <1>1, <1>2, <1>3, <1>4, RequestTags
    DEF AnswersWhole, IInv, TypeOK, Ended, IsRestore, At, DisksInOrder, Moved, Installed,
        RolledBack
<1> QED BY <1>5, <1>6, <1>7, <1>8, <1>9, <1>10, <1>11, <1>12, <1>13, <1>14, <1>15 DEF IInv

(* A rollback that fails leaves what it has not put back in the backup.   *)
LEMMA RollbackFailsKeeps ==
  ASSUME IInv, NEW r \in Requests, RollbackFails(r)
  PROVE  IInv' /\ AnswersWhole
<1>1. q[r] \in Restore /\ At(r, RestoreSteps)
  BY WhoseStep DEF RollbackFails, At, RestoreSteps, RemovalSteps, IInv
<1>2. PICK s \in {"unknown", "half"} : To(r, s) /\ (s = "unknown" => state' = "unknown")
  BY DEF RollbackFails, Reported
<1>3. /\ q' \in [Requests -> Restore \cup Removal \cup {Idle}] /\ q'[r] # Idle /\ q'[r].step = s
      /\ q'[r] \in Restore /\ q'[r].op = "restore" /\ q'[r].old = q[r].old /\ q'[r].new = q[r].new
      /\ q'[r].before = q[r].before /\ q'[r].name = q[r].name
      /\ \A x \in Requests : x # r => q'[x] = q[x]
      /\ lock' = IF s \in Ended THEN None ELSE lock
  BY <1>1, <1>2, RestoreGoes DEF IInv, RemovalSteps, Ended
<1>4. lock = r /\ \A x \in Requests : Active(x) => x = r
  BY <1>1, OneActive DEF At, Active, RestoreSteps, RemovalSteps, Ended
<1>5. LibraryInv'
  BY LibraryStays DEF RollbackFails, IInv, library, Reported
<1>6. TypeOK'
  BY <1>1, <1>2, <1>3, <1>4, <1>5
    DEF IInv, TypeOK, Owners, LibraryInv, Fault, RollbackFails, Reported, library
<1>7. Locked'
  BY <1>1, <1>2, <1>3, <1>4 DEF Locked, Active, Ended, RollbackFails, Reported, library
<1>8. NoBackupYet'
  BY <1>1, <1>2, <1>3, <1>4 DEF IInv, TypeOK, NoBackupYet, At, RollbackFails, Reported, library
<1>9. DisksInOrder'
  BY <1>1, <1>2, <1>3, <1>4
    DEF DisksInOrder, At, Moved, Installed, Active, Ended, Files, TypeOK, RollbackFails, Reported,
        library
<1>10. NothingRuns'
  BY <1>1, <1>2, <1>3, <1>4 DEF NothingRuns, At, Active, Ended, RollbackFails, Reported, library
<1>11. RestoresExist'
  BY <1>1, <1>2, <1>3, <1>4
    DEF RestoresExist, IsRestore, Active, Ended, PurgeDone, IsRemoval, At, RollbackFails, Reported,
        library
<1>12. CapturedKnown'
  BY <1>1, <1>2, <1>3, <1>4, RestoreConstants, NoneIsNoBackup, RequestTags
    DEF IInv, CapturedKnown, TypeOK, RollbackFails, Reported, library
<1>13. PurgeDone'
  BY <1>1, <1>2, <1>3, <1>4, RequestTags
    DEF IInv, PurgeDone, IsRemoval, IsRestore, At, RestoresExist, Active, Ended, RollbackFails,
        Reported, library
<1>14. DisksSurvive'
  BY <1>1, <1>2, <1>3, <1>4, RequestTags
    DEF IInv, DisksSurvive, OriginalsKept, LiveDisksStay, IsRemoval, IsRestore, At, NothingRuns,
        DisksInOrder, Moved, Installed, TypeOK, NoBackupYet, RollbackFails, Reported, library
<1>15. AnswersWhole
  BY <1>1, <1>2, <1>3, <1>4
    DEF AnswersWhole, IInv, TypeOK, Ended, IsRestore, At, DisksInOrder, Moved, Installed,
        RollbackFails, Reported
<1> QED BY <1>5, <1>6, <1>7, <1>8, <1>9, <1>10, <1>11, <1>12, <1>13, <1>14, <1>15 DEF IInv

(* A deletion takes the lock once the process is gone.                    *)
LEMMA AskRemoveKeeps ==
  ASSUME IInv, NEW r \in Requests, NEW p \in BOOLEAN, AskRemove(r, p)
  PROVE  IInv' /\ AnswersWhole
<1>1. /\ q'[r] = [op |-> "delete", step |-> "disks", purge |-> p] /\ q'[r] \in Removal
      /\ q' \in [Requests -> Restore \cup Removal \cup {Idle}]
      /\ \A x \in Requests : x # r => q'[x] = q[x]
  BY DEF AskRemove, IInv, TypeOK, Restore, Removal
<1>2. LibraryInv'
  BY LibraryStays DEF AskRemove, IInv, library, Stopped
<1>3. TypeOK'
  BY <1>1, <1>2 DEF IInv, TypeOK, Owners, LibraryInv, Fault, AskRemove, Stopped, library
<1>4. Locked'
  BY <1>1, RestoreConstants DEF IInv, Locked, Active, Ended, AskRemove, Stopped, library
<1>5. NoBackupYet'
  BY <1>1 DEF IInv, NoBackupYet, At, AskRemove, Stopped, library
<1>6. DisksInOrder'
  BY <1>1
    DEF IInv, DisksInOrder, At, Moved, Installed, Active, Ended, Files, TypeOK, AskRemove, Stopped,
        library
<1>7. NothingRuns'
  BY <1>1 DEF NothingRuns, At, Active, Ended, AskRemove, Stopped, library
<1>8. RestoresExist'
  BY <1>1
    DEF RestoresExist, IsRestore, Active, Ended, PurgeDone, IsRemoval, At, AskRemove, Stopped,
        library
<1>9. CapturedKnown'
  BY <1>1, LibraryConstants DEF IInv, CapturedKnown, TypeOK, AskRemove, Stopped, library
<1>10. PurgeDone'
  BY <1>1
    DEF IInv, PurgeDone, IsRemoval, IsRestore, At, RestoresExist, Active, Ended, AskRemove,
        Stopped, library
<1>11. DisksSurvive'
  BY <1>1
    DEF IInv, DisksSurvive, OriginalsKept, LiveDisksStay, IsRemoval, IsRestore, At, NothingRuns,
        DisksInOrder, Moved, Installed, TypeOK, NoBackupYet, AskRemove, Stopped, library
<1>12. AnswersWhole
  BY <1>1
    DEF AnswersWhole, IInv, TypeOK, Ended, IsRestore, At, DisksInOrder, Moved, Installed,
        AskRemove, Stopped
<1> QED BY <1>2, <1>3, <1>4, <1>5, <1>6, <1>7, <1>8, <1>9, <1>10, <1>11, <1>12 DEF IInv

(* It removes the disks, ...                                              *)
LEMMA RemoveDisksKeeps ==
  ASSUME IInv, NEW r \in Requests, RemoveDisks(r)
  PROVE  IInv' /\ AnswersWhole
<1>1. q[r] \in Removal /\ At(r, RemovalSteps)
  BY WhoseStep DEF RemoveDisks, At, RestoreSteps, RemovalSteps, IInv
<1>2. PICK s \in {"snapshots", "row"} : To(r, s) /\ (s = "row" => ~q[r].purge)
  BY DEF RemoveDisks
<1>3. /\ q' \in [Requests -> Restore \cup Removal \cup {Idle}] /\ q'[r] # Idle /\ q'[r].step = s
      /\ q'[r] \in Removal /\ q'[r].op = "delete" /\ q'[r].purge = q[r].purge
      /\ \A x \in Requests : x # r => q'[x] = q[x]
      /\ lock' = IF s \in Ended THEN None ELSE lock
  BY <1>1, <1>2, RemovalGoes DEF IInv, RemovalSteps, Ended
<1>4. lock = r /\ \A x \in Requests : Active(x) => x = r
  BY <1>1, OneActive DEF At, Active, RestoreSteps, RemovalSteps, Ended
<1>5. LibraryInv'
  BY LibraryStays DEF RemoveDisks, IInv, library
<1>6. TypeOK'
  BY <1>1, <1>2, <1>3, <1>4, <1>5 DEF IInv, TypeOK, Owners, LibraryInv, Fault, RemoveDisks, library
<1>7. Locked'
  BY <1>1, <1>2, <1>3, <1>4 DEF Locked, Active, Ended, RemoveDisks, library
<1>8. NoBackupYet'
  BY <1>1, <1>2, <1>3, <1>4 DEF NoBackupYet, At, RemoveDisks, library
<1>9. DisksInOrder'
  BY <1>1, <1>2, <1>3, <1>4
    DEF DisksInOrder, At, Moved, Installed, Active, Ended, Files, TypeOK, RemoveDisks, library
<1>10. NothingRuns'
  BY <1>1, <1>2, <1>3, <1>4 DEF IInv, NothingRuns, At, Active, Ended, RemoveDisks, library
<1>11. RestoresExist'
  BY <1>1, <1>2, <1>3, <1>4
    DEF RestoresExist, IsRestore, Active, Ended, PurgeDone, IsRemoval, At, RemoveDisks, library
<1>12. CapturedKnown'
  BY <1>1, <1>2, <1>3, <1>4, RestoreConstants, NoneIsNoBackup, RequestTags
    DEF IInv, CapturedKnown, TypeOK, RemoveDisks, library
<1>13. PurgeDone'
  BY <1>1, <1>2, <1>3, <1>4
    DEF IInv, PurgeDone, IsRemoval, IsRestore, At, RestoresExist, Active, Ended, RemoveDisks,
        library
<1>14. DisksSurvive'
  BY <1>1, <1>2, <1>3, <1>4
    DEF IInv, DisksSurvive, OriginalsKept, LiveDisksStay, IsRemoval, IsRestore, At, NothingRuns,
        DisksInOrder, Moved, Installed, TypeOK, NoBackupYet, RemoveDisks, library
<1>15. AnswersWhole
  BY <1>1, <1>2, <1>3, <1>4
    DEF AnswersWhole, IInv, TypeOK, Ended, IsRestore, At, DisksInOrder, Moved, Installed,
        RemoveDisks
<1> QED BY <1>5, <1>6, <1>7, <1>8, <1>9, <1>10, <1>11, <1>12, <1>13, <1>14, <1>15 DEF IInv

(* ... and, behind its snapshots, the VM's row.                           *)
LEMMA RemoveRowKeeps ==
  ASSUME IInv, NEW r \in Requests, RemoveRow(r)
  PROVE  IInv' /\ AnswersWhole
<1>1. q[r] \in Removal /\ At(r, RemovalSteps)
  BY WhoseStep DEF RemoveRow, At, RestoreSteps, RemovalSteps, IInv
<1>2. PICK s \in {"given"} : To(r, s)
  BY DEF RemoveRow
<1>3. /\ q' \in [Requests -> Restore \cup Removal \cup {Idle}] /\ q'[r] # Idle /\ q'[r].step = s
      /\ q'[r] \in Removal /\ q'[r].op = "delete" /\ q'[r].purge = q[r].purge
      /\ \A x \in Requests : x # r => q'[x] = q[x]
      /\ lock' = IF s \in Ended THEN None ELSE lock
  BY <1>1, <1>2, RemovalGoes DEF IInv, RemovalSteps, Ended
<1>4. lock = r /\ \A x \in Requests : Active(x) => x = r
  BY <1>1, OneActive DEF At, Active, RestoreSteps, RemovalSteps, Ended
<1>5. LibraryInv'
  BY LibraryStays DEF RemoveRow, IInv, library
<1>6. TypeOK'
  BY <1>1, <1>2, <1>3, <1>4, <1>5 DEF IInv, TypeOK, Owners, LibraryInv, Fault, RemoveRow, library
<1>7. Locked'
  BY <1>1, <1>2, <1>3, <1>4 DEF Locked, Active, Ended, RemoveRow, library
<1>8. NoBackupYet'
  BY <1>1, <1>2, <1>3, <1>4 DEF IInv, TypeOK, NoBackupYet, At, RemoveRow, library
<1>9. DisksInOrder'
  BY <1>1, <1>2, <1>3, <1>4
    DEF DisksInOrder, At, Moved, Installed, Active, Ended, Files, TypeOK, RemoveRow, library
<1>10. NothingRuns'
  BY <1>1, <1>2, <1>3, <1>4 DEF NothingRuns, At, Active, Ended, RemoveRow, library
<1>11. RestoresExist'
  BY <1>1, <1>2, <1>3, <1>4
    DEF RestoresExist, IsRestore, Active, Ended, PurgeDone, IsRemoval, At, RemoveRow, library
<1>12. CapturedKnown'
  BY <1>1, <1>2, <1>3, <1>4, RestoreConstants, NoneIsNoBackup, RequestTags
    DEF IInv, CapturedKnown, TypeOK, RemoveRow, library
<1>13. PurgeDone'
  BY <1>1, <1>2, <1>3, <1>4, RequestTags
    DEF IInv, PurgeDone, IsRemoval, IsRestore, At, RestoresExist, Active, Ended, RemoveRow, library
<1>14. DisksSurvive'
  BY <1>1, <1>2, <1>3, <1>4
    DEF IInv, DisksSurvive, OriginalsKept, LiveDisksStay, IsRemoval, IsRestore, At, NothingRuns,
        DisksInOrder, Moved, Installed, TypeOK, NoBackupYet, RemoveRow, library
<1>15. AnswersWhole
  BY <1>1, <1>2, <1>3, <1>4, RequestTags
    DEF AnswersWhole, IInv, TypeOK, Ended, IsRestore, At, DisksInOrder, Moved, Installed, RemoveRow
<1> QED BY <1>5, <1>6, <1>7, <1>8, <1>9, <1>10, <1>11, <1>12, <1>13, <1>14, <1>15 DEF IInv

(* A request that is dropped leaves disks and backup as they are at that  *)
(* moment.                                                                *)
LEMMA DisconnectKeeps ==
  ASSUME IInv, NEW r \in Requests, Disconnect(r)
  PROVE  IInv' /\ AnswersWhole
<1>1. At(r, RestoreSteps \cup RemovalSteps) /\ (q[r] \in Restore \/ q[r] \in Removal)
  BY WhoseStep DEF Disconnect, At, RestoreSteps, RemovalSteps, IInv
<1>2. PICK s \in {"cut"} : To(r, s)
  BY DEF Disconnect
<1>3. /\ q' \in [Requests -> Restore \cup Removal \cup {Idle}] /\ q'[r] # Idle /\ q'[r].step = s
      /\ (q[r] \in Restore => q'[r] \in Restore /\ q'[r].op = "restore")
      /\ (q[r] \in Removal => q'[r] \in Removal /\ q'[r].op = "delete" /\ q'[r].purge = q[r].purge)
      /\ \A x \in Requests : x # r => q'[x] = q[x]
      /\ lock' = IF s \in Ended THEN None ELSE lock
  BY <1>1, <1>2, RestoreGoes, RemovalGoes DEF IInv, RestoreSteps, RemovalSteps, Ended
<1>4. lock = r /\ \A x \in Requests : Active(x) => x = r
  BY <1>1, OneActive DEF At, Active, RestoreSteps, RemovalSteps, Ended
<1>5. LibraryInv'
  BY LibraryStays DEF Disconnect, IInv, library
<1>6. TypeOK'
  BY <1>1, <1>2, <1>3, <1>4, <1>5 DEF IInv, TypeOK, Owners, LibraryInv, Fault, Disconnect, library
<1>7. Locked'
  BY <1>1, <1>2, <1>3, <1>4 DEF Locked, Active, Ended, Disconnect, library
<1>8. NoBackupYet'
  BY <1>1, <1>2, <1>3, <1>4 DEF IInv, TypeOK, NoBackupYet, At, Disconnect, library
<1>9. DisksInOrder'
  BY <1>1, <1>2, <1>3, <1>4
    DEF DisksInOrder, At, Moved, Installed, Active, Ended, Files, TypeOK, Disconnect, library
<1>10. NothingRuns'
  BY <1>1, <1>2, <1>3, <1>4 DEF NothingRuns, At, Active, Ended, Disconnect, library
<1>11. RestoresExist'
  BY <1>1, <1>2, <1>3, <1>4
    DEF RestoresExist, IsRestore, Active, Ended, PurgeDone, IsRemoval, At, Disconnect, library
<1>12. CapturedKnown'
  BY <1>1, <1>2, <1>3, <1>4, RestoreConstants, NoneIsNoBackup, RequestTags
    DEF IInv, CapturedKnown, TypeOK, Disconnect, library
<1>13. PurgeDone'
  BY <1>1, <1>2, <1>3, <1>4
    DEF IInv, PurgeDone, IsRemoval, IsRestore, At, RestoresExist, Active, Ended, Disconnect,
        library
<1>14. DisksSurvive'
  BY <1>1, <1>2, <1>3, <1>4, RestoreConstants, NoneIsNoBackup, RequestTags
    DEF IInv, DisksSurvive, OriginalsKept, LiveDisksStay, IsRemoval, IsRestore, At, NothingRuns,
        DisksInOrder, Moved, Installed, TypeOK, NoBackupYet, Disconnect, library
<1>15. AnswersWhole
  BY <1>1, <1>2, <1>3, <1>4
    DEF AnswersWhole, IInv, TypeOK, Ended, IsRestore, At, DisksInOrder, Moved, Installed,
        Disconnect
<1> QED BY <1>5, <1>6, <1>7, <1>8, <1>9, <1>10, <1>11, <1>12, <1>13, <1>14, <1>15 DEF IInv

(* A capture holds the lock of the VM for as long as its handler          *)
(* publishes.                                                             *)
LEMMA AskSaveKeeps ==
  ASSUME IInv, NEW i \in Handlers, NEW n \in Names, NEW a \in Aliases, NEW c \in Contents,
         AskSave(i, n, a, c)
  PROVE  IInv' /\ AnswersWhole
<1>1. TypeOK /\ LibraryInv /\ UNCHANGED <<dir, backup, state, proc, q, row, kind>>
  BY DEF AskSave, AskPut, IInv
<1>2. LibraryInv'
  BY <1>1, AskPutKeeps DEF AskSave
<1>3. \A x \in Requests : ~Active(x)
  BY RestoreConstants DEF AskSave, IInv, Locked
<1>4. TypeOK'
  BY <1>1, <1>2 DEF TypeOK, LibraryInv, AskSave
<1>5. h'[i] \in Put /\ h'[i].name = n
  <2>1. PICK s \in {"check", "again"} :
          h' = [h EXCEPT ![i] = [op |-> "put", step |-> s, name |-> n, alias |-> a, content |-> c,
            trusted |-> TRUE]]
    BY DEF AskSave, AskPut
  <2>2. i \in DOMAIN h
    BY <1>1 DEF LibraryInv, LibraryTypeOK
  <2> QED BY <2>1, <2>2, NewPut
<1>6. Locked' /\ NoBackupYet' /\ DisksInOrder' /\ NothingRuns' /\ RestoresExist'
  BY <1>1, <1>3
    DEF IInv, Locked, Active, NoBackupYet, DisksInOrder, Moved, Installed, NothingRuns,
        RestoresExist, IsRestore, At, Ended
<1>7. CapturedKnown'
  BY <1>1, <1>5, LibraryConstants DEF IInv, CapturedKnown, AskSave
<1>8. PurgeDone'
  BY <1>1, <1>3 DEF IInv, PurgeDone, IsRemoval, At, Active, Ended, AskSave
<1>9. DisksSurvive'
  BY <1>1 DEF IInv, DisksSurvive, OriginalsKept, LiveDisksStay, IsRemoval, IsRestore, At
<1>10. AnswersWhole
  BY <1>1 DEF AnswersWhole
<1> QED BY <1>2, <1>4, <1>6, <1>7, <1>8, <1>9, <1>10 DEF IInv

(* A step of the library that is not about the VM touches none of its     *)
(* disks.                                                                 *)
LEMMA LibraryAloneKeeps ==
  ASSUME IInv, LibraryAlone
  PROVE  IInv' /\ AnswersWhole
<1>1. TypeOK /\ LibraryInv /\ LibraryStep /\ UNCHANGED <<dir, backup, state, proc, q>>
  BY DEF LibraryAlone, IInv
<1>2. LibraryInv'
  BY <1>1, LibraryStepKeeps
<1>3. lock' = lock \/ (lock \in Handlers /\ h'[lock] = Done /\ lock' = None)
  BY DEF LibraryAlone, Released
<1>4. TypeOK'
  BY <1>1, <1>2, <1>3 DEF TypeOK, LibraryInv, LibraryAlone
<1>5. \A x \in Requests : Active(x) => lock' = x /\ lock = x
  BY <1>3, RestoreConstants DEF IInv, Locked
<1>6. Locked' /\ NoBackupYet' /\ DisksInOrder' /\ NothingRuns' /\ RestoresExist'
  BY <1>1, <1>5
    DEF IInv, Locked, Active, NoBackupYet, DisksInOrder, Moved, Installed, NothingRuns,
        RestoresExist, IsRestore, At
<1>7. CapturedKnown'
  <2>1. kind' = kind
    BY <1>1
      DEF LibraryStep, List, ServerAdds, SetAlias, Trust, AskDelete, AskPut, Check, Recheck,
          PutFile, PutRow, PutRowFails, Unlink, Unrow, Dropped, LateWrite
  <2>2. \A n \in captured' : n \in captured /\ n \in Names /\ kind = "snapshots"
    BY <1>1 DEF LibraryAlone, IInv, CapturedKnown, TypeOK
  <2> SUFFICES ASSUME NEW n \in captured', row'[n] = None
               PROVE  \E i \in Handlers : lock' = i /\ h'[i] \in Put /\ h'[i].name = n
    BY <2>1, <2>2 DEF CapturedKnown
  <2>3. n \in captured /\ n \in Names /\ kind = "snapshots"
    BY <2>2
  <2>4. PICK j \in Handlers : h'[j] \in Put /\ h'[j].name = n
    BY DEF LibraryAlone, Used
  <2>5. \/ h[j] \in Put /\ h[j].name = n
        \/ row' = row /\ row[n] = None /\ ~Used(n)
    BY <1>1, <2>3, <2>4, PutsGoOn
  <2>6. row[n] = None
    BY <1>1, <2>3, <2>5 DEF LibraryInv, NamesOnce
  <2>7. PICK i \in Handlers : lock = i /\ h[i] \in Put /\ h[i].name = n
    BY <2>3, <2>6 DEF IInv, CapturedKnown
  <2>8. i = j
    BY <1>1, <2>3, <2>5, <2>7 DEF Used, LibraryInv, NamesOnce
  <2>9. lock' = lock
    BY <1>3, <2>4, <2>7, <2>8, HandlerTags
  <2> QED BY <2>4, <2>7, <2>8, <2>9
<1>8. PurgeDone'
  BY <1>1 DEF IInv, PurgeDone, IsRemoval, At, LibraryAlone
<1>9. DisksSurvive'
  BY <1>1 DEF IInv, DisksSurvive, OriginalsKept, LiveDisksStay, IsRemoval, IsRestore, At
<1>10. AnswersWhole
  BY <1>1 DEF AnswersWhole
<1> QED BY <1>2, <1>4, <1>6, <1>7, <1>8, <1>9, <1>10 DEF IInv

(* Removing the files and rows of many snapshots at once keeps the        *)
(* library, when none is being published or deleted.                      *)
LEMMA SnapshotsGo ==
  ASSUME LibraryInv, mutex = None, NEW done \in SUBSET Names, NEW half \in SUBSET Names,
         done \cap half = {},
         \A n \in done \cup half : row[n] # None,
         row' = [n \in Names |-> IF n \in done THEN None ELSE row[n]],
         file' = [n \in Names |-> IF n \in done \cup half THEN None ELSE file[n]],
         cut' = (cut \ done) \cup half, faults' = faults \/ Fault,
         UNCHANGED <<kind, mutex, h, late>>,
         done \cup half # {} => kind = "snapshots"
  PROVE  LibraryInv'
<1>1. /\ \A i \in Handlers : h[i] \notin Delete
      /\ \A i \in Handlers : h[i] \in Put => h[i].step \notin {"file", "row"}
  BY LibraryConstants DEF LibraryInv, LibraryTypeOK
<1>2. \A i \in Handlers : Half(i) = {} /\ Half(i)' = {}
  BY <1>1 DEF Half
<1>3. faults' \in 0..MaxFaults
  BY LibraryConstants DEF LibraryInv, LibraryTypeOK, Fault
<1>4. LibraryTypeOK'
  BY <1>3 DEF LibraryInv, LibraryTypeOK
<1>5. NamesOnce'
  BY <1>1 DEF LibraryInv, NamesOnce, Used, Names
<1>6. KernelNames'
  BY DEF LibraryInv, KernelNames, Names
<1>7. PutInOrder' /\ DeleteInOrder'
  BY <1>1 DEF PutInOrder, DeleteInOrder
<1>8. Coherent'
  BY <1>2 DEF LibraryInv, Coherent, Worked
<1>9. AliasesUnique'
  BY DEF LibraryInv, AliasesUnique
<1> QED BY <1>4, <1>5, <1>6, <1>7, <1>8, <1>9 DEF LibraryInv

(* A deletion that purges finds all snapshots that were captured: those   *)
(* that have a row, since no capture is under way.                        *)
LEMMA RemoveSnapshotsKeeps ==
  ASSUME IInv, NEW r \in Requests, RemoveSnapshots(r)
  PROVE  IInv' /\ AnswersWhole
<1>1. TypeOK /\ LibraryInv /\ UNCHANGED <<kind, mutex, h, late, dir, backup, state, proc>> /\ mutex = None
  BY DEF RemoveSnapshots, IInv
<1>2. q[r] \in Removal /\ At(r, {"snapshots"}) /\ q[r].step = "snapshots"
  BY <1>1, WhoseStep DEF RemoveSnapshots, At, RemovalSteps
<1>3. PICK done \in SUBSET captured, half \in SUBSET captured :
        /\ \A n \in done \cup half : row[n] # None
        /\ row' = [n \in Names |-> IF n \in done THEN None ELSE row[n]]
        /\ file' = [n \in Names |-> IF n \in done \cup half THEN None ELSE file[n]]
        /\ cut' = (cut \ done) \cup half
        /\ captured' = captured \ done
        /\ done \cap half = {}
        /\ faults' = faults \/ Fault
        /\ \/ To(r, "row") /\ \A n \in captured : row[n] # None => n \in done
           \/ To(r, "refused")
  <2> DEFINE all == {n \in captured : row[n] # None}
  <2>1. PICK done \in SUBSET all, half \in SUBSET all :
         /\ row' = [n \in Names |-> IF n \in done THEN None ELSE row[n]]
         /\ file' = [n \in Names |-> IF n \in done \cup half THEN None ELSE file[n]]
         /\ cut' = (cut \ done) \cup half
         /\ captured' = captured \ done
         /\ \/ done = all /\ half = {} /\ To(r, "row") /\ UNCHANGED faults
            \/ half \cap done = {} /\ Fault /\ To(r, "refused")
    BY DEF RemoveSnapshots
  <2>2. done \in SUBSET captured /\ half \in SUBSET captured /\ \A n \in done \cup half : row[n] # None
    OBVIOUS
  <2> QED BY <2>1
<1>4. PICK s \in {"row", "refused"} : To(r, s)
             /\ (s = "row" => \A n \in captured : row[n] # None => n \in done)
  BY <1>3
<1>5. /\ q' \in [Requests -> Restore \cup Removal \cup {Idle}] /\ q'[r] # Idle /\ q'[r].step = s
      /\ q'[r] \in Removal /\ q'[r].op = "delete" /\ q'[r].purge = q[r].purge
      /\ \A x \in Requests : x # r => q'[x] = q[x]
      /\ lock' = IF s \in Ended THEN None ELSE lock
  BY <1>1, <1>2, <1>4, RemovalGoes DEF RemovalSteps, Ended
<1>6. lock = r /\ \A x \in Requests : Active(x) => x = r
  BY <1>2, OneActive DEF Active, At, Ended
<1>7. \A n \in captured : row[n] # None /\ kind = "snapshots"
  BY <1>6, RestoreConstants DEF IInv, CapturedKnown
<1>8. LibraryInv'
  <2>1. done \in SUBSET Names /\ half \in SUBSET Names
    BY <1>1 DEF TypeOK
  <2>2. done \cup half # {} => kind = "snapshots"
    BY <1>7
  <2> QED BY <1>1, <1>3, <2>1, <2>2, SnapshotsGo
<1>9. TypeOK'
  BY <1>1, <1>3, <1>5, <1>8 DEF TypeOK, LibraryInv
<1>10. Locked' /\ NoBackupYet' /\ DisksInOrder' /\ NothingRuns' /\ RestoresExist'
  <2>1. \A x \in Requests : x # r => ~Active(x) /\ q'[x] = q[x]
    BY <1>5, <1>6
  <2>2. q'[r].step \in {"row", "refused"} /\ proc' = None
    BY <1>1, <1>2, <1>5 DEF IInv, NothingRuns, At
  <2>3. Locked' /\ NothingRuns'
    BY <1>1, <1>5, <1>6, <2>1, <2>2 DEF Locked, Active, NothingRuns, At, Ended
  <2>4. NoBackupYet' /\ DisksInOrder'
    BY <1>1, <1>5, <2>1, <2>2 DEF IInv, NoBackupYet, DisksInOrder, Active, At, Ended
  <2>5. RestoresExist'
    BY <1>1, <1>5, <2>1 DEF RestoresExist, IsRestore, Active
  <2> QED BY <2>3, <2>4, <2>5
<1>11. CapturedKnown'
  BY <1>1, <1>3, <1>7 DEF CapturedKnown, TypeOK
<1>12. PurgeDone'
  <2>1. s = "row" => captured' = {}
    BY <1>3, <1>4, <1>7
  <2>2. captured' \subseteq captured
    BY <1>3
  <2> QED BY <1>1, <1>5, <2>1, <2>2 DEF IInv, PurgeDone, IsRemoval, At
<1>13. DisksSurvive'
  BY <1>1, <1>2, <1>5 DEF IInv, DisksSurvive, OriginalsKept, LiveDisksStay, IsRemoval, IsRestore, At
<1>14. AnswersWhole
  BY <1>2, <1>5, RequestTags DEF AnswersWhole, IsRestore
<1> QED BY <1>8, <1>9, <1>10, <1>11, <1>12, <1>13, <1>14 DEF IInv

(* A crash ends every request where it is.                                *)
LEMMA ServerCrashKeeps ==
  ASSUME IInv, ServerCrash
  PROVE  IInv' /\ AnswersWhole
<1>1. TypeOK /\ LibraryInv /\ UNCHANGED <<dir, backup, state, row, kind>> /\ Crash
  BY DEF ServerCrash, Crash, IInv
<1>2. LibraryInv'
  BY <1>1, CrashKeeps
<1>3. ASSUME NEW x \in Requests
      PROVE  /\ q'[x] \in Restore \cup Removal \cup {Idle}
             /\ IF Active(x) THEN q'[x] # Idle /\ q'[x].step = "cut" ELSE q'[x] = q[x]
             /\ q[x] \in Restore => q'[x] \in Restore
             /\ q[x] \in Removal => q'[x] \in Removal /\ q'[x].purge = q[x].purge
             /\ q[x] = Idle => q'[x] = Idle
  <2>1. q'[x] = IF Active(x) THEN [q[x] EXCEPT !.step = "cut"] ELSE q[x]
    BY DEF ServerCrash, Active
  <2>2. q[x] \in Restore \cup Removal \cup {Idle}
    BY <1>1 DEF TypeOK
  <2>3. "cut" \in RestoreSteps \cup Ended /\ "cut" \in RemovalSteps \cup Ended
    BY DEF Ended
  <2>4. q[x] \in Restore =>
          LET y == [q[x] EXCEPT !.step = "cut"] IN y \in Restore /\ y.step = "cut" /\ y # Idle
    BY <2>3, StepChanges, RequestTags
  <2>5. q[x] \in Removal =>
          LET y == [q[x] EXCEPT !.step = "cut"] IN y \in Removal /\ y.step = "cut" /\ y.purge = q[x].purge
            /\ y # Idle
    BY <2>3, StepChanges, RequestTags
  <2>6. q[x] = Idle => ~Active(x)
    BY DEF Active
  <2>7. q[x] \in Restore => q[x] \notin Removal /\ q[x] # Idle
    BY RequestTags
  <2>8. q[x] \in Removal => q[x] # Idle
    BY RequestTags
  <2> QED BY <2>1, <2>2, <2>4, <2>5, <2>6, <2>7, <2>8
<1>4. q' \in [Requests -> Restore \cup Removal \cup {Idle}]
  BY <1>3 DEF ServerCrash
<1>5. TypeOK'
  BY <1>1, <1>2, <1>4 DEF TypeOK, LibraryInv, ServerCrash
<1>6. \A x \in Requests : ~Active(x)'
  BY <1>3 DEF Active, Ended
<1>7. Locked' /\ DisksInOrder' /\ NothingRuns' /\ RestoresExist'
  BY <1>6 DEF Locked, DisksInOrder, NothingRuns, RestoresExist, Active, At, Ended
<1>8. NoBackupYet'
  BY <1>1, <1>3, <1>6 DEF IInv, NoBackupYet, At, Ended
<1>9. CapturedKnown'
  BY <1>1 DEF IInv, CapturedKnown, ServerCrash
<1>10. PurgeDone'
  <2>1. captured' \subseteq captured
    BY DEF ServerCrash
  <2>2. \A x \in Requests : IsRemoval(x)' => IsRemoval(x) /\ q'[x].purge = q[x].purge
    BY <1>1, <1>3, RequestTags DEF IsRemoval, TypeOK
  <2>3. \A x \in Requests : At(x, {"row", "given"})' => At(x, {"given"}) /\ At(x, {"row", "given"})
    BY <1>3 DEF At, Active, Ended
  <2> QED BY <1>1, <2>1, <2>2, <2>3 DEF IInv, PurgeDone, At
<1>11. DisksSurvive'
  <2>1. \A x \in Requests : IsRemoval(x) => IsRemoval(x)'
    BY <1>1, <1>3, RequestTags DEF IsRemoval, TypeOK
  <2>2. \A x \in Requests : IsRestore(x) /\ At(x, {"given"}) => IsRestore(x)' /\ At(x, {"given"})'
    BY <1>1, <1>3 DEF IsRestore, At, Active, TypeOK, Ended
  <2>3. OriginalsKept'
    BY <1>1, <2>1, <2>2 DEF IInv, DisksSurvive, OriginalsKept
  <2>4. LiveDisksStay'
    BY <1>1, RestoreConstants DEF IInv, DisksSurvive, LiveDisksStay, ServerCrash
  <2> QED BY <2>3, <2>4 DEF DisksSurvive
<1>12. AnswersWhole
  BY <1>3 DEF AnswersWhole
<1> QED BY <1>2, <1>5, <1>7, <1>8, <1>9, <1>10, <1>11, <1>12 DEF IInv

(* Initially nothing runs, and the disks are the first.                   *)
LEMMA InitKeeps ==
  ASSUME Init
  PROVE  IInv
<1>1. LibraryInv
  BY LibraryStarts DEF Init
<1>2. TypeOK
  BY <1>1 DEF Init, LibraryInv, TypeOK, Owners
<1>3. \A r \in Requests : q[r] = Idle
  BY DEF Init
<1>4. Locked /\ NoBackupYet /\ DisksInOrder /\ NothingRuns /\ RestoresExist /\ CapturedKnown /\ PurgeDone
  BY <1>3
    DEF Init, Locked, NoBackupYet, DisksInOrder, NothingRuns, RestoresExist, CapturedKnown,
        PurgeDone, Active, At, IsRestore, IsRemoval
<1>5. DisksSurvive
  BY RestoreConstants DEF Init, DisksSurvive, OriginalsKept, LiveDisksStay
<1> QED BY <1>1, <1>2, <1>4, <1>5 DEF IInv

(* Every step keeps the invariant, and answers whole.                     *)
LEMMA NextKeeps ==
  ASSUME IInv, [Next]_vars
  PROVE  IInv' /\ [AnswersWhole]_vars
<1>1. CASE Next
  <2>1. IInv' /\ AnswersWhole
    BY <1>1, LibraryAloneKeeps, StartKeeps, PauseKeeps, StopKeeps, AskSaveKeeps, AskRestoreKeeps,
       VerifyKeeps, InstallFailsKeeps, LaunchKeeps, SpawnKeeps, LoadKeeps, CommitKeeps,
       RestoreFailsKeeps, StopProcessKeeps, RolledBackKeeps, RollbackFailsKeeps, MoveOldKeeps,
       PutNewKeeps, RemoveNewKeeps, PutOldKeeps, AskRemoveKeeps, RemoveDisksKeeps,
       RemoveSnapshotsKeeps, RemoveRowKeeps, DisconnectKeeps, ServerCrashKeeps
      DEF Next
  <2> QED BY <2>1
<1>2. CASE UNCHANGED vars
  <2>1. IInv'
    BY <1>2
      DEF vars, library, vm, IInv, TypeOK, LibraryInv, LibraryTypeOK, NamesOnce, KernelNames,
          PutInOrder, DeleteInOrder, Coherent, AliasesUnique, Available, Used, Worked, Half,
          Locked, NoBackupYet, DisksInOrder, Moved, Installed, NothingRuns, RestoresExist,
          CapturedKnown, PurgeDone, DisksSurvive, OriginalsKept, LiveDisksStay, IsRestore,
          IsRemoval, At, Active
  <2> QED BY <1>2, <2>1
<1> QED BY <1>1, <1>2

(* Only these steps touch files and rows.                                 *)
LEMMA LibrarySteps ==
  ASSUME [Next]_vars
  PROVE  \/ LibraryStep
         \/ \E r \in Requests : RemoveSnapshots(r)
         \/ UNCHANGED <<file, row>>
<1>1. ASSUME NEW r \in Requests,
             \/ \E n \in Names : AskRestore(r, n)
             \/ \E p \in BOOLEAN : AskRemove(r, p)
             \/ Verify(r) \/ Launch(r) \/ Spawn(r) \/ Load(r) \/ Commit(r) \/ RolledBack(r)
                  \/ RemoveDisks(r) \/ RemoveRow(r)
      PROVE  UNCHANGED <<file, row>>
  BY <1>1
    DEF library, AskRestore, AskRemove, Verify, Launch, Spawn, Load, Commit, RolledBack,
        RemoveDisks, RemoveRow
<1>2. ASSUME NEW r \in Requests,
             InstallFails(r) \/ RestoreFails(r) \/ StopProcess(r) \/ RollbackFails(r) \/ Disconnect(r)
      PROVE  UNCHANGED <<file, row>>
  BY <1>2 DEF InstallFails, RestoreFails, StopProcess, RollbackFails, Disconnect
<1>3. ASSUME NEW r \in Requests, NEW f \in Files,
             MoveOld(r, f) \/ PutNew(r, f) \/ RemoveNew(r, f) \/ PutOld(r, f)
      PROVE  UNCHANGED <<file, row>>
  BY <1>3 DEF library, MoveOld, PutNew, RemoveNew, PutOld
<1>4. ASSUME Start \/ Pause \/ Stop \/ ServerCrash \/ UNCHANGED vars
      PROVE  UNCHANGED <<file, row>>
  BY <1>4 DEF vars, library, Start, Pause, Stop, ServerCrash, Crash
<1>5. ASSUME NEW i \in Handlers, NEW n \in Names, NEW a \in Aliases, NEW c \in Contents,
             AskSave(i, n, a, c)
      PROVE  UNCHANGED <<file, row>>
  BY <1>5 DEF AskSave, AskPut
<1>6. LibraryAlone => LibraryStep
  BY DEF LibraryAlone
<1>7. CASE Next
  BY <1>1, <1>2, <1>3, <1>4, <1>5, <1>6, <1>7 DEF Next
<1> QED BY <1>4, <1>7

(* A file under its name is never replaced.                               *)
LEMMA FilesStay ==
  ASSUME IInv, [Next]_vars, NEW n \in Names, file[n] # None
  PROVE  file'[n] \in {file[n], None}
<1>1. file \in [Names -> Contents \cup {None}]
  BY DEF IInv, TypeOK, LibraryTypeOK
<1>2. CASE LibraryStep
  BY <1>1, <1>2
    DEF LibraryStep, List, ServerAdds, SetAlias, Trust, AskDelete, AskPut, Check, Recheck, PutFile,
        PutRow, PutRowFails, Unlink, Unrow, Dropped, LateWrite, Publish, Undo
<1>3. CASE \E r \in Requests : RemoveSnapshots(r)
  BY <1>3 DEF RemoveSnapshots
<1> QED BY <1>2, <1>3, LibrarySteps

(* A row with a made-up name appears when its handler has just put its    *)
(* file.                                                                  *)
LEMMA RowsAppear ==
  ASSUME IInv, [Next]_vars, NEW n \in Uuids, row[n] = None, row'[n] # None
  PROVE  \E i \in Handlers : n \in Half(i)
<1>1. row \in [Names -> Row \cup {None}] /\ n \in Names /\ LibraryInv /\ LibraryTypeOK
  BY DEF IInv, LibraryTypeOK, LibraryInv, Names
<1>2. CASE List
  <2>1. ~Adoptable(n)
    BY <1>1, <1>2, LibraryConstants DEF Adoptable, LibraryInv, LibraryTypeOK, Kinds, KernelNames
  <2> QED BY <1>1, <1>2, <2>1, ListRows
<1>3. CASE \E i \in Handlers : PutRow(i)
  BY <1>3 DEF PutRow, Half
<1>4. CASE \E m \in Names : (\E a \in Aliases : SetAlias(m, a)) \/ Trust(m)
  BY <1>1, <1>4 DEF SetAlias, Trust
<1>5. CASE \E i \in Handlers : Unrow(i)
  BY <1>1, <1>5 DEF Unrow
<1>6. CASE \E r \in Requests : RemoveSnapshots(r)
  BY <1>1, <1>6 DEF RemoveSnapshots
<1>7. CASE UNCHANGED row
  BY <1>7
<1>8. CASE LibraryStep
  BY <1>2, <1>3, <1>4, <1>5, <1>7, <1>8
    DEF LibraryStep, ServerAdds, AskDelete, AskPut, Check, Recheck, PutFile, PutRowFails, Unlink,
        Dropped, LateWrite
<1> QED BY <1>6, <1>8, LibrarySteps

-----------------------------------------------------------------------------
(* The theorems *)

(* The invariant of the VM, its disks, backups and snapshots holds of     *)
(* every behaviour, for any number of files, snapshots, requests and      *)
(* faults.                                                                *)
THEOREM RestoreInvariant == Spec => []IInv
<1>1. Init => IInv
  BY InitKeeps
<1>2. IInv /\ [Next]_vars => IInv'
  BY NextKeeps
<1> QED BY <1>1, <1>2, PTL DEF Spec

(* The variables have their types.                                        *)
THEOREM RestoreTypeCorrect == Spec => []TypeOK
<1>1. IInv => TypeOK
  BY DEF IInv
<1> QED BY <1>1, RestoreInvariant, PTL

(* Rows and files agree, except for what a handler has in hand or a cut   *)
(* left: no row without its file, aliases unique.                         *)
THEOREM CatalogHoldsAlways == Spec => []CatalogHolds
<1>1. IInv => CatalogHolds
  BY DEF IInv, LibraryInv, CatalogHolds
<1> QED BY <1>1, RestoreInvariant, PTL

(* Until a deletion, each file that was on the disks before a restore is  *)
(* in its place or in the backup; and the disks that a process has open   *)
(* stay where they are.                                                   *)
THEOREM DisksSurviveAlways == Spec => []DisksSurvive
<1>1. IInv => DisksSurvive
  BY DEF IInv
<1> QED BY <1>1, RestoreInvariant, PTL

(* After a deletion with its snapshots, none that was captured from the   *)
(* VM is left.                                                            *)
THEOREM PurgedStayGoneAlways == Spec => []PurgedStayGone
<1>1. IInv => PurgedStayGone
  BY DEF IInv, PurgeDone, PurgedStayGone, At
<1> QED BY <1>1, RestoreInvariant, PTL

(* No step replaces a published file, takes over what an interrupted      *)
(* publication left, or answers a restore with some disks new and others  *)
(* not.                                                                   *)
THEOREM StepsWholeAlways == Spec => StepsWhole
<1>1. IInv /\ [Next]_vars => [\A n \in Names : file[n] # None => file'[n] \in {file[n], None}]_library
  BY FilesStay
<1>2. IInv /\ [Next]_vars => [\A n \in Uuids : row[n] = None
        /\ row'[n] # None => \E i \in Handlers : n \in Half(i)]_library
  BY RowsAppear
<1>3. IInv /\ [Next]_vars =>
        [\A r \in Requests :
       IsRestore(r) /\ q[r].step \notin Ended /\ q'[r].step \in Ended \ {"cut", "half"} =>
         \/ state' = "unknown"
         \/ dir' = IF q'[r].step = "given" THEN [f \in Files |-> IF f \in Disks THEN r ELSE None]
              ELSE q[r].before]_vars
  BY NextKeeps DEF AnswersWhole
<1> QED BY <1>1, <1>2, <1>3, RestoreInvariant, PTL
          DEF Spec, StepsWhole, NoClobber, InterruptedStaysOut, AllOrNothing
=============================================================================
