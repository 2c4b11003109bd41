------------------------------ MODULE OciLayers ------------------------------
(***************************************************************************)
(* Laying the layers of an OCI image over each other: crates/oci, extract/.*)
(* apply_layer() reads a layer twice.  The first pass validates it and     *)
(* applies its whiteouts to what the lower layers left; the second installs*)
(* the other entries in their order.  Entries may lie behind symbolic links*)
(* of the guest, which are followed inside the guest's root, and hard links*)
(* may come before their targets.  Ownership and modes are kept aside, by  *)
(* path, until finalize() applies them.                                    *)
(*                                                                         *)
(* A layer is whatever the actions feed it, one entry at a time; it is not *)
(* known beforehand.  An inode is the number of its reservation.           *)
(***************************************************************************)
EXTENDS Naturals, Sequences, SequencesExt, FiniteSets

CONSTANTS
  Entries,    \* what layers may hold: [path, kind, target]
  Removed,    \* paths of plain whiteouts: .wh.<name>
  Opaque,     \* directories of opaque whiteouts: .wh..wh..opq
  MaxLayers,  \* bound: layers of the image
  MaxLength,  \* bound: entries of a layer, its whiteouts included
  MaxNodes,   \* max_entries: nodes that an image may have created
  MaxLinks,   \* symbolic links that directory() follows: 40
  MaxParts,   \* components of a link's target: 128
  Up          \* the name ".."

VARIABLES
  tree,      \* the staging directory: physical path -> node
  metadata,  \* ExtractionBudget.metadata: path -> the inode it was recorded for
  nodes,     \* Root.nodes: reservations made
  pending,   \* hard links whose targets are missing: path -> target
  phase,     \* what apply_layer or finalize does
  layer,     \* layers applied
  paths,     \* the paths that this layer has used
  owned,     \* where this layer has put something (a history variable)
  applied    \* the inodes that got the metadata of an entry

vars == <<tree, metadata, nodes, pending, phase, layer, paths, owned, applied>>

(* Mutant: what lies in a removed directory is left behind. *)
UnderItself(at) == {at} \cap DOMAIN tree

(* remove() takes a directory with all that it holds. *)
Under(at) == {p \in DOMAIN tree : IsPrefix(at, p)}
Drop(f, S) == [p \in DOMAIN f \ S |-> f[p]]
Below(f, at) == {p \in DOMAIN f : IsPrefix(at, p)}
With(f, at, x) == [p \in DOMAIN f \cup {at} |-> IF p = at THEN x ELSE f[p]]
Node(kind, inode, target) == [kind |-> kind, inode |-> inode, target |-> target]

(* What the constants stand for: entries and whiteouts have paths, of names *)
(* below the root; validate() and preflight() look at the entries.          *)
Parts == UNION {Range(p) : p \in Removed \cup Opaque \cup {e.path : e \in Entries}}
    \cup UNION {Range(IF e.kind = "link" THEN e.target.parts ELSE e.target) : e \in Entries}

LayersConstants ==
  /\ MaxLayers \in Nat /\ MaxLength \in Nat /\ MaxNodes \in Nat /\ MaxLinks \in Nat /\ MaxParts \in Nat
  /\ Removed \subseteq Seq(Parts) \ {<<>>} /\ Opaque \subseteq Seq(Parts)
  /\ \A p \in Removed : Up \notin Range(p)
  /\ \A e \in Entries :
       /\ e.path \in Seq(Parts) /\ e.kind \in {"dir", "file", "link", "hard"}
       /\ e.kind = "link" => e.target.parts \in Seq(Parts) /\ Len(e.target.parts) <= MaxParts
       /\ e.kind = "hard" => e.target \in Seq(Parts)

Inodes == {tree[p].inode : p \in DOMAIN tree}

(* Every path lies in a directory; reservations bound what exists. *)
TypeOK ==
  /\ \A p \in DOMAIN tree :
       /\ p # <<>> /\ Up \notin Range(p)
       /\ tree[p].kind \in {"dir", "file", "link"}
       /\ Front(p) # <<>> => Front(p) \in DOMAIN tree /\ tree[Front(p)].kind = "dir"
  /\ Cardinality(DOMAIN tree) <= nodes /\ nodes <= MaxNodes
  /\ phase \in {"whiteouts", "entries", "links", "ready", "final", "failed"}
  /\ layer \in 0..MaxLayers
  /\ Cardinality(paths) <= MaxLength
  /\ applied \subseteq Inodes

Init ==
  /\ tree = <<>> /\ metadata = <<>> /\ pending = <<>>
  /\ nodes = 0 /\ layer = 0
  /\ phase = "whiteouts"
  /\ paths = {} /\ owned = {} /\ applied = {}

-----------------------------------------------------------------------------
(* Root::directory: a walk from the root of the guest over what is still   *)
(* to do.  It ends "found", "missing" (ENOENT) or "failed".                *)
Step(w) ==
  LET next == Append(w.at, Head(w.todo))
      rest == Tail(w.todo)
      kind == IF next \in DOMAIN w.tree THEN w.tree[next].kind ELSE "none"
      Ends(how) == [w EXCEPT !.is = how]
  IN
  IF w.is # "walking" THEN w
  ELSE IF w.todo = <<>> THEN Ends("found")
  ELSE IF Head(w.todo) = Up THEN
    IF w.at = <<>> THEN Ends("failed") ELSE [w EXCEPT !.todo = rest, !.at = Front(@)]
  ELSE IF kind = "dir" THEN [w EXCEPT !.todo = rest, !.at = next]
  ELSE IF kind = "link" /\ w.followed < MaxLinks THEN
    LET to == w.tree[next].target IN
    [w EXCEPT !.todo = to.parts \o rest, !.followed = @ + 1, !.at = IF to.absolute THEN <<>> ELSE @]
  ELSE IF kind = "none" /\ ~w.create THEN Ends("missing")
  ELSE IF kind = "none" /\ w.nodes < MaxNodes THEN
    [w EXCEPT !.todo = rest, !.at = next, !.nodes = @ + 1,
              !.tree = With(@, next, Node("dir", w.nodes + 1, <<>>))]
  ELSE Ends("failed")

Walked(w) == LET walked[k \in Nat] == IF k = 0 THEN w ELSE Step(walked[k - 1]) IN walked

(* Each step but the last takes a component, of the path or of a link's    *)
(* target, and may put a target before the rest.                           *)
Walk(w) == Walked(w)[Len(w.todo) + MaxLinks * MaxParts + 1]

Directory(path, create) ==
  Walk([todo |-> path, at |-> <<>>, followed |-> 0, create |-> create,
        tree |-> tree, nodes |-> nodes, is |-> "walking"])

(* Root::location: the parent is resolved, the name itself never followed. *)
Location(path, create) ==
  LET w == Directory(Front(path), create) IN [w EXCEPT !.at = Append(@, Last(path))]

Fail ==
  /\ phase' = "failed"
  /\ UNCHANGED <<tree, metadata, nodes, pending, layer, paths, owned, applied>>

-----------------------------------------------------------------------------
(* Mutant: whiteouts are applied where the archive has them. *)
MayRemoveAlways == phase \in {"whiteouts", "entries"}

MayRemove == phase = "whiteouts"

(* Mutant: what was recorded for a removed path waits for its successor. *)
ForgetsNot(S) == metadata' = metadata

(* ExtractionBudget::forget, for removed paths *)
Forgets(S) == metadata' = Drop(metadata, S)

(* Only new paths are taken, as many as the bound allows. *)
Takes(key) ==
  /\ key \notin paths
  /\ Cardinality(paths) < MaxLength
  /\ paths' = paths \cup {key}

Removes(S) ==
  /\ tree' = Drop(tree, S)
  /\ Forgets(S)
  /\ UNCHANGED <<nodes, pending, phase, layer, owned, applied>>

(* whiteouts::apply; whatever is missing already is no error. *)
Whiteout(path) ==
  /\ MayRemove
  /\ Takes(<<"remove", path>>)
  /\ LET w == Location(path, FALSE) IN
     IF w.is = "failed" THEN phase' = "failed" /\ UNCHANGED <<tree, metadata, nodes, pending, layer, owned, applied>>
     ELSE Removes(IF w.is = "missing" THEN {} ELSE Under(w.at))

WhiteoutAll(path) ==
  /\ MayRemove
  /\ Takes(<<"opaque", path>>)
  /\ LET w == Directory(path, FALSE) IN
     IF w.is = "failed" THEN phase' = "failed" /\ UNCHANGED <<tree, metadata, nodes, pending, layer, owned, applied>>
     ELSE Removes(IF w.is = "missing" THEN {} ELSE Under(w.at) \ {w.at})

(* The second pass begins. *)
Rewind ==
  /\ phase = "whiteouts" /\ layer < MaxLayers
  /\ phase' = "entries"
  /\ UNCHANGED <<tree, metadata, nodes, pending, layer, paths, owned, applied>>

(* spool(), preflight() and validate(): an archive that is not the one that *)
(* the configuration names, is too large, or has an entry of another kind.  *)
Spoiled ==
  /\ phase = "whiteouts" /\ layer < MaxLayers
  /\ Fail

-----------------------------------------------------------------------------
(* validate_symlink: counting components, a target stays inside the root. *)
StaysInside(at, target) ==
  LET base == IF target.absolute THEN 0 ELSE Len(at) - 1 IN
  \A k \in 1..Len(target.parts) :
    LET ups == Cardinality({j \in 1..k : target.parts[j] = Up}) IN base + k >= 2 * ups

(* hardlink(): "linked" with the new tree, "missing" or "failed". *)
Link(at, target, t, n) ==
  LET Walks(path, create, nodes0) ==
        Walk([todo |-> Front(path), at |-> <<>>, followed |-> 0, create |-> create,
              tree |-> t, nodes |-> nodes0, is |-> "walking"])
      from   == Walks(target, FALSE, n)
      source == Append(from.at, Last(target))
      to     == Walks(at, TRUE, n)
      Result(is) == [is |-> is, source |-> source, at |-> Append(to.at, Last(at)),
                     tree |-> t, nodes |-> n]
  IN
  IF from.is = "failed" THEN Result("failed")
  ELSE IF from.is = "missing" \/ source \notin DOMAIN t THEN Result("missing")
  ELSE IF \/ t[source].kind # "file" \/ to.is = "failed" \/ to.nodes = MaxNodes
          \/ Append(to.at, Last(at)) \in DOMAIN to.tree
       THEN Result("failed")
  ELSE LET r == Result("linked") IN
       [r EXCEPT !.tree = With(to.tree, r.at, t[source]), !.nodes = to.nodes + 1]

(* Mutant: a hard link has no metadata of its own. *)
SharesNot(m, r) == m

(* The metadata of the target is recorded for the link as well. *)
Shares(m, r) == IF r.source \in DOMAIN m THEN With(m, r.at, m[r.source]) ELSE m

(* archive_path(): components below the root, never upwards. *)
ArchivePath(p) == p # <<>> /\ Up \notin Range(p)

(* validate(): what every entry must be, found out in the first pass. *)
Accepted(e) ==
  /\ ArchivePath(e.path)
  /\ e.kind = "hard" => ArchivePath(e.target)

(* ExtractionBudget::record: owner, mode and times, kept with the inode. *)
Recorded(m, at, inode) == With(m, at, inode)

(* Links that wait at a path that is replaced, or below it. *)
Invalidated(at) == Below(pending, at)

(* install(): a directory stays if it meets one; anything else is replaced *)
(* with all that lies under it, and links that wait below it are given up. *)
Install(e) ==
  /\ phase = "entries" /\ Accepted(e)
  /\ Takes(<<"entry", e.path>>)
  /\ LET w     == Location(e.path, TRUE)
         at    == w.at
         keeps == e.kind = "dir" /\ at \in DOMAIN w.tree /\ w.tree[at].kind = "dir"
         gone  == IF keeps THEN {} ELSE Below(w.tree, at)
         left  == Drop(w.tree, gone)
         kept  == Drop(metadata, gone)
         waits == IF keeps THEN pending ELSE Drop(pending, Invalidated(at))
         inode == IF keeps THEN w.tree[at].inode ELSE w.nodes + 1
         r     == Link(at, e.target, left, w.nodes)
     IN
     /\ UNCHANGED <<layer, applied>>
     /\ IF \/ w.is = "failed"
           \/ e.kind # "hard" /\ ~keeps /\ w.nodes = MaxNodes
           \/ e.kind = "link" /\ ~StaysInside(at, e.target)
           \/ e.kind = "hard" /\ r.is = "failed"
        THEN phase' = "failed" /\ UNCHANGED <<tree, metadata, nodes, pending, owned>>
        ELSE
        /\ owned' = (owned \ IF keeps THEN {} ELSE {p \in owned : IsPrefix(at, p)}) \cup {at}
        /\ phase' = phase
        /\ IF e.kind = "hard" THEN
             /\ tree' = r.tree
             /\ nodes' = r.nodes
             /\ metadata' = IF r.is = "linked" THEN Shares(kept, r) ELSE kept
             /\ pending' = IF r.is = "linked" THEN waits ELSE With(waits, at, e.target)
           ELSE
             /\ tree' = IF keeps THEN left ELSE With(left, at, Node(e.kind, inode, e.target))
             /\ nodes' = IF keeps THEN w.nodes ELSE inode
             /\ metadata' = Recorded(kept, at, inode)
             /\ pending' = waits

(* The end of the archive. *)
Scanned ==
  /\ phase = "entries"
  /\ phase' = "links"
  /\ UNCHANGED <<tree, metadata, nodes, pending, layer, paths, owned, applied>>

(* One round over the waiting links, in the order of their paths, is as good *)
(* as trying them one by one: whoever has its target is linked.              *)
Relink(at) ==
  /\ phase = "links"
  /\ LET r == Link(at, pending[at], tree, nodes) IN
     /\ r.is # "missing"
     /\ IF r.is = "failed" THEN Fail
        ELSE
        /\ tree' = r.tree
        /\ nodes' = r.nodes
        /\ metadata' = Shares(metadata, r)
        /\ pending' = Drop(pending, {at})
        /\ UNCHANGED <<phase, layer, paths, owned, applied>>

(* A round without progress: a target is missing, or links go in circles. *)
Unlinked ==
  /\ phase = "links"
  /\ pending # <<>>
  /\ \A at \in DOMAIN pending : Link(at, pending[at], tree, nodes).is = "missing"
  /\ Fail

Applied ==
  /\ phase = "links"
  /\ pending = <<>>
  /\ layer' = layer + 1
  /\ phase' = IF layer' = MaxLayers THEN "ready" ELSE "whiteouts"
  /\ paths' = {} /\ owned' = {}
  /\ UNCHANGED <<tree, metadata, nodes, pending, applied>>

(* finalize(): of the paths of an inode the one that is visited first tells. *)
Finalize ==
  /\ phase = "ready"
  /\ phase' = "final"
  /\ \E first \in [Inodes -> DOMAIN tree] :
       /\ \A i \in Inodes : tree[first[i]].inode = i
       /\ applied' = {i \in Inodes : first[i] \in DOMAIN metadata}
  /\ UNCHANGED <<tree, metadata, nodes, pending, layer, paths, owned>>

Next ==
  \/ Rewind \/ Spoiled \/ Scanned \/ Unlinked \/ Applied \/ Finalize
  \/ \E p \in Removed : Whiteout(p)
  \/ \E p \in Opaque : WhiteoutAll(p)
  \/ \E e \in Entries : Install(e)
  \/ \E p \in DOMAIN pending : Relink(p)

Spec == Init /\ [][Next]_vars

-----------------------------------------------------------------------------
(* What is recorded for a path was recorded for what is there now, not for *)
(* something that a whiteout or a later entry has replaced; every file and *)
(* symbolic link has such a record, under each of its names.               *)
MetadataFits ==
  /\ \A p \in DOMAIN metadata : p \in DOMAIN tree /\ metadata[p] = tree[p].inode
  /\ \A p \in DOMAIN tree : tree[p].kind # "dir" => p \in DOMAIN metadata
  /\ phase = "final" => {i \in Inodes : \E p \in DOMAIN metadata : metadata[p] = i} = applied

(* A whiteout reaches the lower layers only: whatever a layer installed and *)
(* no later entry of it replaced is there, or a link that still waits.      *)
NothingLost ==
  phase \in {"entries", "links"} => owned \subseteq DOMAIN tree \cup DOMAIN pending

=============================================================================
