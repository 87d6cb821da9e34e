----------------------------- MODULE CodeGraph -----------------------------
(***************************************************************************)
(* The semantic code graph (crates/code_graph): index_workspace walks a      *)
(* workspace, stores each file whose hash has changed in a transaction of    *)
(* its own, prunes the files that are gone and resolves calls by name.       *)
(*                                                                         *)
(* A text is what the parser takes from a file: the names it defines and the *)
(* names it uses.  The symbols of a file are those of its row; calls and      *)
(* references point at the file that defines the symbol, and the foreign keys *)
(* (ON DELETE CASCADE, SET NULL) are part of every delete.  Rows are kept in  *)
(* the order of their ids.  Several requests and processes index into one     *)
(* database at once, fail or die at any moment, and files change meanwhile.  *)
(* Left out: several calls of one name from one file, which resolve alike,    *)
(* rows of implementations, and the full-text index, which triggers keep.    *)
(***************************************************************************)
EXTENDS Integers, SequencesExt

CONSTANTS
  Paths,        \* the source files there may be
  Texts,        \* the texts a file may have,
  Defs, Uses,   \* and the names each defines and uses
  Workspaces,   \* the sets of files a request may ask to index
  Indexers,     \* requests and processes that may index at once
  MaxEdits,     \* bound: changes of a file
  MaxStarts     \* bound: runs of index_workspace

ASSUME GraphAssumption ==
  Workspaces \subseteq SUBSET Paths /\ "null" \notin Paths /\ "none" \notin Texts

VARIABLES
  disk,         \* disk[p]: a text, "none", or "bad" when it cannot be read or parsed
  files,        \* table files, with their symbols, in the order of the ids
  calls,        \* table calls: <<file, name>> to the file of the callee, or "null"
  refs,         \* table symbol_references: <<file, name, file of the symbol>>
  indexAt,      \* the step each indexer is at
  workspace, force,   \* what its request asked for
  found,        \* existing_paths
  todo,         \* the discovered files it has yet to read
  inHand,       \* path and text in its hands
  doomed,       \* the rows prune_missing_files has listed and will delete
  solo,         \* history: its walk missed nothing and it has been alone since
  edits, starts

indexerVars == <<indexAt, workspace, force, found, todo, inHand, doomed>>
graphVars == <<disk, files, calls, refs, indexerVars, solo, edits, starts>>

Resting == {"idle", "done"}

GraphInit ==
  /\ disk \in [Paths -> Texts \cup {"none"}]
  /\ files = <<>> /\ calls = <<>> /\ refs = {}
  /\ indexAt = [x \in Indexers |-> "idle"]
  /\ workspace = [x \in Indexers |-> {}] /\ force = [x \in Indexers |-> FALSE]
  /\ found = [x \in Indexers |-> {}] /\ todo = [x \in Indexers |-> {}]
  /\ inHand = [x \in Indexers |-> <<>>] /\ doomed = [x \in Indexers |-> {}]
  /\ solo = [x \in Indexers |-> FALSE]
  /\ edits = 0 /\ starts = 0

-----------------------------------------------------------------------------
StoredPaths == {row.path : row \in ToSet(files)}

(* The file whose symbol of that name has the lowest id: ORDER BY id LIMIT 1. *)
Definer(table, name) ==
  LET those == {i \in DOMAIN table : name \in Defs[table[i].text]}
  IN IF those = {} THEN "null" ELSE table[Min(those)].path

(* DELETE FROM files, with what the foreign keys take away or set to null.   *)
RowsWithout(gone) ==
  LET kept[n \in 0..Len(files)] ==
        IF n = 0 THEN <<>>
        ELSE IF files[n].path \in gone THEN kept[n - 1] ELSE Append(kept[n - 1], files[n])
  IN kept[Len(files)]

CallsWithout(gone) ==
  [c \in {c \in DOMAIN calls : c[1] \notin gone} |->
     IF calls[c] \in gone THEN "null" ELSE calls[c]]

RefsWithout(gone) == {r \in refs : r[1] \notin gone /\ r[3] \notin gone}

(* A call needs a symbol of its file as caller, the first one if need be.    *)
CallsOf(path, text) ==
  [c \in IF Defs[text] = {} THEN {} ELSE {path} \X Uses[text] |->
     IF c[2] \in Defs[text] THEN path ELSE "null"]

(* The new calls beside those that stay.                                    *)
Joined(own, kept) ==
  [c \in DOMAIN own \cup DOMAIN kept |-> IF c \in DOMAIN own THEN own[c] ELSE kept[c]]

(* A reference is stored only if some file already defines the name.         *)
RefsOf(path, text, table) ==
  {r \in {path} \X Uses[text] \X Paths :
     r[3] = IF r[2] \in Defs[text] THEN path ELSE Definer(table, r[2])}

Move(x, step) == indexAt' = [indexAt EXCEPT ![x] = step]

-----------------------------------------------------------------------------
(* Somebody writes, breaks or removes a file.                               *)
EditFile(p, text) ==
  /\ edits < MaxEdits /\ disk[p] # text
  /\ disk' = [disk EXCEPT ![p] = text]
  /\ edits' = edits + 1
  /\ solo' = [x \in Indexers |-> FALSE]
  /\ UNCHANGED <<files, calls, refs, indexerVars, starts>>

There(w) == {p \in w : disk[p] # "none"}

(* index_workspace begins and walks the workspace.  An entry that cannot be   *)
(* looked at is left out, a directory with all that is below it.             *)
StartIndex(x, w, walked, f) ==
  /\ indexAt[x] \in Resting /\ starts < MaxStarts
  /\ walked \subseteq There(w)
  /\ found' = [found EXCEPT ![x] = walked] /\ todo' = [todo EXCEPT ![x] = walked]
  /\ workspace' = [workspace EXCEPT ![x] = w] /\ force' = [force EXCEPT ![x] = f]
  /\ solo' = [y \in Indexers |->
       y = x /\ walked = There(w) /\ \A z \in Indexers \ {x} : indexAt[z] \in Resting]
  /\ starts' = starts + 1
  /\ Move(x, "files")
  /\ UNCHANGED <<disk, files, calls, refs, inHand, doomed, edits>>

(* The next file is read; one that is gone or no text is passed over.        *)
ReadFile(x, p) ==
  /\ indexAt[x] = "files" /\ p \in todo[x]
  /\ todo' = [todo EXCEPT ![x] = @ \ {p}]
  /\ IF disk[p] \in Texts
     THEN inHand' = [inHand EXCEPT ![x] = [path |-> p, text |-> disk[p]]] /\ Move(x, "check")
     ELSE UNCHANGED <<inHand, indexAt>>
  /\ UNCHANGED <<disk, files, calls, refs, workspace, force, found, doomed, solo, edits, starts>>

\* Mutant: any stored row will do.
MutUnchanged(x) == inHand[x].path \in StoredPaths

(* get_file_content_hash: a file whose hash is the stored one is skipped.    *)
Unchanged(x) == inHand[x] \in ToSet(files)

CheckHash(x) ==
  /\ indexAt[x] = "check"
  /\ IF ~force[x] /\ Unchanged(x)
     THEN Move(x, "files") /\ inHand' = [inHand EXCEPT ![x] = <<>>]
     ELSE Move(x, "store") /\ UNCHANGED inHand
  /\ UNCHANGED <<disk, files, calls, refs, workspace, force, found, todo, doomed, solo, edits, starts>>

(* store_file_entities: one transaction.  The new row has a new id, so that  *)
(* a prune under way elsewhere, which deletes by id, does not meet it.       *)
StoreFile(x) ==
  /\ indexAt[x] = "store"
  /\ LET p == inHand[x].path
     IN /\ files' = Append(RowsWithout({p}), inHand[x])
        /\ calls' = Joined(CallsOf(p, inHand[x].text), CallsWithout({p}))
        /\ refs' = RefsWithout({p}) \cup RefsOf(p, inHand[x].text, RowsWithout({p}))
        /\ doomed' = [y \in Indexers |-> doomed[y] \ {p}]
  /\ inHand' = [inHand EXCEPT ![x] = <<>>]
  /\ Move(x, "files")
  /\ UNCHANGED <<disk, workspace, force, found, todo, solo, edits, starts>>

(* prune_missing_files: the rows are listed first, and deleted in a          *)
(* transaction if the walk did not find their files.                        *)
ListMissing(x) ==
  /\ indexAt[x] = "files" /\ todo[x] = {}
  /\ doomed' = [doomed EXCEPT ![x] = StoredPaths \ found[x]]
  /\ found' = [found EXCEPT ![x] = {}] /\ force' = [force EXCEPT ![x] = FALSE]
  /\ Move(x, "prune")
  /\ UNCHANGED <<disk, files, calls, refs, workspace, todo, inHand, solo, edits, starts>>

PruneMissing(x) ==
  /\ indexAt[x] = "prune"
  /\ files' = RowsWithout(doomed[x])
  /\ calls' = CallsWithout(doomed[x])
  /\ refs' = RefsWithout(doomed[x])
  /\ doomed' = [y \in Indexers |-> doomed[y] \ doomed[x]]
  /\ Move(x, "resolve")
  /\ UNCHANGED <<disk, workspace, force, found, todo, inHand, solo, edits, starts>>

(* resolve_unresolved_callees                                               *)
Resolved(table) ==
  [c \in DOMAIN calls |-> IF calls[c] = "null" THEN Definer(table, c[2]) ELSE calls[c]]

ResolveCalls(x) ==
  /\ indexAt[x] = "resolve"
  /\ calls' = Resolved(files)
  /\ Move(x, "done")
  /\ UNCHANGED <<disk, files, refs, workspace, force, found, todo, inHand, doomed, solo, edits, starts>>

(* A database that stays busy: a prune or a resolution is given up silently   *)
(* (unwrap_or(0)).                                                          *)
GiveUp(x) ==
  /\ \/ indexAt[x] = "prune" /\ Move(x, "resolve")
     \/ indexAt[x] = "resolve" /\ Move(x, "done")
  /\ doomed' = [doomed EXCEPT ![x] = {}]
  /\ solo' = [solo EXCEPT ![x] = FALSE]
  /\ UNCHANGED <<disk, files, calls, refs, workspace, force, found, todo, inHand, edits, starts>>

(* The process dies between two transactions, or a store fails and with it    *)
(* the run.                                                                 *)
EndEarly(x) ==
  /\ indexAt[x] \notin Resting
  /\ Move(x, "idle")
  /\ workspace' = [workspace EXCEPT ![x] = {}] /\ force' = [force EXCEPT ![x] = FALSE]
  /\ found' = [found EXCEPT ![x] = {}] /\ todo' = [todo EXCEPT ![x] = {}]
  /\ inHand' = [inHand EXCEPT ![x] = <<>>] /\ doomed' = [doomed EXCEPT ![x] = {}]
  /\ solo' = [solo EXCEPT ![x] = FALSE]
  /\ UNCHANGED <<disk, files, calls, refs, edits, starts>>

GraphNext ==
  \/ \E p \in Paths, text \in Texts \cup {"none", "bad"} : EditFile(p, text)
  \/ \E x \in Indexers :
       \/ \E w \in Workspaces : \E walked \in SUBSET There(w), f \in BOOLEAN : StartIndex(x, w, walked, f)
       \/ \E p \in Paths : ReadFile(x, p)
       \/ CheckHash(x) \/ StoreFile(x)
       \/ ListMissing(x) \/ PruneMissing(x) \/ ResolveCalls(x)
       \/ GiveUp(x) \/ EndEarly(x)

GraphSpec == GraphInit /\ [][GraphNext]_graphVars

-----------------------------------------------------------------------------
(* Calls and references belong to a stored file that uses the name, and lead  *)
(* to a stored file that defines it, whoever stores and prunes meanwhile      *)
(* (db.rs:75, indexer.rs:186).                                              *)
EdgesSound ==
  /\ \A c \in DOMAIN calls :
       /\ \E row \in ToSet(files) : row.path = c[1] /\ c[2] \in Uses[row.text]
       /\ calls[c] = "null" \/ \E row \in ToSet(files) : row.path = calls[c] /\ c[2] \in Defs[row.text]
  /\ \A r \in refs :
       \E row, target \in ToSet(files) : /\ row.path = r[1] /\ r[2] \in Uses[row.text]
                                       /\ target.path = r[3] /\ r[2] \in Defs[target.text]

(* An undisturbed run whose walk missed nothing brings its workspace up to    *)
(* date, whatever earlier runs left half done or stored late: a file of it    *)
(* that can be read has its row as it is on disk, one that is gone has none,   *)
(* and a call is open only if no file defines the name.  A file that has       *)
(* become unreadable keeps its old row (indexer.rs:87, 115).  References that  *)
(* a delete took with it are not made again, and the rows of other workspaces  *)
(* and those a walk missed go with the prune, though their files still exist   *)
(* (indexer.rs:58, 143; db.rs:163).                                        *)
SoloRunMends ==
  \A x \in Indexers : indexAt[x] = "done" /\ solo[x] =>
    /\ \A p \in workspace[x] :
         /\ disk[p] \in Texts => [path |-> p, text |-> disk[p]] \in ToSet(files)
         /\ disk[p] = "none" => p \notin StoredPaths
    /\ \A row \in ToSet(files), name \in UNION {Uses[t] : t \in Texts} :
         Defs[row.text] # {} /\ name \in Uses[row.text] =>
           /\ <<row.path, name>> \in DOMAIN calls
           /\ calls[<<row.path, name>>] = "null" => Definer(files, name) = "null"

(* The edges are sound at every moment, and rows and open calls are mended by *)
(* the next quiet run.                                                     *)
GraphConsistent == IsInjective([i \in DOMAIN files |-> files[i].path]) /\ EdgesSound /\ SoloRunMends
=============================================================================
