------------------------------- MODULE Rename -------------------------------
(***************************************************************************)
(* s3fs_rename of a file or of a directory with what is below it           *)
(* (s3fs.cpp): a tree of objects is listed page by page, its directories   *)
(* are made under the new name, its files are copied, moved in the table   *)
(* of open files and deleted one after the other, and the old directories  *)
(* are removed from below.  Any request may fail, whether or not the       *)
(* server carried it out, the process may die at any time, the caller may  *)
(* call again, and another client of the bucket may add a file.            *)
(*                                                                         *)
(* A step is a request, or what is done between two requests.  libfuse     *)
(* keeps calls on paths below the two directories waiting for a rename, so *)
(* files are written and flushed between renames.  Attributes are taken    *)
(* from the server (StatCache has the cache).                              *)
(***************************************************************************)
EXTENDS ObjectList

CONSTANTS
  File, Dir,      \* bound: the names below the directory
  PageSize,       \* how many keys an answer lists (1000)
  NoCopyApi,      \* nocopyapi or norenameapi: the values to check
  MaxVersion,     \* bound: writes to a file
  MaxFaults       \* bound: requests that fail, and deaths of the process

ASSUME RenameAssumption ==
  /\ Empty \in Dir /\ Empty \notin File /\ File \cap Dir = {}
  /\ PageSize \in Nat \ {0, 1} /\ NoCopyApi \subseteq BOOLEAN
  /\ MaxVersion \in Nat /\ MaxFaults \in Nat

\* Names are paths, and what is above a name is a directory.
ASSUME NamesAssumption ==
  /\ IsFiniteSet(File \cup Dir) /\ File \cup Dir \subseteq Seq(Nat)
  /\ \A n \in (File \cup Dir) \ {Empty} :
       /\ Head(n) = Slash /\ Last(n) \notin {Slash, Folder}
       /\ \A i \in 2 .. Len(n) : n[i] = Slash => SubSeq(n, 1, i - 1) \in Dir

VARIABLES
  bucket,            \* [Side -> [key -> content]]
  ent,               \* the open files: their path's side, unsaved content
  side,              \* the side the callers know the names under
  nocopy,
  pc, result,
  head, marker,      \* list_bucket
  page, truncated,   \* and the answer it works on
  names, mv, todo,   \* rename_directory
  last,              \* s3fs_rmdir: the result of its last DELETE
  faults,
  wanted, missed, stranded, budget  \* history, see below

listing == <<head, marker, page, truncated, names>>
moving  == <<mv, todo, last>>
history == <<wanted, missed, stranded, budget>>
vars == <<bucket, ent, side, nocopy, pc, result, listing, moving, faults, history>>

-----------------------------------------------------------------------------
(***************************************************************************)
(* Keys are names below the directory "from" or "to", which itself is      *)
(* Empty.  The content of a file is the version written last, that of a    *)
(* directory is Marker.                                                    *)
(***************************************************************************)
Side  == {"from", "to"}
Name  == File \cup Dir
AFile == File \cup {Empty}         \* what may be a file
Form  == {"plain", "slash", "folder"}
Key(n, form) == CASE form = "plain" -> n
                  [] form = "slash" -> Append(n, Slash)
                  [] form = "folder" -> Append(n, Folder)
Keys == {Key(n, form) : n \in Name, form \in Form}

Version == 0 .. MaxVersion
Marker  == -1
Absent  == -2

\* wanted: the newest content of each file that is in the bucket.  missed: names
\* the code leaves behind without an error, as it was told that they are not
\* there or are no directories, or never asked.  stranded: open files that were
\* renamed without the copy request.  budget: how many requests could still fail
\* when the call began, Never once a file was added or the process died meanwhile.
Never  == -1
Closed == [side |-> "none", dirty |-> FALSE, data |-> 0]
Entity == [side : Side \cup {"none"}, dirty : BOOLEAN, data : Version]
Open(f) == ent[f].side # "none"

Node == [old : Keys, new : Name, is_dir : BOOLEAN, normdir : BOOLEAN]
NoNodes == [dirs |-> <<>>, files |-> <<>>]

Put(b, k, content) == [x \in DOMAIN b \cup {k} |-> IF x = k THEN content ELSE b[x]]
Without(b, k)      == [x \in DOMAIN b \ {k} |-> b[x]]

Store(s, k, content) == bucket' = [bucket EXCEPT ![s] = Put(@, k, content)]
Drop(s, k)           == bucket' = [bucket EXCEPT ![s] = Without(@, k)]

Has(k)     == k \in DOMAIN bucket["from"]
Forms(n)   == {form \in Form : Has(Key(n, form))}
Beneath(n) == {k \in DOMAIN bucket["from"] : Below(Append(n, Slash), k)}

\* One request may have failed, or none has.
Spend(right) == IF right THEN UNCHANGED faults ELSE faults > 0 /\ faults' = faults - 1

\* The names change for the caller only when the result is 0.
Return(r) ==
  /\ pc' = "idle" /\ result' = r
  /\ side' = IF r = "ok" THEN "to" ELSE side
  /\ head' = NoObjects /\ marker' = Empty /\ page' = {} /\ truncated' = FALSE /\ names' = <<>>
  /\ mv' = NoNodes /\ todo' = <<>> /\ last' = "ok"

Goto(phase) == pc' = phase /\ UNCHANGED <<side, result>>

-----------------------------------------------------------------------------
(***************************************************************************)
(* get_object_attribute and chk_dir_object_type.                           *)
(***************************************************************************)
\* What HEAD requests for "name", "name/" and "name_$folder$" that find the
\* objects visible, and then a list of what is below, make of a name.
Attributes(n, visible, listed) ==
  [found  |-> visible # {} \/ (listed /\ Beneath(n) # {}),
   dir    |-> "plain" \in visible => bucket["from"][n] = Marker,
   forced |-> visible = {},
   right  |-> visible = Forms(n) /\ listed]

Answers(n) == {Attributes(n, v, TRUE) : v \in SUBSET Forms(n)} \cup {Attributes(n, {}, FALSE)}

Types(n, a) ==
  LET old     == "plain" \in Forms(n) /\ "slash" \notin Forms(n)
      special == "folder" \in Forms(n) /\ ~old
  IN  {[type |-> IF special THEN "folder" ELSE IF a.forced THEN "noobj" ELSE "object",
        right |-> TRUE],
       [type |-> IF a.forced THEN "noobj" ELSE "object", right |-> ~special],
       [type |-> "unknown", right |-> FALSE]}

DirNode(n, type) ==
  [old |-> IF type = "folder" THEN Append(n, Folder) ELSE n, new |-> n,
   is_dir |-> TRUE, normdir |-> type = "noobj"]
FileNode(f) == [old |-> f, new |-> f, is_dir |-> FALSE, normdir |-> FALSE]

\* add_mvnode keeps the directories, and the files, in ascending order.
Inserted(list, node) ==
  LET after == {i \in DOMAIN list : Before(node.old, list[i].old)}
  IN  IF \E i \in DOMAIN list : list[i].old = node.old THEN list
      ELSE InsertAt(list, Min(after \cup {Len(list) + 1}), node)

add_mvnode(nodes, node) ==
  IF node.is_dir THEN [nodes EXCEPT !.dirs = Inserted(@, node)]
  ELSE [nodes EXCEPT !.files = Inserted(@, node)]

\* Marked directories the answers hide.
Hidden(n, type) == IF Forms(n) # {} /\ type \in {"noobj", "unknown"} THEN {n} ELSE {}

-----------------------------------------------------------------------------
(***************************************************************************)
(* Between renames.                                                        *)
(***************************************************************************)
Idle == pc = "idle"

OpenFile(f) ==
  /\ Idle /\ f \in DOMAIN bucket[side] /\ bucket[side][f] # Marker /\ ~Open(f)
  /\ ent' = [ent EXCEPT ![f] = [side |-> side, dirty |-> FALSE, data |-> bucket[side][f]]]
  /\ UNCHANGED <<bucket, side, nocopy, pc, result, listing, moving, faults, history>>

\* s3fs_write looks the entity up by the path.
Write(f) ==
  /\ Idle /\ Open(f) /\ ent[f].side = side /\ ent[f].data < MaxVersion
  /\ ent' = [ent EXCEPT ![f].dirty = TRUE, ![f].data = @ + 1]
  /\ UNCHANGED <<bucket, side, nocopy, pc, result, listing, moving, faults, history>>

\* RowFlush of an open file to a path, whose request works, is lost or fails.
Uploaded(f, s) ==
  IF ent[f].dirty
    THEN /\ Store(s, f, ent[f].data) /\ wanted' = [wanted EXCEPT ![f] = ent[f].data]
    ELSE UNCHANGED <<bucket, wanted>>
Clean(f) == ent' = [ent EXCEPT ![f].dirty = FALSE]

\* s3fs_flush; it returns 0 when no entity has the path.
Flush(f) ==
  /\ Idle /\ Open(f) /\ ent[f].side = side /\ ent[f].dirty
  /\ \/ Uploaded(f, side) /\ Clean(f) /\ Spend(TRUE)
     \/ Spend(FALSE) /\ UNCHANGED ent /\ (Uploaded(f, side) \/ UNCHANGED <<bucket, wanted>>)
  /\ UNCHANGED <<side, nocopy, pc, result, listing, moving, missed, stranded, budget>>

\* s3fs_release finds the entity by its path as well.
Release(f) ==
  /\ Idle /\ Open(f) /\ ent[f].side = side
  /\ ent' = [ent EXCEPT ![f] = Closed]
  /\ UNCHANGED <<bucket, side, nocopy, pc, result, listing, moving, faults, history>>

\* Another client of the bucket (external).
Create(f) ==
  /\ wanted[f] = Absent /\ side = "from" /\ bucket["from"] # NoObjects /\ wanted[Empty] = Absent
  /\ Store("from", f, 0)
  /\ wanted' = [wanted EXCEPT ![f] = 0]
  /\ missed' = IF Idle THEN missed ELSE missed \cup {f}
  /\ budget' = Never
  /\ UNCHANGED <<ent, side, nocopy, pc, result, listing, moving, faults, stranded>>

\* The process dies and what was not saved is gone.  Until a rename changes the
\* bucket that is no different from opening no file.
Crash ==
  /\ pc \in {"clone", "copy", "unlink", "rmdir", "rmslash", "rmplain", "rmfolder"}
  /\ Spend(FALSE) /\ Return("error")
  /\ ent' = [f \in AFile |-> Closed] /\ budget' = Never
  /\ UNCHANGED <<bucket, nocopy, wanted, missed, stranded>>

-----------------------------------------------------------------------------
(***************************************************************************)
(* s3fs_rename.                                                            *)
(***************************************************************************)
Call ==
  /\ Idle /\ result \notin {"ok", "enoent"}
  /\ pc' = "lookup" /\ result' = "none" /\ budget' = faults
  /\ UNCHANGED <<bucket, ent, side, nocopy, listing, moving, faults, wanted, missed,
                 stranded>>

\* s3fs_rename's get_object_attribute, and the type of the directory.
Lookup ==
  /\ pc = "lookup"
  /\ UNCHANGED <<bucket, ent, nocopy, wanted, stranded, budget>>
  /\ \E a \in Answers(Empty) :
     \/ /\ ~a.found /\ Spend(a.right) /\ UNCHANGED missed
        /\ Return(IF a.right THEN "enoent" ELSE "error")
     \/ /\ a.found /\ ~a.dir /\ Spend(a.right) /\ UNCHANGED missed
        /\ Goto("flush") /\ todo' = <<FileNode(Empty)>>
        /\ UNCHANGED <<listing, mv, last>>
     \/ /\ a.found /\ a.dir
        /\ \E t \in Types(Empty, a) :
             /\ Spend(a.right /\ t.right)
             /\ mv' = IF t.type = "unknown" THEN mv ELSE add_mvnode(mv, DirNode(Empty, t.type))
             /\ missed' = missed \cup Hidden(Empty, t.type)
        /\ Goto("list") /\ UNCHANGED <<listing, todo, last>>

\* A file that is open is flushed before it is renamed.
FlushFirst ==
  /\ pc = "flush" /\ UNCHANGED <<nocopy, missed, stranded, budget>>
  /\ \/ /\ IF Open(Empty) /\ ent[Empty].side = "from"
             THEN Uploaded(Empty, "from") /\ Clean(Empty)
             ELSE UNCHANGED <<bucket, ent, wanted>>
        /\ Spend(TRUE) /\ Goto("copy") /\ UNCHANGED <<listing, moving>>
     \/ /\ Open(Empty) /\ ent[Empty].side = "from" /\ ent[Empty].dirty
        /\ Uploaded(Empty, "from") \/ UNCHANGED <<bucket, wanted>>
        /\ Spend(FALSE) /\ Return("error") /\ UNCHANGED ent

-----------------------------------------------------------------------------
(***************************************************************************)
(* list_bucket without a delimiter, and the nodes to move.                 *)
(***************************************************************************)
Rest == {k \in DOMAIN bucket["from"] :
           /\ IsPrefix(<<Slash>>, k)
           /\ marker = Empty \/ Before(marker, k)}

IsPage(keys) ==
  /\ Cardinality(keys) = PageSize \/ (keys = Rest /\ Cardinality(keys) <= PageSize)
  /\ \A k \in keys, l \in Rest \ keys : Before(k, l)

List ==
  /\ pc = "list" /\ UNCHANGED <<bucket, ent, nocopy, history>>
  /\ \/ Spend(FALSE) /\ Return("error")
     \/ /\ \E keys \in SUBSET Rest : IsPage(keys) /\ page' = keys /\ truncated' = (keys # Rest)
        /\ Spend(TRUE) /\ Goto("append") /\ UNCHANGED <<head, marker, names, moving>>

\* append_objects_from_xml, key by key.
AppendObject ==
  /\ pc = "append" /\ page # {}
  /\ LET key == Least(page) IN
     /\ page' = page \ {key}
     /\ head' = IF key = <<Slash>> THEN head
                ELSE insert(head, get_object_name(<<Slash>>, key), FALSE)
     /\ marker' = key
  /\ UNCHANGED <<bucket, ent, side, nocopy, pc, result, names, truncated, moving, faults, history>>

\* NextPage below, without the answer's mark that there is more.
FirstPageOnly ==
  /\ pc = "append" /\ page = {} /\ Goto("named")
  /\ UNCHANGED <<bucket, ent, nocopy, listing, moving, faults, history>>

\* The server may name the next marker; otherwise it is the last name listed.
NextPage ==
  /\ pc = "append" /\ page = {}
  /\ IF truncated THEN Goto("list") /\ marker' \in {marker, <<Slash>> \o GetLastName(head)}
     ELSE Goto("named") /\ UNCHANGED marker
  /\ UNCHANGED <<bucket, ent, nocopy, head, page, truncated, names, moving, faults,
                 history>>

NameList == MakeHierarchizedList(GetNameList(head))

Named ==
  /\ pc = "named" /\ names' = NameList
  /\ Goto("check")
  /\ UNCHANGED <<bucket, ent, nocopy, head, marker, page, truncated, moving, faults,
                 history>>

\* A listed name whose attributes cannot be read is left where it is.
Check ==
  /\ pc = "check" /\ names # <<>> /\ names' = Tail(names)
  /\ LET n == <<Slash>> \o Head(names) IN
     \E a \in Answers(n) :
     \/ ~a.found /\ Spend(a.right) /\ missed' = missed \cup {n} /\ UNCHANGED mv
     \/ /\ a.found /\ ~a.dir /\ Spend(a.right) /\ UNCHANGED missed
        /\ mv' = add_mvnode(mv, FileNode(n))
     \/ /\ a.found /\ a.dir
        /\ \E t \in Types(n, a) :
             /\ Spend(a.right /\ t.right)
             /\ mv' = IF t.type = "unknown" THEN mv ELSE add_mvnode(mv, DirNode(n, t.type))
             /\ missed' = missed \cup Hidden(n, t.type)
  /\ UNCHANGED <<bucket, ent, side, nocopy, pc, result, head, marker, page, truncated, todo,
                 last, wanted, stranded, budget>>

\* Checked below, going straight on to the files.
CheckedWithoutClone ==
  /\ pc = "check" /\ names = <<>>
  /\ Goto("copy") /\ todo' = mv.files
  /\ UNCHANGED <<bucket, ent, nocopy, listing, mv, last, faults, history>>

Checked ==
  /\ pc = "check" /\ names = <<>>
  /\ Goto("clone") /\ todo' = mv.dirs
  /\ UNCHANGED <<bucket, ent, nocopy, listing, mv, last, faults, history>>

\* Clone below, refusing a directory that is there, as s3fs_mkdir does.
CloneByMkdir ==
  /\ pc = "clone" /\ todo # <<>> /\ UNCHANGED <<ent, nocopy, history>>
  /\ LET key  == Key(Head(todo).new, "slash")
         Made == Store("to", key, Marker)
     IN
     \/ /\ key \notin DOMAIN bucket["to"] /\ Made /\ Spend(TRUE) /\ todo' = Tail(todo)
        /\ UNCHANGED <<side, pc, result, listing, mv, last>>
     \/ key \in DOMAIN bucket["to"] /\ UNCHANGED <<bucket, faults>> /\ Return("error")
     \/ (Made \/ UNCHANGED bucket) /\ Spend(FALSE) /\ Return("error")

\* clone_directory_object.
Clone ==
  /\ pc = "clone" /\ todo # <<>> /\ UNCHANGED <<ent, nocopy, history>>
  /\ LET Made == Store("to", Key(Head(todo).new, "slash"), Marker) IN
     \/ /\ Made /\ Spend(TRUE) /\ todo' = Tail(todo)
        /\ UNCHANGED <<side, pc, result, listing, mv, last>>
     \/ (Made \/ UNCHANGED bucket) /\ Spend(FALSE) /\ Return("error")

Cloned ==
  /\ pc = "clone" /\ todo = <<>>
  /\ Goto("copy") /\ todo' = mv.files
  /\ UNCHANGED <<bucket, ent, nocopy, listing, mv, last, faults, history>>

-----------------------------------------------------------------------------
(***************************************************************************)
(* rename_object, rename_large_object and rename_object_nocopy of a file.  *)
(***************************************************************************)
Current == Head(todo).old

\* Copy below, when its result is not tested.
CopyUntested ==
  /\ pc = "copy" /\ todo # <<>> /\ ~nocopy /\ UNCHANGED <<ent, nocopy, history>>
  /\ LET Copied == Store("to", Current, bucket["from"][Current]) IN
     \/ Copied /\ Spend(TRUE)
     \/ (Copied \/ UNCHANGED bucket) /\ Spend(FALSE)
  /\ Goto("table") /\ UNCHANGED <<listing, moving>>

\* put_headers makes a copy on the server.
Copy ==
  /\ pc = "copy" /\ todo # <<>> /\ ~nocopy /\ UNCHANGED <<ent, nocopy, history>>
  /\ LET Copied == Store("to", Current, bucket["from"][Current]) IN
     \/ Copied /\ Spend(TRUE) /\ Goto("table") /\ UNCHANGED <<listing, moving>>
     \/ (Copied \/ UNCHANGED bucket) /\ Spend(FALSE) /\ Return("error")

\* Without the copy request the file is loaded and uploaded under the new name;
\* an open file keeps its old path.
CopyByUpload ==
  /\ pc = "copy" /\ todo # <<>> /\ nocopy /\ UNCHANGED <<nocopy, wanted, missed, budget>>
  /\ LET own     == Open(Current) /\ ent[Current].side = "from"
         content == IF own THEN ent[Current].data ELSE bucket["from"][Current]
         Copied  == Store("to", Current, content)
     IN
     \/ /\ Copied /\ Spend(TRUE)
        /\ Goto("unlink") /\ UNCHANGED <<listing, moving>>
        /\ ent' = IF own THEN [ent EXCEPT ![Current].dirty = FALSE] ELSE ent
        /\ stranded' = IF own THEN stranded \cup {Current} ELSE stranded
     \/ /\ Copied \/ UNCHANGED bucket
        /\ Spend(FALSE) /\ Return("error") /\ UNCHANGED <<ent, stranded>>

\* MoveEntity below, for a file that is renamed by itself only.
MoveEntityOfBase ==
  /\ pc = "table" /\ Goto("unlink")
  /\ ent' = IF Open(Current) /\ Current = Empty THEN [ent EXCEPT ![Current].side = "to"] ELSE ent
  /\ UNCHANGED <<bucket, nocopy, listing, moving, faults, history>>

\* FdManager::Rename.
MoveEntity ==
  /\ pc = "table" /\ Goto("unlink")
  /\ ent' = IF Open(Current) THEN [ent EXCEPT ![Current].side = "to"] ELSE ent
  /\ UNCHANGED <<bucket, nocopy, listing, moving, faults, history>>

\* s3fs_unlink.  What CopyByUpload saved counts from here on.
Unlink ==
  /\ pc = "unlink" /\ UNCHANGED <<ent, nocopy, missed, stranded, budget>>
  /\ LET Deleted == /\ Drop("from", Current)
                    /\ wanted' = IF nocopy
                                   THEN [wanted EXCEPT ![Current] = bucket["to"][Current]]
                                   ELSE wanted
     IN
     \/ Deleted /\ Spend(TRUE) /\ Goto("copy") /\ todo' = Tail(todo)
        /\ UNCHANGED <<listing, mv, last>>
     \/ (Deleted \/ UNCHANGED <<bucket, wanted>>) /\ Spend(FALSE) /\ Return("error")

Moved ==
  /\ pc = "copy" /\ todo = <<>> /\ UNCHANGED <<bucket, ent, nocopy, faults, history>>
  /\ IF mv = NoNodes /\ head = NoObjects THEN Return("ok")
     ELSE Goto("rmdir") /\ todo' = Reverse(mv.dirs) /\ UNCHANGED <<listing, mv, last>>

-----------------------------------------------------------------------------
(***************************************************************************)
(* s3fs_rmdir of each directory from below.                                *)
(***************************************************************************)
\* directory_empty lists what is below the name, which may be "dir_$folder$".
Rmdir ==
  /\ pc = "rmdir" /\ todo # <<>> /\ UNCHANGED <<bucket, ent, nocopy, history>>
  /\ \/ /\ Head(todo).normdir /\ todo' = Tail(todo) /\ Goto("rmdir")
        /\ UNCHANGED <<faults, listing, mv, last>>
     \/ /\ ~Head(todo).normdir /\ Beneath(Current) = {} /\ Spend(TRUE)
        /\ Goto("rmslash") /\ UNCHANGED <<listing, moving>>
     \/ /\ ~Head(todo).normdir
        /\ Spend(Beneath(Current) # {}) /\ Return("error")

\* A DELETE of an object whose result replaces that of the last one.
Delete(k) ==
  \/ Drop("from", k) /\ Spend(TRUE) /\ last' = "ok"
     /\ missed' = IF last = "error" THEN missed \cup {Head(todo).new} ELSE missed
  \/ (Drop("from", k) \/ UNCHANGED bucket) /\ Spend(FALSE) /\ last' = "error"
     /\ UNCHANGED missed

\* An object that its HEAD does not find stays.
Overlook == Spend(FALSE) /\ missed' = missed \cup {Head(todo).new} /\ UNCHANGED <<bucket, last>>

RmSlash ==
  /\ pc = "rmslash" /\ Delete(Key(Current, "slash")) /\ Goto("rmplain")
  /\ UNCHANGED <<ent, nocopy, listing, mv, todo, wanted, stranded, budget>>

RmPlain ==
  /\ pc = "rmplain" /\ Goto("rmfolder")
  /\ IF Has(Current) THEN Delete(Current) \/ Overlook
     ELSE UNCHANGED <<bucket, faults, last, missed>>
  /\ UNCHANGED <<ent, nocopy, listing, mv, todo, wanted, stranded, budget>>

RmFolder ==
  /\ pc = "rmfolder" /\ Goto("rmend")
  /\ IF Has(IF EndsIn(Current, Folder) THEN Current ELSE Key(Current, "folder"))
       THEN Delete(Key(Current, "folder")) \/ Overlook
       ELSE UNCHANGED <<bucket, faults, last, missed>>
  /\ UNCHANGED <<ent, nocopy, listing, mv, todo, wanted, stranded, budget>>

RmEnd ==
  /\ pc = "rmend" /\ UNCHANGED <<bucket, ent, nocopy, faults, history>>
  /\ IF last = "error" THEN Return("error")
     ELSE Goto("rmdir") /\ todo' = Tail(todo) /\ UNCHANGED <<listing, mv, last>>

Renamed ==
  /\ pc = "rmdir" /\ todo = <<>> /\ Return("ok")
  /\ UNCHANGED <<bucket, ent, nocopy, faults, history>>

-----------------------------------------------------------------------------
\* Each directory has at most one object, some directories have none, and some
\* files may be added later; or there is one file.
Tree(files, form) ==
  LET marked == {d \in Dir : form[d] # "none"}
      keys   == files \cup {Key(d, form[d]) : d \in marked}
  IN  [k \in keys |-> IF k \in files THEN 0 ELSE Marker]

Init ==
  /\ \/ \E files \in SUBSET File, form \in [Dir -> Form \cup {"none"}] :
          /\ bucket = [s \in Side |-> IF s = "from" THEN Tree(files, form) ELSE NoObjects]
          /\ wanted = [f \in AFile |-> IF f \in files THEN 0 ELSE Absent]
     \/ /\ bucket = [s \in Side |-> IF s = "from" THEN Put(NoObjects, Empty, 0) ELSE NoObjects]
        /\ wanted = [f \in AFile |-> IF f = Empty THEN 0 ELSE Absent]
  /\ ent = [f \in AFile |-> Closed] /\ side = "from" /\ nocopy \in NoCopyApi
  /\ pc = "idle" /\ result = "none" /\ head = NoObjects /\ marker = Empty
  /\ page = {} /\ truncated = FALSE
  /\ names = <<>> /\ mv = NoNodes /\ todo = <<>> /\ last = "ok"
  /\ faults = MaxFaults /\ missed = {} /\ stranded = {}
  /\ budget = Never

Step ==
  \/ Lookup \/ FlushFirst \/ List \/ AppendObject \/ NextPage \/ Named \/ Check \/ Checked \/ Clone \/ Cloned
  \/ Copy \/ CopyByUpload \/ MoveEntity \/ Unlink \/ Moved
  \/ Rmdir \/ RmSlash \/ RmPlain \/ RmFolder \/ RmEnd \/ Renamed

Next ==
  \/ Call \/ Step \/ Crash
  \/ \E f \in AFile : OpenFile(f) \/ Write(f) \/ Flush(f) \/ Release(f)
  \/ \E f \in File : Create(f)

Spec == Init /\ [][Next]_vars

-----------------------------------------------------------------------------
(***************************************************************************)
(* Properties.                                                             *)
(***************************************************************************)
Phase == {"idle", "lookup", "flush", "list", "append", "named", "check", "clone", "copy", "table",
          "unlink", "rmdir", "rmslash", "rmplain", "rmfolder", "rmend"}

TypeOK ==
  /\ DOMAIN bucket = Side
  /\ \A s \in Side : /\ DOMAIN bucket[s] \subseteq Keys
                      /\ \A k \in DOMAIN bucket[s] : bucket[s][k] \in Version \cup {Marker}
  /\ ent \in [AFile -> Entity] /\ side \in Side /\ nocopy \in NoCopyApi
  /\ pc \in Phase /\ result \in {"none", "ok", "error", "enoent"}
  /\ page \subseteq Keys /\ truncated \in BOOLEAN
  /\ mv \in [dirs : Seq(Node), files : Seq(Node)] /\ todo \in Seq(Node) /\ last \in {"ok", "error"}
  /\ \A i \in DOMAIN names : <<Slash>> \o names[i] \in Name
  /\ faults \in 0 .. MaxFaults
  /\ wanted \in [AFile -> Version \cup {Absent}]
  /\ budget \in Never .. MaxFaults /\ missed \subseteq Name /\ stranded \subseteq AFile

\* The newest content of every file is in the bucket under the old or the new
\* name, whatever fails in the middle of a rename and however often it is tried.
FilesAreKept ==
  \A f \in AFile : wanted[f] # Absent =>
    \E s \in Side : f \in DOMAIN bucket[s] /\ bucket[s][f] = wanted[f]

\* No step takes away the last object of a directory: it is made under the new
\* name before the old one is removed.
IsMarked(d) == \E s \in Side, form \in Form : Key(d, form) \in DOMAIN bucket[s]
DirectoriesAreKept == [][\A d \in Dir : IsMarked(d) => IsMarked(d)']_vars

\* The object under the path of an open file is its newest content, during a
\* rename as well: what it still has to load is there, and what it uploads
\* replaces it.  A file that a rename missed may have an older copy under the new
\* name, which is then taken for it.
HandlesKeepObject ==
  \A f \in AFile \ (stranded \cup missed) : Open(f) =>
    f \in DOMAIN bucket[ent[f].side] /\ bucket[ent[f].side][f] = wanted[f]

\* The list has every file and directory below the old name once, those without
\* objects and those known by other objects than "dir/" as well, in whatever
\* way the pages divide it.
ListIsComplete ==
  pc = "named" =>
    LET list   == NameList
        listed == {<<Slash>> \o list[i] : i \in DOMAIN list}
        below  == {n \in Name \ {Empty} : Forms(n) # {} \/ Beneath(n) # {}}
    IN  /\ Cardinality(listed) = Len(list)
        /\ listed \subseteq below
        /\ \A n \in below : n \in listed \/ \E f \in missed : n = f \/ Below(n, f)

\* When a rename has returned 0 nothing is left under the old name but what it
\* was told is not there, and every open file goes by the new one.
RenamedWhenZero ==
  result = "ok" =>
    /\ DOMAIN bucket["from"] \subseteq {Key(n, form) : n \in missed, form \in Form}
    /\ \A f \in AFile \ (missed \cup stranded) : Open(f) => ent[f].side = "to"

\* A rename during which no request fails, and nothing is added, succeeds: what
\* earlier ones left behind is no obstacle, so that repeating it moves the tree.
RepeatedRenameWorks == result = "error" => faults # budget
=============================================================================
