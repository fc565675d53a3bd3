----------------------------- MODULE ObjectList -----------------------------
(***************************************************************************)
(* The list of object names that list_bucket collects page by page:        *)
(* class S3ObjList (s3fs_util.cpp) and the names list_bucket puts into it  *)
(* (s3fs.cpp).  A directory may be known by the objects "dir/", "dir" and  *)
(* "dir_$folder$", and appears once in the list.                           *)
(*                                                                         *)
(* A name is a sequence of its parts: components, which are numbers, Slash *)
(* between and after them, and Folder for the suffix "_$folder$".          *)
(***************************************************************************)
EXTENDS Integers, FiniteSets, Sequences, SequencesExt

Slash  == 0
Folder == 99
Empty  == <<>>                          \* the empty string

\* strcmp(a, b) < 0: slash comes before the underscore of the suffix.
Before(a, b) ==
  \E i \in 1 .. Len(b) :
    /\ \A j \in 1 .. i - 1 : j <= Len(a) /\ a[j] = b[j]
    /\ i <= Len(a) => a[i] < b[i]

\* A set of names in this order.
Ascending(S) ==
  [i \in 1 .. Cardinality(S) |-> CHOOSE n \in S : Cardinality({m \in S : Before(m, n)}) = i - 1]

Least(S)    == CHOOSE n \in S : \A m \in S : ~Before(m, n)
Greatest(S) == CHOOSE n \in S : \A m \in S : ~Before(n, m)

EndsIn(name, part) == name # Empty /\ Last(name) = part

CutSlash(name) == IF Len(name) > 1 /\ EndsIn(name, Slash) THEN Front(name) ELSE name

-----------------------------------------------------------------------------
(***************************************************************************)
(* S3ObjList: a map from names to entries.                                 *)
(***************************************************************************)
Set(objects, name, entry) ==
  [n \in DOMAIN objects \cup {name} |-> IF n = name THEN entry ELSE objects[n]]

Erase(objects, name) == [n \in DOMAIN objects \ {name} |-> objects[n]]

NoObjects == [n \in {} |-> Empty]

insert_nomalized(objects, name, normalized, is_dir) ==
  IF name = normalized THEN objects
  ELSE Set(objects, name, [orgname |-> Empty, normalname |-> normalized, is_dir |-> is_dir])

Add(objects, name, newname, is_dir) ==
  insert_nomalized(
    Set(objects, newname, [orgname |-> name, normalname |-> Empty, is_dir |-> is_dir]),
    name, newname, is_dir)

\* insert below, without the search for a name of the other kind.
InsertAsIs(objects, name, is_dir) == Add(objects, name, name, is_dir)

insert(objects, name, is_dir) ==
  LET base    == IF EndsIn(name, Folder) THEN Front(name) ELSE name
      isdir   == is_dir \/ EndsIn(name, Folder) \/ EndsIn(base, Slash)
      newname == IF isdir /\ ~EndsIn(base, Slash) THEN Append(base, Slash) ELSE base
      dirname == Append(newname, Slash)
  IN  IF isdir THEN Add(Erase(objects, Front(newname)), name, newname, TRUE)
      ELSE IF dirname \in DOMAIN objects
             THEN insert_nomalized(objects, name, dirname, TRUE)
             ELSE Add(objects, name, newname, FALSE)

\* The last name in its original form, from which the next page goes on.
GetLastName(objects) ==
  LET Known(n) == IF objects[n].orgname # Empty THEN objects[n].orgname
                  ELSE objects[n].normalname
  IN  Greatest({Known(n) : n \in DOMAIN objects})

\* GetNameList below, with the slashes of directories.
GetNameListUncut(objects) == Ascending({n \in DOMAIN objects : objects[n].normalname = Empty})

\* The names in the order of the map, without slashes and without the entries
\* that only lead to another one.
GetNameList(objects) ==
  LET names == {n \in DOMAIN objects : objects[n].normalname = Empty}
      list  == Ascending(names)
  IN  [i \in DOMAIN list |-> CutSlash(list[i])]

\* Directories that have no object but names below them, appended to the list.
Ancestors(name) == {SubSeq(name, 1, i - 1) : i \in {j \in 2 .. Len(name) : name[j] = Slash}}

MakeHierarchizedList(list) ==
  LET names == {CutSlash(list[i]) : i \in DOMAIN list}
      lost  == (UNION {Ancestors(n) : n \in names}) \ names
  IN  list \o Ascending(lost)

-----------------------------------------------------------------------------
(***************************************************************************)
(* append_objects_from_xml: the keys of a page below prefix.               *)
(***************************************************************************)
Below(prefix, key) == IsStrictPrefix(prefix, key)

\* The name of a key: the last component without its slash, after the
\* directories below the prefix.
get_object_name(prefix, key) == CutSlash(SubSeq(key, Len(prefix) + 1, Len(key)))
=============================================================================
