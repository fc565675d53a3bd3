------------------------------ MODULE PageMap -------------------------------
(***************************************************************************)
(* What a page list promises: a file of some size and the set of its bytes *)
(* that hold the object's content.  Abstract: no pages, no splitting and   *)
(* no merging.  PageListSpec implements it, call by call: last is the call *)
(* made last, so that an implementation has to do what that very call asks *)
(* for.                                                                    *)
(***************************************************************************)
EXTENDS Integers

CONSTANT MaxSize            \* the largest file of the instance

VARIABLES size, loaded, last
vars == <<size, loaded, last>>

Sizes == 0 .. MaxSize
Bytes(n) == 0 .. (n - 1)

Call(op, start, count, flag) == <<op, start, count, flag>>

TypeOK == size \in Sizes /\ loaded \subseteq Bytes(size)

Init == size \in Sizes /\ loaded \in {{}, Bytes(size)}
        /\ last = Call("new", 0, 0, FALSE)

\* The whole file gets one flag.
Reinit(n, flag) ==
  /\ size' = n
  /\ loaded' = IF flag THEN Bytes(n) ELSE {}
  /\ last' = Call("init", 0, n, flag)

\* Cutting forgets what is cut off; growing adds bytes with the given flag.
SetSize(n, flag) ==
  /\ size' = n
  /\ loaded' = (loaded \cap Bytes(n)) \cup
               (IF flag THEN Bytes(n) \ Bytes(size) ELSE {})
  /\ last' = Call("resize", 0, n, flag)

\* An area gets one flag, the file grows to contain it, and a hole left
\* before it is unloaded.
Mark(start, count, flag) ==
  LET area == start .. (start + count - 1) IN
  /\ size' = IF size < start + count THEN start + count ELSE size
  /\ loaded' = IF flag THEN loaded \cup area ELSE loaded \ area
  /\ last' = Call("mark", start, count, flag)

Next ==
  \/ \E n \in Sizes, flag \in BOOLEAN : Reinit(n, flag) \/ SetSize(n, flag)
  \/ \E start \in Sizes, count \in Sizes, flag \in BOOLEAN :
       start + count <= MaxSize /\ Mark(start, count, flag)

Spec == Init /\ [][Next]_vars
=============================================================================
