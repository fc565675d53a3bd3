----------------------------- MODULE MCMetadata -----------------------------
(***************************************************************************)
(* The instance of Metadata that TLC explores: files with the value 1 for  *)
(* every attribute, calls that set some of them to 0, and calls of setxattr *)
(* and removexattr for two names.                                          *)
(***************************************************************************)
EXTENDS Metadata, TLC

MCCalls ==
  {op \in Op : op.kind = "plain" =>
     op.to \in {[a \in {"mode"} |-> 0], [a \in {"mtime"} |-> 0],
                [uid |-> 0, gid |-> Keep]}}

NamesAreAlike == Permutations(Name)
=============================================================================
