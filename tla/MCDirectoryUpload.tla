-------------------------- MODULE MCDirectoryUpload --------------------------
(***************************************************************************)
(* Values for the run of DirectoryUpload: a directory with a file and a    *)
(* subdirectory that holds the same file and another one.  With waves of   *)
(* two the last wave holds one block or two, depending on the order of     *)
(* the puts.                                                               *)
(***************************************************************************)
EXTENDS DirectoryUpload

MCNodes == {"file", "copy", "other", "sub", "root"}
MCCidOf == [n \in MCNodes |-> IF n = "copy" THEN "file" ELSE n]
MCLinks == [n \in MCNodes |-> CASE n = "root" -> {"file", "sub"}
                                [] n = "sub"  -> {"copy", "other"}
                                [] OTHER      -> {}]
===============================================================================
