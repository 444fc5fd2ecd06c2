---------------------------- MODULE MC_PathResolver ----------------------------
(***************************************************************************)
(* Instances of PathResolver for TLC: the current directory up to two      *)
(* levels below the root, so that the walk passes a decoy on its way to    *)
(* the control file above it (spec 8), and inode numbers 2 (kInodeIdApi)  *)
(* and 7.                                                                  *)
(***************************************************************************)
EXTENDS PathResolver

MC_Inos == {2, 7}

\* Entries of a filesystem in which inode number 2 is the control file's:
\* nothing, the control file, a file with another identity, a directory
\* with inode number 2 (the root of a mounted filesystem), and a symbolic
\* link to the control file (its own inode number is not 2).
MC_Entries ==
  { [kind |-> "none", ino |-> 7, ctl |-> FALSE],
    [kind |-> "reg",  ino |-> 2, ctl |-> TRUE],
    [kind |-> "reg",  ino |-> 7, ctl |-> FALSE],
    [kind |-> "dir",  ino |-> 2, ctl |-> FALSE],
    [kind |-> "lnk",  ino |-> 7, ctl |-> TRUE] }

\* With a regular file of another mounted filesystem whose inode number is
\* also 2.
MC_EntriesForeign ==
  MC_Entries \cup {[kind |-> "reg", ino |-> 2, ctl |-> FALSE]}
=============================================================================
