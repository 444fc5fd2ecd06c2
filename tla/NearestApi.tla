------------------------------ MODULE NearestApi ------------------------------
(***************************************************************************)
(* What path resolution promises (spec 4.2), as one atomic step: when no   *)
(* path is known, the handle records the deepest directory, from the       *)
(* current one up to the root, that holds an entry named "api" which is a  *)
(* regular file or a symbolic link with the control file's identity; if    *)
(* there is none it fails with CantFindApiFile, and if the current         *)
(* directory cannot be read, with DontKnowCwd.  The filesystem may change  *)
(* between resolutions.                                                    *)
(***************************************************************************)
EXTENDS Integers

CONSTANTS MaxDepth, ApiIno, Entries

VARIABLES cwdKnown, cwdDepth, fs, path, walkErr

avars == <<cwdKnown, cwdDepth, fs, path, walkErr>>

\* Directory levels: 0 is the root, MaxDepth the deepest directory.
Levels == 0 .. MaxDepth

\* No path known.
NoPath == -1

\* The spec's definition of the control file's directory entry.
IsControlEntry(e) == e.kind \in {"reg", "lnk"} /\ e.ino = ApiIno

\* The deepest level at or above d whose entry is the control file's.
Nearest(f, d) ==
  LET found == {l \in 0 .. d : IsControlEntry(f[l])}
  IN  IF found = {} THEN NoPath
      ELSE CHOOSE l \in found : \A m \in found : m <= l

Init ==
  /\ cwdKnown \in BOOLEAN
  /\ cwdDepth \in Levels
  /\ fs \in [Levels -> Entries]
  /\ path \in {NoPath} \cup Levels
  /\ walkErr = "None"

\* A call on the handle starts: the previous call's error is forgotten.
Begin ==
  /\ walkErr' = "None"
  /\ UNCHANGED <<cwdKnown, cwdDepth, fs, path>>

\* Resolution, atomically.
Resolve ==
  /\ path = NoPath
  /\ \/ /\ ~cwdKnown
        /\ walkErr' = "DontKnowCwd"
        /\ UNCHANGED path
     \/ /\ cwdKnown
        /\ Nearest(fs, cwdDepth) = NoPath
        /\ walkErr' = "CantFindApiFile"
        /\ UNCHANGED path
     \/ /\ cwdKnown
        /\ Nearest(fs, cwdDepth) # NoPath
        /\ path' = Nearest(fs, cwdDepth)
        /\ walkErr' = "None"
  /\ UNCHANGED <<cwdKnown, cwdDepth, fs>>

\* The rest of the system renames, creates or removes entries.
Change ==
  /\ fs' \in [Levels -> Entries]
  /\ UNCHANGED <<cwdKnown, cwdDepth, path, walkErr>>

Next == Begin \/ Resolve \/ Change

Spec == Init /\ [][Next]_avars
=============================================================================
