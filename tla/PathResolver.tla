----------------------------- MODULE PathResolver -----------------------------
(***************************************************************************)
(* ApiImpl::Open with its path resolution, ApiImpl::DeterminePath          *)
(* (qfs_client_implementation.cc, lines 109-128 and 219-269), and Close,   *)
(* over a filesystem that the rest of the system may change at any time.   *)
(*                                                                         *)
(* The current directory is cwdDepth levels below the root; fs[l] is the   *)
(* entry named "api" in the directory at level l (0 is the root).  An      *)
(* entry has the type lstat reports, the inode number lstat reports, and   *)
(* ctl: whether opening it opens the filesystem's control file (for a      *)
(* symbolic link, whether its target is the control file).  Only the       *)
(* inode number is visible to the code; ctl is what it is trying to find.  *)
(***************************************************************************)
EXTENDS Integers

CONSTANTS
  MaxDepth,     \* depth of the deepest current directory
  ApiIno,       \* api_inode_id: kInodeIdApi
  Inos,         \* inode numbers an entry may have
  Entries,      \* the directory entries the filesystem may hold
  MaxChanges,   \* bound on changes to the filesystem by others
  MaxCalls      \* bound on calls of Open

Kinds == {"none", "reg", "lnk", "dir", "other"}

Entry == [kind : Kinds, ino : Inos, ctl : BOOLEAN]

ASSUME ConstAssumption ==
  /\ MaxDepth \in Nat /\ MaxChanges \in Nat /\ MaxCalls \in Nat
  /\ ApiIno \in Inos
  /\ Entries \subseteq Entry

VARIABLES
  cwdKnown,    \* getcwd() succeeds
  cwdDepth,    \* number of segments of the current directory
  fs,          \* level -> the entry named "api" there
  path,        \* ApiImpl::path: a level, or NoPath for ""
  depth,       \* DeterminePath: the size of directories
  pc,          \* where the current call of Open is
  isOpen,      \* file.is_open()
  opened,      \* the open file is the control file
  result,      \* the value the current or last call returned
  calls,
  changes

vars == <<cwdKnown, cwdDepth, fs, path, depth, pc, isOpen, opened, result,
          calls, changes>>

Levels == 0 .. MaxDepth

NoPath == -1

Results == {"None", "Success", "DontKnowCwd", "CantFindApiFile",
            "CantOpenApiFile"}

TypeOK ==
  /\ cwdKnown \in BOOLEAN /\ cwdDepth \in Levels
  /\ fs \in [Levels -> Entries]
  /\ path \in {NoPath} \cup Levels
  /\ depth \in Levels
  /\ pc \in {"idle", "walk", "open"}
  /\ isOpen \in BOOLEAN /\ opened \in BOOLEAN
  /\ result \in Results
  /\ calls \in 0 .. MaxCalls /\ changes \in 0 .. MaxChanges

\* lines 243-246: lstat succeeds, the entry is a regular file or a link,
\* and its inode number is api_inode_id.  lstat of a missing entry fails.
Matches(e) == e.kind \in {"reg", "lnk"} /\ e.ino = ApiIno

\* file.open(path, in | out | binary) cannot open a missing entry or a
\* directory; any other open may fail (permissions, a dangling link).
MayOpen(e) == e.kind \in {"reg", "lnk", "other"}

\* ApiImpl() or ApiImpl(path): a path given to the constructor names the
\* control file.
Init ==
  /\ cwdKnown \in BOOLEAN
  /\ cwdDepth \in Levels
  /\ fs \in [Levels -> Entries]
  /\ path \in {NoPath} \cup {l \in Levels : fs[l].ctl}
  /\ depth = 0
  /\ pc = "idle"
  /\ isOpen = FALSE
  /\ opened = FALSE
  /\ result = "None"
  /\ calls = 0
  /\ changes = 0

\* Open, lines 110-116, with DeterminePath's getcwd (lines 224-235).
Begin ==
  /\ pc = "idle"
  /\ calls < MaxCalls
  /\ calls' = calls + 1
  /\ \/ /\ path # NoPath
        /\ pc' = "open"
        /\ result' = "None"
        /\ UNCHANGED depth
     \/ /\ path = NoPath
        /\ ~cwdKnown
        /\ result' = "DontKnowCwd"
        /\ UNCHANGED <<pc, depth>>
     \/ /\ path = NoPath
        /\ cwdKnown
        /\ depth' = cwdDepth
        /\ pc' = "walk"
        /\ result' = "None"
  /\ UNCHANGED <<cwdKnown, cwdDepth, fs, path, isOpen, opened, changes>>

(***************************************************************************)
(* Mutations of Lookup: plausible bugs in the walk, as LookupWith(lowest, *)
(* up): lowest the last level looked at, up the levels one turn climbs.    *)
(* Not part of Next.                                                       *)
(***************************************************************************)
LookupWith(lowest, up) ==
  /\ pc = "walk"
  /\ \/ /\ depth >= lowest /\ Matches(fs[depth])
        /\ path' = depth /\ pc' = "open"
        /\ UNCHANGED <<depth, result>>
     \/ /\ ~(depth >= lowest /\ Matches(fs[depth])) /\ depth <= lowest
        /\ result' = "CantFindApiFile" /\ pc' = "idle"
        /\ UNCHANGED <<depth, path>>
     \/ /\ ~(depth >= lowest /\ Matches(fs[depth])) /\ depth > lowest
        /\ depth' = depth - up
        /\ UNCHANGED <<pc, path, result>>
  /\ UNCHANGED <<cwdKnown, cwdDepth, fs, isOpen, opened, calls, changes>>

\* pop_back called twice in a turn: the walk skips every other directory.
LookupPopTwice == LookupWith(0, 2)

\* The root is never looked at: the size check made before the lstat.
LookupSkipRoot == LookupWith(1, 1)

\* The pop_back forgotten: the walk looks at the same directory again.
LookupNoPop == LookupWith(0, 0)

\* One turn of DeterminePath's loop, lines 237-266: lstat the candidate;
\* a match records the path (line 249) and Open goes on; at the root
\* the walk fails; otherwise it moves up one directory.
Lookup ==
  /\ pc = "walk"
  /\ \/ /\ Matches(fs[depth])
        /\ path' = depth /\ pc' = "open"
        /\ UNCHANGED <<depth, result>>
     \/ /\ ~Matches(fs[depth]) /\ depth = 0
        /\ result' = "CantFindApiFile" /\ pc' = "idle"
        /\ UNCHANGED <<depth, path>>
     \/ /\ ~Matches(fs[depth]) /\ depth > 0
        /\ depth' = depth - 1
        /\ UNCHANGED <<pc, path, result>>
  /\ UNCHANGED <<cwdKnown, cwdDepth, fs, isOpen, opened, calls, changes>>

\* Open, lines 118-127: a no-op on an open stream; otherwise open the
\* recorded path by name, which may fail.
OpenFile ==
  /\ pc = "open"
  /\ pc' = "idle"
  /\ \/ /\ isOpen
        /\ result' = "Success"
        /\ UNCHANGED <<isOpen, opened>>
     \/ /\ ~isOpen
        /\ MayOpen(fs[path])
        /\ isOpen' = TRUE
        /\ opened' = fs[path].ctl
        /\ result' = "Success"
     \/ /\ ~isOpen
        /\ result' = "CantOpenApiFile"
        /\ UNCHANGED <<isOpen, opened>>
  /\ UNCHANGED <<cwdKnown, cwdDepth, fs, path, depth, calls, changes>>

\* Close, lines 130-134 (also the destructor).
Close ==
  /\ pc = "idle"
  /\ isOpen
  /\ isOpen' = FALSE
  /\ UNCHANGED <<cwdKnown, cwdDepth, fs, path, depth, pc, opened, result,
                 calls, changes>>

\* Another process creates, removes or replaces an entry named api.
Change ==
  /\ changes < MaxChanges
  /\ \E l \in Levels, e \in Entries :
        /\ e # fs[l]
        /\ fs' = [fs EXCEPT ![l] = e]
  /\ changes' = changes + 1
  /\ UNCHANGED <<cwdKnown, cwdDepth, path, depth, pc, isOpen, opened, result,
                 calls>>

\* The program has made all its calls.
Finished ==
  /\ pc = "idle"
  /\ calls = MaxCalls
  /\ UNCHANGED vars

CallStep == Lookup \/ OpenFile

Next == Begin \/ CallStep \/ Close \/ Change \/ Finished

\* Each step of a started Open is a synchronous system call that returns.
Spec == Init /\ [][Next]_vars /\ WF_vars(CallStep)
-----------------------------------------------------------------------------
(***************************************************************************)
(* Properties.                                                             *)
(***************************************************************************)

\* DeterminePath implements the spec's resolution (NearestApi): the path
\* it records is the deepest directory from the current one up to the root
\* holding the control file's entry, and it fails with CantFindApiFile
\* exactly when there is none; a decoy named api elsewhere never matches.
Abs == INSTANCE NearestApi
         WITH walkErr <- IF result \in {"DontKnowCwd", "CantFindApiFile"}
                         THEN result ELSE "None"

ResolvesNearest == Abs!Spec

\* Every call of Open returns: the walk up the tree ends at a match or at
\* the root, and the open itself returns.
OpenReturns == pc # "idle" ~> pc = "idle"

\* The handle is only ever open on the control file: a command written
\* through it reaches the filesystem's api file (spec 6: the control file
\* is identified by its identity, not by its path alone).
OpenedControlFile == isOpen => opened
=============================================================================
