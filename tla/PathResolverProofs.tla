-------------------------- MODULE PathResolverProofs --------------------------
(***************************************************************************)
(* Proofs about PathResolver for every depth of the tree and every set of  *)
(* directory entries.                                                      *)
(***************************************************************************)
EXTENDS PathResolver, TLAPS

(***************************************************************************)
(* TypeOK is not inductive by itself: OpenFile reads fs[path], so the path *)
(* must be known whenever a call is about to open it.                      *)
(***************************************************************************)
OpenHasPath == pc = "open" => path \in Levels

IInvType == TypeOK /\ OpenHasPath

\* The initial states satisfy the strengthened type invariant.
LEMMA TypeInit == Init => IInvType
<1> SUFFICES ASSUME Init PROVE IInvType
  OBVIOUS
<1>1. depth \in Levels /\ calls \in 0 .. MaxCalls /\ changes \in 0 .. MaxChanges
  BY ConstAssumption DEF Init, Levels
<1>2. path \in {NoPath} \cup Levels /\ result \in Results
  BY DEF Init, Results
<1>3. QED
  BY <1>1, <1>2 DEF Init, IInvType, TypeOK, OpenHasPath

\* Every step, or stutter, preserves it.
LEMMA TypeStep == IInvType /\ [Next]_vars => IInvType'
<1> SUFFICES ASSUME IInvType, [Next]_vars PROVE IInvType'
  OBVIOUS
<1>. USE ConstAssumption DEF IInvType, TypeOK, OpenHasPath, Levels, Results,
                            NoPath
<1>1. CASE Begin
  BY <1>1 DEF Begin
<1>2. CASE Lookup
  BY <1>2 DEF Lookup
<1>3. CASE OpenFile
  <2>1. fs[path] \in Entry
    BY <1>3 DEF OpenFile
  <2>2. fs[path].ctl \in BOOLEAN
    BY <2>1 DEF Entry
  <2>3. QED
    BY <1>3, <2>2 DEF OpenFile
<1>4. CASE Close
  BY <1>4 DEF Close
<1>5. CASE Change
  BY <1>5 DEF Change
<1>6. CASE Finished \/ UNCHANGED vars
  BY <1>6 DEF Finished, vars
<1>7. QED
  BY <1>1, <1>2, <1>3, <1>4, <1>5, <1>6 DEF Next, CallStep

(***************************************************************************)
(* The type invariant of Open and DeterminePath: the walk never leaves the *)
(* tree (depth stays a level from the root to the current directory's),   *)
(* and every variable keeps its type, for every behaviour.                 *)
(***************************************************************************)
THEOREM TypeCorrect == Spec => []TypeOK
<1>1. IInvType => TypeOK
  BY DEF IInvType
<1>2. QED
  BY TypeInit, TypeStep, <1>1, PTL DEF Spec

(***************************************************************************)
(* The refinement.  While the walk runs over a tree that nobody changes,  *)
(* it has passed only directories without the control file's entry, and   *)
(* the call has returned nothing yet; when a call opens, its path is      *)
(* known and it has returned nothing yet.                                  *)
(***************************************************************************)
WalkSoFar ==
  pc = "walk" =>
    /\ path = NoPath /\ cwdKnown /\ depth <= cwdDepth /\ result = "None"
    /\ \A l \in depth + 1 .. cwdDepth : ~Matches(fs[l])

OpenPending == pc = "open" => result = "None"

IInvRef == IInvType /\ WalkSoFar /\ OpenPending

\* The error the walk reported, as NearestApi sees it.
walkErrBar == IF result \in {"DontKnowCwd", "CantFindApiFile"}
              THEN result ELSE "None"

\* The code's match test is the spec's.
LEMMA MatchesIsControl ==
  ASSUME NEW e PROVE Matches(e) <=> Abs!IsControlEntry(e)
BY DEF Matches, Abs!IsControlEntry

\* A level that matches, with no match below it down to d, is the nearest.
LEMMA NearestIs ==
  ASSUME NEW f, NEW d \in Nat, NEW k \in 0 .. d,
         Abs!IsControlEntry(f[k]),
         \A l \in k + 1 .. d : ~Abs!IsControlEntry(f[l])
  PROVE  Abs!Nearest(f, d) = k
<1> DEFINE found == {l \in 0 .. d : Abs!IsControlEntry(f[l])}
<1>1. k \in found /\ \A m \in found : m <= k
  OBVIOUS
<1>2. found # {}
  BY <1>1
<1>3. \A l \in found : (\A m \in found : m <= l) => l = k
  BY <1>1
<1>4. (CHOOSE l \in found : \A m \in found : m <= l) = k
  BY <1>1, <1>3
<1>5. QED
  BY <1>2, <1>4 DEF Abs!Nearest

\* With no match from the root down to d, there is no nearest level.
LEMMA NearestNone ==
  ASSUME NEW f, NEW d \in Nat,
         \A l \in 0 .. d : ~Abs!IsControlEntry(f[l])
  PROVE  Abs!Nearest(f, d) = Abs!NoPath
BY DEF Abs!Nearest

\* The initial states are initial states of NearestApi.
LEMMA RefInit == Init => IInvRef /\ Abs!Init
<1> SUFFICES ASSUME Init PROVE IInvRef /\ Abs!Init
  OBVIOUS
<1>1. IInvType
  BY TypeInit
<1>2. WalkSoFar /\ OpenPending
  BY DEF Init, WalkSoFar, OpenPending
<1>3. Abs!Init
  BY DEF Init, Abs!Init, Abs!Levels, Abs!NoPath, Levels, NoPath
<1>4. QED
  BY <1>1, <1>2, <1>3 DEF IInvRef
\* With no change to the tree, Change never happens.
LEMMA NoChange ==
  ASSUME MaxChanges = 0, IInvType PROVE ~Change
BY DEF Change, IInvType, TypeOK

\* Every step keeps the refinement invariant.
LEMMA RefInvStep ==
  ASSUME MaxChanges = 0, IInvRef, [Next]_vars PROVE IInvRef'
<1>1. IInvType'
  BY TypeStep DEF IInvRef
<1>2. (WalkSoFar /\ OpenPending)'
  <2>. USE DEF IInvRef, IInvType, TypeOK, Levels
  <2>1. CASE Begin
    BY <2>1 DEF Begin, WalkSoFar, OpenPending
  <2>2. CASE Lookup
    <3>1. /\ path = NoPath /\ cwdKnown /\ depth <= cwdDepth /\ result = "None"
          /\ \A l \in depth + 1 .. cwdDepth : ~Matches(fs[l])
      BY <2>2 DEF Lookup, WalkSoFar
    <3>2. CASE Matches(fs[depth])
      BY <2>2, <3>2 DEF Lookup, OpenPending, WalkSoFar
    <3>3. CASE ~Matches(fs[depth]) /\ depth = 0
      BY <2>2, <3>3 DEF Lookup, WalkSoFar, OpenPending
    <3>4. CASE ~Matches(fs[depth]) /\ depth > 0
      <4>1. depth' = depth - 1 /\ pc' = "walk"
            /\ UNCHANGED <<fs, path, result, cwdKnown, cwdDepth>>
        BY <2>2, <3>4 DEF Lookup
      <4>2. \A l \in depth .. cwdDepth : ~Matches(fs[l])
        BY <3>1, <3>4
      <4>3. QED
        BY <3>1, <4>1, <4>2 DEF WalkSoFar, OpenPending
    <3>5. QED
      BY <3>2, <3>3, <3>4
  <2>3. CASE OpenFile
    BY <2>3 DEF OpenFile, WalkSoFar, OpenPending
  <2>4. CASE Close \/ Finished \/ UNCHANGED vars
    BY <2>4 DEF Close, Finished, vars, WalkSoFar, OpenPending
  <2>5. CASE Change
    BY <2>5, NoChange
  <2>6. QED
    BY <2>1, <2>2, <2>3, <2>4, <2>5 DEF Next, CallStep
<1>3. QED
  BY <1>1, <1>2 DEF IInvRef

\* Every step is a step of NearestApi or leaves what it sees unchanged.
LEMMA RefStep ==
  ASSUME MaxChanges = 0, IInvRef, [Next]_vars PROVE [Abs!Next]_Abs!avars
<1>. USE DEF IInvRef, IInvType, TypeOK, Levels
<1>1. CASE Begin
  <2>1. CASE path # NoPath \/ cwdKnown
    <3>1. walkErrBar' = "None" /\ UNCHANGED <<cwdKnown, cwdDepth, fs, path>>
      BY <1>1, <2>1 DEF Begin, walkErrBar
    <3>2. QED
      BY <3>1 DEF Abs!Next, Abs!Begin, walkErrBar
  <2>2. CASE path = NoPath /\ ~cwdKnown
    <3>1. walkErrBar' = "DontKnowCwd" /\ UNCHANGED <<cwdKnown, cwdDepth, fs, path>>
      BY <1>1, <2>2 DEF Begin, walkErrBar
    <3>2. QED
      BY <2>2, <3>1 DEF Abs!Next, Abs!Resolve, Abs!NoPath, NoPath, walkErrBar
  <2>3. QED
    BY <2>1, <2>2
<1>2. CASE Lookup
  <2>1. /\ path = NoPath /\ cwdKnown /\ depth <= cwdDepth /\ result = "None"
        /\ \A l \in depth + 1 .. cwdDepth : ~Matches(fs[l])
    BY <1>2 DEF Lookup, WalkSoFar
  <2>2. UNCHANGED <<cwdKnown, cwdDepth, fs>>
    BY <1>2 DEF Lookup
  <2>3. CASE Matches(fs[depth])
    <3>1. path' = depth /\ result' = "None"
      BY <1>2, <2>1, <2>3 DEF Lookup
    <3>2. Abs!Nearest(fs, cwdDepth) = depth
      <4>0. cwdDepth \in Nat /\ depth \in 0 .. cwdDepth
        BY <2>1, ConstAssumption
      <4>1. \A l \in depth + 1 .. cwdDepth : ~Abs!IsControlEntry(fs[l])
        BY <2>1, MatchesIsControl
      <4>2. Abs!IsControlEntry(fs[depth])
        BY <2>3, MatchesIsControl
      <4>3. QED
        BY <2>1, <4>0, <4>1, <4>2, NearestIs
    <3>3. depth # Abs!NoPath
      BY DEF Abs!NoPath
    <3>4. QED
      BY <2>1, <2>2, <3>1, <3>2, <3>3
      DEF Abs!Next, Abs!Resolve, Abs!NoPath, NoPath, walkErrBar
  <2>4. CASE ~Matches(fs[depth]) /\ depth = 0
    <3>1. UNCHANGED path /\ result' = "CantFindApiFile"
      BY <1>2, <2>4 DEF Lookup
    <3>2. Abs!Nearest(fs, cwdDepth) = Abs!NoPath
      <4>1. \A l \in 0 .. cwdDepth : ~Abs!IsControlEntry(fs[l])
        BY <2>1, <2>4, MatchesIsControl
      <4>2. cwdDepth \in Nat
        BY ConstAssumption
      <4>3. QED
        BY <4>1, <4>2, NearestNone
    <3>3. QED
      BY <2>1, <2>2, <3>1, <3>2
      DEF Abs!Next, Abs!Resolve, Abs!NoPath, NoPath, walkErrBar
  <2>5. CASE ~Matches(fs[depth]) /\ depth > 0
    <3>1. UNCHANGED <<path, result>>
      BY <1>2, <2>5 DEF Lookup
    <3>2. QED
      BY <2>2, <3>1 DEF walkErrBar, Abs!avars
  <2>6. QED
    BY <2>3, <2>4, <2>5
<1>3. CASE OpenFile
  <2>1. result = "None" /\ result' \in {"Success", "CantOpenApiFile"}
    BY <1>3 DEF OpenFile, OpenPending
  <2>2. UNCHANGED <<cwdKnown, cwdDepth, fs, path>>
    BY <1>3 DEF OpenFile
  <2>3. QED
    BY <2>1, <2>2 DEF walkErrBar, Abs!avars
<1>4. CASE Close \/ Finished \/ UNCHANGED vars
  BY <1>4 DEF Close, Finished, vars, walkErrBar, Abs!avars
<1>5. CASE Change
  BY <1>5, NoChange
<1>6. QED
  BY <1>1, <1>2, <1>3, <1>4, <1>5 DEF Next, CallStep

(***************************************************************************)
(* Over a tree that nobody changes while the program runs, DeterminePath   *)
(* implements the spec's resolution, NearestApi: the path it records is    *)
(* the deepest directory from the current one up to the root that holds    *)
(* the control file's entry, it fails with CantFindApiFile only when there *)
(* is none, and a decoy named api never matches.                           *)
(***************************************************************************)
THEOREM ResolvesNearestHolds ==
  ASSUME MaxChanges = 0 PROVE Spec => ResolvesNearest
<1>1. Init => IInvRef /\ Abs!Init
  BY RefInit
<1>2. IInvRef /\ [Next]_vars => IInvRef' /\ [Abs!Next]_Abs!avars
  BY RefInvStep, RefStep
<1>3. QED
  BY <1>1, <1>2, PTL DEF Spec, ResolvesNearest, Abs!Spec

=====
