# TLA+ models of the QuantumFS client library (QFSClient)

This directory holds TLA+ specifications of `src/QFSClient/qfs_client_implementation.cc`, the C++ client that talks to a QuantumFS filesystem.

The client exchanges JSON with the filesystem through a special `api` file. It writes a command at offset 0 and reads the response back from offset 0 on the same `std::fstream`. It then decodes the JSON envelope.

The modules model:

- the control flow of one API handle (`ApiImpl`);
- its iostream state (failbit and eofbit);
- its bounded buffers;
- its JSON decoding.

A second group of modules models path resolution (`Open` with `DeterminePath`) over a directory tree that other processes may change, together with an abstract specification of what resolution promises and a refinement between the two.

TLC checks them on small instances, and TLAPS proves seven theorems for every value of the constants, among them two refinements: the handle implements an atomic specification of a call, and the directory walk implements an atomic specification of resolution.

## 1. The system: inventory

| Part | Source (`qfs_client_implementation.cc`) | State | Operations |
|---|---|---|---|
| CommandBuffer | 32-75 | a byte vector, abstracted to its size | `Reset`, `Append` (fails with `BufferTooBig` past the capacity), `CopyString` (reset, then append the string and its NUL) |
| Control channel | 105-217 | `path` (empty or known); `file` (open or not; failbit, eofbit); the api file's content | `Open`, `Close`, `SendCommand` = `Open`, `WriteCommand` (seekp, write, flush), `ReadResponse` (seekg, Reset, a loop of 4096-byte reads) |
| DeterminePath | 219-269 | `path`; the walk's list of directories | getcwd, then lstat of `<dir>/api` from the current directory up to `/`; a match sets `path`, and `Open` then opens it by name |
| CheckWorkspacePathValid | 271-291 | none | three `find('/')` calls: exactly two `/` |
| JSON envelope | 293-391 | the response buffer | `SendJson` (json_dumps, `CopyString`, `SendCommand`), `CheckCommonApiResponse` (json_loads, object, ErrorCode, Message, integer, CommandError) |
| GetAccessed | 393-465 | none | path check, json_pack, `SendJson`, `PrepareAccessedListResponse` (AccessList) |
| FormatAccessedList | 467-485 | none | string formatting |

How the parts interact: `GetAccessed` → `SendJson` → `SendCommand` → `Open` / `WriteCommand` / `ReadResponse`, then `CheckCommonApiResponse` and `PrepareAccessedListResponse`. A handle is used sequentially by one thread. Across the calls on a handle, the stream's sticky state and the api file's content persist, and so does `path`.

The behaviours that make this code hard are sequences of calls on one handle:

- an error path that returns before a clean-up, such as the `clear()` after the read loop;
- a failure that is ignored, such as `CopyString`'s at line 374;
- numeric edges: the response length used as json_loads flags, a 64-bit code cast to 32 bits, and a response whose length is a multiple of the chunk size;
- undefined behaviour: the response buffer is not NUL-terminated.

## 2. Modules and how they correspond to the code

- **`CommandBuffer.tla`** holds `AppendFits`, `AppendBytes`, `CopyStringFits` and `CopyString`.
  - A buffer is its size.
  - `std::vector::insert` failing past the capacity is `size + n > MaxBuf`, and the buffer is then left unchanged.
- **`ApiCodec.tla`** models `CheckCommonApiResponse`.
  - A response is a record of what the decoder branches on: the top-level kind, whether `ErrorCode` and `Message` are present, whether the code is an integer, its two 32-bit words, its length, and whether it carries its own NUL.
  - `LenBit` reads jansson's flag bits out of `response.Size()`, which is the argument passed as flags at line 299.
  - `Tails` is the undefined read past the unterminated buffer. It is a nondeterministic NUL or garbage.
  - `CommandErrorIsOk` keeps the low word, like the cast at line 347.
- **`ApiHandle.tla`** models one handle. Its state:
  - `pathKnown`, `isOpen`, `failbit`, `eofbit`;
  - `apiFile`: the response the file holds, or `NoReply`;
  - `pc`: the point the current call has reached. It is one of idle, open, write, readstart, read, decode;
  - `cur`, `commandSize`, `filePos`, `responseSize`;
  - `result`: the call's return value;
  - `calls`, capped by `MaxCalls`.

  The actions, in the code's order:

  | Action | Code it models |
  |---|---|
  | `GetAccessed(r)` | the path check (lines 394-397), then `CopyString` of the request, with the error ignored as at line 374 |
  | `Open` | `path.length() == 0` with `DeterminePath`, then `is_open` / `open` / `fail`; `OpenStream` is lines 118-125 |
  | `Write` | seekp, write, flush, each of which fails on a failed stream or on an I/O error. The filesystem then answers a non-empty command with a response to it. |
  | `ReadStart` | seekg and Reset |
  | `ReadChunk` | one turn of the loop: a non-EOF failure, Append, `BufferTooBig`, continue, and at end-of-stream the `clear()` |
  | `Decode` | `CheckCommonApiResponse` and `PrepareAccessedListResponse` |
  | `Close` | `Close`, also called by the destructor. A failing `close()` sets failbit, which the next successful `open()` clears. |

  `Fail(e)` is every early `return err` up the call chain.
- **`MC_ApiHandle.tla`** holds the instances:
  - two request ids;
  - requests with a valid and an invalid workspace path, and one too large for the buffer;
  - 14 response shapes per request: lengths chosen to hit chunk boundaries and the flag bits, missing fields, non-objects and unterminated text.
- **`ApiCall.tla`** is the abstract specification of a call (spec sections 4.3, 4.4 and 7). Each call is one atomic `Call` step. It returns either `Failed(r)` or `Answered(r)`:
  - `Failed(r)`: an error other than Success, and no reply;
  - `Answered(r)`: a decoded response to the call's own request `r`.

  `ApiHandle` implements it through `Atomic == INSTANCE ApiCall WITH Errors <- ErrorCodes, calls <- callsReturned`. Here `callsReturned` counts a running call only once it has returned. The property is `CallsAtomic == Atomic!Spec`.
- **`CommandBufferProofs.tla`** states lemmas about the buffer operators once: an append stays within the bound, a rejected append changes nothing, and `CopyString` holds the string and its NUL or nothing. The proofs about the handle cite them.
- **`ApiHandleProofs.tla`** holds the TLAPS proofs about `ApiHandle`.
- **`NearestApi.tla`** is the abstract specification of path resolution (spec section 4.2). In one atomic `Resolve` step it records the deepest level, from the current directory up to the root, whose `api` entry is a regular file or a link with inode `kInodeIdApi`. If there is none it fails with `CantFindApiFile`, and without a current directory with `DontKnowCwd`. `Change` lets the tree change between resolutions.
- **`PathResolver.tla`** models `Open`, `DeterminePath` and `Close` step by step. The tree is `fs`, a function from levels (0 is `/`) to the entry named `api` there. An entry has the kind lstat reports, its inode number, and `ctl`, which says whether opening it opens the real control file. The code cannot see `ctl`.

  | Action | Code it models |
  |---|---|
  | `Begin` | `Open`'s `path.length() == 0` test and `DeterminePath`'s getcwd and Split (lines 109-116, 224-235) |
  | `Lookup` | one turn of the walk (lines 237-266): lstat and the kind/inode test, the size check at `/`, `pop_back` |
  | `OpenFile` | lines 118-127: a no-op on an open stream, else `open` by name, which may fail |
  | `Close` | `Close` |
  | `Change` | another process creating, removing or replacing an `api` entry, at most `MaxChanges` times |

  The refinement mapping is `Abs == INSTANCE NearestApi WITH walkErr <- ...`, which sends the walk's error results to `walkErr` and every other result to "None". The walk's intermediate steps map to stutters, and the `Lookup` turn that ends it maps to `Resolve`. The property `ResolvesNearest == Abs!Spec` is checked by TLC and proved by TLAPS.
- **`MC_PathResolver.tla`** holds the instances: inodes {2, 7}, and entries that are missing, the control file, a decoy regular file with another inode, a directory with inode 2, and a link to the control file. `MC_EntriesForeign` adds a regular file with inode 2 that is not the control file.
- **`PathResolverProofs.tla`** holds the TLAPS proofs about `PathResolver`.

The filesystem side is modelled from the spec (marked `spec_modelled`). It is the set of response shapes, and the rule that a written command is answered by a response to that command.

## 3. Runs

All runs use `Chunk = 4` and `MaxBuf = 10`: one buffer holds two full chunks and a part of a third, so responses of one, two and three chunks happen. `MaxCalls = 3` means sticky stream state from one call reaches the next two. The response lengths 4, 11 and 13 hit an exact chunk multiple and overflow.

| Run | Expect | What it shows |
|---|---|---|
| `main` | pass (25,676 states) | For requests that fit: a decoded reply answers its own request; the read loop reassembles every chunk; every call returns; and each call is one atomic `ApiCall` step (`CallsAtomic`). |
| `oversized` | pass (26,668 states) | This run has an empty command (the CopyString failure) and responses that fit the buffer. `HandleUsableAfterEof` holds on every path (I/O errors, failed open or seek, the normal end of the loop), so the `eof_state` violation needs an oversized last chunk. |
| `stale_reply` | violation | `NoStaleReply` fails. A first call's command is answered by the filesystem. A second call's request does not fit, the CopyString error is ignored and nothing is written, and the second call returns Success with the first call's answer. |
| `int_as_real` | violation | `ZeroCodeIsSuccess` fails: with NUL-terminated responses only, an 8-byte success response is parsed with `JSON_DECODE_INT_AS_REAL`, and its ErrorCode is "not an integer". |
| `unterminated` | violation | `ZeroCodeIsSuccess` fails: a success response without a NUL of its own, whose length sets no flag that matters, is followed in memory by bytes that are not a NUL. json_loads reads past the buffer and returns `JsonDecodingError`. |
| `wide_code` | violation | `NonzeroCodeIsError` fails: ErrorCode 2^32 becomes `kCmdOk`. |
| `eof_state` | violation | `HandleUsableAfterEof` fails: `BufferTooBig` on the last short chunk leaves eof and fail set, and the next call's seekp fails. |
| `resolver` | pass (51,830 states) | Over a tree three levels deep with decoys at every level, and one change to the tree at any point (also during the walk), the walk stays in the tree (`TypeOK`) and every `Open` returns. |
| `resolver_static` | pass (14,665 states) | Over the same trees held still, `DeterminePath` implements `NearestApi`. |
| `foreign_inode` | violation | `OpenedControlFile` fails: a regular file with inode 2 that is not the control file passes the `st_ino` check, which ignores `st_dev`. |
| `toctou` | violation | `OpenedControlFile` fails: the entry is replaced after the resolution, or a constructor path names another file, and `open` by name opens the wrong file. |

The violations are listed as findings in `PROJECT.json`.

Each property of a passing run is broken by a mutant of the code. The mutants are defined in `ApiHandle.tla` and `PathResolver.tla`, before the actions they replace:

- a read loop without the bound;
- a write that goes on after an error (`ReplyMatchesRequest`, `CallsAtomic`);
- a last chunk that is dropped;
- a missing `clear()` (`HandleUsableAfterEof` in `oversized`);
- a read error without the return;
- a walk that pops two directories per turn (`TypeOK`), one that never looks at `/` (`ResolvesNearest`), and one that forgets the `pop_back` (`OpenReturns`).

**Bounds.** For the resolver, `MaxDepth = 2` gives three levels, so a match can lie at the current directory, in the middle, or at the root, with a decoy below it. `MaxCalls = 2` lets a second `Open` reuse the recorded path. `MaxChanges = 1` is enough for one replacement between the check and the use.

**Fairness.** `WF_vars(CallStep)` in both `ApiHandle` and `PathResolver`: once a call has started, its next step is taken. The code is single-threaded, and each step is a synchronous library call that returns. No fairness is assumed for starting calls or for `Close`.

## 4. Proofs

The proofs about `ApiHandle` are in `ApiHandleProofs.tla`:


- **`TypeCorrect`**: `Spec => []TypeOK`. `TypeOK` is not inductive by itself. The inductive invariant `IInvType` adds two facts:
  - `CallHasRequest`: a running call has a request, which the steps read.
  - `ReadInFile`: while reading, `filePos <= FileLen(apiFile)`, so the bytes left to read are a natural number.

  The lemmas `TypeInit` and `TypeStep` prove the induction with one case per action, and `PTL` closes it.
- **`ReplyMatchesRequestHolds`**: under `RequestsFit` (every request fits the buffer), `Spec => []ReplyMatchesRequest`. The inductive invariant adds two facts:
  - `CommandBuffered`: before the write the command is non-empty.
  - `FileAnswersCall`: from the write to the decoding, the api file holds a response to the current request.

  The lemmas `FailReply`, `KeepReplyBeforeWrite` and `KeepReplyAfterWrite` cover the three ways a step can move a call. The `stale_reply` run shows that the assumption `RequestsFit` is needed.

- **`ReadReassemblesResponseHolds`**. The property is not inductive by itself. `IInvRead` adds `ReadSoFar`: inside the loop, the buffer holds exactly the `filePos` bytes read so far.

  `ReadStep` has one case per action. Every failure and every step to a state before the read loop satisfies `Leaves` (lemma `LeavesRead`). The last short chunk sets the buffer to `filePos + left`, which is the file length.
- **`CallsAtomicHolds`**: under `RequestsFit`, `Spec => CallsAtomic`. The handle refines `ApiCall`, and the proof goes step by step:
  - The initial state maps to `ApiCall`'s initial state.
  - Every step inside a call is a stutter (`QuietStep`), since it leaves `calls` and `result` alone.
  - The step by which a call returns is one `Call` (`ReturnStep`). A failure is covered by `FailCall`. The decoding step's reply answers the call by `FileAnswersCall`.

  The inductive invariant is the reply invariant plus `CallCounted` (a running call has been counted, so `calls - 1 < MaxCalls`). The `stale_reply` run shows that the refinement needs `RequestsFit`.
- **`HandleUsableAfterEofHolds`**: under `RepliesFit` (every response fits the buffer), `Spec => []HandleUsableAfterEof`. `ChunkFits` shows that, with `ReadSoFar`, every append in the loop fits. So the `BufferTooBig` return that skips the `clear()` never happens, and `IInvRead /\ ~eofbit` is inductive. Together with the `eof_state` run, this locates the finding exactly.

The proofs about `PathResolver` are in `PathResolverProofs.tla`:

- **`TypeCorrect`**: `Spec => []TypeOK`. It uses `OpenHasPath` (a level is known when `pc = "open"`).
- **`ResolvesNearestHolds`**: under `MaxChanges = 0`, `Spec => ResolvesNearest`. The inductive invariant `IInvRef` adds two facts:
  - `WalkSoFar`: during the walk, no level from `depth + 1` up to the current directory matches, and no path or error has been recorded yet.
  - `OpenPending`: the open has not yet returned.

  With `WalkSoFar`, the turn that matches yields exactly `Nearest(fs, cwdDepth)`, and so does the turn at `/` that finds nothing. `RefStep` shows that every step is a `NearestApi` step or a stutter, and `PTL` closes the proof.

  **Limitation.** The refinement holds only for a stationary tree. With `MaxChanges = 1`, TLC finds an `api` file that is created at a level the walk has already passed. The walk then reports a result that no single state of the tree gives, because `DeterminePath` is not atomic. Under changes, only termination and the type invariant are checked (`resolver`). The spec promises nothing weaker for a changing tree that could be checked in its place.

The hypotheses `RequestsFit`, `RepliesFit` and `MaxChanges = 0` are stated in the theorems themselves. They are assumptions about the environment. The passing runs satisfy them, and the violation runs show what happens without them. The assumptions on the constants are named in `ApiHandle.tla`, `CommandBuffer.tla` and `PathResolver.tla`. TLC checks them in every run.

The following is only model-checked:

- the liveness properties `CallReturns` and `OpenReturns`, since TLAPS does not handle fairness and ENABLED;
- the `PathResolver` runs with `MaxChanges > 0`: there the refinement does not hold, and only termination is checked.

## 5. Not modelled

- **Path strings.** The walk is modelled over levels, not strings. `Split` and `Join` are taken to produce the parent chain, and the path is the level it names. In `ApiHandle`, resolution is kept abstract as its three outcomes. `PathResolver` models it in full.
- **Message as a non-string** (line 351). `getApiError` is outside `src/`, so what it does with NULL is unknown.
- **The AccessList boolean filter and FormatAccessedList.** These are formatting only.
- **The test hook.** It is NULL outside the tests.
- **The operations declared only in the header** (InsertInode, Branch, Delete, SetBlock, GetBlock). They have no implementation.
- **Failures of json_dumps and json_pack.** They cannot fail for the strings built here, short of running out of memory.

## 6. Plan for further work

- Two handles on one api file. Their writes and reads at offset 0 interleave.
- Composing `PathResolver` with `ApiHandle`, so that a command written to a wrong file (`toctou`) is followed through to its decoding.
