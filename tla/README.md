# A TLA+ verification development for halcs

These modules model the client side of the halcs control-plane RPC layer (`src/`).
TLC checks them on small instances, and TLAPS proves theorems about them for every
value of their constants. `PROJECT.json` lists:

- the components;
- the runs, and a mutant for each property of each passing run;
- the map from every definition to the source lines it translates;
- the findings, the hazards and the theorems.

## 1. The system

| Part | Source | What it does |
|---|---|---|
| RPC engine | `src/src/libs/libhalcsclient/src/halcs_client_core.c` `halcs_func_exec` (228-319) | Builds `[opcode, args...]`, sends it to a service and blocks on the session poller. It accepts a reply of 1 frame `[status]` or 3 frames `[status, size, data]`, and copies the payload into the caller's output. |
| Operation registry | same file, `halcs_func_translate` (321-335) | Maps a name to a descriptor: the first match in the module tables. |
| Client session | same file, `_halcs_client_new` (160-224), `halcs_client_destroy`, `set_timeout` | Holds the broker connection, the poller, the timeout and the channel table. |
| Acquisition engine | same file, 940-992 and 1117-1323; `_func_polling` (2085-2134) | Implements start → poll(check) → get_curve, where get_curve is a loop of get_data_block. |
| Parameter accessors | same file, the `halcs_set_*`/`halcs_get_*` wrappers | Each is one call of the parameter protocol. |
| Scalar parameter protocol | `src/libclient/rw_param_client.c` | Older client API: a write is `[op, WRITE, v]` → `[status]`; a read is `[op, READ]` → `[status, v]`. |
| Register-field modules | `src/hal/.../dsp/sm_io_dsp_exp.c`, `src/src/.../swap/sm_io_swap_exp.c` | Server-side tables of range-checked fields, plus module init/shutdown. |
| Module bootstrap | `src/src/.../fmc250m_4ch/sm_io_fmc250m_4ch_defaults.c` | Configures defaults through a client of its own, after export. |
| Example application | `src/examples/acq_trigger.c` | Sets the acquisition parameters, then runs one `halcs_get_curve`. |

How the parts interact: the application calls the library. Every library call goes
through the RPC engine over one session to a server module (ACQ, DSP, SWAP, ...),
which is not in this repository except for its field tables. The session is
strictly request/reply, and nothing correlates a reply with its request.

These behaviours are hard to test:

- a receive that times out, whose reply arrives later and is taken by the next
  request;
- replies with an unexpected frame count;
- an acquisition start the server rejects;
- an interrupt (`zsys_interrupted`) between any two steps;
- a polling loop timed by a clock with one-second resolution;
- a caller buffer smaller than the curve;
- the uninitialised `read_val` of `get_data_block`;
- uint32 wrap of the sample count;
- the inclusive loop bound of `get_curve`;
- the window between a module's export and its defaults.

## 2. Modules

**`HalcsRpc`** holds pure operators for `halcs_func_exec`'s reply handling:

- A *report* is the NULL of a timed-out receive, or a message with a frame
  count, a status, and the results of the two size tests.
- `ExecErr` is what the call returns. It is only ever assigned frame 0's
  status (line 281), so a discarded report returns `SUCCESS`.
- `ExecCopies` says whether the payload is copied (line 303), and `ExecCrashes`
  whether that copy goes to a NULL output.

**`HalcsAcq`** models one client session running the acquisition workflow
against the ACQ server.

- State:
  - the server's acquisition core (`hw`, `acq`);
  - two FIFO pipes (`toServer`, `toClient`);
  - the client's program counter `pc` (`idle/start/poll/curve/crashed`);
  - the `acq_trans` fields: `blkData` as an offset, `blkDataSize`,
    `blkBytesRead`, `blkIdx`;
  - the locals of `get_curve` (`blockN`, `totalBread`, the saved size `cap`)
    and of `_func_polling` (`pollStart`);
  - `zsys_interrupted`;
  - the clock `now`, in seconds;
  - a count `late` of receives that timed out.
- Client actions: every RPC is two actions, the send and the receive
  (`halcs_func_exec` blocks in between). The actions are `Call`, `StartSend`,
  `StartRecv`, `PollTimeout`, `PollInterrupted`, `PollSend`, `PollRecv`,
  `CurveDone`, `CurveInterrupted`, `CurveSend` and `CurveRecv`. Each takes its
  guard and its effects from the lines the map names.
  - `CurveRecv` is the whole of `get_data_block`'s tail and the advance of
    `get_curve`: the clamp, the copy, and `data_size -= bytes_read` in
    uint32 arithmetic.
  - `FinishCall` is the error mapping of `_halcs_full_acq`.
- A receive (`Received`) takes the oldest reply in the pipe. When the pipe is
  empty and fewer than `MaxLate` receives have timed out, it may instead time
  out, and the reply then arrives later.
- The server's ACQ handlers (`Serve*`, `HwComplete`) are modelled from the spec.
  The server is not in this repository.
- Data are abstract. A block reply carries the acquisition it belongs to (the
  ghost number of the call that started it), its index, and `valid_bytes`. An
  uninitialised `read_val` is any member of `Garbage`.

**`HalcsParam`** models one session making scalar parameter calls
(`rw_param_client.c`) through the DSP/SWAP accessors of `halcs_client_core.c`.

- State:
  - the server's fields `reg`;
  - the two FIFO pipes;
  - the call in progress (`pc`, `field`, `wval`, and `dest`, the variable a
    read stores into);
  - the caller's outputs `out`, the call's `result`, and a count of calls and
    of late replies.
- Client actions: `WriteCall`, `ReadCall`, `SendAllocFail`, `RecvNull`,
  `AssertAbort`, `WriteDone` and `ReadDone`. They follow
  `param_client_write/read` line by line.
  - The frame-count asserts abort the client, unless the build (a constant
    `Builds`) defines NDEBUG.
  - A gain read goes through the uninitialised local `gain` of
    `halcs_get_gain_*`, which is copied out whatever the error (`Unstored`),
    also when the call fails before sending (`SendAllocFail`, `ERR_ALLOC`).
- Server actions: `ServeWrite`, `ServeReject` and `ServeRead`. They model
  SET_GET_PARAM from the spec, with the ranges of the DSP/SWAP field tables
  and `_rw_bpm_swap_gain_chk`, both translated from the source.
- `Fairness`: weak fairness of the server loop and of a receive whose reply
  is in the pipe.

**`HalcsRegister`** is the abstract contract of the protocol: registers that
one caller reads and writes one call at a time. `HalcsParam` implements it
through `Abs == INSTANCE HalcsRegister WITH ...`. Under the mapping, a call
takes effect once its report waits in the client pipe, and its answer is read
off the report. A call refused before it is sent (`Refuse`) stores nothing,
and the contract leaves the caller's variable undefined: the spec defines it
only after a successful read (4.3) or a malformed reply (8). `RegisterSpec` is checked only where replies are never late
(see `param_reliable`).

**`HalcsSmio`** models `dsp_init`/`dsp_shutdown` and `swap_init`/`swap_shutdown`,
plus the module operations that only return an error.

- Each init is a sequence of allocation steps (`SwapSteps`, `DspSteps`), any
  one of which may fail. Its unwind frees exactly what the code's labels free.
- `freedTwice` records a free of memory already freed.

**`HalcsRegistry`** models `halcs_func_translate` step by step: the outer scan
over the NULL-terminated list of tables and the inner scan of each table, then
`trans_exec`'s refusal of a NULL descriptor. The reference `FirstMatch` is
the first entry in registration order whose name matches.

**`HalcsBoot`** models `fmc250m_4ch_config_defaults`. The steps are: the client
allocation, then the three sets, then the destroy. Each set is one
`param_client_write`: a reply other than `RW_WRITE_OK` returns
`BPM_CLIENT_ERR_AGAIN`, and a receive that times out returns
`BPM_CLIENT_ERR_SERVER` (`RecvNullStatus`) while the request stays queued at
the server. The `ASSERT_TEST` after each set sends any error to
`err_param_set` with `SMIO_ERR_CONFIG_DFLT` (`NextStep`, `SetErr`). Around it:

- the module's export, and the server answering the config client, both
  modelled from the spec;
- an external client that reads the reset fields and can win the race.

The server may reject, and the client allocation may fail. A failed
allocation jumps to `err_alloc_client` with `err` still `SMIO_SUCCESS`.
The specification assumes no fairness: its properties are all safety.

**`HalcsSession`** holds operators for `_halcs_client_new`'s allocation steps
and its unwind, and for `halcs_client_destroy`. `AcqTrigger` composes them
into its actions.

**`AcqTrigger`** models `examples/acq_trigger.c` `main`:

- argv as a sequence of abstract tokens, parsed by the hand-written loop
  over `argv` (an option token sets `str_p`, the next token is `strdup`ed
  into it);
- the strings `strdup`ed into a `heap`;
- the defaults and clamps in uint32_t (`Strtoul` is `% Word`);
- the session, the seven `halcs_set_acq_*` calls, `data_size` and the
  buffer `data` that `zmalloc` returns (`data`; czmq's `zmalloc` aborts
  rather than return NULL);
- one `halcs_get_curve`, whose effect on the buffer is `CurveBytes`;
- the cleanup at `err_bpm_exit`, which frees the strings and destroys the
  session but never frees `data`.

Printing is left out. The `exit (1)` paths (too few arguments, `-h`) end the
process at once; no property is about them.

The TLAPS proofs (section 5) are in `HalcsAcq_proofs`, `HalcsAcqCurve_proofs`,
`HalcsParam_proofs`, `HalcsSmio_proofs`, `HalcsRegistry_proofs` and
`AcqTrigger_proofs`. Each one EXTENDS the module it is about.

The TLC instances are `MC_HalcsAcq`, `MC_HalcsRpc`, `MC_HalcsParam`,
`MC_HalcsSmio`, `MC_HalcsRegistry`, `MC_HalcsBoot` and `MC_AcqTrigger`.

## 3. Runs

All `MC_HalcsAcq` runs use:

- `BlockSize = 4` and `SampleSize = 2`, so a block holds 2 samples;
- two requests: 1+1 samples, which fetch an extra empty block at the exact
  multiple, and 1+2 samples (a full block and a half one);
- buffers of 3 bytes (too small, so the clamp acts) and 8 bytes;
- polling timeouts of -1 and 1000 ms;
- two calls and two clock ticks.

These bounds cover:

- a second call after a first one, as needed for stale data and stale replies;
- a timeout expiring, since 1000 ms needs one tick;
- every branch of the clamp.

`Word` stands for 2^32 (TLC's integers are 32-bit, so the instance uses 2^30).
Deadlock is not checked because the model stops on purpose: after `MaxCalls`
calls, and on a crash.

| Run | Expect | Shows |
|---|---|---|
| `acq_reliable` | pass | With some starts rejected: no buffer overrun, and every success is a whole curve of blocks 0..LastIdx of one acquisition, with the total in `bytes_read` and the buffer restored. |
| `acq_late` | pass | With late replies and rejected starts, the buffer is still never overrun. |
| `rpc_receive_failure` | violation | A timed-out or malformed reply returns success. |
| `param_reliable` | pass | The session implements `HalcsRegister`, allocation failures and the gain clobber included. |
| `param_late` | pass | With late replies, in both builds, every call returns (or aborts at an assert). |
| `param_malformed` | violation | A late reply with the other call's frame count aborts the client at the asserts. Under NDEBUG, a one-frame reply to a read returns SUCCESS. |
| `smio_lifecycle` | pass | Whichever of `swap_init`'s eight steps fails, the unwind frees exactly what was allocated. An instance is either shut down or dropped, never both. |
| `smio_dsp_double_free` | violation | A failed handler allocation in `dsp_init` returns success, and `dsp_shutdown` frees the name a second time. |
| `registry_first_match` | pass | For every registry of up to 3 tables of up to 2 names, `halcs_func_translate` returns the first match in registration order, or NULL. |
| `boot_faults` | pass | Under allocation failure, rejection and a timed-out receive, a default is written only after every earlier default: the sets stop at the first failure. |
| `boot_race` | violation | An external client reads the reset values between export and defaults. |
| `trigger_released` | pass | When `main` returns 0, with any step of the session's creation, any set or the curve failing, its cleanup has freed every string still held and the session, once. |

Each violation is described in `PROJECT.json` "findings", and each passing
property has a mutant that TLC kills:

| Property | Mutant |
|---|---|
| `TypeOK` (HalcsAcq) | a request built without its block-index frame |
| `NoBufferOverrun` | the clamp dropped |
| `CurveAssembled` | loop bound `<` |
| `TypeOK` (HalcsParam) | the reply's status code returned as the client's error |
| `RegisterSpec` | the write status is ignored |
| `CallReturns` | the request is built but never sent |
| `LifecycleConsistent` | the swap unwind skips the `exp_ops` free |
| `TranslateFirstMatch` | the inner loop does not return on a match |
| `DefaultsInOrder` | the status of a set is not checked |
| `CleanupReleases` | the cleanup does not destroy the session |

### Bounds

- **`MC_HalcsParam`:**
  - four fields, one of each kind: a DSP field with min 1, one with min 0,
    a swap field, and a gain;
  - for each field, arguments at the edges of its range and one past them;
  - 16-bit gain halves shrunk to 4 bits (`GainHalf = 16`), with gains 0, 1
    and 15;
  - three calls, and at most one late reply.
- **`MC_HalcsSmio`:** two DSP and two swap instances, so that a failure in one
  and a success in the other are both explored.
- **`MC_HalcsRegistry`:** every registry of up to three tables of up to two
  names, plus a name in no table.
- **`MC_AcqTrigger`:**
  - argument lists of up to three tokens;
  - uint32 scaled to `Word = 2^28`, with `MaxNumSamples = 2^24`, so that the
    wrap is reachable with the integers TLC has.

Counterexamples that are not runs of the project are kept as cfgs to
reproduce them. Each is described in the "note" of its hazard in
`PROJECT.json`:

- `MC_HalcsAcq_stale`, `_rejected`, `_restore`, `_zero`, `_interrupt` and
  `_crash`;
- `MC_HalcsParam_stale_write` and `_gain_clobber`;
- `MC_HalcsRegistry_duplicate`;
- `MC_HalcsBoot_alloc`;
- `MC_AcqTrigger_null`, `_wrap`, `_samples` and `_leak`.

Among them:

- `MC_HalcsAcq_rejected`: after an earlier acquisition, a rejected start is
  ignored by `full_acq`, which returns the earlier curve as success
  (`FreshCurve`).
- `MC_HalcsParam_stale_write`: after a write's receive times out, the next
  write returns the earlier report's `RW_WRITE_OK` as its own success
  (`WriteSuccessStored`).
- `MC_HalcsBoot_alloc`: a failed session allocation returns `SMIO_SUCCESS`
  with no default written (`SuccessMeansDefaulted`).
- `MC_AcqTrigger_leak`: `main` returns 0 with the `data` buffer, and the
  string of an option given twice, still allocated (`NothingLeaked`).

`MC_HalcsBoot_timeout` shows that `SuccessMeansDefaulted` holds when the
session is allocated, with rejections and a timed-out receive.

### Fairness

`HalcsAcq` assumes no fairness, because none of its properties is a liveness
property. `HalcsBoot` and `AcqTrigger` assume none either. One module does
assume fairness:

- **`HalcsParam`** assumes weak fairness of the server's dispatch loop, and of
  a receive whose reply is already in the pipe (`zpoller_wait` returns when the
  socket is readable). A receive with no reply is not forced to time out:
  `CallReturns` holds only because the server answers every request in the
  pipe.

## 4. What is only model-checked

- **Safety properties.** Every safety property of a passing run is proved
  (section 5):
  - `TypeOK`, `NoBufferOverrun` and `CurveAssembled` of `HalcsAcq`;
  - `TypeOK` and `RegisterSpec` of `HalcsParam`;
  - `LifecycleConsistent` of `HalcsSmio`;
  - `TranslateFirstMatch` of `HalcsRegistry`;
  - `CleanupReleases` of `AcqTrigger`.

  `DefaultsInOrder` of `HalcsBoot` is only model-checked.

  Some of them are proved under an assumption, and outside it they are only
  model-checked, where TLC finds counterexamples:
  - `CurveAssembled` is proved with no late reply (`MaxLate = 0`).
    `MC_HalcsAcq_stale` shows it fails with one.
  - `RegisterSpec` and `LifecycleConsistent` also have assumptions. They are
    described in section 5.
- **Liveness.** `CallReturns` is out of the prover's reach.
- **Refinement with late replies.** `RegisterSpec`, the refinement of
  `HalcsRegister` by `HalcsParam`, is proved only for reliable sessions.
  With late replies it fails, because a late reply gives one call the answer
  of another. TLC finds this with `MaxLate = 1`.
- **Findings.** They are all counterexamples found by TLC.

## 5. What is proved (TLAPS)

### `HalcsAcq_proofs`

Both theorems are proved from `ConstAssumption` alone, so they hold for any
block size, sample size, buffer sizes, requests, timeouts and bounds:

- `TypeCorrect`: `Spec => []TypeOK`, by induction with one lemma per group of
  actions.
- `BufferSafe`: `Spec => []NoBufferOverrun`.

The inductive invariant of `BufferSafe` is `BufInv == TypeOK /\ NoBufferOverrun`.
`NoBufferOverrun` is not inductive alone: the block step preserves
`blkData + blkDataSize = cap` only because `blkDataSize` is a uint32 below
`Word` and the copied size `min(data_size, valid_bytes)` is a natural number at
most `data_size` (lemma `NoWrap`). This holds whatever `valid_bytes` the reply
carries, including an uninitialised one (lemma `ReadChunk`).

### `HalcsParam_proofs`

`WriteArgsNat` shows that the accessors' arguments and packed gains are
natural numbers.

`TypeCorrect` is `Spec => []TypeOK`, from `ParamAssumption` alone.
`TypeOK` is not inductive as it stands. It allows a NULL reply in the
pipe, and a receive that takes one from the pipe would count it as a
timeout and push `late` past `MaxLate`. The inductive invariant `TInv` adds
that the pipe holds only live replies: the server's one or two frames, with a
status of `WRITE_OK`, `PARAM_ERR` or `READ_OK`. Then a NULL comes only from
the empty pipe, and only while `late < MaxLate` (lemma `ReceivedType`).
There is one lemma per group of actions:

- `CallTInv` covers the accessor calls and the failed `zmsg_new`.
- `DoneTInv` covers the timeout, the failed assert and the two reports. A
  read's stored value is a natural number whatever reply it takes (lemma
  `ReceivedVal`).
- `ServerTInv` covers the server's steps. Each appends one live reply.

`RegisterRefined` is `Spec => RegisterSpec`. It assumes `Reliable`:
`MaxLate = 0` and `Builds = {FALSE}`, the instance of `param_reliable`. Under
that assumption, `HalcsParam` implements `HalcsRegister` for any fields,
values and number of calls. With late replies, TLC shows the refinement
fails.

The proof follows the refinement mapping:

- `AbsCall` is the call in progress.
- The call takes effect when the server handles its request: `ServeWrite` is
  `Store`, `ServeReject` is `Reject`, and `ServeRead` is `Answer`.
- `WriteDone` and `ReadDone` are `Return`, and the accessor calls are
  `Invoke`. A failed `zmsg_new` is `Refuse`: nothing is stored, and the
  caller's variable may take any value, as the gain clobber does.

It rests on the invariant `RInv`: the pipes hold exactly the current call's
request, or the one reply to it, and a read's reply carries the field's
current value.

- Lemma `NoFaultStep` uses `RInv` to show that, in a reliable session, no
  receive times out and no assert fails.
- Lemma `AbsValuesHold` shows that the abstract value set holds every value
  the session can produce.

### `HalcsSmio_proofs`

`LifecycleSafe` is `Spec => []LifecycleConsistent`. It is proved for any set
of DSP and SWAP instances and any set of failing `swap_init` steps. It
assumes `DspReliable`: the DSP allocations succeed. Without it, the property
fails, and `smio_dsp_double_free` shows why.

The inductive invariant `IInv` is `LifecycleConsistent`, stated per
instance as `LcAt`, plus the types of the pointer and object fields. The
types are needed so that an `EXCEPT` on one instance leaves the others
alone (lemma `OthersKept`). There is one lemma per action.

The heart of the proof is lemma `SwapInitLc`, a case split over the nine
places `swap_init` can stop: one of its eight steps fails, or none does.

- Lemma `SwapPos` fixes each step's position in program order.
- For each case, the proof computes two things:
  - which steps ran (`Passed`);
  - which cleanups the landing label runs (`SwapUnwind`).
- It then shows that a success has every pointer, and that a failure leaves
  none.

### `HalcsAcqCurve_proofs`

`CurveSafe` is `Spec => []CurveAssembled`, under `MaxLate = 0`. It holds for
any block size, sample size, requests, set of accepted starts, buffer sizes and
number of calls. With late replies TLC finds a counterexample (section 4).

The inductive invariant of `CurveSafe` is `IInv == BufInv /\ CInv`. `CInv`
has two parts.

- `Lockstep`: the client and the server run in lock step. There is no
  request outstanding; or the request the waiting call sent (`Pending`) is
  at the server; or its reply is the only one in the pipe (`Channel`). That
  reply is one the server can send to that request (`Expected`). A block
  reply means the core is `DONE`, and a core that was started carries the
  number of a call.
- get_curve's accounting. Blocks `0 .. blockN - 1` are in the buffer, all of
  the last accepted acquisition. `blockN` is at most `LastIdx + 1`. Both
  `total_bread` and the write pointer equal `BytesCopied`. After a success,
  the buffer holds `LastIdx + 1` blocks.

The lock step is what needs `MaxLate = 0`. A late reply would be taken as the
answer to the next request.

`total_bread` is a uint32. It equals `BytesCopied` without wrapping because
the write pointer stays at most the buffer size, which is below `Word`
(`NoBufferOverrun`). There is one lemma per group of actions: `CallStep`,
`SendStep`, `StatusRecvStep`, `FailStep`, `DoneStep`, `CurveRecvStep`,
`ServeStep` and `EnvStep`.

`BytesCopied` is a recursive function. Its value after a block is appended
(lemma `SumOfAppend`) comes from the existence and uniqueness of prefix
sums. These are proved by taking the least counterexample, through the
well-foundedness of `<` on `Nat` (lemma `LeastNat`, from
`WellFoundedInduction`).

### `HalcsRegistry_proofs`

`TranslateSafe` is `Spec => []TranslateFirstMatch`. It holds for every
registry of any number of tables of any size whose names are distinct per
table.

The loop invariant `ScanInv` says that the scan is inside the array and the
current table, and that no entry before the reached position `<<i, j>>` in
registration order bears the name. The inductive invariant `IInv` adds:

- the registry's shape;
- once the scan ends, the result is `FirstMatch`, and it is NULL exactly
  when no entry matches;
- `halcs_func_trans_exec` refuses exactly those names.

`RegistryAssumption` includes `NULL \notin Nat \X Nat`. A descriptor is a
position in the tables, never the null pointer. The code returns
`smio_exp_ops[i][j]` only after the inner loop has found it non-NULL.

### `AcqTrigger_proofs`

`CleanupSafe` is `Spec => []CleanupReleases`. It holds for any arguments,
word size and channel table, whichever step of `_halcs_client_new`, whichever
`halcs_set_acq_*` call and whether `halcs_get_curve` fails.

The inductive invariant `IInv` says what holds before `main` returns:

- every string `strdup` made is allocated and still held, by a string
  variable or as overwritten by a repeated option;
- nothing was freed twice;
- the session pointer owns all four objects when it is non-NULL, and none
  when it is NULL.

`CleanupReleases` is about what the cleanup is written to free. It leaves
out the strings a repeated option overwrote (`lost`) and the `data` buffer,
which stay allocated: `MC_AcqTrigger_leak` shows it.

Lemma `FailedNewReleases` does the work for a failed `_halcs_client_new`:
whichever step fails, the unwind frees every object created before it.

### Left to TLC

Out of the prover's reach:

- liveness (`CallReturns`), which needs ENABLED and
  fairness.

## 6. Not modelled

- **`halcs_client_set_timeout`** is a plain store into the session. The
  models take the timeout as a constant, or as a nondeterministic expiry.
- **The other accessors.** The FMC, ACQ-parameter and `*_gen` accessors are
  each one parameter call on another opcode, the same call `HalcsParam`
  models. They are not enumerated.
- **The servers.** The servers behind ACQ, SET_GET_PARAM and the
  export/dispatch loop are not in this repository. They are modelled from the
  spec (marked `spec_modelled` in the map).
- **Out of scope:**
  - printing and logging;
  - the `zmalloc` abort (czmq aborts on out-of-memory);
  - the usage messages.
- **uint32 wrap of `num_samples_multishot`** in `get_curve`. It is modelled
  in `HalcsAcq` (modulo `Word`), but not reached by a run. The same wrap in
  `acq_trigger` is shown by `MC_AcqTrigger_wrap`.
