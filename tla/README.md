# TLA+ models of planning-poker's logging bridge and service wiring

This directory holds TLA+ specifications of the planning-poker Go sources
under `src/`, the TLC configurations that check them, and `PROJECT.json`,
which maps every modelled definition to the source lines it translates and
lists the runs, mutants, findings and hazards.

Nearly all of the behaviour lives in one file,
`src/cmd/planning-pocker/services/userserver/service.go` (1390 lines). It
concatenates:

| lines      | part                                                                     |
|------------|--------------------------------------------------------------------------|
| 1-97       | userserver command: `Command`, `setupDependencies` (DB, migrations, serve) |
| 98-247     | lobbyserver command: `Command`, `setupDependencies` (NATS, DB)            |
| 248-392    | cmdutil: `InitializeService`, `initConfig`, root command dispatch         |
| 393-1336   | the otelzap bridge (`Logger`, `SugaredLogger`, context-bound variants, `appendField`, options, `fieldExtractorCore`, array encoders) |
| 1338-1376  | the global logger (`L`, `S`, `ReplaceGlobals`)                            |
| 1378-1390  | `convertTraceID`                                                         |

The other sources are the gateway user handler
(`src/services/gateway/handlers/user_handler.go`), a test of the user action
(`src/services/user/actions/get_user_test.go`), the gRPC proto and generated
gateway schema, a Dockerfile, and the compose file (`src/unnamed/part_000`).

## Inventory

### Logger bridge (modelled in `OtelLogger`, partly)
*State.* A `Logger` holds the wrapped zap logger (its core, with fields
added by `zap.Fields`), `skipCaller`, `minLevel` (default Warn),
`errorStatusLevel` (default Error), `caller`, `callerDepth`, `stackTrace`,
`withTraceID` and the slice `extraFields`. The span in a call's context is
an external collaborator with recording state, events and a status.

*Operations.*
- `NewOtel` applies the options in order.
- `Clone` copies the struct (`clone := *l`) and applies options.
- `WithOptions` extracts `zap.Fields` through `fieldExtractorCore` and then derives the zap logger.
- `Sugar` wraps both zap loggers (`Logger` and `skipCaller`) as sugared loggers; `SugaredLogger.With` derives a new one.
- The leveled calls of four receivers end in `logFields` (strict API), `logArgs` (templated) or `logKVs` (key/value).
- `logFields` and `logKVs` go on to `log`, which adds the "log" event and sets the span status.

*Interactions.* Derived loggers share the `extraFields` backing array with their parent. This follows from Go's slice semantics.

*Hard behaviours.*
- Slice aliasing across sibling clones.
- Options that run twice (once in the zap core, once in `extraFields`).
- A nil core returned by `fieldExtractorCore.With`.
- Level-boundary comparisons.
- Trace-id fields that depend on `minLevel`.
- The span ending while a call is in progress.
- A sugared logger's two zap loggers drifting apart under `With`.
- The key/value list read twice, by `logKVs` for the span and by zap for the record.
- The caller's `fields...`/`kvs...` slice appended to in place by `logFields`/`logKVs` while other goroutines use it (`CallerArgs`).
- Array marshalers whose nested `AppendArray`/`AppendObject` fail (`ArrayEncoder`).

### Global logger (modelled in `GlobalLogger`, refining `GlobalRegister`)
*State.* `_globalL` and `_globalS`, guarded by the RWMutex `_globalMu`.

*Operations.*
- `L()` and `S()` read under `RLock`.
- `ReplaceGlobals` swaps both under `Lock`. It returns a closure that calls `ReplaceGlobals(prev)`.

*Hard behaviours.*
- Readers interleave with a writer.
- Restore closures run out of LIFO order across goroutines (modelled; no run now checks it, see Observations).

### Launcher: cmdutil dispatch and the service commands (modelled in `Launcher`)
*State.*
- The command line (`os.Args`), the `--service` flag, the environment, `--config` and whether the config file is there.
- viper's `service` value and config name.
- cmdutil's `shortCircuit`.
- What the subcommand's `Run` closure has done.

*Operations.*
- `InitializeService`.
- cobra's execution of the root: `initConfig`, then finding the command.
- `PersistentPreRun`.
- `RunE`, which may inject the service into `os.Args` and execute the root again.
- The subcommands' `Run`: `BoilerplateRun`, `Migrations`, `setupDependencies` and serving.

*Hard behaviours.*
- The re-execution protocol.
- The precedence between flag and environment.
- The environment variable name the deployment uses.
- cobra running `initConfig` again on the nested `Execute`, after `PersistentPreRun` set the config name.
- Error paths that end in `log.Fatal`.
- The NATS wait timing out.

### Key/value pairing and trace-id conversion (modelled in `SugarPairs` and `TraceIDConversion`)
`logKVs` steps through `kvs` two at a time for the span, then appends the
trace pairs, whose decimal values `convertTraceID` computes; zap pairs the
returned list again, taking a `zap.Field` as one element.

### Gateway user handler and the user action test (modelled in `Gateway`, composed with `Launcher` in `Deployment`)
*Operations.* `GetUserByID` reads `{id}` (400 on error), calls the
userserver's `GetUser` with the handler's context `h.ctx` (404 on any
error) and answers 200 with the response. `CreateNewGuestUser` validates
the body (400) and calls `CreateNewUser` (400 on any error).

*Interactions.* The userserver answers only once the launched process has
reached `go grpc.ServeBuf`. `actions.GetUser` answers a missing user with
`(nil, nil)`, as `Test_GetUserByID_NoUserWasFound` asserts; connect's
unary handler panics on a nil response with a nil error, and the gateway's
client sees the aborted stream as an error.

*Hard behaviours.* The `(nil, nil)` answer crossing the transport; every
failure answered 404; the request's context never reaching the call.

### Not yet modelled
- `Desugar` and `SugaredLogger.Ctx`: they only rewrap, and change no state.
- The config file contents and `PreRunE`'s flag registration. `ResolveRequireFlags` is external.
- Generated code (`userserver.proto`, `schema.json`, the connect stubs, `tools.go`) and the Dockerfile have no behaviour to model. The connect stubs in `userserver.proto` are older than the code that uses them: they define `NewUserServerHandler` and a client with `GetUser` only, while the userserver calls `NewUserServiceHandler` and the gateway calls `CreateNewUser`; that is a build failure, not a state a model checker explores.

## Modules

### `OtelLogger.tla` / `MC_OtelLogger.tla`
**Slice model.** The heap holds Go arrays, and a slice is `[arr, len, cap]`. `GoAppend` follows Go's `append`:
- If the slice has room, it writes in place.
- Otherwise it allocates a new array with `growslice` capacity. The capacity doubles, and the size classes are exact for 64-byte `zap.Field` up to cap 8.

**Logger records.**
- `extra` is the `extraFields` slice header.
- `core` holds the fields in the zap core.
- `configured` is a history variable: the extra fields this logger was configured with.

**Options.**
- Options are records that `ApplyOption` dispatches, the way `NewOtel` and `Clone` call each `Option` closure.
- `ExtractFields` models `zap.New(&fieldExtractorCore{...}, opts...)`. The first `zap.Fields` appends to `extraFields`; any further one panics on the nil core.

**Actions.**
- `NewOtel`, `Clone` and `WithOptions` (or `WithOptionsPanics`).
- `Sugar(l)` and `With(s, args)` make sugared loggers. A sugared logger is `[l, with, skipWith, given]`: the `Logger` it came from, the context of its zap sugared logger, that of its `skipCaller`, and (a history variable) every pair given to `With` along its chain. `With` extends `with` only, as the code does.
- `StrictCall` is the strict API on a `Logger`; `TemplatedCall` and `KVCall` take a sugared logger and a receiver: `"context"` (`SugaredLogger.<Level>fContext/<Level>wContext`, written through the sugared logger itself) or `"ctx"` (`SugaredLoggerWithCtx.<Level>f/<Level>w`, written through `s.s.skipCaller`); `WriterContext` picks the zap context accordingly.
- Each call runs the bridge helper (`logFields`, `logArgs` or `logKVs`), which gives the span calls `log` makes, in order (`AddEvent`, then `SetStatus` at `errorStatusLevel`), and the fields the helper returns. `Invoke` makes the first span call; when a second follows, the call is `pending` and `ContinueCall` makes it; after the last, zap writes the record (`Emit`, including the exit on Fatal). `SpanCall` is the SDK's span: a call on a span that does not record, or has ended, is a no-op.
- `EndSpan` lets the span's owner end a span at any point, between two span calls of a log call included. Log calls come from one goroutine (the next starts when the last has returned); derivations and `EndSpan` interleave with them. An `End` between `IsRecording` and `AddEvent` drops the event and the status together, as an `End` before the call does, so that gap is not a separate step.

**Properties.**
- `ErrorStatusMatchesEvents`: while a span records and no call on it is between `AddEvent` and `SetStatus`, its status is Error exactly when some event on it reached that logger's `errorStatusLevel`, with the latest such message.
- `StatusImpliesErrorEvent`: however `End` interleaves, a span never shows an Error status without an error-level event carrying its message. It holds because `log` adds the event before it sets the status; the mutant `log_StatusFirst` breaks it.
- `RecordsCarryConfiguredFields`: each record holds each configured extra field exactly once.
- `TraceIDOnEveryRecord`: with `WithTraceIDField(true)`, every record on a traced span carries the trace fields.
- `SugaredRecordsCarryWithContext` (checked in `sugared_ctx` only): every record a sugared logger writes carries each pair given to `With` on its chain, as often as given. Through the `"context"` receiver the record's context is `with`, which `With` extends with exactly the pairs `given` records, so the property says something only for the `"ctx"` receiver, where it fails.
- `NoPanic`.

### `Launcher.tla` / `MC_Launcher.tla`
**Model.**
- One process per initial state. `inv` is its invocation, taken from a set of records.
- `stage` follows the code:
  - `InitializeService`;
  - `Execute` (cobra `ExecuteC`: `initConfig`, then the command lookup, where an unknown word is an error);
  - `PersistentPreRun`;
  - `RunE` or the subcommand's `Run` (`BoilerplateRun`, then `UserSetupDependencies` or `LobbySetupDependencies`, then `Serve`).
- `LobbySetupDependencies` is one choice over the DB wait, `nats.Connect` and `WaitForNatsConnection`: any failure ends in `log.Fatal`, which exits the process, so a DB pool opened before a NATS failure, or a NATS connection that comes up after the 2 s wait, is never used. No property is stated over `deps`: `Serve` is reached only from the success branch, which sets them.
- External results are chosen nondeterministically: `BoilerplateRun`, the DB wait, `nats.Connect` and `WaitForNatsConnection`.
- `ViperService` is viper's precedence: `viper.Set` over the flag, and the flag over `PLANNING_POCKER_SERVICE`.
- `ReadFailsFatally` is viper's rule. Only a searched-for file that is missing gives `ConfigFileNotFoundError`; any other error panics.
- `Halted` lets an ended process stutter. Deadlock checking therefore stays on and catches any stage the model cannot leave.

**Properties.**
- `RequestedServiceRuns`: the `Run` closures started are exactly the intended service.
- `SingleReexecution`: the root is executed at most twice.

**Inputs.** `MC_Launcher` enumerates:
- every combination of command word (none, each service, an unknown word, `generate`), `--service` value, `PLANNING_POCKER_SERVICE`, `--config` and config file state (180 processes);
- the compose file's userserver container;
- a userserver started by hand.

### `Gateway.tla` and `Deployment.tla` / `MC_Deployment.tla`
**Gateway.** `req[r]` is request `r` (its route, `{id}`, body), chosen from
`RequestSpace`; `resp[r]` is the sequence of responses the handler wrote.
`GetUserByID(r)` and `CreateNewGuestUser(r)` are one action each: the
handler is sequential and the only outcome of its call is the answer,
chosen over the repository's outcome (`dbOk`) or, for `CreateNewUser`,
whose action is not in the repository, over success and failure.
`ActionGetUser` is `actions.GetUser` as its test fixes it (a repository
error is taken to be returned as the call's error). `ConnectCall` is the
transport: unavailable when `serving` is false, an error for a `(nil, nil)`
answer, else the answer.

**Deployment.** Extends `Launcher`, declares the gateway's variables and
instantiates `Gateway` with `serving <- UserserverServes` (the process
ended as `"serving"` with `cmd = "userserver"`). A step is a launcher step
or a gateway step, each leaving the other's variables unchanged.
`MC_Deployment` extends it and `MC_Launcher`: the 180 command-line
invocations, with two requests over ids `u1` (stored) and `u2` (not).

**Property.** `OkCarriesStoredUser`: every request is answered at most
once, and a 200 to `GET /users/{id}` carries the stored user under that id.
Its mutants: `GetUserByID_NoReturn` (no `return` after `NotFoundException`)
and, for `GatewayTypeOK`, `ActionGetUser_ZeroUser` (a missing user answered
with the zero `models.User`).

### `GoSlices.tla`
Go's `append` over a heap of backing arrays: a slice is `[arr, len, cap]`;
`GoAppend` writes in place when the result fits the capacity and otherwise
copies to a new array with `GrowCap`'s capacity; `Visible` is what a slice
header shows. `OtelLogger` and `CallerArgs` share it.

### `CallerArgs.tla` / `MC_CallerArgs.tla`
Goroutines log concurrently through one logger with one caller slice
(`fields...` of `LoggerWithCtx.<Level>`, or `kvs...` of `<Level>w`; one API
per slice, since the types differ). `logFields`/`logKVs` are split at each
append: `AppendExtra` (`extraFields`, strict API only), four `AppendTrace`
steps (the trace fields, when the level, the span and `withTraceID` allow),
and `Write`, zap encoding the returned slice. A slot written by one
goroutine and read by another is a data race; the model lets the read see
either write.

**Property.** `RecordsAreCallLocal`: every record holds the caller's
arguments, the extra fields and its own call's trace fields (spec section 5:
per-call state is stack-local). `MC_CallerArgs` gives one caller field, one
extra field and capacities 1 (no spare room) and 8 (room for every append).

### `ArrayEncoder.tla`
`appendField`'s `ArrayMarshalerType` case and `bufferArrayEncoder`, as
RECURSIVE operators. A caller's marshaler is its elements (a primitive's
`%v` text, an object's map text and whether `MarshalLogObject` fails, or a
nested marshaler), whether it returns a nested `Append`'s error (zap's
`if err := ...; err != nil { return err }` idiom) and whether it fails by
itself. `AppendElem` is one `Append<Type>` call; `AppendArray` renders the
nested array through a fresh encoder as `[a b]`; `ArrayAttr` is the
attribute. `ExpectedArrayAttr` is an element-by-element reference
(`Fails`, `Reached`, `Rendering`). `ArrayAttrsMatchReference` compares the
two over every marshaler of up to two elements whose nested arrays have one
element, two levels deep (about 44k marshalers); `OtelLogger` checks it as
the state invariant `ArrayAttrRendersElements` in the bridge run. The mutant
`AppendElem_SharedEncoder` (the nested array marshalled into the parent's
encoder) breaks it.

### `GlobalLogger.tla` / `MC_GlobalLogger.tla`
Each goroutine runs a script of calls: `replace`, `restore`, `L` and `S`.

**Actions.** `ReplaceGlobals` is split at its statements: `ReplaceLock`, `ReplaceSwap`, `ReplaceSugar` and `ReplaceUnlock`. `L` and `S` are `ReadLock` followed by `ReadUnlock`. The RWMutex is `writer` plus the set `readers`.

**Fairness.** Weak fairness per goroutine. The Go scheduler runs every runnable goroutine, and the locks are held only for a few statements.

**Properties.**
- `PairConsistent`: outside the write lock, `_globalS` sugars `_globalL`.
- `RestoreReinstatesOriginal`.
- `AllCallsComplete` (liveness).
- `ImplementsGlobalRegister`: the refinement below.

### `GlobalRegister.tla` (abstract specification)
What the doc comments promise ("safe for concurrent use", "a function to
restore the original values"): one register `reg`, and each call one atomic
step (`Replace`, `Restore`, `Read`) with weak fairness per goroutine.
`GlobalLogger` instantiates it with the refinement mapping
`reg <- globalL`, `pc <- AbsPc`, `restores <- AbsRestores`: a
`ReplaceGlobals` takes effect at `ReplaceSwap` (so from then until its unlock
the abstract `pc` is one ahead and the abstract `restores` already holds, or
has dropped, the closure), and `L()`/`S()` take effect at `ReadUnlock`.
While the write lock is held `_globalS` may lag `_globalL`, but no reader can
see it, so mapping the pair to `globalL` is sound; `ReadLock_NoWait` (readers
that ignore the writer) breaks the refinement, and so does a restore closure
that captures the wrong value.

### `TraceIDConversion.tla`
Operators only. `convertTraceID` with `strconv.ParseUint`'s digit loop
(`ParseDigits`: syntax error on a non-hex digit, range error at the cutoff or
above `maxVal`) and `FormatUint` as RECURSIVE operators. The width is
scaled: `W` hex characters stand for 16 and the integer has `4*W` bits, so
TLC's 32-bit integers hold it. The reference definitions are positional:
`HexNumber` sums digit times a power of 16, `Low` takes it modulo `2^(4W)`,
and `Decimal` takes each decimal place by division.

### `SugarPairs.tla` / `MC_SugarPairs.tla`
One sugared key/value call on its traced path. The caller appends arguments
(`AddArg`, up to `MaxLen`); `Log` is `logKVs`: `BridgePairs` (its loop:
a pair becomes an attribute when the key is a string), then the trace pairs
`TraceKVs` with `convertTraceID` of the span's ids, then zap's
`SweetenFields` (as the `With` doc comment describes it) turns the returned
list into the record. Every value is a sequence of characters so that caller
strings, ids and their conversions compare; a value's Go type is the set it
comes from. `Init` takes every trace id of `2W` and span id of `W`
characters over `IdChars`.

**Properties.**
- `TypeOK`: span attributes are string-keyed pairs of caller values, as `logKVs`' `kvs[i].(string)` check makes them; the mutant `BridgePairs_AnyKey` (the check dropped) breaks it.
- `SpanAttrsMatchRecord`: the span's attributes are exactly the pairs zap writes from the caller's list.
- `TraceFieldsInDecimal`: for a list of pairs, the record carries the hex ids and their low `4W` bits in decimal.

## Runs

| run | cfg | expect | what it shows |
|-----|-----|--------|---------------|
| bridge | OtelLogger_bridge.cfg | pass | derivation through NewOtel/Clone/WithOptions and Sugar/With, strict calls and sugared calls through `<Level>fContext`/`<Level>wContext`, with the span ended at any point of a call: span status agrees with the events; every bounded array marshaler gives the attribute its elements call for (about 1.1M states, 35 s) |
| clone_alias | OtelLogger_clone_alias.cfg | violation | sibling clones share `extraFields`' backing array: one logs the other's field |
| withoptions_fields | OtelLogger_withoptions_fields.cfg | violation | a `zap.Fields` option given to `WithOptions` appears twice in every record |
| trace_id | OtelLogger_trace_id.cfg | violation | records below `minLevel` carry no trace id, although `WithTraceIDField(true)` is set |
| withoptions_panic | OtelLogger_withoptions_panic.cfg | violation | two `zap.Fields` options in one `WithOptions` call panic |
| sugared_ctx | OtelLogger_sugared_ctx.cfg | violation | `Sugar().With("k", v).Ctx(ctx).Infow(...)` writes a record without `k`: `With` does not update `skipCaller`, which `SugaredLoggerWithCtx` writes through |
| nested | GlobalLogger_nested.cfg | pass | nested replace/restore in one goroutine while another reads: the pair stays consistent, the original comes back, nothing blocks, and the whole implements `GlobalRegister` |
| dispatch | Deployment_dispatch.cfg (`MC_Deployment`) | pass | for every invocation, exactly the requested service runs once, the root is re-executed at most once; gateway requests handled at any stage of the launch are answered once, and a 200 carries the stored user (about 87k states) |
| compose | Launcher_compose.cfg | violation | the compose userserver container (`EXPLODING_KITTENS_SERVICE`, no arguments) runs no service and exits 1 |
| pairs | SugarPairs_pairs.cfg | pass | lists of up to 4 strings and ints (non-string and orphaned keys included) give the span exactly zap's pairs; every id over 0, 1 and f converts to its low bits in decimal (about 353k states) |
| pair_fields | SugarPairs_fields.cfg | violation | a `zap.Field` among the arguments shifts `logKVs`' pairing: `<<F, "k1", "k2">>` gives zap `k1=k2` and the span nothing |
| caller_args | CallerArgs_shared.cfg | violation | two goroutines logging with one caller slice of spare capacity: `logFields`' in-place appends overwrite each other, and g1's record carries g2's `traceId` |

**Bounds for the bridge runs.**
- Sugared loggers are capped at `MaxSugared` 2: `Sugar` and one `With`, which is the derivation whose pairs must reach the record.
- Loggers are capped at `MaxLoggers` and calls at `MaxCalls`.
- `MaxCap` 4 is the first capacity where an append after three fields fits in place, which is the aliasing case.
- Three config fields and one call field are enough to tell fields apart.
- The levels are Info, Error and Fatal: one below the default `minLevel`, one at the status level, and the exit.
- Span kinds: recording, valid but not recording, and no trace id.

All bridge cfgs set `CHECK_DEADLOCK FALSE`: a Fatal call exits the process, and the bounds end every behaviour.

`dispatch` keeps deadlock checking on: ended processes stutter through `Halted`, and `MaxDepth` 3 lies above the two executions the code can make. Two requests are enough for every pair of routes and ids to be handled before, during and after the launch; ids `u1` and `u2` give a stored and a missing user.

`nested` sets `CHECK_DEADLOCK FALSE`, because the scripts finish. Liveness is checked there instead, by `AllCallsComplete`.

Every property of a passing run has a mutant in `PROJECT.json`: a variant of a mapped definition, placed just before it in the module, that TLC shows breaks the property.

**Bounds for `pairs`.** `MaxLen` 4 holds two pairs, so non-string keys,
orphaned keys and a value in key position all occur. `W` 2 makes ids of 2 and
4 hex digits over 0, 1 and f: leading zeros, the value zero and the maximum
`ff`/`ffff` all occur, and the trace id's high half differs from its low
half, which is what an off-by-one in `id[16:]` shows.

## Observations the model shows that no run checks
- `PersistentPreRun` ends with `SetConfigName(service)` after `ReadInConfig`; on the root path cobra runs `initConfig` again at the nested `Execute`, so the service-named file is never searched for and the call is dead. The `--config` usage text names `$HOME/.planning-poker/app.yaml`, while `initConfig` searches for `pocker.yaml`.
- Templated and key/value calls never read `extraFields` (spec section 4.1 says every call appends them): `TemplatedCall` and `KVCall` write `WriterContext` only, and `RecordsCarryConfiguredFields` fails for them under the bridge inputs.
- The userserver serves on `clientserver.grpc.port` while its deployment sets `USERSERVER_GRPC_PORT`; in the deployment the `compose` finding comes first.
- An odd key/value list with `withTraceID` on makes zap pair the orphaned key with `"traceId"`, so no trace field appears under its name (`SugarPairs` reproduces it: its `TypeOK` admits the trace ids as record keys for this reason; `TraceFieldsInDecimal` is stated for lists of pairs).
- Two goroutines whose restore closures run out of LIFO order leave a replaced global logger installed (`GlobalLogger` with interleaved scripts; the spec leaves nesting to the caller, so no run is kept for it).
- Spec section 4.1 says a nested marshal failure is swallowed into a partial rendering. That holds only for a marshaler that ignores `AppendArray`'s error; one that returns it (zap's idiom) turns the whole attribute into `<key>_error`. `ArrayEncoder` models both and `ArrayAttrRendersElements` checks the code's behaviour.
- A span ended between `log`'s `AddEvent` and `SetStatus` keeps an error-level event while its status stays Unset (or keeps an older description). Spec section 5 leaves the span's concurrency to the span; `ErrorStatusMatchesEvents` is therefore stated for spans that still record.
- Every failure of the gateway's `GetUser` call (database error, userserver not serving, the aborted stream of a missing user) is answered 404; a missing user reaches the gateway only through connect's panic on `(nil, nil)`.
- `convertTraceID` keeps `id[16:]`, which is the low 64 bits only for 16 and 32 characters; the callers pass only those lengths.

## Not modelled, and why
- The values of attributes and formatting outside the array encoder (`appendField`'s scalar conversions, `levelString`). No property depends on them; `AttrKeys` keeps only the key mapping, which is what collides for error fields. `AppendObject`'s text is zap's `MapObjectEncoder`, outside the repository, and is a given string.
- Caller and stack-trace attributes. They depend on runtime frames.
- The tracing SDK beyond recording, events and status.
- Network, database and NATS I/O. These will appear as nondeterministic outcomes in the planned Startup model.

## Plan for later sittings
1. **Abstract logger spec.** An abstract specification of what a derived logger promises (its configuration is its parent's plus its options), refined by `OtelLogger` through a mapping from heap slices to sequences. The aliasing bug shows up as a refinement failure.
2. **Request contexts.** Client disconnects and deadlines in the gateway, once the construction of `h.ctx` is part of the repository.
