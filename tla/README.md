# Verification of the researk CLI

TLA+ modules, TLC configurations and TLAPS proofs kept beside the TypeScript sources of
`researk`, an AI research terminal (`src/packages/*`).  Every definition is translated from the
code; `PROJECT.json` ("map") names the lines of each one, the properties each run checks, a
plausible bug ("mutant") that breaks each property, and the hazards the properties are aimed at.

    tlc -workers 2 -config PoolTwoSlots.cfg MCRendererPool    # one run, see "Runs"
    tlapm ChatSessionProofs.tla                               # one module of proofs, see "Proofs"

## 1. The system

`researk` is one Node.js process.  Its main thread runs the terminal interface (React on Ink), the
controller, the harness and a provider adapter; a bounded pool of worker threads turns LaTeX into
images.  JavaScript on the main thread runs to its next `await` without interruption, so what can
go wrong sits between an `await` and its continuation, between two threads, between the process and
its files, or between the process and the provider.

```
 keys ──► App.tsx ──► reducer (AppState) ──► screen
            │   ▲
            │   └── events, results, after an await
            ▼
       TuiController ──► harness ──► provider adapter ──► HTTPS/SSE
            │
            ├──► session files, config file, credentials        (config/*.ts)
            └──► formula cache ──► renderer pool ──► worker threads
                      └──► persistent formula store
 graphics.tsx ──► Kitty / Sixel sequences ──► terminal ◄── terminal-query.ts
```

### Inventory

| component | state it keeps | operations | hard behaviour | what makes it correct | module |
|---|---|---|---|---|---|
| Renderer pool `latex-renderer/src/index.ts` | queue, slots, worker of a slot, `#closed`, budget of a response | `render`, abort, `close`, messages, errors and exits of workers, timers, replacement | two threads; late or repeated answers; abort in any phase; close during replacement | each job in one place, settled once and with its own answer; poisoned workers retired; no orphan thread | RendererPool |
| Raster limits `worker.ts`, `protocol.ts`, `formula-renderer.ts`, `formula-cache.ts` | none | four checks of one raster | four copies of one limit | what one lets pass the next accepts | RasterContract |
| Run ownership and sessions `tui/App.tsx`, `config/sessions.ts` | `AppState` and the last rendered copy, `activeRun`, `sessionIdRef`, `sessionGeneration`, pointer queue, files | submit, deltas, cancel, settle, `/new`, `/clear`, load, autosave, pointer writes, exit, crash | every result arrives after something else may have replaced the session; crash between two writes | a run keeps its session; sessions never mix; the pointer names a file that exists; late results yield | ChatSession |
| Composer, overlays, formula view `tui/App.tsx`, `reducer.ts`, `formulas.ts` | composer text, history, overlay, formula view and drafts | every key of each, answers that arrive meanwhile | the answer changes while it is edited; answers arrive whatever is open | nothing typed is lost; a draft stays with its formula; a busy form is answered | Composer |
| Conversation scrolling `Conversation.tsx`, `reducer.ts` | measured range, its last report, offset | layout, report, keys, wheel, overlays | a range reported late, or for another session | every row reachable; a reader keeps the place | Scroll |
| Prompt context `tui/App.tsx`, `reducer.ts`, `controller.ts` | connection, catalog, model, staged documents, config write queue | connect, models, load, `/new`, read a document, submit | answers of providers and files in any order | the newest connection wins; a response keeps what it was asked with; a document stays in its session | PromptContext |
| Harness cache `controller.ts` | `#harness`, `#harnessKey` | `#resolveHarness` | callers overlap at an `await` | each caller sends with its own credential | HarnessCache |
| Chat run `controller.ts`, `harness`, adapters, `safety.ts`, `run.ts` | stage of the request, body, redactor's tail, text, outcome | catalog, request, chunks, end, timeout, abort | credential cut by chunks; abort, timeout and end coincide; provider silent | one end; text independent of chunks; body released; only the chosen model; it ends | ChatRun, ModelSelection, SseParser |
| Markdown/math parser `rendering/parser.ts`, `formulas.ts` | what is pending | push, finish | any split of the input | same events for every split; an edited formula is found again | MathParser |
| Formula raster cache `tui/formula-renderer.ts` | LRU list, operation per key and its consumers | `render`, abort, `clear`, store, renderer | one operation shared by callers who leave one by one | implements RasterService | FormulaCache |
| Graphics runtime `tui/graphics.tsx` | registrations, generation, snapshot, placements, visible keys | `register`, `beforeFrame`, `afterFrame`, style, `dispose` | frames superseded while a write is blocked; teardown during a write | an image where the source is hidden; nothing left behind | GraphicsRuntime |
| Image encoders `rendering/sixel.ts`, `kitty.ts` | none | encode | palettes, bands, runs, chunk limits | the terminal draws the image | ImageProtocols |
| Display layout `tui/layout.ts` | checkpoints | rows, pages | tabs, wide characters, row ends | nothing cut; a page is that of the whole text | DisplayLayout |
| Terminal probe `rendering/terminal-query.ts` | partial reply, replay, late broker | query, bytes, timeouts, hand-over | replies among keys, cut anywhere, late | keys in order; replies not typed; nothing stuck | TerminalProbe |
| Session files and formula store `config/sessions.ts`, `store.ts`, `formula-cache.ts` | files, temporary files, queues | read, write, delete, list, prune | interleaving at every await, crash | bounded; never older | DataFiles |
| Credentials and profiles `controller.ts`, `providers.ts`, `credentials.ts`, `config.ts` | profiles, keychain, active provider, models | persist with rollback, remove, restart | a write that fails after another one | what is reported is restored; shared keys stay | ProviderStore |
| Contracts, research registry, clipboard, mouse, plain rendering, scripts | none between two calls | schemas, pure functions, build tools | - | - | - |

`PROJECT.json` "components" says for each one whether it is modelled completely, and what is left out.

## 2. Modules

    RendererPool ─── RendererWarmUps (adds a history of failed warm-ups)
        │  └──────── RendererPoolProofs
    MCRendererPool

    RasterService ◄── implemented by ── FormulaCache ─── MCFormulaCache
    ChatSession ─── MCChatSession, ChatSessionProofs
    PromptContext ─── MCPromptContext       ProviderStore ─── MCProviderStore
    ChatRun (EXTENDS MathParser, ModelSelection) ─── MCChatRun (EXTENDS SseParser), ChatRunProofs
    Composer ─── MCComposer (EXTENDS DisplayLayout)
    GraphicsRuntime ─── MCGraphicsRuntime (EXTENDS ImageProtocols)
    DataFiles ─── MCDataFiles, DataFilesProofs
    TerminalProbe ─── MCTerminalProbe

    FormulaCacheProofs   EXTENDS FormulaCache, RasterContract, GraphicsRuntime, TerminalProbe
    PromptContextProofs  EXTENDS PromptContext, ProviderStore
    InterfaceProofs      EXTENDS Composer, and instantiates Scroll and HarnessCache
    BasicLemmas          least elements; what a sequence holds after an element was appended,
                         replaced or removed; prefixes

A step of every model is one synchronous stretch of the main thread: from a call or an event to
the next `await`.  A continuation is a step of its own and decides by the guards the code has after
that `await`.  The modules meet at narrow interfaces: FormulaCache sees the pool as a call that is
answered or fails (what `EveryRenderSettles` of RendererPool shows), GraphicsRuntime and Composer
see FormulaCache as rasters and formulas that arrive, ChatSession sees a run as deltas followed by
an end (what `EndsOnce` and `RunSettles` of ChatRun show), and PromptContext and Composer see
sessions and runs by the generation and the `activeRun` slot ChatSession keeps.

### RendererPool
The class ManagedLatexRenderer.  `slots` is the array of WorkerSlot with the stage of the job it
runs (`handshake`, `rendering`, `retiring`, `free`), `workers` the threads with the events they
have sent and the main thread has not taken, `promise` what each caller was told, `budget` the
expressions and time one response used.  `Render`/`RefuseRender` are `render()`,
`StartRender`/`CancelBeforeRender`/`FailHandshake` the continuations of `#run` after `slot.ready`,
`AcceptResult`, `OversizeResult`, `AcceptFailure`, `WorkerFailed`, `RenderTimeout` and `DropEvent`
the listeners of one request, `Retire*`/`Respawn*` the continuation of `#replace` after
`terminate()`, `Close`, `CloseAgain` and `CloseReturns` are `close()`.  Worker threads start, answer
rightly or wrongly, send what nobody asked for, crash or fall silent.  RasterContract has the four
checks a raster passes on its way from the worker to the disk.

### FormulaCache and RasterService
RasterService is the promise: callers ask, leave, and are answered; a raster enters the cache only
when somebody waits for it.  FormulaCache is FormulaRasterCache: the LRU order (`cache`) with its
byte account, `inFlight` and `consumers`, and one operation (`stage`) that reads the store, renders,
inserts and writes back.  The refinement maps the cached keys to `have` and the callers' signals to
`left`; all of the operation's stages are stuttering steps of the service until it ends.

### ChatSession
`state` is the part of AppState a run or session touches and `shown` the copy of the last render
(`stateRef.current`), which callbacks read; with `RenderLag` a render is a step of its own.
`runs`, `loads` and `saves` are what `submitPrompt`, `loadSession` and `autosaveSession` or
`persistNewSession` wait for, each with the generation it captured; `files` and `pointer` are the
disk.  `Crash` loses all of memory and restarts as `tui.tsx` does.

### PromptContext and HarnessCache
What the next prompt would be sent with.  Each `connect()` has a stage and compares its number to
`connectGen` after its awaits; loads compare `generation`; reads compare the generation of their
request.  A catalog is represented by the provider it came from and a model by its provider.
HarnessCache is what stands between them and the adapters: one harness, kept under a key, that
overlapping callers replace.

### ChatRun, ModelSelection, SseParser, MathParser
One call of `runChat`, or of `executeChat` of the one-shot command, from the catalog to its outcome.
A chunk carries up to `MaxChunk` items of any split of the answer; `Push`, `Held` and `FinalTail`
are the redactor's arithmetic on the longest tail that may begin the credential; `body` is the HTTP
response body and who closed it; `log` what was emitted.  ModelSelection turns the rows of a catalog
into models and a selection into a request as the two adapters do.  MathParser is the incremental
parser as operators on a record of its fields; in the one-shot command every delta is pushed into
it, and the events are compared to those of the whole text.  SseParser is `parseSse` byte by byte.

### Composer and DisplayLayout
`composer`, `overlay` and `view` are the three places a key may go to, in the order of `useInput`;
`entries` is what the formula view finds its formulas in and `waiting` the requests that will be
answered.  `ComposerKey`, `OverlayKey` and `FormulaKey` are disjunctions with one operator per key;
`FormulaEffect` is the effect that follows a changed formula list, `Reply`, `Delta` and `RunEnds`
what arrives.  `typed` and `inserted` are histories.  DisplayLayout is layout.ts as operators: the
rows of a text, its checkpoints, and a page laid out from one.

### Scroll
The range of rows measured by the component, the range it last reported, and the reducer's copy and
offset, over any heights.

### GraphicsRuntime and ImageProtocols
`Frame` is an Ink render with `beforeFrame`, `AfterFrame` the steps of the running `afterFrame` (flush,
emit, wait for drain, superseded, failed) with later ones on its tail, `Component` the mounts, renders and
unmounts of a formula, `Mounted` and `Microtask` the host's registration frames, `Dispose` the
teardown.  `screen` is what the terminal shows.  ImageProtocols encodes small images and payloads as
the two writers do and draws them as a terminal does.

### TerminalProbe
`unread` is the input stream, shared by the keyboard, the terminal and Ink; `onData` takes any prefix
of it as a chunk.  `pending`, `replay` and `got` are the probe's buffers, `late` the broker that
goes on reading for a short time.  `Scan` is one turn of the loop over what is pending, `drainStep` and
`drainLateTurn` what the probe and the late broker do with it; a turn of the probe goes on with the
reply behind the ordinary input it took even when that outgrew the bound, as the code does.  Every
token knows who sent it: a key its place in the order of typing, a reply its number.  `Line` is all of
the input from what the application has to what is still in the stream, and the properties are about
it.

### DataFiles and ProviderStore
DataFiles has a step for every await of the session store (writes and deletes queued per path) and
of the persistent formula store (temporary file, rename, directory listing, one `stat` and one removal
at a time), for calls of one or several processes; each of them may fail, also inside a prune, which
swallows it, and `lapse` is the history of prunes that were cut short or missed something.  ProviderStore has a step for every write of
`persistProvider` and its rollback, its read of the previous key, which may fail unseen, the registry's and the controller's write queues, removals,
model choices, session loads and restarts with a keychain that may be locked and files of a newer
version or broken.

## 3. Runs

| run | instance | shows |
|---|---|---|
| `pool_two_slots` | 3 interchangeable jobs, 2 slots, 3 threads, 1 waiting event | `OnePlace`, `RightAnswer`, `NoOrphanThread`, `PoisonedWorkerRetired`: no call is lost or answered with another's verdict, no thread outlives `close()`, no poisoned worker is reused |
| `pool_liveness` | 3 jobs, 1 slot, 2 threads, a budget of 2 | `EveryRenderSettles` under fairness, though workers hang |
| `chat_race` | 2 prompts, /new, a failure, a crash; keys that see the last render | `NewSessionPointed` under fairness |
| `chat_apart` | 2 prompts, /new, a load, /clear, a failure, a crash; sessions of two workspaces | `RunKeepsSession` (a load that claimed its generation before the prompt included), `LateResultsYield`, `NoDanglingPointer`, `SessionsStayApart`, `TranscriptsGrow` |
| `composer` | an answer whose formulas change twice, 2 connects, /new or a load, history of 2 | `TypedComesBack`, `DraftStaysWithFormula`, `FormIsAnswered`, `PromptWaits` |
| `formula_cache` | 4 callers of 3 keys whose weights compete, 2 entries, 2 bytes | `ServiceSpec` (refinement), `OneOperationPerKey`; `EveryCallAnswered` under fairness |
| `prompt_context` | 2 providers, 2 connects, a catalog request, a read, a load or /new | `NewestConnectWins`, `SavedInOrder`, `RunKeepsContext`, `StagedInOwnSession` |
| `chat_run` | answers of 8 characters around a credential `abaa` in chunks of up to 2 items of up to 3; one-shot answers of 4 fragments; catalogs of 2 rows | `EndsOnce`, `ChunksDoNotMatter`, `BodyReleased`, `AbortIsCancellation`, `OnlyTheChosenModel`, `ParsedAsWholeElsewhere`, `EditReadsBack`; `RunSettles` under fairness |
| `graphics` | 2 formulas in 3 rows, both protocols, 3 rasters, commits or style changes | `ShownWhenHidden`, `NothingLeftBehind`, `RequestNotLost` |
| `terminal` | 2 terminals, 5 typed bytes of 2 keys, every split, small limits | `KeysInOrder`, `NoReplyTyped`; `NothingStuck` under fairness |
| `data_files` | 2 sessions, 2 rasters, 2 calls at a time, 3 operations, a crash or a failure of any file operation, those of a prune included | `DirectoryBounded`, `NeverOlder` |
| `providers` | 2 providers that share a variable and the built-in one, 2 calls, 2 failures of files or keychain, a choice or a restart | `ReportedIsRestorable`, `SharedKeyKept` |

Pure algorithms have no state to explore; TLC evaluates them as assumptions of the runs that extend
them: `SseEvents` (every body of 5 bytes: no event lost or made up, a limit cuts between events;
`chat_run`), `Pages` (every text of 5 segments at two widths: nothing is cut, every page is that of
the whole text; `composer`), `Sixels` and `KittyChunks` (every small image and every payload of up
to 9 bytes is what the terminal draws; `graphics`).

Every module has its type invariant (`TypeOK`, or named for the module where a module of proofs
takes several), checked on the same instances while the module was written; the runs keep to
properties that say more.  Where the proofs need one they prove it.

### Configurations that end in a counterexample
They state what a document or a comment of the repository says, and TLC shows how the code departs
from it.

| configuration | module | what happens |
|---|---|---|
| `PoolHost.cfg` | MCRendererPool | a worker that emits `error` while no listener is attached (after its handshake, between two jobs, after a timeout) raises an uncaught exception in the host (`latex-renderer/src/index.ts:289`; docs/CLI_RENDERING.md:749 says a crash is contained) |
| `PoolWarmUps.cfg` | RendererWarmUps | only a `#createSlot` that throws counts as a failed warm-up; a worker that starts and never completes its handshake is replaced after every job (`index.ts:482`, comments at 30 and 145) |
| `ChatReload.cfg` | MCChatSession | a load does not wait for a queued save of the session it reads; the next autosave drops that exchange from the file (`tui/App.tsx:1039`) |
| `PromptCatalog.cfg` | MCPromptContext | the reply of `refreshCatalog` is shown without asking whether the connection is still the one it was asked of (`tui/App.tsx:936`, comment at `tui/reducer.ts:153`) |
| `GraphicsPlacement.cfg` | MCGraphicsRuntime | a frame that replaces an image it also clears can leave two confirmed placements of a formula until the next frame (`tui/graphics.tsx:603`) |
| `TerminalKeys.cfg` | MCTerminalProbe | what the parser holds back is dropped when the chunk that completes the replies ends with the first byte of a key (`rendering/terminal-query.ts:651`; `tui.tsx:110` and docs/CLI_RENDERING.md:432 say nothing typed is lost) |
| `ProviderModels.cfg` | MCProviderStore | a model chosen while its provider is not the file's active one is remembered as the default of the other (`tui/controller.ts:849`) |
| `ParserChunks.cfg` | MCChatRun | a `$` amount or a run of backticks at the end of a chunk is read differently from the whole text (`rendering/parser.ts:171`, `194`; docs/CLI_RENDERING.md:203); only `run.ts` parses incrementally |

### Behaviour the models show and no property forbids
Sessions and runs
- `/clear` keeps the session id; the next save replaces the transcript (`TranscriptsGrow` excludes
  what follows it).
- A load reads the file without waiting for the writes queued for it; when it shows less than was
  written or asked to be written, the next save drops the rest (`TranscriptsGrow` excludes what
  follows such a load, and no other; `ChatReload.cfg`).
- A load that is refused has already claimed a generation, so it drops the queued pointer of the
  session that stays on the screen.
- If a key can be handled between a dispatch and the next render, a prompt sent right after a load
  carries the previous conversation (`SessionsStayApart` is checked without that window).
- An automatic title keeps a line end of the prompt, which the store refuses as metadata, and a
  conversation of more than 100 messages is refused as well; both show a failed save.

Connections, documents, credentials
- A load does not claim `connectGeneration`: a reply that arrives after it connects the TUI to the
  provider of the form, not of the session.
- Two reads in flight may stage one document more than the limit.
- A providers file that is not JSON hides the built-in provider too; two overlapping attempts on one
  provider undo each other's key; a keychain that cannot be read before a new key is written loses the
  older one when the profile cannot be written, because a read that fails is taken for no key
  (`ReadPreviousFails`; `ReportedIsRestorable` exempts these calls).
- Two instances that share a configuration file lose each other's updates.
- A model that lists efforts without saying that it takes a reasoning parameter is offered them and
  then refused (`tui/state.ts:248`, `adapter.ts:162`).

Rendering
- The ceiling on the render time of one response is charged when a job ends, so jobs queued together
  run past it; the ceiling on expressions is claimed when a job is queued.
- Callers who share an operation of the cache also share the first caller's budget.
- A `readdir`, `stat` or `rm` that fails in a prune is swallowed, and what could not be removed is
  counted as gone: the directory stays over its limits until a later prune goes through
  (`MissedBy`; `DirectoryBounded` allows it until then).  The same goes for a crash during a prune.
- A `get` of the formula store that discards a broken file may remove one that was just written.
- A tab that did not fit keeps the width it had at the end of the row before; a page laid out from a
  checkpoint at that row gives it another, and the last rows of the text cannot be reached
  (`tui/layout.ts:203`; `WrappedTab` of DisplayLayout).
- A session that replaces another in place, with the same height, leaves the range of scrolling at 0
  until the layout changes (`Conversation.tsx:571`, `reducer.ts:282`).

Text
- A completed run reports its end before the redactor's last tail is emitted.
- An edited formula is not found again when its draft ends in a backslash, in the delimiter, or reads
  as an amount of money (`Misread` of MathParser).
- Moving the cursor in a recalled line, or sending it, gives up the line that was being written; the
  late answer of a request closes whatever overlay is open by then.

### Bounds
Every bound is a CONSTANT whose comment says "bound".  They cap what users, providers and failures
do (prompts, loads, connects, threads ever started, typed bytes), never what the program does in
response.  Two of each racing party is what the races need: a late and a newer load, an old and
a new connection, one session and the next, a running and a queued job, two writers of a directory
that holds one.  Three jobs over two slots have one wait; three threads over two slots allow one
replacement.  The four callers of the cache are two of one key (coalescing), one of another that can
displace it, one that never fits.  The credential overlaps itself at two lengths, so a false start
inside it occurs, and an answer of eight characters holds it whole with characters on both sides.
The limits of the probe are small enough for a reply to overrun them and large enough for one to
pass.  Two formulas in three rows can be scrolled over one another and out.  Deadlock is not an
error in these instances: when the bounds are used up or the program has exited, nothing is left to
do.  A program that hangs instead is what the liveness properties are about.

### Fairness
- RendererPool: the event loop runs queued microtasks and delivers events, timers that are set fire, and
  `terminate()` ends (Node's contract).  Workers and callers get none: a worker may hang for ever.
- FormulaCache: file operations end, and the renderer answers (the pool's liveness).
- ChatSession: continuations run and the file system answers.  Users and failures get none.
- PromptContext (not used by a property of its run): the registry answers, and a connection attempt
  ends no later than the adapter's timeout.
- ChatRun: the timeout passes and a signal ends the wait it interrupts.  The provider gets none.
- TerminalProbe: startup goes on, the two timers fire, and Ink reads.  The terminal and the user get none.

The other modules have safety properties only.

## 4. Proofs

Theorems hold for every value of the constants that the named assumptions allow.  Few of the
invariants are inductive as they stand.  Each strengthened one was checked by TLC on the instance of
its run before it was proved, and is laid out as a conjunction of named parts: one lemma per action
(or per group of actions that touch the same variables), under it one step per part the action can
disturb, then a lemma for `Next` and a temporal step.

`RendererPoolProofs`, for every number of jobs, slots, threads and retries:

- `TypeCorrect`: `Spec => []TypeOK`.  A slot has a job exactly while `#run` is busy with it.
  Inductive by itself.
- `NoOrphan`: `Spec => []NoOrphanThread`.  Not inductive: `#replace` puts a new worker in the
  slot's place, so it must be known that the old one is gone already, and `close()` sets the flag
  long before it returns.  `ThreadInv` adds that the worker of a retiring slot does not run, that a
  slot's worker was started already (so a new one is not another slot's) and that after `closed`
  none runs.
- `CallsInOnePlace`: `Spec => []OnePlace`.  `PlaceInv` says it without counting, of the queue, the
  slots and the promises: no call twice in the queue, none in the queue and on a slot, none on two
  slots; a queued call is pending and not aborted; a pending call is somewhere; and until `close()`
  the call of a busy slot is pending.  `Place` takes the four values as parameters because
  `#dispatch` fills several slots in one step and each filling keeps it.
- `PoisonedRetired`: `Spec => PoisonedWorkerRetired`, an action property.  `BornInv`: the worker of
  a slot was started, so its replacement, which is unborn, is another one.
- `ResultsMatch`: `Spec => []RightResult`, without a condition: a caller that gets a rendering gets
  that of its own TeX, because `AcceptResult` compares the TeX as well as the id.
- `AnswersMatch`: `Spec => [](IdsSuffice => RightAnswer)`.  A failure carries only the id.  Ids come
  round at `MaxRequestId` (`protocol.ts:14`, 2^32 in the code), so the theorem is for a pool that
  has no more calls than ids; TLC's instance satisfies it.  `OwnIds` says that what the worker of a
  slot knows under the id that runs is the call of that slot, and `FreshIds` that as long as calls
  may still start, every id a worker knows or a slot runs is below the next one.

`FormulaCacheProofs`, for every set of callers and keys, any weights and limits:

- `OneOperation`: `Spec => []OneOperationPerKey`.  It says that the map lists what
  can still succeed, and that nothing is filled twice.  `Counted` makes it inductive: a call waits
  exactly while one operation of its key counts it, and an operation is live exactly while it counts
  somebody.
- `ServesEveryCaller`: `Spec => ServiceSpec`, the refinement of RasterService.  The initial states
  map to initial states; a call, an abort, a `clear()` and the step in which an operation ends map to
  steps of the service, every other step to a stutter.  The invariant is needed where the service
  demands that somebody waits for a raster that is cached.
- `WorkerRasterIsKept` (RasterContract): a raster of any size the worker posts passes the check of
  the host, of the cache and of the store, and its file can be read again.
- `HiddenIsShown`, `NoneLeftBehind`, `RequestKept` (GraphicsRuntime): `ShownWhenHidden`,
  `NothingLeftBehind` and `RequestNotLost`, for any formulas, rows, sizes and budgets.
  `GraphicsInv` has five parts besides the types.  `FramesWait`: the frames behind the tail are in
  the order of their generations, and nothing was drawn before Ink has mounted.  `Older`: what the
  running frame still has to draw, and what it replaces, is older than what it draws, so a placement
  it lists is a new one.  `Current`: the image being written is listed, and is on the terminal as
  soon as its bytes are.  `Supported`: the image that stands for a hidden source is on the terminal,
  is not the one being written, and does not wait for its cleanup unless its registration is gone.
  `NothingLeftBehind` itself is the fifth, because an image may only be deleted if it is listed.
  `Supported` is where the argument is: a write that was superseded puts its image among those to be
  cleaned up although it may be the one shown, which is safe because visibility was never given to it.
- `KeysStayInOrder`, `RepliesSwallowed`, `LossIsOneStretch` (TerminalProbe): `KeysInOrder` and
  `NoReplyTyped`, for any key presses, sequences of replies, cuts into chunks, bounds and moments at
  which the deadline and the late window end.  `ProbeInv` follows the line as a whole.  `LineFine`:
  its keys are in order, all that were typed are in it until the third reply came, and what is lacking
  then is one stretch.  `Aligned`: in what a broker has not understood, followed by the stream, every
  byte of a terminal is in a whole reply and no key looks like the beginning of one.  `Stuck`: what is
  left pending when a turn takes nothing is the beginning of a reply whose rest is in the stream, or
  at most two typed bytes; it is why the deadline may set it apart and why finish drops so little.
  `ScanTurn` is the heart: a turn takes typed bytes as input, or exactly one whole reply.

  Two hypotheses are about the keys.  `NoTypedReply`: no key press has an `_` behind an ESC or the
  parameters of the replies that were asked for.  `WholeSequences`, for the bound of two bytes only: a
  key press with the two bytes ESC `[` also has the byte that ends the sequence.  Each is needed: TLC
  finds a reply among the input with the keys ESC `_` and `G`, and three lost bytes with ESC `[` and
  ESC as keys of their own; `LossIsOneStretch` holds without the second.

`ChatSessionProofs`, for any sessions on disk and any number of prompts, loads, `/new`, failures and
crashes:

- `RunKeeps`: `Spec => []RunKeepsSession`.  `RunOwned` says that the active run, if any, is the only one
  running and has the session id and the generation of the present; `ExchangeShown` that its prompt and
  answer end the conversation.  A load claims its generation before its first `await`, so a prompt sent
  meanwhile has the load's own, and only the check of `activeRun` after each `await` (`MayApply`)
  keeps the load from replacing the session under it.
- `PointerExists`: `Spec => []NoDanglingPointer`.  `NoDangling` says it of everything that may become
  the pointer: the queued pointer writes, the saves that succeeded and the loads.  It needs the types
  of all of them, and that a fresh session id is one that has a place on disk (`IdsLeft`).
- `LateYield`: `Spec => LateResultsYield`.  `InOrder` says that the queued pointer writes are in the
  order of their generations, none before the pointer's and none after the current one; a write
  joins the queue only for the current generation, which is what `Fresh` is compared for.
- `SessionsApart`: `Spec => [](~RenderLag => SessionsStayApart)`.  `OneOwner` gives every session id
  and every run the conversation it belongs to, wherever its messages are: on the screen, in the base
  of a run, in a save on its way, in a load, in a file.  `NewRunsFree` says that the messages of a
  run that was not started are nowhere.
- `TranscriptsKept`: `~RenderLag => (Spec => TranscriptsGrow)`.  `Growing` says that the saves of one
  session wait in an order in which each begins with the one before it, the first of them with what
  the file holds, and the conversation on the screen with the last.  Loads are included: one that is
  applied shows what its file holds with no save of it on its way.  Behaviours are excluded from a
  `/clear` on, and from a load on that shows less than that (`Overtaken`).

  `RenderLag` is the window between a dispatch and the next render in which a key is handled.  React
  closes it for keys that arrive after a commit, and with it open the second property does not hold
  (section 3, "Behaviour the models show"); the first three theorems do not need it closed.

`ChatRunProofs`, for any texts, chunks, catalogs, selections and credentials, and any order of aborts,
timeouts and ends of the stream: `RunEndsOnce`, `BodyGivenBack`, `AbortsAreCancellations`, `OnlyChosen`
state `EndsOnce`, `BodyReleased`, `AbortIsCancellation` and `OnlyTheChosenModel`.  `Verdicts` says
in which stages a verdict was reached, `Reported` what was reported by then (once, and in the
interface nothing after a failure), `BodyHeld` in which stages the body may be open.

- `ChunksAreOneText`: `Spec => []ChunksDoNotMatter`.  `Redacted` says that what was shown so far,
  joined with the tail held back, is what the redaction of everything received so far gives, and the
  tail is the longest end of it that may begin the credential.  The step is `RedactMore`: redacting a
  text and then more text behind the tail that was kept is redacting both at once, because no
  occurrence of the credential begins before that tail.  Induction over the text is by a least
  counterexample.
- `CredentialNeverShown`: `Spec => []CredentialHidden` (defined with the proof): no stretch of what
  was reported is the credential, at any moment.  The text shown is made of pieces without an
  occurrence and of markers, and no character of the marker is in the credential.
- `ParsedInOnePiece`: `Spec => []ParsedAsWholeElsewhere`.  `Pieces` says that the chunks the one-shot
  command was given make up the text it has.  `PushTwice` is the fact about the parser: giving it a text
  and then more is giving it both at once, if the first does not end in a digit or a backtick (`Open`).
  It rests on three facts about the text `s` the parser still has and a longer one that begins with it.
  What it has decided about `s` it decides of the longer text too (`ReadSame`, with one lemma per
  construct: fences, inline code, `\(`, `\[`, `$$`, amounts of money and `$`); where it waits for more
  it has taken nothing (`DrainStill`); and one turn of its loop gives the same events and the same rest,
  with what was added behind it (`TurnMore`, `ConsumeChain`, `DrainMore`).  A digit and a backtick are
  excluded where a lemma needs what comes next: a `$5` at the end may go on as an amount, and a run of
  backticks may be longer than it is so far.

`PromptContextProofs`, for every set of providers and documents and any number of connections, loads,
catalog requests and reads in flight:

- `TypeCorrect`: `Spec => []TypeOK`, inductive by itself.
- `NewestWins`: `Spec => []NewestConnectWins`.  `NewestInv` adds that a connected TUI was asked to
  connect; then no step changes the provider of a call, and a call writes only while its number is
  `connectGen`.
- `NewestSavedLast`: `Spec => SavedInOrder`.  `QueueInv`: the calls in the queue are in the order of
  their numbers, between the saved one and the newest, because a call joins only while it is the
  newest.
- `StagedOwn` and `RunContext`: `StagedInOwnSession` and `RunKeepsContext`, by the guards each
  handler applies again after its `await`.
- `CredentialIsRestorable` (ProviderStore): `StoreSpec => []ReportedIsRestorable`, for any providers,
  variables, keys, overlapping calls, failed writes, locked keychains and restarts.  `StoreInv`:
  `Roles` says which stages a call goes through; `Turns` that the call at the head of the registry's
  queue has loaded what the file says, and the others nothing yet; `Overlaps` that calls
  which overlap on a provider are marked; `Owing` what each call holds in the keychain and
  would restore, and that a provider without a call has what was last reported.  Exempt are calls
  that overlap on one provider, a roll back that fails, and the roll back of a call whose read of the
  previous key had failed (`unread`); what such a call reports as stored is covered.
- `OthersKeepTheirKey` (ProviderStore): `StoreSpec => SharedKeyKept`, from `Turns`: a removal decides
  who else uses a variable by what it loaded.

`InterfaceProofs`:

- `LineComesBack`: `Spec => []TypedComesBack` (Composer), for any history and length of line, because
  what the history shows is the line it points at and no line in it is empty (`LineInv`).
- `PromptStays`: `Spec => PromptWaits`, an action property, from the same invariant.
- `LockedFormIsAnswered`: `Spec => []FormIsAnswered`.  `FormInv` says that a locked form's request is
  on its way and is the newest, and that no run starts under it.
- `DraftGoesWithFormula`: `~EffectLag => (Spec => []DraftStaysWithFormula)`.  `EffectLag` is a key
  handled between a changed formula list and the effect that closes or updates the view.
- `CallersOwnHarness` (HarnessCache), for any callers, connections and credentials: whatever is
  cached sends what its key stands for.
- `EveryRowReachable`, `KeptPlaceShown`, `ReaderStays` (Scroll), over all heights: what the component
  last reported is what the reducer has, unless it was unmounted or the session was replaced in place
  since.

`DataFilesProofs`, for any sessions, rasters, sizes, limits, calls, failures and crashes:

- `NeverOlderFiles`: `Spec => NeverOlder`, an action property.  Saves and deletes of a session wait in
  the order in which they were asked for (`Ordered`), all later than what is in the file (`Queued`),
  and only the first of them writes (`Waiting`).
- `DirectoryWithinLimits`: `Spec => []DirectoryBounded`.  `Watched` says that one of the prunes under
  way has not read the directory yet, or has measured or will measure every raster that is there
  (`Scanned`: the last one that read it), or that the limits hold, or that a crash or a failed step of
  a prune was not made up for and no prune under way has read the directory since (`lapse`).  A prune may remove a file that was replaced since it measured it; what replaced
  it has a prune of its own to come.  The bytes of a directory are a fold over a finite set, so that
  they are a sum at all, and that a set which covers another weighs as much (`WeightOf`,
  `CoverBounds`), is proved first, by induction on the number of entries.

The assumptions are those of the modules (`PoolAssumption`, `CacheAssumption`, `GraphicsAssumption`,
`SessionAssumption`, `NothingAssumption`, `NamesAssumption`, `RunAssumption`, `ContextAssumption`,
`StoreAssumption`, `ComposerAssumption`, `FilesAssumption`): bounds are numbers, what stands for
nothing is none of the things it stands beside, and names of different things differ.
`StoreAssumption` says that the keychain entries of the providers and those of the legacy variables
are apart, as their names are (`controller.ts:502`, `506`; `providers.ts:55`).  `RunAssumption` that
the marker of a redaction is in no answer and not in the credential, and that texts are sequences and
not empty.  `KeysAssumption`, `BoundsAssumption` and `AnswersAssumption` that a key press sends
something and that a terminal answers with the four replies the probe knows.

Model-checked only:

- liveness under fairness, which is out of the prover's reach;
- `EditReadsBack` of ChatRun: it is about the formulas given as `Originals`, and whether an edit of one
  reads back depends on what stands in it, which the run enumerates;
- what the recursive functions and folds of MathParser, SseParser, DisplayLayout and ImageProtocols
  compute for every input.  The induction theorems of the library cannot be used here; where the proofs
  need an induction over data they take the least counterexample (`LeastElement` of BasicLemmas).

## 5. What is left

- Proofs: `EditReadsBack` for a described set of formulas, and the pure algorithms.
- Models: a third row of formulas and resizing in GraphicsRuntime; composed providers
  (ProviderStore with PromptContext), so that a connection and the profile it is saved with are one run.

## 6. Not modelled

Third-party code (MathJax, resvg, React, Ink, Node), colours and help texts, schemas and their single
fields, the removal of control characters, mouse and clipboard sequences (parsed one at a time, nothing
is kept), the research registry (a static table), and the build and release scripts (sequences that run
once on a developer's machine).

Inside modelled parts: the wording of notices; several kinds of credential in one response; UTF-8,
carriage returns and surrogate pairs in the parser; JSON; what a document contains and how its path is
resolved; the compositing of pixels; `updateCustomProvider` of the controller,
which nothing calls; the raw and JSON forms of the one-shot output.
