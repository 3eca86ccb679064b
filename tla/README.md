# A verification project for ShaderBuilder

ShaderBuilder edits RetroArch `.slangp` shader chains as node graphs and previews
them live. It is a Tauri application: a React webview (`web/src`) with the
document, the panels and the file flows, and a Rust backend (`crates/*`) with the
graph compiler, the shader pipeline, the preview engine (wgpu), the source pumps,
the preset reader and writer, and the user's files.

This directory holds TLA+ modules that model the parts of it whose state is hard
to test, TLC configurations that check them, and proofs checked by TLAPS.
`PROJECT.json` lists runs, mutants, theorems, the source lines behind every
definition, and the hazards.

## 1. The system

### Components, their state and their operations

| Component | Code | State | Operations |
|---|---|---|---|
| Viewport geometry | `preview-engine/src/viewport.rs`, parts of `renderer.rs` | none (pure) | `content_rect`, `map_pane_pixel`, `AxisScale::resolve`, composite rectangle |
| Multi-pass renderer | `preview-engine/src/renderer.rs`, `pass.rs`, `bindtable.rs` | source, history ring, pass targets with feedback twins, their mip levels and samplers, aliases, viewport, LUTs, parameters, frame counter | `set_source`, `advance_source`, `reset_feedback`, `set_chain`, `set_viewport`, `set_simulated_viewport`, `set_luts`, `set_parameter`, `apply_overrides`, `render` |
| Uniforms | `preview-engine/src/uniforms.rs` | the parameter store | collect, set, override, pack into a block |
| Render thread | `preview-engine/src/render_source.rs` | command queue, pump, pacing window, transport, last reported position and status | one handler per `RenderCommand`, `render_into` |
| Source pumps | `source/src/pump.rs` | clip and position | `current`, `advance`, `seek` |
| Preview commands and streams | `app/src/preview.rs`, `web/src/preview/PreviewCanvas.tsx` | the running stream, its flag and command sender; the canvas's stream | `start_stream`, `stop_stream`, transport, load, preset and inspector commands; frame loop and two forwarder threads per stream |
| Transport panel | `web/src/panels/SourcePanel.tsx` | shown position and length, playing flag, rate | buttons, slider, rate field, `source-position` listener |
| Engine events | `web/src/feedback/useEngineEvents.ts` | status badge, problems | `engine-event` listener |
| Session | `web/src/session/*`, `app/src/session.rs`, `core-model/src/session.rs` | dirty flag, path, open prompt, autosave timer; `DirtyState`; project files, recovery files, recents | New, Open, Open recent, Save, Save As, close guard, prompt answers, autosave, recovery at launch |
| Document store | `web/src/store/*`, `web/src/pipeline/passOps.ts`, `web/src/nodes/subgraph.ts` | the project, undo and redo stacks, the open interaction, clipboard, selection, the path into nested graphs | edits of nodes, wires and passes, collapse, expand, copy, undo, redo, interactions |
| Compile loop | `web/src/compile/*` | debounce timer, last dispatched edit, results | debounce, compile, show the newest result, dispatch it to the engine |
| Graph compiler | `crates/ir`, `crates/core-model/src/ir.rs`, `crates/codegen-slang` | none (pure) | check (structure, cycles, types), lower, emit |
| Shader compilation | `crates/slang-compile` | compile cache | includes, preprocess, compile, push constants to a uniform block, split combined samplers, reflect |
| Presets and export | `crates/preset-io`, `app/src/{import,export}.rs` | files on disk | parse, import, scan references, validate, write a bundle, swap it into place |
| Node library | `core-model/src/library.rs`, `web/src/{library,panels}` | item files, the panel's list | save, list, delete, insert |
| Parameters (webview) | `web/src/parameters/*` | slider values, pending sends | set, reset, reconcile after a recompile, send per animation frame |

### How they interact

```
 user --> panels, File menu, editor, library      (webview: one event loop, awaits between steps)
              |  invoke                                  ^ engine-event, source-position, answers
              v                                          |
          Tauri commands (app) ---- RenderCommand queue  |  mpsc to two forwarder threads
            |         |                 |                |
      user's files  graph compiler   render thread: drain queue, pace pump, render, report
      presets       shader pipeline     |
                                     Renderer (source, ring, twins, passes, uniforms)
```

* The webview never waits for the engine: buttons send a command and change the
  panel at once; the engine reports later, and only what changed since the last
  report.
* The render thread applies *all* queued commands before each frame, so a load, a
  seek and a chain may fall into the same batch.
* File flows of the webview are `async` functions; between two awaits the user may
  edit, start another flow, or close the window. The backend executes their calls
  in order and keeps a copy of the dirty flag for the close veto.
* A document becomes a picture through three stages that each look at names again:
  the graph compiler writes a shader with texture names, the shader pipeline
  rewrites and reflects it, the renderer classifies the names it finds.
* The process may die between any two file operations; only the files survive.

### What is hard here

* **Order of GPU resources** across frames: the feedback pair is swapped before a
  frame is drawn, targets are reallocated when sizes change, the ring is pushed
  when a source advances, mip levels are reduced at some moments and not at
  others; an error shows up only a frame later, in another pass.
* **Walks and tables that must agree**: target sizes and size uniforms; the types
  of checker, lowering and emitter; the bindings chosen in two stages apart; the
  importer's scan and the renderer's classification; export and import; two ways of
  loading a preset.
* **Calls that overtake each other**: the stop of one stream and the start of the
  next, results of one compile and of the next, errors on one path and the results
  that clear them on another.
* **Optimistic panels** over an engine that suppresses repeated reports.
* **Async flows** racing edits, autosave, each other, close requests and crashes.
* **References by number or name** into a document that is regrouped, copied,
  reordered and undone.
* **Files** written, swapped and cleared with a crash or a failure at any step.
* **Rounding** of centred, scaled rectangles in a pane of another size.

The complete list, each item at its line and with the properties that cover it,
is `hazards` in `PROJECT.json`.

### What makes each component correct

* Geometry: the picture stays inside its pane, centred, at its ratio; every pixel
  of it can be inspected, and the probe names the pixel it read.
* Renderer: a pass reads no texture being drawn or still to be drawn this frame;
  feedback is the previous frame, history K the frame K source frames ago; size
  uniform, levels and sampler are those of the texture and of what the pass asked.
* Render thread and panel: history never mixes clips or crosses a seek; a frame
  in the pane shows the loaded clip; playback moves at its rate and keeps moving;
  slider and badge end up showing what the engine does.
* Streams: at most one producer, the one the webview shows, whatever order calls
  arrive in; nothing an older stream still says reaches the badge or the canvas.
* Session: no asker is stranded; work typed is recoverable; recovered work keeps
  its path; saved work is not offered again; close asks when there is something
  to lose.
* Document store: undo and redo move along one line of documents; grouping nodes
  changes no meaning; references resolve, and keep naming what they named.
* Compile loop: what runs in the engine is the newest document that compiles.
* Graph compiler: cycles are found exactly, operands are defined before their use
  at the types the checker found, and the shader declares what it uses.
* Shader compilation: the rewritten stages are accepted and their bindings
  distinct; every member of a uniform block holds its own value.
* Presets: what is exported is read back; a complete bundle exists at every moment;
  file and editor show the same picture.
* User's files: what was saved loads; the library does each request once or not at
  all, and looks at the shelf after the former.

## 2. The modules

| Module | Models | Role |
|---|---|---|
| `Viewport` | `viewport.rs`, sizes of `pass.rs`, composite rectangle | operators |
| `PixelInspector` | source, pane and simulated viewport between frames, the probe, over `Viewport` | component |
| `Renderer` | `renderer.rs` | component |
| `TemporalInputs` | what a shader author may rely on: `docs/retroarch-slang-runtime.md` §§4, 5 | abstract specification |
| `RendererTemporal` | refinement mapping `Renderer` → `TemporalInputs` | composition |
| `Sampling` | mip levels and samplers of `renderer.rs`, over `RendererTemporal` | component |
| `RendererProofs` | theorems about the three | proofs |
| `RenderSource` | `render_source.rs` and `pump.rs` | component |
| `TransportPanel` | `SourcePanel.tsx`, `useEngineEvents.ts`, forwarders of `app/src/preview.rs`, over `RenderSource` | composition |
| `TransportPanelProofs` | theorems about it | proofs |
| `PreviewStreams` | streams, threads and forwarders of `app/src/preview.rs`, and their owner `PreviewCanvas.tsx` | component |
| `LivePreview` | `web/src/compile/*`, over `PreviewStreams` | composition |
| `PreviewProofs` | theorems about it and about `PixelInspector` | proofs |
| `Session` | File flows, prompt, autosave, recovery, dirty mirror, close | component |
| `SessionProofs` | theorems about it | proofs |
| `DocumentHistory` | undo, redo and interactions of `documentStore.ts`, the editors that write live | component |
| `Timeline` | what undo and redo promise the author | abstract specification |
| `GraphDocument` | pass list, nested graphs, collapse, expand, edits at a path, copies | operators |
| `GraphEditing` | the editing actions of `documentStore.ts` over `GraphDocument` | component |
| `GraphEditingProofs` | theorems about both | proofs |
| `GraphCheck` | `core-model/src/ir.rs`, `ir/src/typecheck.rs` | operators |
| `SlangEmitter` | `codegen-slang/src/emit.rs`; overloads of the shading language (external) | operators |
| `Lowering` | `compile_graph`: search for cycles, judgement, order, statements, shader | component |
| `LoweringProofs` | theorems about it and about `ShaderPipeline` | proofs |
| `Loops` | a `for` loop over a sequence | operators |
| `SpirvPasses` | a SPIR-V module; `push_to_ubo.rs`, `split_samplers.rs` | operators |
| `SlangFrontEnd` | `preprocess.rs`; glslang and spirv-opt (external) | operators |
| `PassBindings`, `UniformPacking` | `reflect.rs`, `bindtable.rs`, bind groups; `uniforms.rs` | operators |
| `ShaderPipeline` | `slang-compile/src/lib.rs`, `cache.rs`, a chain of one pass in the renderer | composition |
| `PresetImport`, `PresetExport` | `slangp.rs`, `import.rs`, `params.rs`, `scan.rs`; `validate.rs`, `export.rs` | operators |
| `PresetPreview` | `load_preset` and `load_chain_sources` of `app/src/preview.rs` | operators |
| `PresetFiles` | `import_preset` and `export_preset` over a failing disk | composition |
| `PresetFilesProofs` | theorems about it | proofs |
| `UserStore` | project files, recents, library items and their graphs | operators |
| `Shelf` | what the library promises the panel | abstract specification |
| `UserFiles` | `LibraryPanel.tsx` and the file calls of the session over `UserStore` | composition |
| `StoreProofs` | theorems about `DocumentHistory` and `Timeline`, `UserFiles` and `Shelf` | proofs |
| `MC*` | values of the constants | model checking |

### Viewport, PixelInspector

All arithmetic of the code is on `f32` made from small integers. It is modelled
by exact rationals (`RoundDiv`, pairs of numerator and denominator); for the pixel
counts a screen has, `f32` and exact arithmetic agree but for ties at a half,
where the code's rounding direction (away from zero) is modelled. `PixelInspector`
adds the three commands that change the inputs, in any order, and the frame: a
command changes the geometry at once, the pane shows the last frame until the next
is drawn, and a resized pane is a new, black target. `ProbesAreRight` speaks of
probes with no command since the frame, and of the pixels any pane reaches.

### Renderer

One action per public method that changes state. A pixel is abstracted to its
origin: a target's content is `<<pass, frame counter>>`, or `Black`. A chain is a
sequence of passes whose textures are already classified by name
(`PassBindings` has the classification). Pass indices are 1-based in the model.
`Render` is the whole of `render`: `Rebuilt` is `rebuild_chain` (drop, reallocate,
swap, clear) and `drawn` records what every pass sampled, with the size uniform it
was told. Passes without a target draw into the pane.

`set_chain` clears `drawn`: it is bookkeeping of the model (what the *current*
chain has sampled), not state of the code.

### TemporalInputs and the refinement

The abstract specification knows nothing of rings, twins and swaps. The source's
past is a shift register `lag`, the feedback of a pass is the picture it drew in
the last frame, `Forget` and a change of size make it black. `RendererTemporal`
maps the ring to the register and the *target* of a pass with a live twin to its
previous picture (between frames the last picture is in the target: the swap
comes first in the next frame).

### Sampling

Refines `Renderer`'s actions: each action of `SampledSpec` conjoins the one of
`Renderer` and says what becomes of the settings of the passes, of the levels of
source, targets and lookup textures, and of the sampler every texture is bound
with. What a texture holds above its base level is the picture `generate_mips`
last reduced. The sampler of a pass's *output* is that of the pass after it
(`sampler_after`), and the number of levels of a target follows from what that
pass asks for; `SourceIsSampledAsAsked` says from the consumer's side what should
come of it, `LevelsShowOnePicture` that no level is older than its base.

### RenderSource and TransportPanel

`RenderSource` is the render thread: the queue, one action per command, and
`RenderTick` for a call of `render_into` once the queue is drained: pace the
pump, draw, read back, report. The renderer is reduced to three images (source,
ring, feedback). A source image is `<<clip, index, cut>>` where `cut` numbers the
seeks: bookkeeping that lets a property say "from before the seek". `waited`
counts ticks since the pump last had reason to wait a full period.

`TransportPanel` composes it with the panel and the status badge. The panel is one
tab of the side bar and is unmounted while another tab is shown: `LeaveTab` drops
its state, `OpenTab` mounts it afresh and `Listen` is the moment its event listener
is registered (an awaited call). A report that arrives in between is lost; `mirrored`
records that the open panel has heard the engine's current position, and
`SliderShowsTheFrame` speaks of a panel that has. Channels are
FIFO as `mpsc` and Tauri events are. A read-back that fails after the frame was
drawn is a nondeterministic outcome of a tick.

### PreviewStreams and LivePreview

`PreviewStreams` is one level above `RenderSource`: the life of a stream instead of
the contents of a frame. A stream is its number, in the order the webview made
them. Its thread is `none`, `up` or `ended`; it creates its renderer before its
first frame, and without an adapter ends with an error and two `stopped` events.
What the thread owns is what the next frame is drawn with: since the command queue
is drained before every frame, a command takes effect in the model when it is
queued, and a frame is the chain it was drawn with.

Two paths lead back to the webview, and the model keeps them apart: statuses go
through the forwarder of the stream (`forwards`, then `events`), the last `stopped`
is emitted by the thread itself, past it. Frames of a stream arrive in order; the model
keeps the last one under way, for those before it are painted over in any case. An
event without a stream, which a load outside any stream produces, has stream 0.

`ipc` holds the calls under way. Calls arrive in the order they were made, except
that a `stop` may be overtaken by anything: the effect's cleanup sends it without
awaiting it, and the code (`stop_matching`) expects it to come late.

`LivePreview` adds the compile loop. A document is its version; `kinds` says of each
version what the loop tells apart: a graph that compiles, a graph with a blocking
error, whole-pass code (which awaits no `compile_graph`), and whole-pass code slang
rejects in the backend. `compile_graph` keeps no state, so a pending compile
(`pending`) may end at any time and in any order. `Apply` is the whole handler of a
result: the diagnostics shown, the problems cleared, the chain sent.

Ghost variables: `failed` (versions whose call was rejected) and `sentTo` (the
stream the last chain was meant for); only properties read them.

### Session

Documents are version numbers. A flow (`flows[f]`) is an `async` function between
two awaits; `ipc` is the queue of backend calls, each executed in a later step
that also resumes the flow awaiting it. A crash, or a closed window, keeps the
files and restarts the rest. A save keeps the flow's `path`, the target an Open
Recent goes on to, apart from the path the save writes, which travels with the call.

Ghost variables: `origin` (how the document last changed), `owed` (there are edits
the user neither saved nor agreed to lose), `workingPath` (whose document
`working.json` holds), `botched` (the recovery's two files are as a failed autosave
or a clear that left `meta.json` behind have left them). They are read by properties
only.

Clearing the recovery removes one file after the other (`ExecRemove`, in any order)
and may stop or fail before, between and after them; its callers swallow the failure
and go on (`ExecClear`, `projectActions.ts:90`, `:126`, `:195`, `:230`). An autosave
may fail at either of its two files, which is swallowed too (`ExecAutosaveFails`).
`RecoveryIsRight` promises something again once an autosave has gone through or a
clear has removed `meta.json`; without that precondition it is `EveryOfferIsWhole`,
which fails (section 7).

Assumptions of the model, each from how the code is used:

* `Settled`: the two-second autosave timer does not fire while a backend call is
  under way; the calls take milliseconds.
* Native file dialogs are modal: no input reaches the window meanwhile.
* Under the recovery offer at launch nothing can be edited: a backdrop covers the
  editor, and the fresh document has nothing to undo or paste. The check for a
  recovery answers before the author does anything.
* The start screen's Example and Import (`startActions.ts:69-98`) put a document in
  place of the fresh clean one without asking and without clearing the recovery;
  they are that first document by another name, and no actions.
* `push_recent` is modelled here for its place in the order of awaits, in
  `UserFiles` for its list.
* Writes are atomic (`write_atomic`, which `UserFiles` takes apart), the two
  recovery files are two writes.
* File times have the resolution of the clock: writes have distinct times.

### DocumentHistory and Timeline

A document is its parts and their values: `layout`, which the canvas moves, and
`text`, which a field edits. The three editors that write live (the canvas drag, the
node inspector with its debounce, the whole-pass code editor) each open an interaction,
write, and commit. Discrete edits, saves and loads come at any moment, under a drag or
a typing burst too: an item of the library may arrive late, and nothing keeps keys from
acting while the mouse button is down. Undo and redo come at any moment but while a
field has the focus, where their keys are ignored (`OutsideFields`,
`useEditorShortcuts.ts`). React Flow reports moves by arrow key without a drag around
them (`ApplyNodeChanges` needs none). Only two things are left to the focus: a field is
not typed in while another or the canvas is in an interaction, since the press that
moves the focus there ends it, and a drag begins with no interaction open.

`Timeline` is what the author is promised: the settled documents form one line, the
author stands on it, undo and redo move along it. The mapping puts the undo stack
before the present document and the redo stack, reversed, after it; under an open
interaction the present is its baseline. What the code keeps of that promise when
something comes in the middle is three more steps of `Timeline`: `Overwrite` (undo
under a drag drops where the drag began), `SlipIn` (an edit under a drag is recorded
below it), and `Rewrite` (a move nobody announced). Each alters the entry the author
stands on and no other, which is what `ImplementsTimeline` says and the theorem
proves; that there are none of them is `EntriesAreKept`, which fails (section 7). The
history variable `aside` remembers that such a move, or a save in the middle of an
interaction, has happened, for what a clean document is (`CleanIsAsSaved`).

### GraphDocument and GraphEditing

A document is kept flat: a node has a `home`, the pass or subgraph node whose graph
it is in. `GraphDocument` has the pure operations on it, `GraphEditing` the actions
of the store with their guards, from whichever graph the author has drilled into,
and undo and redo, which change the document under that path (the path is cut to
the part that still resolves).

The meaning of a document is the graph the compiler sees, every subgraph inlined
(`inlineAllSubgraphs`): `Primitives` and `Wires`, defined by following boundary ports
inwards, not by the store's expansion. `RegroupingKeepsTheMeaning` compares it before and after.

`DocumentOK` says when a document is whole: nodes are in the graph of a pass or of a
subgraph node, none is inside itself, edges stay in one graph and are at ports that are
offered, boundary ports stand for ports that are there, and only an index may lead
nowhere. `TypeOK` asks it of the document and of every snapshot that undo or redo may
bring back. What the author may be looking at, and that every edge resolves when the
subgraphs are inlined, are the other parts of `ReferencesResolve`.

### GraphCheck, SlangEmitter, Lowering

`Lowering` is `compile_graph`. The two depth-first searches are taken a step at a
time, with the explicit stacks of the code; what does not depend on their order is
one action (`Judge` is the rest of `check`, `EmitNode` lowers one node, `Write` is
the emitter). Identifiers are the tuples of their parts, literals are numbers; the
fields of the push constants are in the scope of `params`, all other identifiers of
the fragment stage in one, as in the emitted text: the author's name of a look-up
texture (`NameOf`) is written as it is (`emit.rs:126-138`), and `SanitizeIdent` may make
one identifier of two node ids (`emit.rs:380-387`). `ShaderDeclaresWhatItReads` is
about passes whose names are apart (`NamesAreApart`), which nothing in the code sees to;
without that condition it is `EveryNameIsDeclaredOnce`, which fails (section 7). What a
statement declares and reads is kept, its text is not.

Reference definitions stand beside the algorithms: a node is on a cycle when it
reaches itself over the edges the checker keeps; a node is needed when the Output
reaches it; and `GlslAccepts` gives, from the language and not from this code,
the overloads of each operator. `EmittedCodeCompiles` demands an overload of the
operators the checker is strict about. What the types of the code guarantee of any
graph that reaches `compile_graph`, however it is wired, is `IsIrGraph`: `Graphs` may
be any set of such graphs.

### The shader pipeline

`SpirvPasses` reduces a SPIR-V module to what the two rewrites and the reflection read:
global instructions in order, decorations, basic blocks, names and members.
`SlangFrontEnd` has the include inlining and the split into stages and, external, what
glslang emits for a stage, so far as the passes rely on it (a sampler argument is loaded before later arguments are evaluated, so a call
may land in a later block than its load), and what spirv-opt's inlining does.
`SpirvPasses` are the rewrites, an operator per function of the code, with their
refusals. `ShaderPipeline` composes them: a request goes through include,
preprocess, compile, and the rewrite of each stage (a step each, for a failure ends
it at any of them), then the pass is built and frames are drawn while parameters
move. Include files change on disk between requests.

`Loops!Loop` is the shape of `for x in seq { ... }`: a function from how many elements
were taken to the state after them. It goes through a singleton so that the checker
computes each state once.

### Presets and export

A preset is its lines: keys and values already split, quoting kept, for comments
end unquoted values. `PresetImport` reads them, makes a project of them and says which references of a shader will be there, `PresetExport` writes a project
as files, `PresetPreview` sends it to the engine. `PresetFiles` puts them on a disk:
an export is a sequence of jobs (clear the staging directory, create, write, remove
the old bundle, rename), each of which may fail, with the process dying between any
two; an interrupted export leaves its staging directory to the next.
`SanitizeStem`, the replacement of unsafe characters in a file name, is a constant.

Imports come before exports in a behaviour; a bundle is read back by the property,
not by the user.

### UserStore, UserFiles, Shelf

A disk maps paths to contents, and what is being written is `Torn` until all of it
is there. A command of the backend is the list of its remaining steps on the disk
and its answer. The main thread runs one command at a time. There are three
`Callers`: the panel while it is busy, that is a save or a deletion and the listing
it then awaits; the panel's other listings, of its mount and of the Refresh button,
which do not make it busy, so that a save, a deletion or an insertion may come
while one is under way; and the session, which waits for each of its calls. A
step may fail, a listing at the directory or an entry of it, a load at the file; the
process may end between two steps, and a project's file may be removed by others.

The panel has one text for every failure (it prints the error as an object), whether
a save failed or the listing after a save that was done: `error` is `"none"` or
`"failed"`. `Shelf` is what the library promises nevertheless: a save or a delete
takes effect once or not at all, nothing else moves an item (`Look`, `Seen` and `Tell`
are listings, `Tell` one that fails while something else is asked for), and the panel
goes on to look at the shelf exactly when it was done (`Confirm`, else `Refuse`). The
mapping finds the items the way `list_items` does, so that leftovers of an
interrupted write must not show; what lies in the directory when the application
starts (earlier items, files that are none) is a constant. The id of a new item is
any that is free, as a random one is.

Ids of nodes are numbers; `minted` is the counter of `nextId`, which a relaunch
restarts while documents on disk keep the ids they have. A member of `Graphs` is a
document made in the session with the counter after it was made; `loaded` remembers
whether one from the disk has taken its place.

## 3. Plan

Done, in this order: `Viewport`; `Renderer`; `TemporalInputs`, `RendererTemporal`;
their proofs; `RenderSource`, `TransportPanel`; `Session` (both since proved about); `PreviewStreams`,
`LivePreview` and a proof; `DocumentHistory`, `Timeline` and their proofs; `GraphDocument`,
`GraphEditing`; `GraphCheck` to `Lowering`; the shader pipeline; presets and export;
`UserStore`, `UserFiles`, `Shelf`; `PixelInspector`; `Sampling`; proofs of the
session, the panel, the streams, the inspector, the textures, the library, the
editor's document, the graph compiler and export.

Left:

1. The webview side of live parameters, over `LivePreview`: sliders, the sender per
   animation frame and what its cancellation drops, reconcile after a recompile.
2. `graphToIr` and `portTypeChecking` of the webview against `GraphCheck`.
3. The hover state of the inspector (a probe dropped while one is under way, an
   answer after the pointer has left).
4. Proofs: `ShaderDeclaresWhatItReads` (over `IInv` of `LoweringProofs`); the shader
   pipeline.

Runs are kept to a dozen so that all of them are run on every change, and the
invariants of one question are conjuncts of one property, named in its module.

## 4. The runs

| Run | Constants | Checks |
|---|---|---|
| `pane_geometry` | outputs of 0–5 px, panes of 0–7 px, images of 1–6 px, one command between frames | `PlacementIsRight`, `ProbesAreRight` |
| `renderer` | two images, two pane sizes, one simulated viewport, four chains and the empty one, frame counter modulo 3 | causality, sizes, levels and samplers, `PastIsKept`, the final target, the refinement |
| `transport` | a still and a three-frame clip, rates 60 and 24, ring of two, six user actions, one report of each kind in flight | `PastFollowsTheSource`, `PanelFollowsTheEngine`, `PlaybackIsPaced`, `PlayingMoves` |
| `session` | two project files, two flows, two versions, three writes, two calls in flight when the user acts | prompts, `RecoveryIsRight`, veto |
| `preview_streams` | two starts, one version of the document of any kind, one event in flight | backend and webview agree, one producer, badge and canvas |
| `compile_loop` | one start, three versions, one event in flight | latest wins, the busy flag, the canvas catches up |
| `history` | two values for each part, an undo limit of three | the limit, `EditsAreAccountedFor`, the timeline |
| `editing` | three documents to start from, six node ids, two edits and any undo, subgraphs two deep | references, meaning, the rest of the document, pass numbers |
| `lowering` | 659 graphs, each with two sets of declared resources | cycles and termination, `LoweringIsSound`, `EmittedCodeCompiles` |
| `shaders` | blocks and up to three textures in two orders, two contents of the includes, two requests, two frames | `RewrittenStagesAreBound`, `AnswersAreOfTheCurrentText`, `MembersHoldTheirValues` |
| `presets` | presets of up to three passes over shaders of two directories, one edit, two exports | the round trip, the swap, the explanations, the preview |
| `user_files` | three item names, one of them taken, three project paths, three commands, one mishap | `SessionFilesHold`, the shelf, `CopiesAreNew` |

A property of a run names its conjuncts in its module: `PlacementIsRight`, for
instance, is `ContentFitsCentered`, `LargestIntegerMultiple`, `AspectRatioKept` and
`CompositeInsidePane`.

Why the bounds are enough:

* *Geometry.* Rounding depends on quotients of small numbers: every rounding
  direction, odd and even bars, images larger than the output and the zero sizes
  occur. Larger numbers repeat these cases. One command (`MaxPending`) is enough to
  part geometry and picture.
* *Renderer.* The four chains use every texture class, by index and by alias,
  feedback by preset flag, by index and by alias, feedback of the last pass, a
  read of a later pass, duplicate aliases and history two deep; mips of the
  source, of a target with feedback and of a lookup texture. A ring of two
  shows push, shift and trim; three values of the counter tell apart this frame,
  the last and the one before. The unbounded case is proved (section 6).
* *Transport.* Three frames tell next, previous and wrap-around apart; six
  actions allow load, play, seek, load, chain in one batch, and leaving and opening
  the tab around two of them. Reports are bounded
  in flight, not in number: a forwarder is never more than one behind in the model.
* *Preview streams.* Two starts are what a late stop needs: the stop of the first
  arrives before, between and after the calls of the second, and the first thread
  ends at any point of the second's life. That no number of starts breaks the
  agreement of backend and webview is proved (section 6). The document has one
  version there, sent to either stream.
* *Compile loop.* With three versions a result can be overtaken twice, a rejected
  call can be the latest or not, and an edit can fall before the timer, while the
  compile runs and after it; every kind follows every kind.
  `CHECK_DEADLOCK FALSE` in both: a stopped preview with no edits left rests.
* *Session.* Two flows can ask at the same time; two versions allow an edit to
  race the save of the one before; two files allow one document's recovery to lie
  beside another's; three writes allow autosave, save, autosave. Flows and
  files are symmetric. `CHECK_DEADLOCK FALSE`: with all versions and writes used
  up nothing has to happen.
* *History.* Undo at the limit, redo, and one entry more need a limit of two; with
  three there is room for a typing burst in between.
* *Editing.* Between two edits lies any number of steps in, out, undo and redo. The
  starting documents have what a longer behaviour would have to build first: three
  passes with a sampler, a collapsed group, a group inside a group. One pass more
  than two tells moving apart from removing. `CHECK_DEADLOCK FALSE`: the edits
  (`MaxEdits`) and the ids (`NodeIds`) run out.
* *Lowering.* Names meet in each of the ways they can: a texture with a sampler, with
  another pass's output and with a temporary, a parameter with a builtin, two snippets,
  and a snippet with a port of another. Operators meet every pair of types (a triple of four types for those
  with three operands); the wiring graphs contain self-loops, cycles through one
  and two nodes, cycles the Output does not reach, double outputs and dangling
  ends. What a node does depends on its inputs only, so longer chains repeat the
  cases. `CHECK_DEADLOCK FALSE`: a compile ends.
* *Shaders.* A rewrite looks at one declaration or one call at a time and at the
  bindings taken; two textures and two blocks collide in every way two can. The
  second request is for the shader asked for before, through the cache (`Again`). The
  texts of some shaders have the same hash whatever their includes hold (`MCHash`), those
  of the others one each. A spirv-opt that is there may fail at either stage.
* *Presets.* A name can collide with one other, a key can lack its pass, and an
  export can replace a bundle or meet the leftovers of one; that takes two exports
  and an edit between import and export.
* *User files.* Three commands asked for are a save, a deletion and a listing beside
  them, or as many of the session's; the listings after them and the recording of a
  project come on their own. One mishap between any two steps, or in a listing, is the
  case the code is written for, after which all commands go on. `MaxIds` allows two
  insertions of a group of two nodes, one of the nested one and another after a
  relaunch. `MAX_RECENTS` is two, so that a third
  project pushes one out. 1,736,226 states.

Bounds in guards: `MaxPending` (PixelInspector), `MaxSends`, `MaxInFlight`
(TransportPanel), `MaxStarts`, `MaxInFlight` (PreviewStreams: an event is emitted
when the webview is at most that far behind), `MaxVersions` (LivePreview),
`MaxVersions`, `MaxWrites`, `MaxCalls`, and the size of `Slots` (Session),
`MaxEdits`, `MaxPath` and the size of `NodeIds` (GraphEditing), `MaxRequests`,
`MaxFrames` (ShaderPipeline), `MaxEdits`, `MaxExports` (PresetFiles), `MaxPosts`,
`MaxMishaps`, `MaxIds` (UserFiles). `Ticks` is the wrap of the frame counter, 2^32
in the code.

Every property of a run has a mutant (operators marked as mutants beside
the definition they change): a plausible slip in the code for which TLC finds the
property violated under the same configuration.

## 5. Fairness

Nothing is assumed of the user anywhere: nobody has to edit, play, start or stop.

* `TransportPanel`: weak fairness of the render thread and of the two forwarders;
  the frame loop runs until the stream is stopped, the forwarders block on their
  channel. `PlayingMoves`: once a clip plays and is left to play, its position
  changes again and again. The bound on user actions matters here: the code too
  would not move a clip while somebody presses Play faster than the frame period.
* `PreviewStreams`: weak fairness of every thread and forwarder, of the delivery of
  events and frames to the webview's event loop, and of the execution of calls. A
  stop may be overtaken by calls under way, and those are finitely many; so it is
  executed in the end.
* `LivePreview`: in addition the debounce timer fires, unless edits keep replacing
  it, and a compile call ends, with a result or a rejection.
* `Lowering`: weak fairness of `Next`. `compile_graph` is one synchronous function;
  it goes on until it returns. `EveryGraphIsAnswered` is its termination.

With these `SupersededThreadsEnd`, `CompilingEnds` and `PreviewCatchesUp` hold. The
last speaks of versions that compile, whose call did not fail, and of the stream
the chain was sent to: the other cases are disagreements (section 7) or error
messages.

The other modules state no fairness: a disk command may be the last step of a
process, an author may stop at any time.

## 6. Proofs

Assumptions: `FramesAssumption` (`Black` and `NoFrame` are no source images),
`TicksAssumption` (the counter has a value), `ChainsAssumption` (chains are
sequences of passes whose textures are of the known classes), `SettingsAssumption`,
and those of `Viewport`; for the inspector `DimsAssumption` (sides are natural
numbers, those of an image positive); for the history `LimitAssumption` (a positive number); for the session `PathsAssumption` and `BoundsAssumption` (the
values that stand for none are none, the bounds are natural numbers); for the panel
those of `RenderSource` (`ClipsAssumption`: a clip has a frame; `RatesAssumption`:
rates are positive; `DepthAssumption`; `MarksAssumption`: the marks for "nothing yet"
are no image and no position) and the bounds. Nothing is assumed of sizes, of the
number of passes, of viewports or of which textures a pass reads.

* `TypeCorrect` (`RendererProofs`): `Spec => []TypeOK`. Beyond types it says that
  the ring never holds more than the chain looks back, and that a feedback pair,
  once allocated, has one geometry. It is inductive as it stands. The lemmas do
  the work: `PushKeepsTheRing` (push and trim), `RefreshKeepsPairs`
  (reallocate-or-swap leaves both halves live and of the same size),
  `DrawKeepsShape`, `BuiltPassShape` (a pass that is a feedback target owns one),
  `AliasesNamePasses`.
* `PassesAreCausal`: `Spec => []NoPassSamplesItsTarget`. From `TypeOK` and the
  lemma `ResolvedTexturesAreCausal`: whatever a class resolves to while pass *i*
  is drawn, if it is a target then of an earlier pass, holding this frame. The
  guard `n < i` of `resolve_texture` is what makes it true for every chain.
* `PastIsAlwaysKept`: `Spec => []PastIsKept`. The
  strengthening the refinement needs: every pass whose feedback is sampled, by
  index or alias, is double-buffered, and the ring is as deep as the deepest read.
* `RendererImplementsTemporalInputs`: `Spec => Temporal!Spec`. The initial state
  maps to an initial state; under `TypeOK` and `PastIsKept`, `SetSource` maps to
  `Load`, `AdvanceSource` to `Advance`, `SetChain` to `Rebuild`, `ResetFeedback`
  to `Forget`, `Render` to `Draw`, every other action to a stutter. The heart is
  `Render`: after the swap the twin holds what the target held, unless a size
  changed, which is exactly when the abstract `Draw` forgets.

* `SizesDescribed` and `FinalTargetAccounted`: `Spec => []SizeUniformsDescribeTextures`
  and `Spec => FinalTargetIsAccountedFor`. `TargetsAreOwned` is what `TypeOK` does not
  say: every pass but the last owns its target, the last exactly when its scale or its
  feedback forces one, and only a feedback target has a twin. With it `RebuiltPasses`
  says which passes have a target in this frame, `ResolvedTo` lists what a class may
  resolve to, and `UniformIsTheSize` compares, class by class, the size the uniform
  walk reports with the size of that texture.
* `TexturesDescribed`: `SampledSpec => []TexturesAreAsDescribed`. Every step of
  `SampledSpec` is a step of `Spec`, so the invariants above hold. `LevelsAreKept` is
  the invariant of the levels (checked on the run's instance before it was proved):
  those of a target are one unless the next pass asks for more, else as many as its
  size has, and of the picture in the target. `RefreshedLevelsFit` and
  `DrawnLevelsFit` carry it through the swap, the reallocation and the drawing;
  `FboShown`, `TwinShown`, `SourceShown` and `LutShown` read off it what a sampler
  reaches. The twin of the last pass is the point where it is needed: the sampler
  bound to it has the last pass's own settings and may ask for levels that nobody
  generates, but there is only one. `SettingsAssumption` says that a chain has
  settings for each of its passes.

The theorems before the last are of `Renderer`'s `Spec`. The run checks the same
properties under `SampledSpec`, which only adds variables: every action of it is an
action of `Renderer` with a conjunct about the new ones.

* `PlacementRight` and `ProbesRight` (`PreviewProofs`):
  `InspectorSpec => []PlacementIsRight` and `[]ProbesAreRight`, for sizes of every
  magnitude.
  `GeometryCorrect` says that no side is ever zero; the rest is arithmetic. Rounding
  and whole-number division are pinned down by their bounds (`Quotient`,
  `OnlyQuotient`, `Rounded`); from these follow the parity of the two bars
  (`Centered`), the largest multiple (`LargestMultiple`), the half pixel of the ratio
  (`Scaled`, `RatioKept`), and, along one axis, that consecutive pane pixels hit
  consecutive image pixels, none left out, and hit what is blended there
  (`UnderInOrder`, `EveryPixelIsUnder`, `MappedIsUnder`). The numbers are the exact
  rationals of the model: rounding in `f32`, where the code uses it, is outside.

* `LateStopsAreHarmless` (`PreviewProofs`): `Spec => []BackendFollowsTheWebview`,
  for any number of starts, versions and events in flight (`StreamBounds`,
  `VersionsAssumption`: the bounds are positive numbers). The property speaks of an
  empty queue and is far from inductive. `QueueInv` says what the calls under way
  will do: starts are of streams that were made, and the last start under way is of
  the last stream (`LastIsQueued`, `LastIsLast`); a stop of the last stream is under
  way behind its start, at most once (`StopsFollow`, `StopsOnce`), and exactly when
  the webview stopped it (`StopIsOwed`); and as soon as no start is under way, the
  backend has the last stream unless its stop was executed (`LastIsActive`). That a
  stop compares ids is what carries the step: a stop of an older stream changes
  nothing, whenever it comes. The queue lemmas are about sequences, without
  primes: a call leaves from among the first (`LeavesOrdered`, `LeavesBehind`,
  `StopsAlone`) or joins at the end (`OtherJoins`, `StartJoins`, `StopJoins`); each
  action of `Next` then is one of these or leaves the queue alone (`QueueStep`).

* `LatestWins` (`PreviewProofs`): `Spec => OnlyTheLatestWins`. `LatestInv` puts the
  calls under way in order: documents are queued in the order they were shown
  (`ChainsGrow`), none is newer than what is shown or older than what a stream
  renders (`ChainsFollow`); the built-in shader of a new stream comes behind its start
  and before any document (`ShaderFollowsStart`, `ShaderComesFirst`), so that it
  replaces none (`ShaderFindsNone`); a stream is started once, afresh
  (`StartsOnce`, `StartsAfresh`). `VersionsInOrder` is the debounce and the sequence
  check: a timer holds the newest version, what is shown is not newer than what was
  dispatched. That a stop may overtake costs nothing (`LeavesInOrder`): before a call
  that is executed there are only stops.
* `CurrentStreamShown`: `Spec => ShowsTheCurrentStream`. `BadgeWillTell` follows the
  last report of the canvas's stream: it is the last its forwarder holds, then the last
  of that stream among the events, then what the badge shows. Events of other streams
  join and leave in between (`WordJoins`, `WordArrives`); the `stopped` of a thread
  that ends goes past its forwarder, but then the stream no longer renders. Of the
  canvas, `QueueInv` says that the stream it takes frames of is the current one.

* `AskersOnScreen`, `VetoFollows` and `RecoveryRight` (`SessionProofs`):
  `Spec => []EveryAskerIsOnScreen`, `[]VetoFollowsTheStore`, `[]RecoveryIsRight`, for
  any number of flows, files, versions, writes and calls in flight. `FlowsOK` is
  the invariant of the first two: every call under way is awaited by the flow that
  made it, at the step where it waits (`Awaiting`), one call per flow (`Once`),
  an autosave is the first call (`First`, from `Settled`), and the last call about
  the flag, or the mirror itself, is the flag (`Mirrored`). `RecoveryInv` says what
  the recovery files hold between any two calls, which is where a crash comes:
  after the timer they hold the document, or will, and no clear comes behind
  (`RestIsSaved`); the metadata is written by the call after the document's
  (`MetaComesNext`); what would be offered names its own path, and the session's
  unless it is about to be cleared (`AutosaveIsOurs`, `MetaIsOurs`); and what
  would be offered for the file of a clean session is work the author gave up,
  not work that was saved (`SavedIsOlder`). All of it is said of files that are not
  `botched`, and `RecoveryIsRight` with it; that the next autosave, or a clear that
  removes the metadata, makes them whole again is part of the proof. The proof sorts the actions by what
  they do: steps of the webview (`WebStep`) keep the files and change the queue in
  one of five ways, each command of the backend has a lemma, a relaunch starts
  over from the files. The attempt showed that a save inside an Open Recent lost
  the path the flow goes on to in the model; `Saving` now keeps it, as the closure
  of `openRecent` does.

* `PastFollows`, `PanelFollows` and `PlaybackPaced` (`TransportPanelProofs`):
  `Spec => []PastFollowsTheSource`, `[]PanelFollowsTheEngine` and `PlaybackIsPaced`,
  for clips of any length, any rates, any depth of the ring, and any number of
  commands, reports and status events under way. For the past, `Moved` is kept by
  each kind of move (`HoldMoves`, `PrimeMoves`, `SeekMoves`, `AdvanceMoves`): the
  frames of the ring are numbered backwards from the frame on screen, around the end
  of the clip, and are of its stretch. One frame on, every frame is one further back
  (`OneFurtherBack`), which is arithmetic modulo the length. For the panel, the
  properties speak of empty queues and are not inductive; `LastReportTells` and
  `PanelWillShow` say what reaches it: the last report under way is the position of
  the pump, and with none under way the slider shows it, or the seek that moved the
  slider is still queued and will be applied as shown. `LastStatusComes` says the
  same of the badge. For the pace, `accum <= waited` relates the accumulator of the
  code to the ticks since the last advance: a window that was refilled or
  restarted never holds more than was waited for.

* `LimitIsShared` (`StoreProofs`): `HistorySpec => []StacksShareTheLimit`, for
  every limit. With `TypeOK` it is inductive:
  `pushPast` caps and clears the redo stack, undo and redo move one entry.
* `EditsAreRecorded`: `HistorySpec => []EditsAreAccountedFor`, with edits, undo and redo
  under a drag. What has to be added is `CleanWorkBeganSaved`: while an interaction is
  open on a clean document its baseline is the file, or one that returns to its start
  would leave a changed document clean.
* `HistoryIsATimeline`: `HistorySpec => ImplementsTimeline`, with no assumption but the
  limit. `Lay(past, present, future)` is the line.
  `PushIsRecent` says that what `pushPast` keeps is what the abstract line keeps,
  although one caps the stack and the other the line; `SameLine` that moving an
  entry between the stacks leaves the line alone; `PresentReplaced` and
  `BehindThePresent` that another present changes the line in one place. A commit is
  `Settle`, `Drop` or a stutter, the inspector's commit `Settle`, `SettleThenEdit` or
  `Drop`, typing and dragging `Work`, an edit, undo or redo with an interaction open
  `SlipIn` or `Overwrite`, and a move without one `Rewrite`.

* `LibraryRefines`, `SavedProjectsAlwaysLoad`, `SessionFilesAlwaysHold` and
  `CopiesAreAlwaysNew` (`StoreProofs`): `Spec => LibraryImplementsShelf`,
  `Spec => []SavedProjectsLoad`, `Spec => []SessionFilesHold` and
  `Spec => CopiesAreNew`, for any items,
  projects, graphs, commands, failures and ends of the process (`StoreAssumption`;
  `FilesAssumption`: an item in the directory at first lies under its own name, and
  what lies there is neither a project nor the recent list; the items and project
  files there at first, and the graphs of the first session, are whole, which for
  files the application wrote is what it writes, while files edited by hand are not
  modelled).
  `FilesInv` says of the command that runs how far it is (`UnderWay`: a
  file is being replaced, and only after the rename the answer may be a success;
  `Deleting`, `WritingRecents`), of what the panel shows or asks for that its file is
  whole or gone (`Known`), and of a project that was saved that its file is a whole
  document that may be found there (`SavedOK`). The lemmas about single steps on a
  disk (`StepDoes`, `RenameMoves`, `ReplacementGoesOn`) speak of disks, not of states:
  a step touches the files of one path, temporary files are items' files never
  (`ItemPathsAreItemFiles`), so that the shelf changes at the rename or the removal
  and at no other step (`ItemPlaced`, `ItemRemoved`, `ElsewhereMoves`). The last step of
  a save maps to `Save`, that of a deletion to `Delete`; an answer to `Confirm` or
  `Refuse`, to `Seen` if it is that of the listing after them, to `Tell` or a stutter if
  it is that of another; the Refresh button to `Look`, a new start to `Restart`, what the
  panel asks to `Ask`, everything else to a stutter. `CommandsAreAwaited` tells whose
  command runs: the panel's, while it is busy, and that of its other listing are
  under way at the same time, and run one after the other. A `Known` item is what makes a deletion the shelf's: a file that is torn is
  on the disk and not on the shelf, and could be deleted without a trace.

  The other half of `SessionFilesHold` is the order of the recent list. `RecentsInv`
  (checked on the run's instance before it was proved) says that the
  file, whole or torn, reads as a list in the order of the turns (`InOrder`), and what
  a command on its way will write: `load_recents` a list in order, `push_recent` one
  that is in order but for its first (`LedBy`), which the write makes the latest
  (`TurnTaken`). A torn file reads as empty, which is in order. That nobody else
  writes the file between the reading at `Begin` and the write is what one command at
  a time gives. Filtering (`Among`) keeps the order: `AmongKeepsOrder` says of the
  filter of every prefix that it is in order and of entries of that prefix, and takes
  the least prefix of which that fails (`LeastNumber`) where induction would need an
  operator as a parameter. `Among` is a recursive function for that reason, where
  `SelectSeq` would do to check it.

  `CopiesAreNew` needs that a wire of an item ends in a node of the item: a copy renames
  ends through the map of its nodes, and an end that is in no map stays what it
  was, which may be a node of the document. `WholeInv` (checked on the run's instance)
  says it of everything an item can come from and go through: the files and what is
  being written to them, answers under way, the panel's list, the open graph, what was
  asked to be saved (`SelectionIsWhole`: a selection keeps the wires between its nodes,
  and its ports are of its nodes). An id of a copy is above the counter and below the
  copy's own (`NewIds`, `IdsCounted`), and there is one for each (`NewIdsDiffer`). That
  no node of the document or of a subgraph one level down has an id above the counter
  holds of a document made in the session (`MadeHere`): an insertion keeps it
  (`MadeHereStays`), since what a copy adds at these levels are ids it minted, and a
  load ends it. Deeper levels are not in `AllIds`; they keep their ids, and the property
  is not true of them (section 7).

* `EverythingResolves` (`GraphEditingProofs`): `Spec => []ReferencesResolve`, for
  documents of any size and nesting, any passes, any number of edits, undone and redone
  (`IdsAssumption`: the ids are finite, those of nodes and passes differ, and `None` is
  none of them and no number; `ProjectsAssumption`: the documents a session starts from
  are whole). `IInv` (checked on the run's instance before it was proved) says that the
  document and every snapshot are whole and that the path opens: each node on it is a
  subgraph node in the graph before it. Most edits do not keep a document whole. An
  edit of the graph of *s* can take away what boundary ports of *s*, and of no other
  node, stand for: `Half(d, s)`. Each edit has a lemma that it makes a half-whole
  document at worst (`RemoveNodesKeeps`, `CollapseKeeps`, `ExpandKeeps`,
  `DuplicateKeeps`, ...). `ReconcileMovesUp` is the heart: pruning the ports of *s*
  that lead nowhere, and the edges at them, makes *s* whole, but takes ports away from *s*
  which boundary ports of the node around it may stand for. So the fault moves
  outwards, and `ReplaceGraphMends` follows it along the whole path to the graph of the
  pass, which has no boundary. That the path is still one after the edit is a lemma of its
  own (`PathIsNotInside`: nothing that is deleted holds the open graph). Pass operations
  keep the document whole (`RemovePassKeeps`, ...). For the edges, `InwardArrives` says
  that following a boundary port goes one node deeper and `EndsArePrimitive` that this
  comes to an end within as many steps as there are nodes, because no node is inside
  itself: the set of the nodes visited would else be one in which each has its home.
  The recursive functions (`ReplaceGraph`, `Resolve`) and the choice of distinct ids are
  handled by the least number at which a claim fails (`LeastNumber`, from
  well-foundedness).
* `ReferencesFollow`: `Spec => PassReferencesFollow`. `Renumbering` says what
  `applyPermutation` makes of an index when passes stay distinct; `RemovedAt` and
  `InsertedAt` what removing and inserting do to a list. The attempt showed that the
  property was false beyond the bounds of the run: a sampler that is brought out of a
  subgraph by expanding it keeps a number which may be beyond the list, and takes up the
  next pass that is added (four edits are needed; the run makes two). The property now
  speaks of the samplers that name a pass.
* `GroupingIsPresentation` and `EditsAreExact` (`GraphEditingProofs`):
  `Spec => RegroupingKeepsTheMeaning` and `Spec => EditsKeepTheRest`, under the same
  assumptions. Both compare a document, with all its subgraphs inlined, before and
  after an edit. Where an end of an edge arrives is what two equations say: a port of a
  primitive is its own end, a port of a subgraph node ends where its boundary port does
  (`EndUnfolds`); and as the nesting is well-founded (`ResolutionStops`), anything that
  satisfies these equations is the end (`EndIsUnique`). So no proof follows the
  recursion twice: it gives, for each end of the document before, where it is in the
  document after, and shows that the equations hold there. `Tame` is what a document
  has to be for this; the graphs that `replaceGraph` has not written back yet are.
  Collapsing and expanding are one relation read in two directions (`Grouped`,
  `GroupsMeanTheSame`): a boundary port and an outer edge on one side, a direct edge on
  the other. What copying does is another (`Copied`, `CopiesArriveAlike`). Writing back
  cuts no wire, because a boundary port that is pruned led nowhere
  (`ReconcileCutsNothing`, `ReplaceGraphCutsNothing`).

  The attempt changed the model. `RemovalCutsOnlyItsWires` was false beyond the bounds
  of the run: where two boundary ports stand for one input, two edges stand for the
  same wire, and removing one of them cuts none; it says "at most one" now. And
  `DrawnOK` became part of what a whole document is, as the editor keeps it so: no edge
  leads from a node to itself (`addEdge`, `documentStore.ts`), and the boundary ports of
  a node differ by name (`uniquePortName`, `collapse.ts`).

* `LoweringIsSoundAlways` and `CyclesAreFoundAlways` (`LoweringProofs`):
  `Spec => []LoweringIsSound`, and that from the verdict on `CyclesAreFound` holds, for
  any set of graphs of any size and any wiring, with missing nodes, doubled ids and
  wires and self-loops among them (`GraphsAssumption`: nodes, edges and operations have
  the fields `ir.rs` gives them). `IInv` has a part for each stage.

  `SearchInv` is depth-first search: the stack is a path of distinct nodes, each the
  child its predecessor looked at last (`IsPath`); what a frame has looked at is
  finished or is the frame above it (`Settled`); and while no cycle was reported, a
  finished node leads only to nodes finished before it (`Closed`). `AdvanceKeeps`,
  `PushKeeps` and `PopKeeps` say what the three moves do to a stack, of any successor
  lists, so that both searches use them. A child on the stack is on a cycle, because
  the path from it to the top is no longer than the graph has nodes (`BackEdgeLoops`,
  `ReachPath`); without one, at the end, no node reaches itself, because whatever it
  reaches was finished before it (`SearchFindsCycles`, `ReachClosed`).

  `VerdictInv` makes of an empty list of diagnostics what the lowering relies on
  (`CleanGraph`): one Output, every id and every input once, every wire at ports that
  are there, operands that agree. `OrderInv` is the second search, along wires
  backwards; `DepIsNew`, from the order of `finished`, shows that it meets no node of
  its own stack, so that no dependency is passed over.

  `EmitInv` says of every statement that it is of an output port of a node that was
  lowered and reads the temporaries of the ports that feed it, which are earlier
  (`StmtIn`), of every node that was lowered that its ports have statements, and of
  what is still to come that each node finds its dependencies before it. The types
  are the hard part: `Inferred` recurs along the wires, and a recursive function is what
  it is defined to be only if some function satisfies the definition. `InferenceEnds`
  builds it by the rank of a node in `finished`, taking the least rank below which
  there is none (`LeastNumber`); only with `SearchFindsCycles` is that possible, as
  `check` notes where it skips inference for a cyclic graph. Then `ExprAgrees` compares
  the two tables of result types, checker's and lowering's, operation by operation,
  with the operand rules as hypotheses (`OperandsOk` is what makes the widest type of
  the one the widest of the other), and `WriteKeeps` that the colour is found: `noOutput`
  is never reached.

  The attempts changed the model. `LoweringIsSound` was false of some graphs outside the
  run: what is computed from MVP has no type the checker knows, and of two outputs of a
  snippet with one name the checker takes the first and lowering the last (section 7).
  `Untyped` and `OutputsAreNamedApart` say so now, and the run has such graphs.

* `SomeBundleAlwaysSurvives` (`PresetFilesProofs`): `Spec => []SomeBundleSurvives`, for
  any disk, presets, destinations, edits and number of exports, whichever write or
  removal fails and wherever the process ends (`DestsAssumption`: a destination is not
  itself in a directory an export builds in, which `staging_dir_for` names by adding
  `.tmp-bundle`; `DisksAssumption`: paths, lines and values are sequences, a value not
  empty). `IInv` (checked on the run's instance before it was proved) has a part for each
  phase. While files are written, the destination is as it was, and every file of the
  bundle is beside it or still among the jobs (`WritingOK`); so when none is left,
  all are (`ClearingOK`), and the destination may go. At rest, one of the three disjuncts
  of the property holds (`RestOK`). `StagingIsApart` says that no path is in both
  directories: what is written beside the destination leaves it alone (`SameDirectory`),
  what is taken from it leaves the new bundle alone, and clearing what an interrupted
  export left takes nothing of either. `OutOfStaging` is the rename. That the property
  names the files of a bundle by what `write_bundle` would write elsewhere needs
  `BundleOfProject`, and this that the passes and textures of an imported project are
  sequences (`ImportMakesProject`): the loop over the textures keys yields one
  (`TexturesAreListed`), as every loop that keeps to a set has a result in it (`LoopRuns`,
  `LoopKeeps`, by the least step at which it would not).

  The attempt changed no behaviour of the model; it replaced its recursive operators
  (`Loop`, `ResolveIncludes`, `EmitGlobal`, `ContainsSampledImage`) by recursive functions,
  with the same states in every run.

* `PresetsArePreviewed` (`PresetFilesProofs`): `Spec => []PreviewTakesThePreset`, for any
  files on the disk. That a load forgets the preset before it rests on the order of its
  commands: the textures, replaced even by none, then the chain, then the overrides when
  there are any, for a chain resets the parameters but keeps the textures (`LoadForgets`,
  `LoadAfterLoad`; `CommandsRun` gives the intermediate engines). That the editor's
  import previews the same passes compares two computations field by field
  (`SameScale`, `SamePass`): a key has at most one value (`KeysAreOptions`), whether a
  pass has a scale at all is asked of its keys on one side and of its settings on the
  other, and the importer's truncation of an absolute size is the only difference, which
  `WholeSizes` excludes. The proof reads that condition as it is meant, truncation changes
  nothing (`Trunc(factor) = factor`), where the model had a parity.

* `ScansAreRight` (`PresetFilesProofs`): `Spec => []ReferencesAreExplained`, for any
  files, presets and edits. The warnings and the list of what a pass may read are two
  loops over the aliases; they agree because `Aliases` has each alias at the first pass
  that bears it (`AliasesAreListed`, by the invariant `Listed` of that loop), so that an
  earlier pass with the name is the same question to both (`CausalIsAvailable`).
  `OneReading` compares the two classifications case by case. `RInv` carries this
  through the edits, which change no reference and not the list of aliases the scan was
  made with; a pass that is appended has none (`NewPassesAssumption`, `factories.ts:68`).
  The aliases of the passes, which the renderer goes by, do change: a name is read by
  the aliases it can be a use of and by no others (`ReadByItsAliases`), so only a
  reference whose own alias was given or taken is read differently (`AliasIsKept`,
  section 7). The attempt found where else it fails: an alias or a look-up texture called
  `Source` or `Original`. `NamesAreTheirOwn` says so now, and the run imports such a preset.

* `CacheNeverLies` (`LoweringProofs`): `PipelineSpec => []AnswersAreOfTheCurrentText`, for
  any shaders, any contents of the include files and any `Hash` of texts. `PipelineInv`
  says of every entry of the cache that it is the compilation of a text with the hash it
  is kept under, and of every phase of a request that it has what the phases before
  computed from the text of the request (`RequestOK`, `CacheOK`, `PhaseOK`). That is why
  the key has to be a hash of the text after the includes: a hit is then the compilation
  of that text, or of another with its hash. That there is no other is not proved and
  not so (section 7); it is left to the 64 bits of the hash. `SameTools` is the
  other condition: whether spirv-opt was found is settled once per process. The
  rewrites are applied, not looked into: the theorem holds whatever they do.

Only model-checked: everything else. Out of the prover's reach among it are the
properties under fairness (`PlayingMoves`, `SupersededThreadsEnd`, `CompilingEnds`,
`PreviewCatchesUp`, `EveryGraphIsAnswered`) and what the rewrites of the
shader pipeline and the parser and the writer of presets compute from a text, which takes
induction over it (`RewrittenStagesAreBound`, `MembersHoldTheirValues`,
`BundleRoundTrips`). `EmittedCodeCompiles` is not a
theorem even of passes whose names are apart: the component sum of a constructor is a byte, so that 259
floats make a `vec3` (`ConstructOk`).

## 7. Where the code and what it says disagree

Each of these is stated as a property in its module, next to the one that holds, and
TLC finds the code to violate it. No run is spent on them; to see the trace, give the
name to TLC under the module's configuration. The properties that are checked are
stated so that they do not depend on these.

The preview:

* `ButtonMatchesThePump` (`TransportPanel`): after a load, or a step while playing,
  the Play/Pause button shows the opposite of what the pump does; `SourcePanel.tsx`
  wants the panel "in sync with the engine rather than guessing".
* `OpenPanelShowsTheFrame` (`TransportPanel`): reports that arrive while another tab
  is selected are lost and never repeated: the reopened panel shows frame 0 of 1
  and Play.
* `BadgeFollowsTheEngine` (`TransportPanel`): opening a document clears the badge;
  the engine, which reports transitions only, does not set it again.
* `PreviewSurvivesRestart` (`LivePreview`): a stream started after Stop shows the
  built-in shader, not the document, until the next edit.
* `ShaderProblemsAreCurrent` (`LivePreview`): a shader error reported as an event
  after the next result was shown stays listed until the one after.
* `EveryProbeNamesTheShownPixel` (`PixelInspector`): between a command and the next
  frame the probe maps by the new geometry and reads the old picture, or black after
  a resize; `render_source.rs` says updates "take effect on the next frame together".
* `SampledAsItsProducerAsks` (`Sampling`): the comment on a pass's sampler
  (`renderer.rs:210-217`) has a texture sampled "with the sampler of the pass that
  produced it"; the lookup (`renderer.rs:1567-1577`) takes the pass after the producer,
  as RetroArch does, and its comment says so. `TexturesAreAsDescribed` is about the
  latter; what it says of `Source`, that it is read with the consumer's settings,
  follows from it.
* `FeedbackIsColdAtEveryLevel` (`Sampling`): after `reset_feedback` ("cold black") the
  coarse levels of a target that was kept still hold the picture before, and a pass
  with `mipmap_input` reads them.
* In `RenderTick` of `RenderSource`, without a property: a failed read-back paints the
  neutral frame over the last good picture which the status `LastGood`
  (`render_source.rs`, `EngineStatus`) documents as held.

The session:

* `DraggedWorkIsRecoverable`: a drag in a clean document never arms the autosave
  timer.
* `RestoredWorkIsRecoverable`: recovered work is dirty, but its recovery file is gone
  and no autosave is armed.
* `EveryOfferIsWhole`: "a crash mid-write never leaves a half-document the launcher
  would try to restore" (`core-model/src/session.rs`), but a clear that removed
  `working.json` and failed, the next autosave, and a crash before its `meta.json`
  leave the document of one project with the path of another; so does an autosave
  that fails at its second file.
* `CleanMeansSaved`: an edit made while a save is under way is marked saved.
* `ReplacedOnlyWithConsent`: an edit made after the unsaved-changes question, while
  the project loads, is replaced without another.
* `StaleWorkIsNotOffered`: a crash between the first Save As and the clearing of the
  recovery offers the stale untitled recovery, on every launch.

The document (the first three in `DocumentHistory`, the others in `GraphEditing`):

* `DragsAreRecorded`: "drag moves are coalesced into one entry" (`documentStore.ts:14`),
  but undo and redo under a drag drop its baseline (`:1349`), and its end is then in no
  entry.
* `EntriesAreKept`: an undo or redo under a drag puts what was dragged so far in the
  place of the entry it began from, and an edit under a drag is recorded below the
  drag's beginning, so that undo goes through the two in the wrong order.
* `CleanIsTheFile`: `applyNodeChanges` (`documentStore.ts:1269`) leaves history and
  `dirty` to the end of the drag; React Flow's arrow keys move nodes without one, so
  that the document is changed, clean and not undoable.

* `RegroupingKeepsTheMeaningEverywhere`: inside a subgraph, collapsing or expanding
  nodes that a boundary port of the graph around names leaves that port behind
  (`collapse.ts:12` and `nodes/subgraph.ts:9` promise every expansion).
* `EverySamplerFollowsItsPass`: samplers inside subgraph nodes are not renumbered
  when passes move (`passOps.ts:13`, `:53`); one that Expand brings out of there with a
  stale number takes up the next pass that is added.
* `OneSourcePerInput`: an input fed by a boundary port looks free inside, and gets a
  second wire (`documentStore.ts:722`).

The compilers:

* `CheckedGraphsCompile` (`Lowering`): the checker lets every mix of scalar and vector
  through for all component-wise operators ("GLSL allows"), but `pow`, `mix`, `clamp`,
  `min` and `max` have no overload for some of them. Nor is the sentence true of what is
  computed from the builtin MVP, which has no port type (`ir.rs:357`): it is not checked
  and declared an `int`; nor of two outputs of one snippet with the same name, which
  nothing refuses: the checker takes the type of the first (`typecheck.rs:663`), the
  lowering the value of the last (`lower.rs:690`).
* `EveryNameIsDeclaredOnce` (`Lowering`): "two snippet nodes never share a function"
  (`emit.rs:366-368`), but `sanitize_ident` writes every other character as one and the
  same, and the local for a port of one node may be the function of another; a look-up
  texture called `Source`, `PassOutput1` or `t0`, or a parameter called as a builtin
  field, is declared beside its namesake. Of such a pass "any graph that checks clean
  here emits compiling slang" (`typecheck.rs:937`) is not so either.
* `NothingIsRewrittenSilently` (`ShaderPipeline`): a texture call whose coordinates
  branch comes out of the rewrite as a module naga does not take, where
  `split_samplers.rs:68` promises a hard error.
* `NoBindingCollides` (`ShaderPipeline`): a binding chosen free in one stage is taken
  in the other; `split_samplers.rs:489` excludes a collision.
* `EveryAnswerIsOfItsText` (`ShaderPipeline`): "identical shader input returns cached
  SPIR-V" (`cache.rs:1`) of different input too when two texts have the same 64-bit
  hash, since a hit compares no texts (`cache.rs:36-37`, `:63-69`).
* `EverySplitSamplerFollowsItsTexture` (`ShaderPipeline`): the renderer pairs samplers
  with textures by position (`renderer.rs:1535`); a separate sampler, or a texture
  both stages declare, shifts it.
* `AnyTwoBlocksHoldTheirValues` (`ShaderPipeline`): the renderer "models exactly TWO
  set-0 UBOs" and warns of a third (`renderer.rs:1228`). Of two blocks without a builtin
  the first is the parameter block, and the second reads the zeros of the builtin
  buffer nobody fills (`renderer.rs:1517`), without a warning.

Presets and files:

* `EveryExportedBundleReadsBack` (`PresetFiles`): a preset with fewer passes than its
  keys turns `scale1` into a parameter (`slangp.rs:490`); a pass appended in the editor
  then finds that key in the bundle.
* `EveryValueComesBack` (`PresetFiles`): "a round trip drops nothing" (`export.rs:28-30`),
  but aliases and unknown keys are written without quotes (`export.rs:437`, `:407`): one
  that was in quotes for a `#` or `//` in it is cut there when it is read back, and
  blanks at its ends go. `IsBare` leaves such values out of the round trip the run
  checks; its presets and edits have both kinds.
* `EditedAliasesAreExplained` (`PresetFiles`): the aliases of the import
  (`pipeline.aliases`), by which a pass was scanned and the whole-pass editor scans it
  again (`WholePassEditor.tsx:36`), are not those of the settings panel, by which the
  renderer reads names (`preview.rs:479`). After the alias `Glow` is edited away,
  `GlowFeedback` is a feedback texture to the editor and a look-up texture to the renderer.
* `EveryReferenceIsExplained` (`PresetFiles`): "preset-declared names take precedence"
  in the scan (`scan.rs:59`), the built-in names in the binding table (`bindtable.rs:98`).
  With an alias `Source`, a pass up to its own that reads `Source` is warned that the
  alias is not earlier in the chain, and gets its input.
* `EditorPreviewsEveryPreset` (`PresetFiles`): half a pixel of an absolute size is
  rounded by the engine (`pass.rs:87`) and cut by the importer (`import.rs:469`).
* `EveryLevelOfACopyIsNew` (`UserFiles`): "two inserts of the same item never clash"
  (`instantiate.ts:4`), but `instantiate` renames the first level of a subgraph only;
  the nodes of a subgraph inside it have the same ids in every copy, and in the item.
  `CopiesAreNew` speaks of the levels that are renamed.
* `EveryCopyIsNew` (`UserFiles`): the counter of `nextId` ("unique") starts again in
  every session and does not look at the document that is loaded; an inserted item
  may take ids that are in use. `GraphEditing` takes fresh ids for granted, which is
  right for a document made in the session.

Seen while modelling, without a property of their own:

* `list_items` lists an item by the id in its content, `delete` removes by file name,
  so a copied file cannot be deleted; the panel is not refreshed when a deletion finds
  nothing.
* `delete_item` answers `NotFound` "so the caller can tell "deleted" from "wasn't there""
  (`core-model/src/library.rs:222-226`), but the panel prints the error as an object, the
  same text for every kind (`LibraryPanel.tsx:98`, `:148`, `:180`), and again when a save
  or a deletion was done and the listing after it failed.
* `write_recents` writes in place; a crash in it loses the list.
* `parse_parameter` accepts a minimum above the maximum, on which `clamp` panics.
* A pass with three uniform blocks binds one buffer to the last two.
* The aliases handed to the parameter store by `set_chain` are always empty;
  `CompileCache` is used by tests only.
* The application's import drops the unknown keys of a preset (`app/src/export.rs:24`).
* A rename that fails after the old bundle was removed leaves neither
  (`export.rs:150`), and a destination is removed whatever it holds.
* Parameters of a pass that was removed come back from an export with their value as
  minimum and maximum; a `parameters =` line is ignored.
* The importer and the renderer disagree on passes aliased `Source` or `Original`.
* The application never sets a pass's feedback flag from `feedback_pass`;
  `testing/src/render.rs:197` does.

## 8. Not modelled

* Pixel formats, frame direction, the wgpu calls: the properties here do not tell
  them apart.
* The layout of emitted text, the splitting of text into lines and tokens, the
  decoding of images and clips.
* The webview side of live parameters; `graphToIr` and `portTypeChecking`, the
  webview's copies of rules that `GraphCheck` has from the backend; the hover state
  of the inspector and the compare view.
* Edits of pass settings, parameters and lookup textures in the document store: plain
  data, replaced whole, under the same history as all edits.
* Panels and canvases that only present the document; the export dialog; the test
  harness; the demo content of onboarding (of its actions, section 2 under Session).
* Compositions that would repeat what their parts show: the transport of two
  streams at a time (positions carry no stream id, `preview.rs:199`, so that a late
  report of a stopped stream moves the slider of the next), chains of several passes
  in the shader pipeline, and two listings of the library panel beside its save or
  deletion. The library tab is taken to stay open while
  a command of the panel is under way: another tab unmounts it (`PanelLayout.tsx:76`),
  and a panel opened again is not busy.
* A recent list that cannot be read, which is taken for an empty one as a torn file is.
