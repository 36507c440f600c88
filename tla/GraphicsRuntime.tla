--------------------------- MODULE GraphicsRuntime ---------------------------
(***************************************************************************)
(* Typeset formulas in the full-screen interface.  FormulaGraphicsRuntime  *)
(* owns every image on the terminal: components register rasters, each Ink *)
(* frame takes a snapshot of what may be drawn (beforeFrame), and after    *)
(* Ink's own flush the snapshot is written, one image and one await at a   *)
(* time (afterFrame).  A formula is drawn as a blank box while its key is  *)
(* visible and as its source text otherwise, so visibility and the images  *)
(* on the terminal have to agree whatever is superseded, refused, blocked  *)
(* by back-pressure or disposed in between.                                *)
(*                                                                         *)
(* A placement is [key, reg, row, gen]: a frame places a key at most once. *)
(***************************************************************************)
EXTENDS Naturals, Sequences, FiniteSets

CONSTANTS
  FormulaKeys,             \* formula keys on screen
  BaseRow,          \* BaseRow[k]: the row of formula k when nothing is scrolled
  Scrolls,          \* how far a frame may be scrolled
  Rows,             \* height of the terminal; the last row is never drawn on
  ClipTop,          \* first row of the conversation viewport (clipRef)
  Protocols,        \* subset of {"kitty", "sixel"}
  ImageSize,        \* size of one image sequence
  ClearSize,        \* size of the clear that precedes a sixel replacement
  maxFrameBytes,
  maxVisibleSlots,
  MaxEvents         \* bound: rasters, Ink commits and style changes together

ASSUME GraphicsAssumption ==
  /\ \A k \in FormulaKeys : BaseRow[k] \in Nat /\ Scrolls \subseteq Nat
  /\ {Rows, ClipTop, ImageSize, ClearSize, maxFrameBytes, maxVisibleSlots} \subseteq Nat
  /\ Protocols \subseteq {"kitty", "sixel"}

VARIABLES
  protocol,       \* the renderer selected for this terminal
  comp,           \* FormulaGraphic of each key: mounted, render in flight, raster, style is old
  rasters,        \* rasters produced so far
  registrations,  \* the #registrations map: the raster of each key, 0 for none; as a key is
                  \* registered with a new raster, the order of insertion is that of the rasters
  generation, snapshot,
  visible,        \* #visibleRegistrations[key], 0 when the key is not visible
  placed,         \* the #placed list: those of a key are listed in the order of their generations
  pendingCleanup,
  frames,         \* afterFrame calls: the first one runs, the others wait on the tail
  op,             \* where the running afterFrame is
  tailed,         \* #writeTail is set (it never is unset)
  writeBroken, disposed,
  screen,         \* images the terminal shows
  instance,       \* Ink's render() returned
  pendingGenerations,
  requested, scheduled,  \* registrationFrameRequested, registrationFrameScheduled
  commits         \* Ink commits and style changes so far

compVars  == <<comp, rasters>>
frameVars == <<generation, snapshot, frames>>
drawVars  == <<placed, pendingCleanup, screen, writeBroken>>
hostVars  == <<instance, pendingGenerations, requested, scheduled>>
graphicsVars == <<protocol, comp, rasters, registrations, generation, snapshot, visible, placed,
          pendingCleanup, frames, op, tailed, writeBroken, disposed, screen, instance,
          pendingGenerations, requested, scheduled, commits>>

None == [key |-> "none"]
NoSnapshot == [gen |-> 0, formulas |-> {}]
Resting == [gen |-> 0, stage |-> "done", todo |-> {}, prev |-> [k \in FormulaKeys |-> None],
            cur |-> None, bytes |-> 0]

----------------------------------------------------------------------------
(* What may be drawn *)

\* isVisibleMetrics: inside the terminal, and the last row stays free for Ink.
isVisibleMetrics(row) == row + 1 < Rows

\* isContainedByClip: a formula that scrolled under the top edge is not drawn.
isContainedByClip(row) == row >= ClipTop

Eligible(k, scroll) ==
  /\ registrations[k] # 0 /\ BaseRow[k] >= scroll
  /\ isVisibleMetrics(BaseRow[k] - scroll)
  /\ isContainedByClip(BaseRow[k] - scroll)

\* The formulas of a frame: the first maxVisibleSlots in the order of registration.
SnapshotFormulas(scroll) ==
  LET ok == {k \in FormulaKeys : Eligible(k, scroll)}
  IN  {[key |-> k, reg |-> registrations[k], row |-> BaseRow[k] - scroll] :
         k \in {j \in ok : Cardinality({i \in ok : registrations[i] <= registrations[j]})
                            <= maxVisibleSlots}}

withinFrameBudget(current, next) == current + next <= maxFrameBytes

\* What the terminal shows after an image is drawn over, or erased with, others.  A Kitty image is
\* deleted by its id; a sixel one only by overwriting the cells it covers.
replacementSequence(shown, previous, p) ==
  IF protocol = "kitty" THEN shown \cup {p}
  ELSE {q \in shown : q.row # p.row /\ (previous = None \/ q.row # previous.row)} \cup {p}

EraseAll(shown, gone) ==
  IF protocol = "kitty" THEN shown \ gone
  ELSE {q \in shown : \A p \in gone : q.row # p.row}

\* How many bytes an item costs: the clear of a sixel replacement is part of its write.
SequenceSize(previous) ==
  ImageSize + (IF previous # None /\ protocol = "sixel" THEN ClearSize ELSE 0)

\* #previousByKey: the last placement of each key wins.
PreviousByKey ==
  [k \in FormulaKeys |->
     LET mine == {p \in placed : p.key = k}
     IN  IF mine = {} THEN None ELSE CHOOSE p \in mine : \A q \in mine : q.gen <= p.gen]

\* The event loop runs one frame's synchronous stretch to its next await before anything else.
Quiet == op.stage # "emit"

MayHappen == rasters + commits < MaxEvents

----------------------------------------------------------------------------
(* Init: createFormulaGraphicsRuntime before Ink mounts *)

GraphicsInit ==
  /\ protocol \in Protocols
  /\ comp = [k \in FormulaKeys |->
               [mounted |-> TRUE, rendering |-> TRUE, raster |-> 0, old |-> FALSE]]
  /\ rasters = 0 /\ registrations = [k \in FormulaKeys |-> 0]
  /\ generation = 0 /\ snapshot = NoSnapshot
  /\ visible = [k \in FormulaKeys |-> 0]
  /\ placed = {} /\ pendingCleanup = {} /\ screen = {}
  /\ frames = <<>> /\ op = Resting
  /\ tailed = FALSE /\ writeBroken = FALSE /\ disposed = FALSE
  /\ instance = FALSE /\ pendingGenerations = <<>>
  /\ requested = FALSE /\ scheduled = FALSE
  /\ commits = 0

----------------------------------------------------------------------------
(* The host: Ink's frames and the microtask that follows a registration *)

\* requestRegistrationFrame, called by register and setStyle.
requestRegistrationFrame ==
  IF disposed THEN UNCHANGED <<requested, scheduled>>
  ELSE requested' = TRUE /\ scheduled' = (scheduled \/ ~requested)

\* beforeFrame of a live runtime.  Leftovers of earlier frames, whose source has been shown since,
\* are cleared unless an afterFrame still runs (a clear that throws ends graphics and the rest of
\* the clears); then the new snapshot is taken and only proven, still eligible keys stay visible.
beforeFrame(scroll) ==
  LET formulas == SnapshotFormulas(scroll)
      retained == {k \in FormulaKeys : visible[k] # 0 /\
                     \E f \in formulas : f.key = k /\ f.reg = visible[k]}
      flushes  == frames = <<>> /\ ~writeBroken
      due      == IF flushes THEN pendingCleanup \cap placed ELSE {}
  IN  \E cleared \in SUBSET due : \E failed \in {{}} \cup {{p} : p \in due \ cleared} :
        /\ failed = {} => cleared = due
        /\ generation' = generation + 1
        /\ snapshot' = [gen |-> generation + 1, formulas |-> formulas]
        /\ visible' = [k \in FormulaKeys |-> IF k \in retained THEN visible[k] ELSE 0]
        /\ placed' = placed \ (cleared \cup failed)
        /\ screen' = EraseAll(screen, cleared)
        /\ writeBroken' = (writeBroken \/ failed # {})
        /\ pendingCleanup' =
             (IF flushes THEN due \ (cleared \cup failed) ELSE pendingCleanup)
               \cup {p \in placed' : p.key \notin retained}

\* afterFrame: at once when none runs, otherwise after the tail.
afterFrame(gens) ==
  /\ frames' = frames \o gens
  /\ op' = IF frames = <<>> /\ gens # <<>>
           THEN [Resting EXCEPT !.gen = Head(gens), !.stage = "flush"] ELSE op

\* queueAfterFrame: a frame of the synchronous mount waits until render() has returned.
queueAfterFrame ==
  IF instance
  THEN afterFrame(<<generation'>>) /\ UNCHANGED pendingGenerations
  ELSE pendingGenerations' = Append(pendingGenerations, generation') /\ UNCHANGED <<frames, op>>

\* onRender for an Ink commit: this frame includes every registration made before it.
Frame(scroll) ==
  /\ Quiet /\ ~disposed /\ MayHappen
  /\ commits' = commits + 1
  /\ requested' = FALSE
  /\ beforeFrame(scroll) /\ queueAfterFrame
  /\ UNCHANGED <<compVars, protocol, registrations, tailed, disposed, instance, scheduled>>

\* The microtask of scheduleRegistrationFrame: one coalesced frame, unless a commit came first or
\* Ink has not mounted yet.
Microtask(scroll) ==
  /\ Quiet /\ scheduled
  /\ scheduled' = FALSE
  /\ IF requested /\ ~disposed /\ instance
     THEN requested' = FALSE /\ beforeFrame(scroll) /\ queueAfterFrame
     ELSE UNCHANGED <<requested, frameVars, drawVars, visible, op, pendingGenerations>>
  /\ UNCHANGED <<compVars, protocol, registrations, tailed, disposed, instance, commits>>

\* Mutant: the request of a registration made in the mount is not picked up.
MountedBug ==
  /\ Quiet /\ ~instance /\ ~disposed
  /\ instance' = TRUE
  /\ afterFrame(pendingGenerations) /\ pendingGenerations' = <<>>
  /\ UNCHANGED <<compVars, protocol, registrations, generation, snapshot, visible, drawVars,
                 tailed, disposed, requested, scheduled, commits>>

\* Ink's render() returns: the frames of the mount and a registration made in it are picked up.
Mounted ==
  /\ Quiet /\ ~instance /\ ~disposed
  /\ instance' = TRUE
  /\ afterFrame(pendingGenerations) /\ pendingGenerations' = <<>>
  /\ scheduled' = (scheduled \/ requested)
  /\ UNCHANGED <<compVars, protocol, registrations, generation, snapshot, visible, drawVars,
                 tailed, disposed, requested, commits>>

----------------------------------------------------------------------------
(* FormulaGraphic *)

\* unregister: the key shows its source again, its images go with a later frame.
unregister(k) ==
  IF registrations[k] = 0 THEN UNCHANGED <<registrations, visible, pendingCleanup>>
  ELSE /\ registrations' = [registrations EXCEPT ![k] = 0]
       /\ visible' = [visible EXCEPT ![k] = 0]
       /\ pendingCleanup' = pendingCleanup \cup {p \in placed : p.key = k}

\* A raster arrives while its effect is mounted: the layout effect registers it.
RasterReady(k) ==
  /\ Quiet /\ comp[k].mounted /\ comp[k].rendering /\ MayHappen
  /\ rasters' = rasters + 1
  /\ comp' = [comp EXCEPT ![k].rendering = FALSE, ![k].raster = rasters + 1]
  /\ IF disposed \/ registrations[k] # 0
     THEN UNCHANGED <<registrations, requested, scheduled>>
     ELSE /\ registrations' = [registrations EXCEPT ![k] = rasters + 1]
          /\ requestRegistrationFrame
  /\ UNCHANGED <<protocol, frameVars, drawVars, visible, op, tailed, disposed, instance,
                 pendingGenerations, commits>>

\* A failed or aborted render: the component keeps its source.
RasterFails(k) ==
  /\ Quiet /\ comp[k].mounted /\ comp[k].rendering
  /\ comp' = [comp EXCEPT ![k].rendering = FALSE]
  /\ UNCHANGED <<protocol, rasters, registrations, frameVars, drawVars, visible, op, tailed,
                 disposed, hostVars, commits>>

\* The effect runs again for a new style: the old raster is given up and rendering starts over.
Restart(k) ==
  /\ Quiet /\ comp[k].mounted /\ comp[k].old
  /\ comp' = [comp EXCEPT ![k] = [mounted |-> TRUE, rendering |-> ~disposed, raster |-> 0,
                                  old |-> FALSE]]
  /\ IF comp[k].raster # 0 /\ registrations[k] = comp[k].raster THEN unregister(k)
     ELSE UNCHANGED <<registrations, visible, pendingCleanup>>
  /\ UNCHANGED <<protocol, rasters, frameVars, placed, screen, writeBroken, op, tailed, disposed,
                 hostVars, commits>>

\* The formula leaves the screen (another session, an overlay, an edited block).
Unmount(k) ==
  /\ Quiet /\ comp[k].mounted
  /\ comp' = [comp EXCEPT ![k] = [mounted |-> FALSE, rendering |-> FALSE, raster |-> 0,
                                  old |-> FALSE]]
  /\ IF comp[k].raster # 0 /\ registrations[k] = comp[k].raster THEN unregister(k)
     ELSE UNCHANGED <<registrations, visible, pendingCleanup>>
  /\ UNCHANGED <<protocol, rasters, frameVars, placed, screen, writeBroken, op, tailed, disposed,
                 hostVars, commits>>

\* It comes back: a new effect renders it again.
Remount(k) ==
  /\ Quiet /\ ~comp[k].mounted /\ ~disposed /\ MayHappen
  /\ comp' = [comp EXCEPT ![k].mounted = TRUE, ![k].rendering = TRUE]
  /\ UNCHANGED <<protocol, rasters, registrations, frameVars, drawVars, visible, op, tailed,
                 disposed, hostVars, commits>>

\* setStyle: everything drawn in the old style goes back to source and is rendered again.
setStyle ==
  /\ Quiet /\ ~disposed /\ MayHappen
  /\ commits' = commits + 1
  /\ generation' = generation + 1 /\ snapshot' = NoSnapshot
  /\ registrations' = [k \in FormulaKeys |-> 0] /\ visible' = [k \in FormulaKeys |-> 0]
  /\ comp' = [k \in FormulaKeys |-> [comp[k] EXCEPT !.old = comp[k].mounted]]
  /\ pendingCleanup' = pendingCleanup \cup placed
  /\ requestRegistrationFrame
  /\ UNCHANGED <<protocol, rasters, placed, screen, writeBroken, frames, op, tailed, disposed,
                 instance, pendingGenerations>>

----------------------------------------------------------------------------
(* afterFrame: the running one *)

\* fallbackSnapshot: the frame's formulas show their source; their images go with a later frame.
Fallback(gen) ==
  LET mine == IF disposed \/ gen # generation \/ snapshot.gen # gen THEN {}
              ELSE {f.key : f \in snapshot.formulas}
  IN  /\ visible' = [k \in FormulaKeys |-> IF k \in mine THEN 0 ELSE visible[k]]
      /\ pendingCleanup' = pendingCleanup \cup {p \in placed : p.key \in mine}

\* Ink could not flush the frame.
FlushFails ==
  /\ op.stage = "flush"
  /\ Fallback(op.gen)
  /\ op' = [op EXCEPT !.stage = "done"]
  /\ UNCHANGED <<protocol, compVars, registrations, frameVars, placed, screen, writeBroken,
                 tailed, disposed, hostVars, commits>>

\* Ink flushed it: emitFrame starts, unless it has been superseded or graphics are broken.
FlushDone ==
  /\ op.stage = "flush"
  /\ IF disposed \/ op.gen # generation \/ writeBroken \/ snapshot.gen # op.gen
     THEN /\ op' = [op EXCEPT !.stage = "done"]
          /\ IF writeBroken THEN Fallback(op.gen) ELSE UNCHANGED <<visible, pendingCleanup>>
     ELSE /\ op' = [op EXCEPT !.stage = "emit", !.todo = snapshot.formulas,
                              !.prev = PreviousByKey]
          /\ UNCHANGED <<visible, pendingCleanup>>
  /\ UNCHANGED <<protocol, compVars, registrations, frameVars, placed, screen, writeBroken,
                 tailed, disposed, hostVars, commits>>

\* No more formulas, or the frame has been superseded.
EmitEnds ==
  /\ op.stage = "emit"
  /\ op.todo = {} \/ disposed \/ op.gen # generation
  /\ op' = [op EXCEPT !.stage = "done"]
  /\ UNCHANGED <<protocol, compVars, registrations, frameVars, drawVars, visible, tailed,
                 disposed, hostVars, commits>>

Emitting == op.stage = "emit" /\ op.todo # {} /\ ~disposed /\ op.gen = generation
First == CHOOSE f \in op.todo : \A g \in op.todo : f.reg <= g.reg
Rest == op.todo \ {First}
Skip == op' = [op EXCEPT !.todo = Rest]

\* The formula unregistered while an earlier image was being written.
EmitGone ==
  /\ Emitting /\ registrations[First.key] # First.reg
  /\ visible' = [visible EXCEPT ![First.key] = 0]
  /\ Skip
  /\ UNCHANGED <<protocol, compVars, registrations, frameVars, drawVars, tailed, disposed,
                 hostVars, commits>>

\* Mutant: the image that stays is cleaned up all the same.
EmitOverBug ==
  /\ Emitting
  /\ LET f == First  previous == op.prev[f.key]
         keeps == previous # None /\ visible[f.key] = f.reg
     IN  /\ registrations[f.key] = f.reg
         /\ visible' = IF keeps THEN visible ELSE [visible EXCEPT ![f.key] = 0]
         /\ pendingCleanup' = IF previous = None THEN pendingCleanup
                              ELSE pendingCleanup \cup {previous}
  /\ Skip
  /\ UNCHANGED <<protocol, compVars, registrations, frameVars, placed, screen, writeBroken,
                 tailed, disposed, hostVars, commits>>

\* Its image cannot be built (no id left, an encoder's limit) or does not fit in the frame: a
\* confirmed image of the same registration stays, otherwise the source is shown.
EmitOver ==
  /\ Emitting
  /\ LET f == First  previous == op.prev[f.key]
         keeps == previous # None /\ visible[f.key] = f.reg
     IN  /\ registrations[f.key] = f.reg
         /\ visible' = IF keeps THEN visible ELSE [visible EXCEPT ![f.key] = 0]
         /\ pendingCleanup' = IF keeps \/ previous = None THEN pendingCleanup
                              ELSE pendingCleanup \cup {previous}
  /\ Skip
  /\ UNCHANGED <<protocol, compVars, registrations, frameVars, placed, screen, writeBroken,
                 tailed, disposed, hostVars, commits>>

\* Its image is handed to the stream: listed first, then written at once or behind the tail.
EmitWrite ==
  /\ Emitting
  /\ LET f == First
         p == [key |-> f.key, reg |-> f.reg, row |-> f.row, gen |-> op.gen]
         size == SequenceSize(op.prev[f.key])
     IN  /\ registrations[f.key] = f.reg
         /\ withinFrameBudget(op.bytes, size)
         /\ \E stage \in IF tailed \/ writeBroken THEN {"queued"}
                         ELSE {"written", "blocked", "failed"} :
              /\ op' = [op EXCEPT !.todo = Rest, !.bytes = op.bytes + size,
                                  !.cur = p, !.stage = stage]
              /\ screen' = IF stage \in {"written", "blocked"}
                           THEN replacementSequence(screen, op.prev[f.key], p) ELSE screen
              /\ tailed' = (tailed \/ stage = "blocked")
              /\ writeBroken' = (writeBroken \/ stage = "failed")
              /\ placed' = placed \cup {p}
  /\ UNCHANGED <<protocol, compVars, registrations, frameVars, pendingCleanup, visible, disposed,
                 hostVars, commits>>

\* Mutant: a queued write does not look at disposed.
PerformWriteBug ==
  /\ op.stage = "queued"
  /\ \E stage \in IF writeBroken THEN {"failed"} ELSE {"written", "blocked", "failed"} :
       /\ op' = [op EXCEPT !.stage = stage]
       /\ screen' = IF stage \in {"written", "blocked"}
                    THEN replacementSequence(screen, op.prev[op.cur.key], op.cur) ELSE screen
       /\ writeBroken' = (writeBroken \/ stage = "failed")
  /\ UNCHANGED <<protocol, compVars, registrations, frameVars, placed, pendingCleanup, visible,
                 tailed, disposed, hostVars, commits>>

\* performWrite behind the tail: skipped when disposed, broken or superseded.
PerformWrite ==
  /\ op.stage = "queued"
  /\ \E stage \in IF disposed \/ writeBroken THEN {"failed"}
                  ELSE IF op.gen # generation THEN {"stale"} ELSE {"written", "blocked", "failed"} :
       /\ op' = [op EXCEPT !.stage = stage]
       /\ screen' = IF stage \in {"written", "blocked"}
                    THEN replacementSequence(screen, op.prev[op.cur.key], op.cur) ELSE screen
       /\ writeBroken' = (writeBroken \/ stage = "failed")
  /\ UNCHANGED <<protocol, compVars, registrations, frameVars, placed, pendingCleanup, visible,
                 tailed, disposed, hostVars, commits>>

\* waitForDrain: the stream drains, or reports an error.
Drained ==
  /\ op.stage = "blocked"
  /\ op' = [op EXCEPT !.stage = "written"]
  /\ UNCHANGED <<protocol, compVars, registrations, frameVars, drawVars, visible, tailed,
                 disposed, hostVars, commits>>

StreamError ==
  /\ op.stage = "blocked"
  /\ op' = [op EXCEPT !.stage = "failed"]
  /\ writeBroken' = TRUE
  /\ UNCHANGED <<protocol, compVars, registrations, frameVars, placed, pendingCleanup, screen,
                 visible, tailed, disposed, hostVars, commits>>

----------------------------------------------------------------------------
(* The continuation of emitFrame after its await *)

\* The write was skipped: its placement is forgotten, a newer frame owns visibility.
ResumeStale ==
  /\ op.stage = "stale"
  /\ placed' = placed \ {op.cur} /\ pendingCleanup' = pendingCleanup \ {op.cur}
  /\ op' = [op EXCEPT !.stage = "emit"]
  /\ UNCHANGED <<protocol, compVars, registrations, frameVars, screen, writeBroken, visible,
                 tailed, disposed, hostVars, commits>>

\* The write failed: what it replaced is cleaned up later and the frame falls back to source.
ResumeFailed ==
  /\ op.stage = "failed"
  /\ LET previous == op.prev[op.cur.key]
         mine == IF disposed \/ op.gen # generation \/ snapshot.gen # op.gen THEN {}
                 ELSE {f.key : f \in snapshot.formulas}
     IN  /\ placed' = placed \ {op.cur}
         /\ visible' = [k \in FormulaKeys |-> IF k \in mine THEN 0 ELSE visible[k]]
         /\ pendingCleanup' = (pendingCleanup \ {op.cur})
                                \cup (IF previous = None THEN {} ELSE {previous})
                                \cup {p \in placed' : p.key \in mine}
  /\ op' = [op EXCEPT !.stage = "done"]
  /\ UNCHANGED <<protocol, compVars, registrations, frameVars, screen, writeBroken,
                 tailed, disposed, hostVars, commits>>

\* The write ended after its frame was superseded: the image may be on screen and must go.
ResumeSuperseded ==
  /\ op.stage = "written" /\ (disposed \/ op.gen # generation)
  /\ pendingCleanup' = pendingCleanup \cup {op.cur}
  /\ op' = [op EXCEPT !.stage = "done"]
  /\ UNCHANGED <<protocol, compVars, registrations, frameVars, placed, screen, writeBroken,
                 visible, tailed, disposed, hostVars, commits>>

\* The write ended in its own frame: confirmReplacement deletes what it replaced (a Kitty image by
\* its id, a sixel one went with the write), and the key is shown as an image.
ResumeWritten ==
  /\ op.stage = "written" /\ ~disposed /\ op.gen = generation
  /\ LET previous == op.prev[op.cur.key]
         deletes  == previous # None /\ protocol = "kitty" /\ ~writeBroken
     IN  \E fails \in IF deletes THEN BOOLEAN ELSE {FALSE} :
           /\ screen' = IF deletes /\ ~fails THEN screen \ {previous} ELSE screen
           /\ writeBroken' = (writeBroken \/ fails)
           /\ placed' = placed \ {previous}
           /\ pendingCleanup' = pendingCleanup \ {previous}
  /\ visible' = [visible EXCEPT ![op.cur.key] = op.cur.reg]
  /\ op' = [op EXCEPT !.stage = "emit"]
  /\ UNCHANGED <<protocol, compVars, registrations, frameVars, tailed, disposed, hostVars,
                 commits>>

\* The operation settles: the next frame on the tail starts, or afterFrame is idle again.
FrameEnds ==
  /\ op.stage = "done" /\ frames # <<>>
  /\ frames' = Tail(frames)
  /\ op' = IF Tail(frames) = <<>> THEN Resting
           ELSE [Resting EXCEPT !.gen = Head(Tail(frames)), !.stage = "flush"]
  /\ UNCHANGED <<protocol, compVars, registrations, generation, snapshot, drawVars, visible,
                 tailed, disposed, hostVars, commits>>

\* dispose: everything is cleared from the terminal before it returns.
Dispose ==
  /\ Quiet /\ ~disposed
  /\ generation' = generation + 1 /\ snapshot' = NoSnapshot
  /\ registrations' = [k \in FormulaKeys |-> 0] /\ visible' = [k \in FormulaKeys |-> 0]
  /\ comp' = [k \in FormulaKeys |-> [comp[k] EXCEPT !.rendering = FALSE]]
  /\ pendingCleanup' = {}
  /\ IF writeBroken THEN UNCHANGED <<placed, screen, writeBroken>>
     ELSE /\ placed' = {}
          /\ \/ screen' = EraseAll(screen, placed) /\ UNCHANGED writeBroken
             \/ placed # {} /\ writeBroken' = TRUE /\ UNCHANGED screen
  /\ disposed' = TRUE
  /\ UNCHANGED <<protocol, rasters, frames, op, tailed, hostVars, commits>>

----------------------------------------------------------------------------

Component ==
  \E k \in FormulaKeys : \/ RasterReady(k) \/ RasterFails(k) \/ Restart(k)
                        \/ Unmount(k) \/ Remount(k)

AfterFrame == \/ FlushFails \/ FlushDone \/ EmitEnds \/ EmitGone \/ EmitOver \/ EmitWrite
              \/ PerformWrite \/ Drained \/ StreamError \/ ResumeStale \/ ResumeFailed
              \/ ResumeSuperseded \/ ResumeWritten \/ FrameEnds

GraphicsNext ==
  \/ \E s \in Scrolls : Frame(s) \/ Microtask(s)
  \/ Mounted \/ Component \/ setStyle \/ AfterFrame \/ Dispose

GraphicsSpec == GraphicsInit /\ [][GraphicsNext]_graphicsVars

----------------------------------------------------------------------------
(* Properties *)

Placements == [key : FormulaKeys, reg : 1..MaxEvents, row : 0..(Rows - 2), gen : Nat]

\* Type invariant of the runtime and its host.
GraphicsTypeOK ==
  /\ comp \in [FormulaKeys -> [mounted : BOOLEAN, rendering : BOOLEAN, raster : 0..MaxEvents,
                        old : BOOLEAN]]
  /\ registrations \in [FormulaKeys -> 0..MaxEvents]
  /\ visible \in [FormulaKeys -> 0..MaxEvents]
  /\ placed \cup pendingCleanup \cup screen \subseteq Placements
  /\ generation \in Nat /\ frames \in Seq(Nat)
  /\ op.stage \in {"flush", "emit", "queued", "blocked", "written", "stale", "failed", "done"}
  /\ {instance, requested, scheduled, tailed, writeBroken, disposed} \subseteq BOOLEAN

\* A formula whose source is suppressed has its image on the terminal: a Kitty terminal never shows
\* a blank box, whatever is superseded, skipped, scrolled or unregistered while an image is being
\* written ("a stale generation cannot leave the FormulaGraphic source suppressed over a blank
\* terminal").  A sixel superseded in the middle of its write is cleared where its predecessor
\* stood, so there it holds once the frame that redraws it has ended.
ShownWhenHidden ==
  ~disposed /\ ~writeBroken /\ protocol = "kitty" =>
    \A k \in FormulaKeys : visible[k] # 0 => \E p \in screen : p.key = k /\ p.reg = visible[k]

\* Every image the terminal shows is still known to the runtime, which will clear it; after dispose
\* the terminal shows none, even if a write was blocked or waiting when it was called.
NothingLeftBehind ==
  ~writeBroken => /\ screen \subseteq placed
                  /\ disposed => screen = {}

\* "either path now has one confirmed placement per key" (comment of confirmReplacement): between
\* frames a formula has at most one image that is not waiting for its cleanup.
OneConfirmedPlacement ==
  frames = <<>> /\ ~disposed /\ ~writeBroken =>
    \A p, q \in placed \ pendingCleanup : p.key = q.key => p = q

\* A registration that lands after its frame, or during Ink's synchronous mount, gets a frame of its
\* own: while one is requested a microtask is on its way, or Ink's render() has yet to return and
\* will schedule it.
RequestNotLost == requested /\ ~disposed => scheduled \/ ~instance

=============================================================================
