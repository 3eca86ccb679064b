--------------------------- MODULE PixelInspector ---------------------------
(***************************************************************************)
(* Where the final image lands, and which of its pixels the probe reads    *)
(* (renderer.rs, render_source.rs, inspect.rs).  The source image, the     *)
(* preview pane and the simulated viewport are changed by commands of the  *)
(* user, one at a time and in any order; the content rectangle, the        *)
(* composite rectangle and the probe's mapping are computed from all       *)
(* three.  Commands are applied between two frames and change the geometry *)
(* at once; what the pane shows is the last frame drawn, and nothing after *)
(* a resize, which makes a new target.  A probe maps the pane pixel by the *)
(* geometry and reads the target.                                          *)
(***************************************************************************)
EXTENDS Viewport, FiniteSets

CONSTANTS Dims,      \* pixel counts an output resolution may be asked with (0 included)
          PaneDims,  \* pixel counts the window may be resized to
          SrcDims,   \* width and height of the images that can be loaded
          MaxPending \* bound: commands between two frames

ASSUME DimsAssumption == /\ Dims \subseteq Nat /\ PaneDims \subseteq Nat
                         /\ SrcDims \subseteq Nat \ {0}

VARIABLES source,    \* source_size of the renderer
          pane,      \* (width, height) of the renderer's offscreen target
          simulated, \* simulated_viewport: a config or NoViewport
          drawn,     \* {} or {the geometry the last frame was drawn with}
          commands   \* commands since, counter of the bound

geometry == <<source, pane, simulated>>
inspectorVars == <<geometry, drawn, commands>>

Config(w, h, integer) == [size |-> <<w, h>>, integerScale |-> integer, active |-> TRUE]

InspectorInit == /\ source \in SrcDims \X SrcDims
        /\ pane \in (PaneDims \ {0}) \X (PaneDims \ {0})
        /\ simulated = NoViewport
        /\ drawn = {} /\ commands = 0

LoadSource(w, h) == source' = <<w, h>> /\ UNCHANGED <<pane, simulated>>

\* Renderer::set_viewport.
SetViewport(w, h) == pane' = AtLeastOne(<<w, h>>) /\ UNCHANGED <<source, simulated>>

\* Renderer::set_simulated_viewport.
SetSimulatedViewport(cfg) == simulated' = cfg /\ UNCHANGED <<source, pane>>

Active  == simulated # NoViewport
Rect    == ContentRect(simulated, source)
Out     == AtLeastOne(simulated.size)
Mapping == PaneMapping(simulated, source, pane)
Axes    == {1, 2}

Geometry == [source |-> source, pane |-> pane, simulated |-> simulated]

-----------------------------------------------------------------------------
(* What a pane pixel shows: nothing, a bar, or along each axis the viewport *)
(* pixels the composite's linear sampler blends.                            *)

Blank == [kind |-> "blank", axes |-> <<{}, {}>>]
Bar   == [kind |-> "bar", axes |-> <<{}, {}>>]

\* The sample of a pane pixel's center lies between two pixels of the image.
Blended(p, axis, size) ==
  LET left == ((2 * (p - axis[1]) + 1) * size - axis[2]) \div (2 * axis[2])
  IN  {Clamp(left, 0, size - 1), Clamp(left + 1, 0, size - 1)}

\* MUTANT: the image is drawn from the pane's corner.
BlitToOffscreen_Uncentered(g, at) ==
  LET m == PaneMapping(g.simulated, g.source, g.pane)
  IN  IF \A a \in {1, 2} : at[a] < m.pane[a][2]
      THEN [kind |-> "image",
            axes |-> [a \in {1, 2} |-> Blended(at[a], <<0, m.pane[a][2]>>, m.content[a])]]
      ELSE Bar

\* blit_to_offscreen: cleared to black, then the image in its rectangle.
BlitToOffscreen(g, at) ==
  LET m == PaneMapping(g.simulated, g.source, g.pane)
  IN  IF \A a \in {1, 2} : InsideAxis(at[a], m.pane[a])
      THEN [kind |-> "image", axes |-> [a \in {1, 2} |-> Blended(at[a], m.pane[a], m.content[a])]]
      ELSE Bar

\* Renderer::read_pixel_region of one pixel, clamped into the target.
ReadPixelRegion(x, y) ==
  LET at == <<Lesser(x, pane[1] - 1), Lesser(y, pane[2] - 1)>>
  IN  IF drawn = {} THEN Blank ELSE BlitToOffscreen(CHOOSE g \in drawn : TRUE, at)

InspectResult(inside, at, content, rgba) ==
  [inside |-> inside, at |-> at, viewport |-> content, rgba |-> rgba]

InspectPixel(x, y) ==
  LET mapped == MapPanePixel(Mapping, x, y)
  IN  IF mapped.inside
      THEN InspectResult(TRUE, mapped.at, Mapping.content, ReadPixelRegion(x, y))
      ELSE InspectResult(FALSE, <<0, 0>>, Mapping.content, Bar)

\* The command's answers: the render thread's, or none within INSPECT_TIMEOUT.
Answers(x, y) == {InspectPixel(x, y), InspectResult(FALSE, <<0, 0>>, <<0, 0>>, Blank)}

-----------------------------------------------------------------------------

Command == commands < MaxPending /\ commands' = commands + 1

\* A source that changes size at once: a seek or a step.
ChangeSource(w, h) == Command /\ LoadSource(w, h) /\ UNCHANGED drawn

ChangeSimulated(cfg) == Command /\ SetSimulatedViewport(cfg) /\ UNCHANGED drawn

\* A new size makes a new target.
ChangePane(w, h) ==
  /\ Command /\ SetViewport(w, h)
  /\ drawn' = IF pane' = pane THEN drawn ELSE {}

\* A frame; a source loaded before it or advanced by it takes effect first.
Draw(w, h) ==
  /\ LoadSource(w, h)
  /\ drawn' = {Geometry'}
  /\ commands' = 0

InspectorNext ==
  \/ \E w, h \in SrcDims : ChangeSource(w, h) \/ Draw(w, h)
  \/ \E w, h \in PaneDims : ChangePane(w, h)
  \/ ChangeSimulated(NoViewport)
  \/ \E w, h \in Dims, i \in BOOLEAN : ChangeSimulated(Config(w, h, i))

InspectorSpec == InspectorInit /\ [][InspectorNext]_inspectorVars

-----------------------------------------------------------------------------
\* The bars on the two sides of an axis.
LeftBar(a)  == Rect.offset[a]
RightBar(a) == Out[a] - Rect.size[a] - Rect.offset[a]

(* Whatever is loaded, resized or configured, the content stays inside the  *)
(* output resolution and is centered: the right or bottom bar is never the  *)
(* smaller one and exceeds the other by one pixel at most                   *)
(* (viewport.rs: "offset + size never exceeds the output").                 *)
ContentFitsCentered ==
  Active => \A a \in Axes : /\ Rect.size[a] >= 1
                            /\ RightBar(a) >= 0
                            /\ RightBar(a) - LeftBar(a) \in {0, 1}

(* Integer scale shows an image that fits at the largest whole multiple     *)
(* that fits, the same one on both axes.                                    *)
LargestIntegerMultiple ==
  (Active /\ simulated.integerScale /\ \A a \in Axes : source[a] <= Out[a]) =>
    \E n \in 1..Greater(Out[1], Out[2]) :
      /\ \A a \in Axes : Rect.size[a] = n * source[a]
      /\ \E a \in Axes : (n + 1) * source[a] > Out[a]

(* Aspect fit fills the output along one axis and keeps the source's ratio  *)
(* along the other to within half a pixel (or the one-pixel minimum).       *)
AspectRatioKept ==
  (Active /\ ~simulated.integerScale) =>
    \E a \in Axes :
      LET b == 3 - a
          error == 2 * (Rect.size[b] * source[a] - source[b] * Out[a])
      IN  /\ Rect.size[a] = Out[a]
          /\ \/ error <= source[a] /\ -error <= source[a]
             \/ Rect.size[b] = 1 /\ error > 0

(* The rectangle drawn into the pane never leaves the pane, so the draw is  *)
(* never rejected (renderer.rs: "clamp so x+w / y+h never exceed the pane").*)
CompositeInsidePane ==
  \A a \in Axes : /\ Mapping.pane[a][2] >= 1
                  /\ Mapping.pane[a][1] + Mapping.pane[a][2] <= pane[a]

(* The inspector reports a pixel of the content for every pane pixel on the *)
(* image, moving right or down never moves the reported pixel back, and     *)
(* when the image is shown at its size or larger every pixel of it can be   *)
(* reached.                                                                 *)
InspectorReachesEveryPixel ==
  \A a \in Axes :
    LET axis == Mapping.pane[a]
        size == Mapping.content[a]
        hit  == [p \in axis[1] .. axis[1] + axis[2] - 1 |-> MapAxis(p, axis, size)]
    IN  /\ \A p \in DOMAIN hit : hit[p] \in 0 .. size - 1
        /\ \A p, q \in DOMAIN hit : p <= q => hit[p] <= hit[q]
        /\ axis[2] >= size => {hit[p] : p \in DOMAIN hit} = 0 .. size - 1

(* Where the final image lands, in all three respects.                      *)
PlacementIsRight ==
  ContentFitsCentered /\ LargestIntegerMultiple /\ AspectRatioKept /\ CompositeInsidePane

\* The color read is of the pixel named.
ProbesAgree ==
  \A x \in 0 .. pane[1] - 1, y \in 0 .. pane[2] - 1 : \A r \in Answers(x, y) :
    r.inside => r.rgba.kind = "image" /\ \A a \in Axes : r.at[a] \in r.rgba.axes[a]

(* A probe names a pixel that is blended into the color it reads, and names *)
(* none exactly on the bars, when no command came since the frame           *)
(* (render_source.rs: "so the reported coordinate is in SIMULATED-VIEWPORT  *)
(* space").                                                                *)
ProbeNamesTheShownPixel ==
  drawn = {Geometry} =>
    /\ ProbesAgree
    /\ \A x \in 0 .. pane[1] - 1, y \in 0 .. pane[2] - 1 :
         InspectPixel(x, y).inside <=> ReadPixelRegion(x, y).kind = "image"

(* A probe reaches every pixel of the image and names the one it read.      *)
ProbesAreRight == InspectorReachesEveryPixel /\ ProbeNamesTheShownPixel

\* The same between two frames (render_source.rs: "updates in the same batch
\* all take effect on the next frame together").
EveryProbeNamesTheShownPixel == ProbesAgree

=============================================================================
