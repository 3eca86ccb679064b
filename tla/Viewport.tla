------------------------------ MODULE Viewport ------------------------------
(***************************************************************************)
(* Output geometry of the preview engine: how the source image is fitted   *)
(* into the simulated viewport (viewport.rs), how a pass's render target   *)
(* is sized (pass.rs) and where the final image lands in the preview pane  *)
(* (renderer.rs), plus the pane-to-viewport mapping of the pixel inspector.*)
(*                                                                         *)
(* A size is a pair <<width, height>>.  The f32 products and quotients of  *)
(* the code are exact rationals here: a scale factor is a pair             *)
(* <<numerator, denominator>> and RoundDiv is f32::round of a quotient.    *)
(***************************************************************************)
EXTENDS Integers

Lesser(a, b)  == IF a <= b THEN a ELSE b
Greater(a, b) == IF a >= b THEN a ELSE b
Clamp(v, lo, hi) == Lesser(Greater(v, lo), hi)

\* f32::round (half away from zero) of a / b, for a >= 0 and b > 0.
RoundDiv(a, b) == (2 * a + b) \div (2 * b)

-----------------------------------------------------------------------------
(* Content rectangle: the aspect-fit or integer-scale image, centered.      *)

AtLeastOne(size) == <<Greater(size[1], 1), Greater(size[2], 1)>>

IntegerFit(out, src) ==
  LET n == Greater(Lesser(out[1] \div src[1], out[2] \div src[2]), 1)
  IN  <<src[1] * n, src[2] * n>>

AspectFit(out, src) ==
  IF out[1] * src[2] <= out[2] * src[1]
  THEN <<out[1], RoundDiv(src[2] * out[1], src[1])>>
  ELSE <<RoundDiv(src[1] * out[2], src[2]), out[2]>>

ContentRectOf(out, fit) ==
  LET w == Clamp(fit[1], 1, out[1])
      h == Clamp(fit[2], 1, out[2])
  IN  [size |-> <<w, h>>, offset |-> <<(out[1] - w) \div 2, (out[2] - h) \div 2>>]

\* ViewportConfig::content_rect.
ContentRect(cfg, source) ==
  LET out == AtLeastOne(cfg.size)
      src == AtLeastOne(source)
  IN  ContentRectOf(out, IF cfg.integerScale THEN IntegerFit(out, src)
                                             ELSE AspectFit(out, src))

-----------------------------------------------------------------------------
(* Render-target sizing of one pass.                                        *)

MaxTexelSize == 16384

\* AxisScale::resolve; an axis scale is [type, factor], factor a ratio.
AxisResolve(axis, input, viewport) ==
  LET raw == CASE axis.type = "source"   -> RoundDiv(input * axis.factor[1], axis.factor[2])
               [] axis.type = "viewport" -> RoundDiv(viewport * axis.factor[1], axis.factor[2])
               [] axis.type = "absolute" -> RoundDiv(axis.factor[1], axis.factor[2])
  IN  Clamp(raw, 1, MaxTexelSize)

\* ScaleConfig::resolve: the two axes are resolved independently.
ScaleResolve(scale, input, viewport) ==
  <<AxisResolve(scale.x, input[1], viewport[1]), AxisResolve(scale.y, input[2], viewport[2])>>

Axis(type, num, den) == [type |-> type, factor |-> <<num, den>>]
Source1x   == [x |-> Axis("source", 1, 1),   y |-> Axis("source", 1, 1)]
Viewport1x == [x |-> Axis("viewport", 1, 1), y |-> Axis("viewport", 1, 1)]

-----------------------------------------------------------------------------
(* Compositing into the pane, and the inspector's mapping back.             *)

\* MUTANT: the pane is scaled by the content's length instead of the output's.
CompositeAxis_ByContent(pane, out, offset, length) ==
  LET start == RoundDiv(offset * pane, length)
      len   == Lesser(pane, Greater(pane - start, 0))
  IN  <<start, Greater(len, 1)>>

\* One axis of Renderer::final_composite_rect: <<start, length>> in the pane.
CompositeAxis(pane, out, offset, length) ==
  LET start == RoundDiv(offset * pane, out)
      len   == Lesser(RoundDiv(length * pane, out), Greater(pane - start, 0))
  IN  <<start, Greater(len, 1)>>

\* Renderer::final_composite_rect, as a pair of axes.
FinalCompositeRect(cfg, source, pane) ==
  LET rect == ContentRect(cfg, source)
      out  == AtLeastOne(cfg.size)
  IN  <<CompositeAxis(pane[1], out[1], rect.offset[1], rect.size[1]),
        CompositeAxis(pane[2], out[2], rect.offset[2], rect.size[2])>>

NoViewport == [size |-> <<0, 0>>, integerScale |-> FALSE, active |-> FALSE]

\* Renderer::viewport_size: the content size under a simulated viewport, else the pane.
ViewportSize(cfg, source, pane) ==
  IF cfg = NoViewport THEN pane ELSE ContentRect(cfg, source).size

\* Renderer::pane_mapping.
PaneMapping(cfg, source, pane) ==
  [pane    |-> IF cfg = NoViewport THEN <<<<0, pane[1]>>, <<0, pane[2]>>>>
                                   ELSE FinalCompositeRect(cfg, source, pane),
   content |-> ViewportSize(cfg, source, pane)]

\* One axis of PaneMapping::map_pane_pixel, for a pane pixel inside the rect:
\* the pixel's center, scaled into the content, floored and clamped.
MapAxis(p, axis, content) ==
  Lesser(((2 * (p - axis[1]) + 1) * content) \div (2 * axis[2]), content - 1)

InsideAxis(p, axis) == p >= axis[1] /\ p < axis[1] + axis[2]

\* PaneMapping::map_pane_pixel.
MapPanePixel(m, px, py) ==
  IF InsideAxis(px, m.pane[1]) /\ InsideAxis(py, m.pane[2])
  THEN [inside |-> TRUE, at |-> <<MapAxis(px, m.pane[1], Greater(m.content[1], 1)),
                                  MapAxis(py, m.pane[2], Greater(m.content[2], 1))>>]
  ELSE [inside |-> FALSE, at |-> <<0, 0>>]

=============================================================================
