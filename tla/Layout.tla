---- MODULE Layout ----
(***************************************************************************)
(* Where the cover goes on the panel (crates/lprender/src/geometry.rs).    *)
(* Numbers are fractions [n, d], exact where the code has f32, and lengths *)
(* are in hundredths of a pixel; the panel and the picture have whole      *)
(* sizes, and the margin is a whole per cent.                              *)
(***************************************************************************)
EXTENDS Integers, FiniteSetsExt

F(n, d) == [n |-> n, d |-> d]
Times(f, g) == F(f.n * g.n, f.d * g.d)
Over(f, g) == F(f.n * g.d, f.d * g.n)
Exceeds(f, g) == f.n * g.d > g.n * f.d
Same(f, g) == f.n * g.d = g.n * f.d
Shorter(f, g) == IF Exceeds(f, g) THEN g ELSE f
One == F(1, 1)
Pixels(n) == F(100 * n, 1)

\* The frame the viewer sees: a quarter turn swaps its sides.
Logical(panel, cfg) ==
    LET w == Max({panel.w, 1})
        h == Max({panel.h, 1})
    IN IF cfg.rotation % 360 \in {90, 270} THEN [w |-> h, h |-> w] ELSE [w |-> w, h |-> h]

\* The art area: what the margin leaves, and square if it is to be.
Area(frame, cfg) ==
    LET left == 100 - 2 * Min({Max({cfg.margin, 0}), 45})
        w == F(frame.w * left, 1)
        h == F(frame.h * left, 1)
    IN IF cfg.square THEN [w |-> Shorter(w, h), h |-> Shorter(w, h)] ELSE [w |-> w, h |-> h]

\* Cover: the part of the picture that has the shape of the area.
Crop(aspect, area) ==
    IF Exceeds(aspect, area) THEN <<Over(area, aspect), One>> ELSE <<One, Over(aspect, area)>>

\* Contain: the largest quad of the picture's shape.
Shrunk(area, aspect) ==
    IF Exceeds(aspect, Over(area.w, area.h))
    THEN [w |-> area.w, h |-> Over(area.w, aspect)]
    ELSE [w |-> Times(area.h, aspect), h |-> area.h]

\* layout
Placed(panel, image, cfg) ==
    LET frame == Logical(panel, cfg)
        area == Area(frame, cfg)
        aspect == F(Max({image.w, 1}), Max({image.h, 1}))
        quad == IF cfg.cover THEN area ELSE Shrunk(area, aspect)
        uv == IF cfg.cover THEN Crop(aspect, Over(area.w, area.h)) ELSE <<One, One>>
        half == [w |-> Over(quad.w, Pixels(frame.w)), h |-> Over(quad.h, Pixels(frame.h))]
    IN [quad |-> quad, half |-> half, uv |-> uv,
        offset |-> [i \in {1, 2} |-> F(uv[i].d - uv[i].n, 2 * uv[i].d)],
        background |-> Exceeds(One, half.w) \/ Exceeds(One, half.h)]

\* Layout::rotation_matrix, column by column: the vertex shader turns the frame.
Turn(cfg) ==
    CASE cfg.rotation % 360 = 90 -> <<0, 1, -1, 0>>
      [] cfg.rotation % 360 = 180 -> <<-1, 0, 0, -1>>
      [] cfg.rotation % 360 = 270 -> <<0, -1, 1, 0>>
      [] OTHER -> <<1, 0, 0, 1>>

\* Rect::size_px of the quad once it is turned, on the physical panel.
OnGlass(panel, half, cfg) ==
    LET t == Turn(cfg)
        w == IF t[1] = 0 THEN half.h ELSE half.w
        h == IF t[1] = 0 THEN half.w ELSE half.h
    IN [w |-> Times(w, Pixels(panel.w)), h |-> Times(h, Pixels(panel.h))]

----
(* What is promised *)

\* On every panel and for every picture, the cover lies within the margins, is
\* never stretched, shows as much of the picture as fits, from its middle, and
\* the background is drawn just when some of the panel is left; turning the frame
\* keeps all that.  (geometry.rs, "every aspect ratio, orientation and connector
\* has to look deliberate".)
NeverStretched(panel, image, cfg) ==
    LET p == Placed(panel, image, cfg)
        frame == Logical(panel, cfg)
        area == Area(frame, cfg)
        glass == OnGlass(panel, p.half, cfg)
        upright == cfg.rotation % 180 = 0
        shown == [w |-> Times(p.uv[1], F(image.w, 1)), h |-> Times(p.uv[2], F(image.h, 1))]
    IN /\ ~Exceeds(p.quad.w, area.w) /\ ~Exceeds(p.quad.h, area.h)
       /\ Same(p.quad.w, area.w) \/ Same(p.quad.h, area.h)
       /\ Same(Over(p.quad.w, p.quad.h), Over(shown.w, shown.h))
       /\ Same(glass.w, IF upright THEN p.quad.w ELSE p.quad.h)
       /\ Same(glass.h, IF upright THEN p.quad.h ELSE p.quad.w)
       /\ \A i \in {1, 2} : ~Exceeds(p.uv[i], One) /\ p.offset[i].n >= 0
       /\ Same(p.uv[1], One) \/ Same(p.uv[2], One)
       /\ p.background <=> ~(Same(p.quad.w, Pixels(frame.w)) /\ Same(p.quad.h, Pixels(frame.h)))
====
