---------------------------- MODULE ImageProtocols ----------------------------
(***************************************************************************)
(* The two forms in which a raster is written to a terminal: sixels        *)
(* (packages/cli/src/rendering/sixel.ts), and a PNG in Kitty's chunks      *)
(* (kitty.ts).  The reference is the terminal: what it draws from what is  *)
(* written.                                                                *)
(*                                                                         *)
(* A raster is a sequence of rows of pixels.  A pixel is a shade of one    *)
(* channel, the result of compositing, or Clear where nothing is visible.  *)
(***************************************************************************)
EXTENDS Integers, Sequences, FiniteSets, SequencesExt

Clear == -1
BandHeight == 6

colorDistanceSquared(left, right) == (left - right) * (left - right)

\* The shades are counted in bins, and a bin stands for the shade in its
\* middle.
colorBin(color) == color \div 2
colorFromBin(bin) == 2 * bin + 1

Pixels(image) == (DOMAIN image) \X (DOMAIN image[1])
Visible(image) == {p \in Pixels(image) : image[p[1]][p[2]] # Clear}
Count(image, bin) ==
    Cardinality({p \in Visible(image) : colorBin(image[p[1]][p[2]]) = bin})

\* The bins of the image, the strongest first.
Candidates(image) ==
    SetToSortSeq({colorBin(image[p[1]][p[2]]) : p \in Visible(image)},
                 LAMBDA b, c : \/ Count(image, b) > Count(image, c)
                               \/ (Count(image, b) = Count(image, c) /\ b < c))

\* At most so many shades, none near another; but where all are near the
\* background, the strongest as well.
buildPalette(image, background, most, near) ==
    LET candidates == Candidates(image)
        Pick(palette, bin) ==
            IF \/ Len(palette) >= most
               \/ \E i \in DOMAIN palette :
                      colorDistanceSquared(palette[i], colorFromBin(bin)) < near * near
            THEN palette ELSE Append(palette, colorFromBin(bin))
        palette == FoldLeft(Pick, background, candidates)
        strongest == colorFromBin(candidates[1])
    IN  IF /\ background # <<>> /\ Len(palette) = 1 /\ candidates # <<>>
           /\ strongest # background[1]
        THEN Append(palette, strongest) ELSE palette

\* The first of the nearest.
nearestPaletteIndex(color, palette) ==
    CHOOSE i \in DOMAIN palette : \A j \in DOMAIN palette :
        LET here == colorDistanceSquared(color, palette[i])
            there == colorDistanceSquared(color, palette[j])
        IN  here < there \/ (here = there /\ i <= j)

\* Which plane each pixel of the band is drawn in; 0 is none.
BandPixels(image, band, palette) ==
    [p \in (1..BandHeight) \X (DOMAIN image[1]) |->
        LET row == (band - 1) * BandHeight + p[1] IN
        IF row > Len(image) \/ image[row][p[2]] = Clear THEN 0
        ELSE nearestPaletteIndex(image[row][p[2]], palette)]

\* Six rows of one plane make a character; n equal ones in a row are written
\* as a count where that is shorter (counts have one digit here).
appendRun(bits, n) ==
    IF n > 3 THEN <<[is |-> "repeat", count |-> n, bits |-> bits]>>
    ELSE [i \in 1..n |-> [is |-> "data", bits |-> bits]]

appendPlane(pixels, width, plane) ==
    LET Bits(column) == {row \in 1..BandHeight : pixels[row, column] = plane}
        Column(run, column) ==
            IF run.length > 0 /\ run.bits = Bits(column)
            THEN [run EXCEPT !.length = @ + 1]
            ELSE [out |-> run.out \o appendRun(run.bits, run.length),
                  bits |-> Bits(column), length |-> 1]
        last == FoldLeft(Column, [out |-> <<>>, bits |-> {}, length |-> 0],
                         [i \in 1..width |-> i])
    IN  last.out \o appendRun(last.bits, last.length)

\* What is written: for each band, plane over plane; none if nothing is
\* visible and there is no background.
encodeSixel(image, background, most, near) ==
    LET palette == buildPalette(image, background, most, near)
        bands == (Len(image) + BandHeight - 1) \div BandHeight
        Plane(pixels, i) ==
            <<[is |-> "color", index |-> i]>>
                \o appendPlane(pixels, Len(image[1]), i)
                \o (IF i < Len(palette) THEN <<[is |-> "$"]>> ELSE <<>>)
        Band(b) ==
            LET pixels == BandPixels(image, b, palette)
            IN  FlattenSeq([i \in DOMAIN palette |-> Plane(pixels, i)])
                    \o (IF b < bands THEN <<[is |-> "-"]>> ELSE <<>>)
    IN  IF palette = <<>> THEN <<>>
        ELSE FlattenSeq([b \in 1..bands |-> Band(b)])

\* The chunks of a payload, and the flag that says whether more follow.
splitBase64(value, maximum) ==
    [i \in 1..((Len(value) + maximum - 1) \div maximum) |->
        SubSeq(value, (i - 1) * maximum + 1,
               IF i * maximum < Len(value) THEN i * maximum ELSE Len(value))]

buildKittyPng(payload, maximum) ==
    LET chunks == splitBase64(payload, maximum) IN
    [i \in DOMAIN chunks |->
        [transmits |-> i = 1, more |-> i < Len(chunks), chunk |-> chunks[i]]]

-----------------------------------------------------------------------------
\* The terminal draws a character at its cursor, in the plane selected.
Drawn(tokens) ==
    LET Draw(t, token) ==
            LET width == IF token.is = "repeat" THEN token.count ELSE 1
            IN CASE token.is = "color" -> [t EXCEPT !.plane = token.index]
                 [] token.is = "$"     -> [t EXCEPT !.column = 0]
                 [] token.is = "-"     -> [t EXCEPT !.column = 0,
                                                    !.top = @ + BandHeight]
                 [] OTHER -> [t EXCEPT !.column = @ + width,
                        !.drawn = @ \o SetToSeq(
                            {<<t.top + row, t.column + i, t.plane>> :
                                row \in token.bits, i \in 1..width})]
    IN  FoldLeft(Draw, [top |-> 0, column |-> 0, plane |-> 0, drawn |-> <<>>],
                 tokens).drawn

\* Every visible pixel is drawn once, in the nearest shade of the palette, and
\* nothing else is: what is clear, and what lies below the image in its last
\* band, keeps the terminal's background.
SixelsDrawTheImage(image, background, most, near) ==
    LET palette == buildPalette(image, background, most, near)
        drawn == Drawn(encodeSixel(image, background, most, near))
    IN  /\ Len(palette) <= IF most > 2 THEN most ELSE 2
        /\ palette = <<>> => Visible(image) = {}
        /\ Len(drawn) = Cardinality(Visible(image))
        /\ ToSet(drawn) =
               {<<p[1], p[2], nearestPaletteIndex(image[p[1]][p[2]], palette)>> :
                   p \in Visible(image)}

\* The terminal keeps chunks while it is told of more, then shows the image.
Shown(written) ==
    LET Take(t, w) ==
            LET data == IF w.transmits THEN w.chunk ELSE t.held \o w.chunk
            IN  IF w.more THEN [t EXCEPT !.held = data]
                ELSE [held |-> <<>>, shown |-> Append(t.shown, data)]
    IN  FoldLeft(Take, [held |-> <<>>, shown |-> <<>>], written).shown

\* One image is shown, from the whole payload, whatever its length; no chunk is
\* empty or longer than a terminal takes.
KittyShowsThePayload(payload, maximum) ==
    LET written == buildKittyPng(payload, maximum) IN
    /\ Shown(written) = <<payload>>
    /\ \A i \in DOMAIN written : Len(written[i].chunk) \in 1..maximum
=============================================================================
