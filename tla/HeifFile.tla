------------------------------ MODULE HeifFile ------------------------------
(***************************************************************************)
(* Still images of heic: what Encode (encode.go, gridenc.go) puts into a   *)
(* file, what Decode and DecodeConfig (isobmff.go, heic.go, grid.go,       *)
(* transform.go) make of it, and of files other writers make.              *)
(*                                                                         *)
(* A plane is a function from coordinates to samples, and a sample is      *)
(* named by the place in the picture it was cut from, so that an image     *)
(* says where every pixel of it comes from.  Coding is lossless here: the  *)
(* decoder gives back the frame the encoder was handed.  A file is its     *)
(* item and property tables and the payloads that lie in it by offset.     *)
(***************************************************************************)
EXTENDS FiniteSetsExt, Integers, Sequences, SequencesExt

CONSTANTS
    Pictures,       \* what is encoded: [w, h, chroma, tile, alpha, icc, exif, xmp]
    Foreign,        \* files of other writers
    MaxLumaSamples, defaultTile, FrameSizeLimit,
    MaxSide,        \* 2^20: a side DecodeConfig believes
    MaxGrid,        \* 256 in the code: rows and columns of a grid
    MaxId,          \* 0xffff: item identifiers have 16 bits
    MaxProps,       \* 0x7f: the properties ipma can name
    MaxOffset       \* 2^32 - 1: what an item location can hold

VARIABLES
    image,      \* the picture handed to Encode, or None
    file,       \* the file, once there is one
    shown,      \* shown[r]: what Decode returned, without and with AutoRotate
    conf,       \* what DecodeConfig returned
    meta        \* what RawExif and RawXMP returned

vars == <<image, file, shown, conf, meta>>

\* Results: a value, or an error and no value.
Ok(v) == [err |-> "none", val |-> v]
Fail(e) == [err |-> e, val |-> <<>>]
Pending == Fail("pending")
None == Fail("absent")
Chain(r, F(_)) == IF r.err = "none" THEN F(r.val) ELSE r

SubW(chroma) == IF chroma \in {1, 2} THEN 2 ELSE 1
SubH(chroma) == IF chroma = 1 THEN 2 ELSE 1
roundUp(n, to) == ((n + to - 1) \div to) * to
Least(a, b) == IF a < b THEN a ELSE b
Area(w, h) == (0 .. w - 1) \X (0 .. h - 1)
Gap == <<"none", 0, 0>>     \* a sample nobody wrote

-----------------------------------------------------------------------------
(* Encode *)

\* toYCbCr and alphaPlane: planes whose last row and column are repeated.
Source(name, w, h) == [xy \in Area(w, h) |-> <<name, xy[1], xy[2]>>]
Frame(p, w, h) ==
    [w |-> w, h |-> h, chroma |-> p.chroma, y |-> Source("y", w, h),
     c |-> Source("c", w \div SubW(p.chroma), h \div SubH(p.chroma))]

cutTile(src, w, h, x0, y0, tw, th) ==
    [xy \in Area(tw, th) |-> src[<<Least(x0 + xy[1], w - 1), Least(y0 + xy[2], h - 1)>>]]
tile(f, x0, y0, n) ==
    LET sw == SubW(f.chroma)
        sh == SubH(f.chroma)
    IN [w |-> n, h |-> n, chroma |-> f.chroma, y |-> cutTile(f.y, f.w, f.h, x0, y0, n, n),
        c |-> cutTile(f.c, f.w \div sw, f.h \div sh, x0 \div sw, y0 \div sh, n \div sw, n \div sh)]
Alpha(w, h) == [w |-> w, h |-> h, chroma |-> 0, y |-> Source("a", w, h), c |-> Source("none", w, h)]

\* A payload: what it is and how many bytes it takes.
Payload(kind, len, body) == [kind |-> kind, len |-> len, body |-> body]
Sample(f) == Payload("picture", 4 + f.w * f.h, f)

Item(id, typ, data) == [id |-> id, typ |-> typ, mime |-> "", mono |-> FALSE, data |-> data,
                        props |-> <<>>, ref |-> "", to |-> <<>>]

\* heicFile.prop and its caches: a property is written once for its key.  What it
\* says is numbers: the size, the samples of a pixel, the sampling, 1 for a
\* profile and for the URN of alpha.
Property(key, typ, essential, v) == [key |-> key, typ |-> typ, essential |-> essential, v |-> v]
Shared(props, p) ==
    IF \E i \in DOMAIN props : props[i].key = p.key THEN props ELSE Append(props, p)
IndexOf(props, p) == CHOOSE i \in DOMAIN props : props[i].key = p.key

pixiProp(f, it) == IF it.mono \/ f.gray THEN Property("pixi1", "pixi", TRUE, <<1>>) ELSE Property("pixi3", "pixi", TRUE, <<3>>)
sizeProp(f, it) ==
    IF f.grid /\ it.typ = "hvc1" THEN Property("tile", "ispe", TRUE, <<f.tile, f.tile>>)
    ELSE Property("ispe", "ispe", TRUE, IF f.grid THEN f.size ELSE f.stored)
colorProps(f) == <<Property("nclx", "colr", FALSE, <<0>>)>>
                 \o IF f.icc THEN <<Property("prof", "colr", FALSE, <<1>>)>> ELSE <<>>
\* Mutant of clapData: the aperture is placed with whole samples.
clapData_whole(size, stored) ==
    <<size[1], 1, size[2], 1, -(stored[1] - size[1]), 1, -(stored[2] - size[2]), 1>>

clapData(size, stored) ==
    <<size[1], 1, size[2], 1, -(stored[1] - size[1]), 2, -(stored[2] - size[2]), 2>>

\* The properties an item calls for: hvcC if it has parameter sets.
Called(f, it, coded) ==
    LET isTile == it.typ = "hvc1" /\ f.grid IN
    <<sizeProp(f, it), pixiProp(f, it)>>
    \o (IF coded = {} THEN <<>> ELSE LET c == CHOOSE c \in coded : TRUE
                                     IN <<Property(<<"hvcC0", "hvcC1", "hvcC2", "hvcC3">>[c + 1], "hvcC", TRUE, <<c>>)>>)
    \o (IF it.mono THEN <<Property("auxC", "auxC", TRUE, <<1>>)>>
        ELSE IF isTile THEN <<>> ELSE colorProps(f))
    \o (IF ~f.grid /\ f.stored # f.size THEN <<Property("clap", "clap", FALSE, clapData(f.size, f.stored))>>
        ELSE <<>>)
Tie(f, it, ps, props) ==
    LET Of(i) == [idx |-> IndexOf(props, ps[i]), essential |-> ps[i].essential]
    IN [f EXCEPT !.props = props, !.items = Append(@, [it EXCEPT !.props = [i \in DOMAIN ps |-> Of(i)]])]
add(f, it, coded) ==
    LET With(ps) == Tie(f, it, ps, FoldLeft(Shared, f.props, ps)) IN With(Called(f, it, coded))
Hvc1(f, id, frame, aux, to) ==
    add(f, [Item(id, "hvc1", Sample(frame)) EXCEPT !.mono = aux, !.ref = IF aux THEN "auxl" ELSE "",
                                                  !.to = to], {frame.chroma})

single(f, p) ==
    LET Covered(g) == IF p.alpha THEN Hvc1(g, 2, Alpha(f.stored[1], f.stored[2]), TRUE, <<1>>) ELSE g
    IN Covered(Hvc1(f, 1, Frame(p, f.stored[1], f.stored[2]), FALSE, <<>>))

\* heicFile.picture: a grid, its tiles from left to right and down, and then
\* the alpha of each tile.
Columns(f, n) == (f.stored[1] + n - 1) \div n
Lines(f, n) == (f.stored[2] + n - 1) \div n
Whole(f, n, k) ==
    LET desc == Payload("grid", 12, [rows |-> Lines(f, n), cols |-> Columns(f, n), w |-> f.size[1], h |-> f.size[2]])
    IN add(f, [Item(1, "grid", desc) EXCEPT !.ref = "dimg", !.to = [i \in 1 .. k |-> 1 + i]], {})
Cut(f, frame, n, i) == tile(frame, (i % Columns(f, n)) * n, (i \div Columns(f, n)) * n, n)
grid(f, p, n, k) ==
    LET Tiled(h, i) == Hvc1(h, 2 + i, Cut(f, Frame(p, f.stored[1], f.stored[2]), n, i), FALSE, <<>>)
        Cover(h, i) == Hvc1(h, 2 + k + i, Cut(f, Alpha(f.stored[1], f.stored[2]), n, i), TRUE, <<2 + i>>)
        ids == [i \in 1 .. k |-> i - 1]
        Covered(g) == IF p.alpha THEN FoldLeft(Cover, g, ids) ELSE g
    IN Covered(FoldLeft(Tiled, Whole([f EXCEPT !.grid = TRUE, !.tile = n], n, k), ids))
picture(f, p, n) == IF n = 0 THEN single(f, p) ELSE grid(f, p, n, Columns(f, n) * Lines(f, n))

\* heicFile.meta: an item that describes the picture and has no properties.
describe(f, given, typ, mime, data) ==
    IF ~given THEN f ELSE
    [f EXCEPT !.items = Append(@, [Item((Len(f.items) + 1) % (MaxId + 1), typ, data)
                                   EXCEPT !.mime = mime, !.ref = "cdsc", !.to = <<1>>])]

\* metaBox: item locations count from the start of the file, so the box is made
\* twice; its length does not depend on the offsets in it.
Total(nums) == FoldLeft(+, 0, nums)
metaLen(f) ==
    12 + 33 + 14
    + 14 + Total([i \in DOMAIN f.items |-> 25 + Len(f.items[i].mime)])
    + 16 + 14 * Len(f.items)
    + (IF \E i \in DOMAIN f.items : f.items[i].ref # "" THEN 12 ELSE 0)
    + Total([i \in DOMAIN f.items |-> IF f.items[i].ref = "" THEN 0 ELSE 12 + 2 * Len(f.items[i].to)])
    + 8 + 8 + 20 * Len(f.props)
    + 16 + Total([i \in DOMAIN f.items |-> IF f.items[i].props = <<>> THEN 0 ELSE 3 + Len(f.items[i].props)])
ftypLen == 24
Behind(f, offset, i) == offset + Total([j \in 1 .. i - 1 |-> f.items[j].data.len])
metaBox(f, offset) ==
    IF Len(f.props) > MaxProps \/ \E i \in DOMAIN f.items : Behind(f, offset, i + 1) > MaxOffset
    THEN Fail("unsupported")
    ELSE Ok([i \in DOMAIN f.items |-> [off |-> Behind(f, offset, i), len |-> f.items[i].data.len]])

\* marshal: the tables of the meta box, and what lies where in the file.
Entry(it, loc) == [id |-> it.id, typ |-> it.typ, mime |-> it.mime, props |-> it.props, extents |-> <<loc>>]
Reference(it) == [typ |-> it.ref, from |-> it.id, to |-> it.to]
Tables(f, locs, start) ==
    [primary |-> 1, props |-> f.props,
     items |-> [i \in DOMAIN f.items |-> Entry(f.items[i], locs[i])],
     refs |-> SelectSeq([i \in DOMAIN f.items |-> Reference(f.items[i])], LAMBDA r : r.typ # ""),
     data |-> {[off |-> Behind(f, start, i), p |-> f.items[i].data] : i \in DOMAIN f.items}]
marshal(f) ==
    LET At(len) == LET start == ftypLen + len + 8
                       Placed(locs) == Ok(Tables(f, locs, start))
                       Again(locs) == Chain(metaBox(f, start), Placed)
                   IN Chain(metaBox(f, 0), Again)
    IN At(metaLen(f))

\* Encode: a picture too large for a level becomes a grid by itself.  A grid has
\* an item for every tile and for the alpha of it.
Written(p, f, n) ==
    LET sw == SubW(p.chroma)
        sh == SubH(p.chroma)
        Exif(g) == describe(g, p.exif, "Exif", "", Payload("exif", 10, p))
        Xmp(g) == describe(g, p.xmp, "mime", "xmp", Payload("xmp", 7, p))
    IN IF \/ n # 0 /\ (n % sw # 0 \/ n % sh # 0 \/ n * n > MaxLumaSamples)
          \/ n # 0 /\ (Columns(f, n) > MaxGrid \/ Lines(f, n) > MaxGrid
                       \/ Lines(f, n) * Columns(f, n) * 2 + 2 > MaxId)
       THEN Fail("unsupported") ELSE marshal(Xmp(Exif(picture(f, p, n))))
Encoded(p) ==
    LET Stored(w, h) == Written(p, [size |-> <<p.w, p.h>>, stored |-> <<w, h>>, gray |-> p.chroma = 0, icc |-> p.icc,
                                    grid |-> FALSE, tile |-> 0, items |-> <<>>, props |-> <<>>],
                                IF p.tile = 0 /\ w * h > MaxLumaSamples THEN defaultTile ELSE p.tile)
    IN Stored(roundUp(p.w, SubW(p.chroma)), roundUp(p.h, SubH(p.chroma)))

-----------------------------------------------------------------------------
(* The tables, read *)

HasItem(m, id) == \E i \in DOMAIN m.items : m.items[i].id = id
ItemOf(m, id) == m.items[CHOOSE i \in DOMAIN m.items : m.items[i].id = id]

\* markUnsupported: an essential property this reader does not know.
knownProps == {"ispe", "hvcC", "pixi", "auxC", "irot", "imir", "clap", "colr"}
Unsupported(m, it) ==
    \E i \in DOMAIN it.props : /\ it.props[i].essential
                               /\ \/ it.props[i].idx \notin DOMAIN m.props
                                  \/ m.props[it.props[i].idx].typ \notin knownProps

\* metaBox.prop: the first of its type.
Matching(m, it, typ) ==
    SelectSeq(it.props, LAMBDA a : a.idx \in DOMAIN m.props /\ m.props[a.idx].typ = typ)
HasProp(m, it, typ) == Matching(m, it, typ) # <<>>
Prop(m, it, typ) == m.props[Matching(m, it, typ)[1].idx].v

\* refsTo: the first reference of its type from the item.
refsTo(m, typ, id) ==
    LET found == SelectSeq(m.refs, LAMBDA r : r.typ = typ /\ r.from = id)
    IN IF found = <<>> THEN <<>> ELSE found[1].to

\* file.primary.
Primary(m) ==
    IF ~HasItem(m, m.primary) THEN Fail("invalid")
    ELSE IF Unsupported(m, ItemOf(m, m.primary)) THEN Fail("unsupported") ELSE Ok(ItemOf(m, m.primary))

\* alphaOf: the first auxiliary item of this one that carries alpha.
Covers(m, r, id) == /\ r.typ = "auxl" /\ r.to # <<>> /\ r.to[1] = id /\ HasItem(m, r.from)
                    /\ ~Unsupported(m, ItemOf(m, r.from)) /\ HasProp(m, ItemOf(m, r.from), "auxC")
                    /\ Prop(m, ItemOf(m, r.from), "auxC") = <<1>>
alphaOf(m, id) == SelectSeq(m.refs, LAMBDA r : Covers(m, r, id))

\* metaBox.data: what lies in the range the location names.
Data(m, it) ==
    LET e == it.extents[1]
        found == {d \in m.data : d.off = e.off /\ d.p.len = e.len}
    IN IF found = {} THEN Fail("invalid") ELSE Ok((CHOOSE d \in found : TRUE).p)

-----------------------------------------------------------------------------
(* Decode *)

\* decodeItem, with the decoder giving back the frame that was coded.
decodeItem(m, it) ==
    LET Decode(p) == IF HasProp(m, it, "ispe") /\ Prop(m, it, "ispe")[1] * Prop(m, it, "ispe")[2] > FrameSizeLimit
                     THEN Fail("unsupported")
                     ELSE IF p.kind # "picture" THEN Fail("invalid")
                     ELSE IF p.body.w * p.body.h > FrameSizeLimit THEN Fail("unsupported")
                     ELSE Ok(p.body @@ [x0 |-> 0, y0 |-> 0])
    IN IF it.typ # "hvc1" THEN Fail("unsupported")
       ELSE IF ~HasProp(m, it, "hvcC") THEN Fail("invalid")
       ELSE Chain(Data(m, it), Decode)
decodeTile(m, id) == IF HasItem(m, id) THEN decodeItem(m, ItemOf(m, id)) ELSE Fail("invalid")

\* gridOf: the grid is described in the item's data, its tiles are references.
gridOf(m, it) ==
    LET Check(p) == IF p.kind # "grid" \/ Len(refsTo(m, "dimg", it.id)) # p.body.rows * p.body.cols
                    THEN Fail("invalid") ELSE Ok(p.body)
    IN Chain(Data(m, it), Check)

\* blit: tile i of a plane with one sample for sw by sh, cut off where the canvas
\* of ow by oh samples ends.
Left(g, i, tw, sw) == ((i % g.cols) * tw) \div sw
Top(g, i, th, sh) == ((i \div g.cols) * th) \div sh
blit(g, planes, tw, th, sw, sh, ow, oh) ==
    LET In(i, xy) == /\ xy[1] - Left(g, i, tw, sw) \in 0 .. tw \div sw - 1
                     /\ xy[2] - Top(g, i, th, sh) \in 0 .. th \div sh - 1
    IN [xy \in Area(ow, oh) |->
        LET on == {i \in 0 .. g.rows * g.cols - 1 : In(i, xy)} IN
        IF on = {} THEN Gap
        ELSE LET i == Max(on) IN planes[i + 1][<<xy[1] - Left(g, i, tw, sw), xy[2] - Top(g, i, th, sh)>>]]

\* decodeTiles (GridDecode) with newGrid.
Stitched(g, parts, first, sw, sh) ==
    LET Planes(Of(_)) == [i \in DOMAIN parts |-> Of(parts[i].val)]
    IN [w |-> g.w, h |-> g.h, x0 |-> 0, y0 |-> 0, chroma |-> first.chroma,
        y |-> blit(g, Planes(LAMBDA p : p.y), first.w, first.h, 1, 1, g.w, g.h),
        c |-> blit(g, Planes(LAMBDA p : p.c), first.w, first.h, sw, sh, (g.w + sw - 1) \div sw, (g.h + sh - 1) \div sh)]
Assembled(g, parts, bad) ==
    LET Shape(p) == <<p.w, p.h, p.chroma>>
        Around(first) ==
            IF \/ first.w * g.cols < g.w \/ first.h * g.rows < g.h
               \/ \E i \in DOMAIN parts : Shape(parts[i].val) # Shape(first)
            THEN Fail("invalid") ELSE Ok(Stitched(g, parts, first, SubW(first.chroma), SubH(first.chroma)))
    IN IF bad # {} THEN Fail(parts[Min(bad)].err) ELSE Around(parts[1].val)
decodeTiles(m, g, ids) ==
    LET All(parts) == Assembled(g, parts, {i \in DOMAIN parts : parts[i].err # "none"})
    IN All([i \in DOMAIN ids |-> decodeTile(m, ids[i])])

decodeImage(m, it) ==
    LET Tiled(g) == IF g.w * g.h > FrameSizeLimit THEN Fail("unsupported")
                    ELSE decodeTiles(m, g, refsTo(m, "dimg", it.id))
    IN IF Unsupported(m, it) THEN Fail("unsupported")
       ELSE IF it.typ # "grid" THEN decodeItem(m, it) ELSE Chain(gridOf(m, it), Tiled)
gridAlpha(m, it) ==
    LET Found(as) == IF \E i \in DOMAIN as : as[i] = <<>> THEN None
                     ELSE decodeTiles(m, gridOf(m, it).val, [i \in DOMAIN as |-> as[i][1].from])
        Of(ids) == Found([i \in DOMAIN ids |-> alphaOf(m, ids[i])])
    IN IF gridOf(m, it).err # "none" THEN gridOf(m, it) ELSE Of(refsTo(m, "dimg", it.id))
Cover(m, it) ==
    LET Aux(as) == IF as = <<>> THEN None ELSE decodeImage(m, ItemOf(m, as[1].from))
    IN IF it.typ = "grid" THEN gridAlpha(m, it) ELSE Aux(alphaOf(m, it.id))

\* cropRect: the clean aperture in a picture of w by h, if there is one.
Origin(k, w, h) ==
    [x |-> (w * k[6] + 2 * k[5] - (k[1] \div k[2]) * k[6]) \div (2 * k[6]),
     y |-> (h * k[8] + 2 * k[7] - (k[3] \div k[4]) * k[8]) \div (2 * k[8]), w |-> k[1] \div k[2], h |-> k[3] \div k[4]]
WholeSamples(k, w, h) ==
    /\ k[1] % k[2] = 0 /\ k[3] % k[4] = 0
    /\ (w * k[6] + 2 * k[5] - (k[1] \div k[2]) * k[6]) % (2 * k[6]) = 0
    /\ (h * k[8] + 2 * k[7] - (k[3] \div k[4]) * k[8]) % (2 * k[8]) = 0
cropRect(k, w, h) ==
    LET Inside(r) == IF r.x < 0 \/ r.y < 0 \/ r.w <= 0 \/ r.h <= 0 \/ r.x + r.w > w \/ r.y + r.h > h
                     THEN Fail("invalid") ELSE Ok(r)
    IN IF (\E i \in {2, 4, 6, 8} : k[i] <= 0) \/ k[1] < 0 \/ k[3] < 0 \/ ~WholeSamples(k, w, h)
       THEN Fail("invalid") ELSE Inside(Origin(k, w, h))

\* Mutant of aperture: it is taken wherever it lies.
aperture_anywhere(m, it, w, h, sw, sh) ==
    IF HasProp(m, it, "clap") THEN cropRect(Prop(m, it, "clap"), w, h) ELSE None

aperture(m, it, w, h, sw, sh) ==
    LET OnGrid(r) == IF r.x % sw # 0 \/ r.y % sh # 0 THEN Fail("invalid") ELSE Ok(r)
    IN IF HasProp(m, it, "clap") THEN Chain(cropRect(Prop(m, it, "clap"), w, h), OnGrid) ELSE None

\* clip: down to the declared size, and to an aperture on the chroma grid.
Declared(m, it, pic) ==
    IF ~HasProp(m, it, "ispe") THEN pic
    ELSE [pic EXCEPT !.w = Least(@, Prop(m, it, "ispe")[1]), !.h = Least(@, Prop(m, it, "ispe")[2])]
Aperture(m, it, pic) == LET Of(p) == aperture(m, it, p.w, p.h, SubW(p.chroma), SubH(p.chroma)) IN Of(Declared(m, it, pic))
clip(m, it, pic, r) ==
    IF r.err # "none" THEN Declared(m, it, pic)
    ELSE [pic EXCEPT !.x0 = @ + r.val.x, !.y0 = @ + r.val.y, !.w = r.val.w, !.h = r.val.h]

\* toImage with views: every pixel, the samples it is made of, and its alpha.
Opaque == <<"opaque", 0, 0>>
Pixel(pic, alpha, x, y) ==
    <<pic.y[<<pic.x0 + x, pic.y0 + y>>],
      IF pic.chroma = 0 THEN Gap
      ELSE pic.c[<<pic.x0 \div SubW(pic.chroma) + x \div SubW(pic.chroma),
                   pic.y0 \div SubH(pic.chroma) + y \div SubH(pic.chroma)>>],
      IF alpha.err = "absent" THEN Opaque ELSE alpha.val.y[<<alpha.val.x0 + x, alpha.val.y0 + y>>]>>
toImage(pic, alpha) ==
    IF alpha.err = "none" /\ (alpha.val.w # pic.w \/ alpha.val.h # pic.h) THEN Fail("unsupported")
    ELSE Ok([w |-> pic.w, h |-> pic.h, pix |-> [xy \in Area(pic.w, pic.h) |-> Pixel(pic, alpha, xy[1], xy[2])]])

\* raw.crop, rotate (anti-clockwise) and mirror.
crop(r, x, y, w, h) == [w |-> w, h |-> h, pix |-> [xy \in Area(w, h) |-> r.pix[<<x + xy[1], y + xy[2]>>]]]
rotate(r, angle) ==
    LET w == IF angle % 2 = 0 THEN r.w ELSE r.h
        h == IF angle % 2 = 0 THEN r.h ELSE r.w
    IN [w |-> w, h |-> h, pix |-> [xy \in Area(w, h) |->
        CASE angle = 0 -> r.pix[xy]
          [] angle = 1 -> r.pix[<<r.w - 1 - xy[2], xy[1]>>]
          [] angle = 2 -> r.pix[<<r.w - 1 - xy[1], r.h - 1 - xy[2]>>]
          [] angle = 3 -> r.pix[<<xy[2], r.h - 1 - xy[1]>>]]]
mirror(r, axis) ==
    [r EXCEPT !.pix = [xy \in Area(r.w, r.h) |->
        IF axis = 0 THEN r.pix[<<xy[1], r.h - 1 - xy[2]>>] ELSE r.pix[<<r.w - 1 - xy[1], xy[2]>>]]]

Turned(m, it, r) ==
    LET Mirrored(q) == IF HasProp(m, it, "imir") THEN mirror(q, Prop(m, it, "imir")[1]) ELSE q
    IN Ok(Mirrored(IF HasProp(m, it, "irot") THEN rotate(r, Prop(m, it, "irot")[1]) ELSE r))

\* transform: clap, irot and imir in that order, and clap only if clip did not.
transform(m, it, img, clapped) ==
    LET Cropped(k) == Ok(crop(img, k.x, k.y, k.w, k.h))
        Finish(i) == Turned(m, it, i)
    IN Chain(IF HasProp(m, it, "clap") /\ ~clapped
             THEN Chain(cropRect(Prop(m, it, "clap"), img.w, img.h), Cropped) ELSE Ok(img), Finish)

\* decodeItemImage: the picture and its alpha are clipped alike.
Composed(m, it, pic, r, alpha, autoRotate) ==
    LET cover == IF alpha.err = "none" THEN Ok(clip(m, it, alpha.val, Aperture(m, it, alpha.val))) ELSE alpha
        Finish(i) == IF autoRotate THEN transform(m, it, i, r.err = "none") ELSE Ok(i)
    IN IF alpha.err \notin {"none", "absent"} THEN alpha ELSE Chain(toImage(clip(m, it, pic, r), cover), Finish)
decodeItemImage(m, it, autoRotate) ==
    LET With(pic) == Composed(m, it, pic, Aperture(m, it, pic), Cover(m, it), autoRotate)
    IN Chain(decodeImage(m, it), With)

\* chromaOf and size: what DecodeConfig makes of the tables alone.
chromaOf(m, it) ==
    LET ids == refsTo(m, "dimg", it.id)
    IN IF HasProp(m, it, "hvcC") THEN Prop(m, it, "hvcC")[1]
       ELSE IF it.typ = "grid" /\ ids # <<>> /\ HasItem(m, ids[1]) /\ HasProp(m, ItemOf(m, ids[1]), "hvcC")
       THEN Prop(m, ItemOf(m, ids[1]), "hvcC")[1] ELSE 1
size(m, it) ==
    LET In(s, r) == IF \E n \in {s[1], s[2]} : n = 0 \/ n > MaxSide THEN Fail("invalid")
                    ELSE IF r.err = "none" THEN Ok(<<r.val.w, r.val.h>>) ELSE Ok(s)
        Of(s, chroma) == In(s, aperture(m, it, s[1], s[2], SubW(chroma), SubH(chroma)))
    IN IF ~HasProp(m, it, "ispe") THEN Fail("invalid") ELSE Of(Prop(m, it, "ispe"), chromaOf(m, it))

\* descItem: the first metadata item of its kind that describes the picture.
Describes(m, it, typ, mime) ==
    /\ it.typ = typ /\ it.mime = mime /\ ~Unsupported(m, it)
    /\ Primary(m).err = "none" => Primary(m).val.id \in ToSet(refsTo(m, "cdsc", it.id))
descItem(m, typ, mime) ==
    LET found == SelectSeq(m.items, LAMBDA it : Describes(m, it, typ, mime))
    IN IF found = <<>> THEN None ELSE Data(m, found[1])

\* colr: the profile of the item, or of the first tile of a grid without one.
Profiled(m, it) == \E a \in ToSet(it.props) : a.idx \in DOMAIN m.props /\ m.props[a.idx].typ = "colr" /\ m.props[a.idx].v = <<1>>
colorInfo(m, it) ==
    LET ids == refsTo(m, "dimg", it.id)
    IN Profiled(m, it) \/ (it.typ = "grid" /\ ids # <<>> /\ HasItem(m, ids[1]) /\ Profiled(m, ItemOf(m, ids[1])))

-----------------------------------------------------------------------------
NoMeta == [exif |-> Pending, xmp |-> Pending, icc |-> Pending]
Init == /\ \/ image \in {Ok(p) : p \in Pictures} /\ file = Pending
           \/ image = None /\ file \in {Ok(m) : m \in Foreign}
        /\ shown = [r \in BOOLEAN |-> Pending] /\ conf = Pending /\ meta = NoMeta

Encode == /\ file.err = "pending" /\ file' = Encoded(image.val)
          /\ UNCHANGED <<image, shown, conf, meta>>

Decode(autoRotate) ==
    LET Shown(it) == decodeItemImage(file.val, it, autoRotate) IN
    /\ file.err = "none" /\ shown[autoRotate].err = "pending"
    /\ shown' = [shown EXCEPT ![autoRotate] = Chain(Primary(file.val), Shown)]
    /\ UNCHANGED <<image, file, conf, meta>>

DecodeConfig ==
    LET Size(it) == size(file.val, it) IN
    /\ file.err = "none" /\ conf.err = "pending"
    /\ conf' = Chain(Primary(file.val), Size)
    /\ UNCHANGED <<image, file, shown, meta>>

Metadata ==
    LET Colour(it) == Ok(colorInfo(file.val, it)) IN
    /\ file.err = "none" /\ meta.icc.err = "pending"
    /\ meta' = [exif |-> descItem(file.val, "Exif", ""), xmp |-> descItem(file.val, "mime", "xmp"),
                icc |-> Chain(Primary(file.val), Colour)]
    /\ UNCHANGED <<image, file, shown, conf>>

Next == Encode \/ (\E r \in BOOLEAN : Decode(r)) \/ DecodeConfig \/ Metadata
Spec == Init /\ [][Next]_vars

-----------------------------------------------------------------------------
\* What Encode writes comes back: the picture in its own size, every pixel of it
\* from its place in luma, chroma and alpha, whole or in tiles, whatever had to
\* be repeated or cut off, with the metadata that was given and no other.
Expected(p, x, y) ==
    <<<<"y", x, y>>, IF p.chroma = 0 THEN Gap ELSE <<"c", x \div SubW(p.chroma), y \div SubH(p.chroma)>>,
      IF p.alpha THEN <<"a", x, y>> ELSE Opaque>>
Kept(given, r, kind) == IF given THEN r.err = "none" /\ r.val.kind = kind ELSE r.err = "absent"
FilesReadBack ==
    image.err = "none" /\ file.err = "none" =>
        LET p == image.val IN
        /\ \A r \in BOOLEAN : shown[r].err # "pending" =>
              shown[r].err = "none" /\ shown[r].val = ([w |-> p.w, h |-> p.h, pix |-> [xy \in Area(p.w, p.h) |-> Expected(p, xy[1], xy[2])]])
        /\ conf.err # "pending" => conf.err = "none" /\ conf.val = <<p.w, p.h>>
        /\ meta.icc.err # "pending" => /\ Kept(p.exif, meta.exif, "exif") /\ Kept(p.xmp, meta.xmp, "xmp")
                            /\ meta.icc.err = "none" /\ meta.icc.val = p.icc

\* The transformations of MIAF 7.3.6.7, applied to the picture as it is coded:
\* the clean aperture, quarter turns one after the other, and the mirror.
Turn(r) == [w |-> r.h, h |-> r.w, pix |-> [xy \in Area(r.h, r.w) |-> r.pix[<<r.w - 1 - xy[2], xy[1]>>]]]
Turns(r, n) == FoldLeft(LAMBDA s, i : Turn(s), r, [i \in 1 .. n |-> i])
CodedImage(m, it, cover) == toImage(Declared(m, it, decodeImage(m, it).val),
                                IF cover.err = "none" THEN Ok(Declared(m, it, cover.val)) ELSE None).val
Specified(m, it) ==
    LET Cropped(r, k) == crop(r, k.x, k.y, k.w, k.h)
        Trimmed(r) == IF HasProp(m, it, "clap") THEN Cropped(r, cropRect(Prop(m, it, "clap"), r.w, r.h).val) ELSE r
        Upright(r) == IF HasProp(m, it, "irot") THEN Turns(r, Prop(m, it, "irot")[1]) ELSE r
        Mirrored(r) == IF HasProp(m, it, "imir") THEN mirror(r, Prop(m, it, "imir")[1]) ELSE r
    IN Mirrored(Upright(Trimmed(CodedImage(m, it, Cover(m, it)))))

\* What AutoRotate shows is what the file specifies, for colour and alpha: the
\* aperture once, whether it falls on the chroma grid or not.  And Decode gives
\* the size DecodeConfig promised, if the item declares the size it is coded in.
SizeDeclared(m, it, pic) == HasProp(m, it, "ispe") /\ Prop(m, it, "ispe") = <<pic.w, pic.h>>
ShownAs(m, it) ==
    /\ shown[TRUE].err = "none" => shown[TRUE].val = Specified(m, it)
    /\ shown[FALSE].err = "none" /\ conf.err # "pending" /\ SizeDeclared(m, it, decodeImage(m, it).val) =>
          conf.err = "none" /\ conf.val = <<shown[FALSE].val.w, shown[FALSE].val.h>>
DisplayedAsSpecified == file.err = "none" => ShownAs(file.val, Primary(file.val).val)
=============================================================================
