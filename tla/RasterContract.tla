---------------------------- MODULE RasterContract ----------------------------
(***************************************************************************)
(* The limits on a formula's raster, written four times: by the worker     *)
(* that makes it (packages/latex-renderer/src/worker.ts), by the host that *)
(* receives it (protocol.ts), by the cache of the interface (cli/src/tui/  *)
(* formula-renderer.ts) and by the store on disk (cli/src/config/          *)
(* formula-cache.ts).  A raster that one of them lets pass and the next    *)
(* refuses would cost the host a worker, or the store a file, each time    *)
(* the formula is rendered.                                                *)
(*                                                                         *)
(* A raster is the number of its rows and columns of pixels and of the     *)
(* bytes of its two encodings.                                             *)
(***************************************************************************)
EXTENDS Integers

MaxWidth  == 4096
MaxHeight == 2048
MaxArea   == 8388608
MaxPng    == 8 * 1024 * 1024
MaxRgba   == 4 * MaxArea
MaxFile   == 64 * 1024 * 1024

Raster == [width : Int, height : Int, png : Nat, pixels : Nat]

\* What assertRasterDimensions lets pass.
DimensionsPass(w, h) ==
    /\ w >= 1 /\ h >= 1
    /\ w <= MaxWidth /\ h <= MaxHeight
    /\ w * h <= MaxArea

\* Every side is padded, and the padded image is checked as well.
Padding == 4
Padded(n) == n + 2 * Padding

\* The worker posts a raster of a formula whose natural size, scaled, is w by
\* h.  The encoder writes at least a header.
WorkerPosts(w, h, raster) ==
    /\ DimensionsPass(w, h)
    /\ raster.width = Padded(w) /\ raster.height = Padded(h)
    /\ DimensionsPass(raster.width, raster.height)
    /\ raster.png >= 1 /\ raster.png <= MaxPng
    /\ raster.pixels <= MaxRgba
    /\ raster.pixels = raster.width * raster.height * 4

\* isValidRenderPayload: else the host retires the worker.
HostAccepts(raster) ==
    /\ 1 <= raster.png /\ raster.png <= MaxPng
    /\ 1 <= raster.width /\ raster.width <= MaxWidth
    /\ 1 <= raster.height /\ raster.height <= MaxHeight
    /\ raster.width * raster.height <= MaxArea
    /\ raster.pixels <= MaxRgba
    /\ raster.pixels = raster.width * raster.height * 4

\* validateRaster: else the formula stays text.
CacheKeeps(raster) ==
    /\ 1 <= raster.png /\ raster.png <= MaxPng
    /\ raster.pixels <= MaxRgba
    /\ 0 < raster.width /\ 0 < raster.height
    /\ raster.width <= MaxWidth /\ raster.height <= MaxHeight
    /\ raster.width * raster.height * 4 <= MaxRgba
    /\ raster.pixels = raster.width * raster.height * 4

\* isValidRaster: else nothing is written.
StoreWrites(raster) ==
    /\ 0 < raster.width /\ raster.width <= MaxWidth
    /\ 0 < raster.height /\ raster.height <= MaxHeight
    /\ 1 <= raster.png /\ raster.png <= MaxPng
    /\ raster.width * raster.height <= MaxArea
    /\ raster.pixels = raster.width * raster.height * 4
    /\ raster.pixels <= MaxRgba

\* The bytes of the file: two base64 texts, and the rest of the JSON.
Base64(n) == 4 * ((n + 2) \div 3)
MaxRest == 512
FileBytes(raster, rest) == Base64(raster.png) + Base64(raster.pixels) + rest

\* get: a file that is too long is discarded; decodeRecord checks the rest.
StoreReads(raster, rest) ==
    /\ 1 <= FileBytes(raster, rest) /\ FileBytes(raster, rest) <= MaxFile
    /\ 0 < raster.width /\ raster.width <= MaxWidth
    /\ 0 < raster.height /\ raster.height <= MaxHeight
    /\ 1 <= raster.png /\ raster.png <= MaxPng
    /\ raster.width * raster.height * 4 <= raster.pixels
    /\ raster.pixels <= MaxRgba
=============================================================================
