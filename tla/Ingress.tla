------------------------------ MODULE Ingress ------------------------------
(***************************************************************************)
(* The structural gate of the ingestion pipeline                           *)
(* (research/vendorchain/ingress.py): which files it lets in.  An operator *)
(* yields "accepted" or the reason of the Rejected exception.              *)
(*                                                                         *)
(* Data abstraction.  A JPEG is its bytes, since its segment lengths and   *)
(* markers are what the walk can lose its way in.  A PNG is its chunks,    *)
(* the last of which may run past the end of the file, and the bytes left  *)
(* over.  A PDF is the graph of its values: an array or a dictionary leads *)
(* to the values written in it.  The object a reference names is one value *)
(* wherever it is named; the trailer and whatever is written directly are  *)
(* values too, of one place.  What Pillow, pypdf and expat make of a file, *)
(* of a value or of a stream, their exceptions included, is data.          *)
(***************************************************************************)
EXTENDS Integers, Sequences, FiniteSets, FiniteSetsExt, SequencesExt

CONSTANTS
  MaxChunks,    \* 4096 chunks of a PNG
  MaxSide,      \* MAX_SIDE of an image
  MaxPixels,    \* MAX_PIXELS of an image
  MaxDepth,     \* 48 levels of nesting and references
  MaxObjects,   \* 20000 values of a PDF
  MaxExpanded,  \* MAX_EXPANDED bytes of its streams
  MaxPages      \* MAX_PAGES of a PDF

ASSUME IngressAssumption ==
  /\ MaxChunks \in Nat /\ MaxSide \in Nat /\ MaxPixels \in Nat /\ MaxDepth \in Nat
  /\ MaxObjects \in Nat /\ MaxExpanded \in Nat /\ MaxPages \in Nat

\* What the libraries make of a file of each kind.  "IDAT" is any type but the two
\* named.  A value is flawed by what the walk would stop at: a reference that names
\* nothing pypdf can read, a denied key or type, an image too large, a stream that cannot
\* be decoded, metadata with a DTD or that is no XML.
Chunk == [type : {"IHDR", "IDAT", "IEND"}, length : Nat, width : Nat, height : Nat,
          crc : BOOLEAN, cut : BOOLEAN]

Object(ids) ==
  [refs : Seq(ids), size : Nat,
   flaw : {"none", "unreadable", "pdf_active_content", "image_dimension_limit", "undecodable",
           "xml_dtd_forbidden", "malformed"}]

IsGraph(f) ==
  LET ids == DOMAIN f.objects IN
  /\ IsFiniteSet(ids) /\ f.objects \in [ids -> Object(ids)]
  /\ f.trailer \in ids /\ f.xref \in SUBSET ids

IsFile(f) ==
  /\ f.kind \in {"PNG", "JPEG", "PDF", "executable", "other"}
  /\ f.kind = "JPEG" => f.bytes \in Seq(0 .. 255) /\ Len(f.bytes) >= 3
  /\ f.kind = "PNG" => f.chunks \in Seq(Chunk)
  /\ f.kind = "PDF" =>
       /\ IsGraph(f) /\ f.pages \in Nat
       /\ f.opens \in {"accepted", "encrypted_pdf", "parser_rejected"}
       /\ f.boxes \in {"accepted", "pdf_page_dimensions", "parser_rejected"}

\* The reasons for which a file is refused.
Refusals ==
  {"file_size_limit", "EXECUTABLE_SPOOF", "secondary_zip_container", "unsupported_signature",
   "png_chunk_bounds", "png_crc", "png_chunk_limit", "png_ihdr", "png_trailing_data", "png_incomplete",
   "jpeg_incomplete", "jpeg_marker", "jpeg_unexpected_marker", "jpeg_trailing_data", "jpeg_segment_bounds",
   "image_dimension_limit", "animated_image", "parser_rejected",
   "pdf_trailing_or_incomplete", "encrypted_pdf", "pdf_page_limit", "pdf_page_dimensions",
   "pdf_depth_limit", "pdf_object_limit", "pdf_active_content", "pdf_expansion_limit", "xml_dtd_forbidden"}

\* The markers jpeg_structure tells apart.
Fill == 255
TEM == 1
SOI == 216
EOI == 217
SOS == 218
RST == 208 .. 215

DimensionsOK(w, h) == w > 0 /\ h > 0 /\ w <= MaxSide /\ h <= MaxSide /\ w * h <= MaxPixels

\* Faulty variant: the restart markers of a scan end it.
EntropyWithoutRestarts(code) == code = 0

\* Inside a scan: a stuffed zero or a restart marker, which continue it.
ContinuesScan(code) == code = 0 \/ code \in RST

\* What a round of jpeg_structure's loop over d makes of the marker that ends before next.
JpegMarked(d, s, next) ==
  LET code == d[next - 1]
      length == d[next] * 256 + d[next + 1]
      Ends(verdict) == [s EXCEPT !.verdict = verdict]
      Goes(pos, scan) == [s EXCEPT !.pos = pos, !.scan = scan]
  IN IF code = EOI THEN Ends(IF next = Len(d) + 1 THEN "accepted" ELSE "jpeg_trailing_data")
     ELSE IF code \in {0, SOI} \cup RST THEN Ends("jpeg_unexpected_marker")
     ELSE IF code = TEM THEN Goes(next, FALSE)
     ELSE IF next + 1 > Len(d) THEN Ends("jpeg_incomplete")
     ELSE IF length < 2 \/ next + length > Len(d) + 1 THEN Ends("jpeg_segment_bounds")
     ELSE Goes(next + length, code = SOS)

\* One round, at byte s.pos (counted from one).
JpegRound(d, s) ==
  LET fills == {i \in s.pos .. Len(d) : d[i] = Fill}
      at == IF s.scan /\ fills # {} THEN Min(fills) ELSE s.pos
      codes == {i \in at .. Len(d) : d[i] # Fill}
      Ends(verdict) == [s EXCEPT !.verdict = verdict]
  IN IF s.verdict # "none" THEN s
     ELSE IF s.pos > Len(d) \/ (s.scan /\ fills = {}) THEN Ends("jpeg_incomplete")
     ELSE IF d[at] # Fill THEN Ends("jpeg_marker")
     ELSE IF codes = {} THEN Ends("jpeg_incomplete")
     ELSE IF s.scan /\ ContinuesScan(d[Min(codes)]) THEN [s EXCEPT !.pos = Min(codes) + 1]
     ELSE JpegMarked(d, s, Min(codes) + 1)

JpegStart == [pos |-> 3, scan |-> FALSE, verdict |-> "none"]

\* The loop after n rounds; every round but the last takes a byte at least.
JpegWalk(d) ==
  LET after[n \in 0 .. Len(d)] == IF n = 0 THEN JpegStart ELSE JpegRound(d, after[n - 1])
  IN after

JpegStructure(d) == JpegWalk(d)[Len(d)].verdict

\* What a round of png_structure's loop finds in chunk i, "none" when it goes on.
PngChunk(f, i) ==
  LET c == f.chunks[i] IN
  IF c.cut THEN "png_chunk_bounds"
  ELSE IF ~c.crc THEN "png_crc"
  ELSE IF i > MaxChunks THEN "png_chunk_limit"
  ELSE IF i = 1 /\ (c.type # "IHDR" \/ c.length # 13) THEN "png_ihdr"
  ELSE IF c.type = "IHDR" /\ ~DimensionsOK(c.width, c.height) THEN "image_dimension_limit"
  ELSE IF c.type # "IEND" THEN "none"
  ELSE IF c.length = 0 /\ i = Len(f.chunks) /\ f.rest = 0 THEN "accepted"
  ELSE "png_trailing_data"

\* The first chunk with a verdict ends the loop.
PngStructure(f) ==
  LET decisive == {i \in DOMAIN f.chunks : PngChunk(f, i) # "none"} IN
  IF decisive = {} THEN "png_incomplete" ELSE PngChunk(f, Min(decisive))

ImageGate(f) ==
  LET structure == IF f.kind = "PNG" THEN PngStructure(f) ELSE JpegStructure(f.bytes) IN
  IF structure # "accepted" THEN structure
  ELSE IF ~DimensionsOK(f.width, f.height) THEN "image_dimension_limit"
  ELSE IF f.frames # 1 THEN "animated_image"
  ELSE IF ~f.decodes THEN "parser_rejected"
  ELSE "accepted"

AtDepth(ids, depth) == [i \in DOMAIN ids |-> [id |-> ids[i], depth |-> depth]]

\* Faulty variant: only what the trailer leads to is visited.
PdfStartAtTrailer(f) == AtDepth(<<f.trailer>>, 0)

\* The trailer, then every object of the cross reference tables.
PdfStart(f) == AtDepth(<<f.trailer>> \o SetToSeq(f.xref), 0)

\* One step of walk: stack is what the recursion has still to visit, next one first.
PdfStep(f, s) ==
  LET top == Head(s.stack)
      obj == f.objects[top.id]
      Ends(verdict) == [s EXCEPT !.verdict = verdict]
  IN IF s.verdict # "none" THEN s
     ELSE IF s.stack = <<>> THEN Ends("accepted")
     ELSE IF top.depth > MaxDepth THEN Ends("pdf_depth_limit")
     ELSE IF top.id \in s.seen THEN [s EXCEPT !.stack = Tail(@)]
     ELSE IF obj.flaw = "unreadable" THEN Ends("parser_rejected")
     ELSE IF Cardinality(s.seen) + 1 > MaxObjects THEN Ends("pdf_object_limit")
     ELSE IF obj.flaw \in {"pdf_active_content", "image_dimension_limit"} THEN Ends(obj.flaw)
     ELSE IF obj.flaw = "undecodable" THEN Ends("parser_rejected")
     ELSE IF s.expanded + obj.size > MaxExpanded THEN Ends("pdf_expansion_limit")
     ELSE IF obj.flaw = "xml_dtd_forbidden" THEN Ends(obj.flaw)
     ELSE IF obj.flaw = "malformed" THEN Ends("parser_rejected")
     ELSE [s EXCEPT !.stack = AtDepth(obj.refs, top.depth + 1) \o Tail(@),
                    !.seen = @ \cup {top.id}, !.expanded = @ + obj.size]

\* The places in the values that hold a value or a reference.
References(f) == UNION {{o} \X DOMAIN f.objects[o].refs : o \in DOMAIN f.objects}

\* The walk after n steps; each of the start and of these places is visited once at most.
PdfWalk(f) ==
  LET after[n \in 0 .. Len(PdfStart(f)) + Cardinality(References(f)) + 1] ==
        IF n = 0 THEN [stack |-> PdfStart(f), seen |-> {}, expanded |-> 0, verdict |-> "none"]
        ELSE PdfStep(f, after[n - 1])
  IN after

PdfWalked(f) == PdfWalk(f)[Len(PdfStart(f)) + Cardinality(References(f)) + 1].verdict

PdfGate(f) ==
  IF ~f.eof THEN "pdf_trailing_or_incomplete"
  ELSE IF f.opens # "accepted" THEN f.opens
  ELSE IF f.pages \notin 1 .. MaxPages THEN "pdf_page_limit"
  ELSE IF PdfWalked(f) # "accepted" THEN PdfWalked(f)
  ELSE f.boxes

Validate(f) ==
  IF ~f.fits THEN "file_size_limit"
  ELSE IF f.kind = "executable" THEN "EXECUTABLE_SPOOF"
  ELSE IF f.zip THEN "secondary_zip_container"
  ELSE IF f.kind \in {"PNG", "JPEG"} THEN ImageGate(f)
  ELSE IF f.kind = "PDF" THEN PdfGate(f)
  ELSE "unsupported_signature"

----------------------------------------------------------------------------
(* What the gate is to let in, said without walking the file. *)

\* Bytes p .. q-1 are a marker: fill bytes, then its code.
MarkerAt(d, p, q) ==
  /\ p + 1 < q /\ q <= Len(d) + 1
  /\ \A i \in p .. q - 2 : d[i] = Fill
  /\ d[q - 1] # Fill

\* Bytes p .. q-1 are entropy-coded data: every run of fill bytes in it is
\* followed, still in it, by a stuffed zero or a restart code.
EntropyCoded(d, p, q) ==
  \A i \in p .. q - 1 : d[i] = Fill =>
    \E j \in i + 1 .. q - 1 : /\ \A k \in i .. j - 1 : d[k] = Fill
                              /\ d[j] = 0 \/ d[j] \in RST

\* Bytes p .. q-1 are one unit of a JPEG: a marker that stands alone, a segment
\* of the length it declares, or a scan with its data up to the next marker.
UnitAt(d, p, q) ==
  \E m \in p + 2 .. q :
    /\ MarkerAt(d, p, m)
    /\ d[m - 1] \notin {0, SOI, EOI} \cup RST
    /\ \/ d[m - 1] = TEM /\ q = m
       \/ /\ d[m - 1] # TEM /\ m + 1 < Len(d) + 1
          /\ LET end == m + d[m] * 256 + d[m + 1] IN
             /\ m + 2 <= end /\ end <= q
             /\ IF d[m - 1] = SOS
                THEN /\ EntropyCoded(d, end, q)
                     /\ q <= Len(d) /\ d[q] = Fill
                     /\ \E c \in q + 1 .. Len(d) : MarkerAt(d, q, c + 1) /\ ~(d[c] = 0 \/ d[c] \in RST)
                ELSE q = end

\* Where a division into units can cut: the least set that has the first marker and,
\* with the start of a unit, its end.
JpegCuts(d) ==
  LET units == {u \in (1 .. Len(d)) \X (1 .. Len(d)) : UnitAt(d, u[1], u[2])}
      ends == {3} \cup {u[2] : u \in units}
      Closed(S) == 3 \in S /\ \A u \in units : u[1] \in S => u[2] \in S
  IN {p \in ends : \A S \in SUBSET ends : Closed(S) => p \in S}

\* Some division into units ends with the end marker, and that with the file.
JpegWellFormed(d) == \E p \in JpegCuts(d) : MarkerAt(d, p, Len(d) + 1) /\ d[Len(d)] = EOI

PngWellFormed(f) ==
  LET n == Len(f.chunks) IN
  /\ n \in 1 .. MaxChunks /\ f.rest = 0
  /\ f.chunks[1].type = "IHDR" /\ f.chunks[1].length = 13
  /\ f.chunks[n].type = "IEND" /\ f.chunks[n].length = 0
  /\ \A i \in 1 .. n - 1 : f.chunks[i].type # "IEND"
  /\ \A i \in 1 .. n : LET c == f.chunks[i] IN
       ~c.cut /\ c.crc /\ (c.type = "IHDR" => DimensionsOK(c.width, c.height))

\* The least set with the trailer and the tables' objects that has what its values hold.
PdfObjects(f) ==
  LET Closed(S) == /\ {f.trailer} \cup f.xref \subseteq S
                   /\ \A o \in S : Range(f.objects[o].refs) \subseteq S
  IN {o \in DOMAIN f.objects : \A S \in SUBSET DOMAIN f.objects : Closed(S) => o \in S}

\* The bytes the streams among the values S expand to.
ExpandedBytes(f, S) == UNION {{o} \X (1 .. f.objects[o].size) : o \in S}

\* pypdf reads the file, no value of it, orphans included, is denied or spoilt, and
\* together they expand to no more than allowed.
PdfHarmless(f) ==
  /\ f.eof /\ f.opens = "accepted" /\ f.pages \in 1 .. MaxPages /\ f.boxes = "accepted"
  /\ \A o \in PdfObjects(f) : f.objects[o].flaw = "none"
  /\ Cardinality(ExpandedBytes(f, PdfObjects(f))) <= MaxExpanded

\* No chain of values, each held by the one before, that repeats one at its end at most
\* goes too deep.
PdfShallow(f) ==
  \A s \in BoundedSeq(DOMAIN f.objects, Cardinality(DOMAIN f.objects) + 1) :
    (/\ s # <<>> /\ s[1] \in {f.trailer} \cup f.xref
     /\ \A i \in 1 .. Len(s) - 1 : s[i + 1] \in Range(f.objects[s[i]].refs)
     /\ IsInjective(Front(s)))
    => Len(s) - 1 <= MaxDepth

\* What the policy of ingress.py lets in, and what it is bound to refuse.
Permitted(f) ==
  /\ f.fits /\ ~f.zip /\ f.kind \in {"PNG", "JPEG", "PDF"}
  /\ f.kind = "JPEG" => JpegWellFormed(f.bytes)
  /\ f.kind = "PNG" => PngWellFormed(f)
  /\ f.kind \in {"PNG", "JPEG"} => DimensionsOK(f.width, f.height) /\ f.frames = 1 /\ f.decodes
  /\ f.kind = "PDF" => PdfHarmless(f)

WithinLimits(f) ==
  f.kind = "PDF" => PdfShallow(f) /\ Cardinality(PdfObjects(f)) <= MaxObjects
============================================================================
