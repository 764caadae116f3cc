----------------------------- MODULE MCSandbox -----------------------------
(***************************************************************************)
(* Sandbox on every small file of each shape.  JPEGs are all byte strings  *)
(* of up to four bytes after the signature, of up to four after the header *)
(* of a scan and of up to three after that of a segment, over the bytes    *)
(* the walk tells apart.                                                   *)
(***************************************************************************)
EXTENDS Sandbox

Common(kind) ==
  [kind |-> kind, fits |-> TRUE, zip |-> FALSE, width |-> 2, height |-> 2, frames |-> 1, decodes |-> TRUE]
Call(f, e) == [file |-> f, expected |-> e]

Bytes == {Fill, 0, TEM, 2, 208, SOI, EOI, SOS}
Jpegs ==
  {Call(Common("JPEG") @@ [bytes |-> <<Fill, SOI, Fill>> \o body], None) :
     body \in BoundedSeq(Bytes, 4) \cup {<<SOS, 0, 2>> \o tail : tail \in BoundedSeq(Bytes, 4)}
                                   \cup {<<224, 0, 3>> \o tail : tail \in BoundedSeq(Bytes, 3)}}

AChunk(type, length, side) ==
  [type |-> type, length |-> length, width |-> side, height |-> 2, crc |-> TRUE, cut |-> FALSE]
Chunks == {AChunk("IHDR", 13, 2), AChunk("IHDR", 13, 4), AChunk("IHDR", 12, 2), AChunk("IDAT", 1, 0),
           AChunk("IEND", 0, 0), AChunk("IEND", 1, 0),
           [AChunk("IDAT", 1, 0) EXCEPT !.crc = FALSE], [AChunk("IEND", 0, 0) EXCEPT !.cut = TRUE]}
Pngs == {Call(Common("PNG") @@ [chunks |-> c, rest |-> r], None) :
           c \in BoundedSeq(Chunks, 4), r \in {0, 1}}

\* The trailer is value 1.
Objects == 2 .. 4
Refs == {<<>>, <<2>>, <<3>>, <<4>>, <<2, 3>>, <<3, 4>>, <<4, 3>>, <<3, 2>>, <<4, 2>>}
Flaws == {"none", "unreadable", "pdf_active_content", "image_dimension_limit", "undecodable",
          "xml_dtd_forbidden", "malformed"}
Value(refs, flaw, size) == [refs |-> refs, flaw |-> flaw, size |-> size]
Graph(top, refs, flaw, size) ==
  (1 :> Value(top, "none", 0)) @@
  [o \in Objects |-> IF o = 4 THEN Value(refs[o], flaw, size) ELSE Value(refs[o], "none", 1)]
Pdf == Common("PDF") @@ [eof |-> TRUE, opens |-> "accepted", pages |-> 1, boxes |-> "accepted"]
Pdfs == {Call(Pdf @@ [trailer |-> 1, xref |-> x, objects |-> Graph(t, refs, fs[1], fs[2])], None) :
           t \in {<<2>>, <<3, 2>>}, x \in {{}, {4}, Objects},
           refs \in [Objects -> Refs], fs \in {<<f, 1>> : f \in Flaws} \cup {<<"none", 4>>}}

OneValue(flaw) == [objects |-> <<Value(<<>>, flaw, 0)>>, trailer |-> 1, xref |-> {}]
Letter == Pdf @@ OneValue("none")
Photo == Common("JPEG") @@ [bytes |-> <<Fill, SOI, Fill, EOI>>]
Oddities ==
  {Call(f, None) : f \in {[Letter EXCEPT !.eof = FALSE],
     [Letter EXCEPT !.opens = "encrypted_pdf"], [Letter EXCEPT !.opens = "parser_rejected"],
     [Letter EXCEPT !.pages = 0], [Letter EXCEPT !.pages = 3], Pdf @@ OneValue("pdf_active_content"),
     [Letter EXCEPT !.boxes = "pdf_page_dimensions"], [Letter EXCEPT !.boxes = "parser_rejected"],
     [Letter EXCEPT !.zip = TRUE], [Letter EXCEPT !.fits = FALSE], [Letter EXCEPT !.kind = "executable"],
     [Letter EXCEPT !.kind = "other"]}}
  \cup {Call(f, None) : f \in {[Photo EXCEPT !.frames = 2], [Photo EXCEPT !.decodes = FALSE],
     [Photo EXCEPT !.zip = TRUE],
     [Photo EXCEPT !.width = 4], [Photo EXCEPT !.height = 0], Photo}}

Terms == {<<>>, << <<"a">> >>, << <<"a", "b">> >>, << <<"a", "b", "a">> >>, << <<"a", "-", "b", "b">> >>,
          << <<"-">> >>, << <<"a", "b", "a", "a">> >>, << <<"b">>, <<"b", "a", "b">> >>,
          << <<"a">>, <<"b">>, <<"a">> >>}
Reads == {Call(f, e) : f \in {[Letter EXCEPT !.pages = n] : n \in {1, 2}}, e \in Terms}
Photographs == {Call(Photo, e) : e \in Terms}

MCRequests == <<Jpegs, Pngs, Pdfs, Oddities, Reads, Photographs>>
MCTexts == BoundedSeq({"a", "b", "-"}, 3)
============================================================================
