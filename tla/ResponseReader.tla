--------------------------- MODULE ResponseReader ---------------------------
(***************************************************************************)
(* How the server takes one HTTP response out of a byte stream             *)
(* (rgrok-server proxy.rs read_http_response and the functions it calls).  *)
(*                                                                         *)
(* The reader is a record; Receive adds what a read returned, Advance does *)
(* what the code does with the bytes it has until it must read again.      *)
(* A byte is a string: "i" and "h" start an informational and the final    *)
(* header section, "r" and "l" are CR and LF, "x" stands for a chunk's     *)
(* extension, "t" stands for a trailer line's text, and "p" pads a header. *)
(* The digits of a chunk's size are one byte, whose value SizeOf gives.    *)
(* The body may hold any of these like any other byte.                     *)
(***************************************************************************)
EXTENDS Naturals, Sequences, SequencesExt

CONSTANTS
  MaxHead,   \* MAX_RESPONSE_HEADERS
  MaxInfos,  \* MAX_INFORMATIONAL_RESPONSES
  MaxBody,   \* max_response_body_bytes
  Bytes,     \* what a byte can be
  SizeOf     \* the length that a chunk size stands for

ASSUME ReaderBounds == MaxHead \in Nat /\ MaxInfos \in Nat /\ MaxBody \in Nat

ASSUME BytesAssumption ==
  /\ {"i", "h", "p", "r", "l", "x", "t"} \subseteq Bytes
  /\ SizeOf \in [DOMAIN SizeOf -> Nat] /\ DOMAIN SizeOf \subseteq Bytes
  /\ "r" \notin DOMAIN SizeOf
  /\ \E s \in DOMAIN SizeOf : SizeOf[s] = 0

CRLF == <<"r", "l">>

(***************************************************************************)
(* What a local service sends: the reference the reader is compared with.  *)
(* A response has informational responses before it, a framing, a padding  *)
(* of its header, a body in parts, each a chunk of its own when chunked,   *)
(* and then perhaps an extension in each chunk and a trailer.              *)
(***************************************************************************)
Framings == {"nobody", "fixed", "chunked", "close", "unsupported"}

Response == [infos : Nat, framing : Framings, pad : Nat, parts : Seq(Seq(Bytes)), ext : BOOLEAN]

\* A chunk has a size, which is not that of the last one.
Sendable(r) ==
  /\ r \in Response
  /\ r.framing = "chunked" =>
       \A i \in DOMAIN r.parts : \E s \in DOMAIN SizeOf : SizeOf[s] = Len(r.parts[i]) /\ SizeOf[s] # 0

Body(r) == FlattenSeq(r.parts)

SizeByte(n) == CHOOSE s \in DOMAIN SizeOf : SizeOf[s] = n

Extension(ext) == IF ext THEN <<"x">> ELSE <<>>
Chunk(data, ext) == <<SizeByte(Len(data))>> \o Extension(ext) \o CRLF \o data \o CRLF
Chunks(parts, ext) == FlattenSeq([i \in DOMAIN parts |-> Chunk(parts[i], ext)])

Trailer(ext) == (IF ext THEN <<"t">> \o CRLF ELSE <<>>) \o CRLF
LastChunk(ext) == <<SizeByte(0)>> \o CRLF \o Trailer(ext)

Head1(start, pad) == <<start>> \o [i \in 1..pad |-> "p"] \o CRLF \o CRLF
Infos(n) == FlattenSeq([i \in 1..n |-> Head1("i", 0)])

AfterHeadWire(r) ==
  IF r.framing = "chunked" THEN Chunks(r.parts, r.ext) \o LastChunk(r.ext) ELSE Body(r)

Wire(r) == Infos(r.infos) \o Head1("h", r.pad) \o AfterHeadWire(r)

HeadLen(r) == 5 + r.pad

\* Whether the server's limits and rules allow the response at all.
Acceptable(r) ==
  /\ r.infos <= MaxInfos /\ HeadLen(r) <= MaxHead /\ (r.infos > 0 => 5 <= MaxHead)
  /\ r.framing # "unsupported"
  /\ r.framing # "nobody" => Len(Body(r)) <= MaxBody

-----------------------------------------------------------------------------
(***************************************************************************)
(* The reader.                                                             *)
(***************************************************************************)
NewReader == [at |-> "head", buf |-> <<>>, body |-> <<>>, want |-> 0, infos |-> 0]

Find(s, pattern) ==
  LET hits == {i \in 1..(Len(s) - Len(pattern) + 1) :
                 SubSeq(s, i, i + Len(pattern) - 1) = pattern}
  IN IF hits = {} THEN 0 ELSE CHOOSE i \in hits : \A j \in hits : i <= j

Drop(s, n) == SubSeq(s, n + 1, Len(s))
Error(rd) == [rd EXCEPT !.at = "error"]

\* response_has_no_body, parse_content_length and the choice of the framing.
AfterHead(rd, r) ==
  CASE r.framing = "nobody" -> [rd EXCEPT !.at = "ok"]
    [] r.framing = "unsupported" -> Error(rd)
    [] r.framing = "chunked" -> [rd EXCEPT !.at = "size"]
    [] r.framing = "fixed" ->
         IF Len(Body(r)) > MaxBody THEN Error(rd)
         ELSE LET n == IF Len(rd.buf) < Len(Body(r)) THEN Len(rd.buf) ELSE Len(Body(r))
              IN [rd EXCEPT !.at = "fixed", !.want = Len(Body(r)),
                            !.body = SubSeq(rd.buf, 1, n), !.buf = Drop(rd.buf, n)]
    [] r.framing = "close" ->
         IF Len(rd.buf) > MaxBody THEN Error(rd)
         ELSE [rd EXCEPT !.at = "close", !.body = rd.buf, !.buf = <<>>]

read_header_section(rd, r) ==
  LET end == Find(rd.buf, CRLF \o CRLF)
      rest == [rd EXCEPT !.buf = Drop(rd.buf, end + 3)]
  IN CASE end = 0 /\ Len(rd.buf) >= MaxHead -> Error(rd)
       [] end = 0 /\ Len(rd.buf) < MaxHead -> rd
       [] end > 0 /\ end + 3 > MaxHead -> Error(rd)
       [] end > 0 /\ end + 3 <= MaxHead ->
            IF rd.buf[1] = "h" THEN AfterHead(rest, r)
            ELSE IF rd.infos + 1 > MaxInfos THEN Error(rd)
            ELSE [rest EXCEPT !.infos = @ + 1]

\* Reading on until there is more than the content length.
read_fixed_body_past_end(rd) == IF Len(rd.body) > rd.want THEN [rd EXCEPT !.at = "ok"] ELSE rd

read_fixed_body(rd) == IF Len(rd.body) >= rd.want THEN [rd EXCEPT !.at = "ok"] ELSE rd

\* read_line_crlf: the line, or nothing yet.
HasLine(rd) == Find(rd.buf, CRLF) > 0
Line(rd) == SubSeq(rd.buf, 1, Find(rd.buf, CRLF) - 1)
PastLine(rd) == Drop(rd.buf, Find(rd.buf, CRLF) + 1)

LineTooLong(rd) == ~HasLine(rd) /\ Len(rd.buf) > MaxHead

read_chunk_size(rd) ==
  IF LineTooLong(rd) THEN Error(rd)
  ELSE IF ~HasLine(rd) THEN rd
  ELSE IF Line(rd) = <<>> \/ Line(rd)[1] \notin DOMAIN SizeOf THEN Error(rd)
  ELSE LET size == SizeOf[Line(rd)[1]] IN
       CASE size = 0 -> [rd EXCEPT !.at = "trailer", !.buf = PastLine(rd)]
         [] size > 0 /\ size > MaxBody - Len(rd.body) -> Error(rd)
         [] OTHER -> [rd EXCEPT !.at = "data", !.want = size, !.buf = PastLine(rd)]

read_chunk_data(rd) ==
  IF Len(rd.buf) < rd.want THEN rd
  ELSE [rd EXCEPT !.at = "crlf", !.body = @ \o SubSeq(rd.buf, 1, rd.want),
                  !.buf = Drop(rd.buf, rd.want)]

\* Without the second ensure_buffered, on the two bytes after the data.
read_chunk_end_unbuffered(rd) ==
  IF rd.buf = <<>> THEN rd
  ELSE IF Len(rd.buf) < 2 \/ SubSeq(rd.buf, 1, 2) # CRLF THEN Error(rd)
  ELSE [rd EXCEPT !.at = "size", !.buf = Drop(rd.buf, 2)]

read_chunk_end(rd) ==
  IF Len(rd.buf) < 2 THEN rd
  ELSE IF SubSeq(rd.buf, 1, 2) # CRLF THEN Error(rd)
  ELSE [rd EXCEPT !.at = "size", !.buf = Drop(rd.buf, 2)]

read_trailers(rd) ==
  IF LineTooLong(rd) THEN Error(rd)
  ELSE IF ~HasLine(rd) THEN rd
  ELSE [rd EXCEPT !.at = IF Line(rd) = <<>> THEN "ok" ELSE "trailer", !.buf = PastLine(rd)]

Advance(rd, r) ==
  CASE rd.at = "head" -> read_header_section(rd, r)
    [] rd.at = "fixed" -> read_fixed_body(rd)
    [] rd.at = "size" -> read_chunk_size(rd)
    [] rd.at = "data" -> read_chunk_data(rd)
    [] rd.at = "crlf" -> read_chunk_end(rd)
    [] rd.at = "trailer" -> read_trailers(rd)
    [] OTHER -> rd

Finished(rd) == rd.at \in {"ok", "error"}
NeedsMore(rd, r) == ~Finished(rd) /\ Advance(rd, r) = rd

\* How much the next read may return: a fixed body is never read past its end.
Asks(rd, n) == IF rd.at = "fixed" /\ rd.want - Len(rd.body) < n THEN rd.want - Len(rd.body) ELSE n

Receive(rd, data) ==
  CASE rd.at = "fixed" -> [rd EXCEPT !.body = @ \o data]
    [] rd.at = "close" -> IF Len(data) > MaxBody - Len(rd.body) THEN Error(rd)
                          ELSE [rd EXCEPT !.body = @ \o data]
    [] OTHER -> [rd EXCEPT !.buf = @ \o data]

ReceiveEnd(rd) == IF rd.at = "close" THEN [rd EXCEPT !.at = "ok"] ELSE Error(rd)

=============================================================================
