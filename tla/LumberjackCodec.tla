-------------------------- MODULE LumberjackCodec ---------------------------
(***************************************************************************)
(* The bytes below Lumberjack.tla: the frame encoders and the streaming    *)
(* FrameDecoder of frame.rs, driven by the read loop of read_window in     *)
(* server.rs.  The peer's bytes reach the server in pieces of any size.    *)
(*                                                                         *)
(* The layout of every frame is the code's; only the alphabet is small:    *)
(* a byte is a digit below Radix and a u32 field has FieldLen of them.     *)
(* flate2 is external: a run-length code stands for zlib, which like zlib  *)
(* can expand what it is given and can be malformed.                       *)
(***************************************************************************)
EXTENDS LumberjackWindow, TLC

CONSTANTS
  Radix,              \* 256 in the code
  FieldLen,           \* 4 in the code
  max_frame_payload,  \* FrameDecoder::max_frame_payload
  ReadSizes,          \* bound: bytes that one read of the socket returns (up to READ_CHUNK)
  Scripts             \* what the peer may send: [whole: frames, part: a frame, cut: bytes]

VARIABLES
  script,    \* the member of Scripts that the peer sends
  input,     \* the bytes that the server has not read
  buf,       \* FrameDecoder::buf
  read_pos,  \* FrameDecoder::read_pos
  window,    \* the locals of read_window
  windows,   \* history: windows returned by read_window
  status     \* "open", "closed" (Ok(None)), "eof" or "error"

vars == <<script, input, buf, read_pos, window, windows, status>>

-----------------------------------------------------------------------------
(* frame.rs: encoders *)

PROTOCOL_VERSION == 2
TypeByte == [W |-> 3, A |-> 4, J |-> 5, C |-> 6, D |-> 7]

BigEndian(n) == [i \in 1..FieldLen |-> (n \div Radix^(FieldLen - i)) % Radix]

Header(t) == <<PROTOCOL_VERSION, TypeByte[t]>>

\* External: one run per byte.
Deflate(bytes) == FlattenSeq([i \in DOMAIN bytes |-> <<1, bytes[i]>>])

\* External: runs of a length and a byte; an odd byte at the end is an error.
Inflates(bytes) == Len(bytes) % 2 = 0
Inflate(bytes) ==
  FlattenSeq([i \in 1..(Len(bytes) \div 2) |->
                [j \in 1..bytes[2 * i - 1] |-> bytes[2 * i]]])

encode_window(f) == Header("W") \o BigEndian(f.count)
encode_ack(f) == Header("A") \o BigEndian(f.seq)
encode_json_frame(f) ==
  Header("J") \o BigEndian(f.seq) \o BigEndian(Len(f.payload)) \o f.payload

\* A legacy frame: its sequence number and its key/value pairs.
Legacy(f) ==
  Header("D") \o BigEndian(f.seq) \o BigEndian(Len(f.pairs) \div 2)
  \o FlattenSeq([i \in DOMAIN f.pairs |-> BigEndian(Len(f.pairs[i])) \o f.pairs[i]])

EncodeData(f) ==
  CASE f.type = "W" -> encode_window(f)
    [] f.type = "A" -> encode_ack(f)
    [] f.type = "J" -> encode_json_frame(f)
    [] f.type = "D" -> Legacy(f)
    [] f.type = "bad" -> f.bytes

encode_compressed(f) ==
  LET z == Deflate(FlattenSeq([i \in DOMAIN f.inner |-> EncodeData(f.inner[i])]))
  IN  Header("C") \o BigEndian(Len(z)) \o z

Encode(f) == IF f.type = "C" THEN encode_compressed(f) ELSE EncodeData(f)

-----------------------------------------------------------------------------
(* frame.rs: FrameDecoder; d is its buffer and its position *)

pending(d) == Len(d.buf) - d.pos

\* read_at for a field, and for the bytes of a payload.
Bytes(d, offset, n) == SubSeq(d.buf, d.pos + offset + 1, d.pos + offset + n)
Field(d, offset) == FoldLeft(LAMBDA n, b : n * Radix + b, 0, Bytes(d, offset, FieldLen))

\* What next_frame answers: a frame and its length, None, or an error.
Some(frame, n) == [kind |-> "some", frame |-> frame, len |-> n]
None == [kind |-> "none"]
Err == [kind |-> "err"]

try_decode_window(d) ==
  IF pending(d) < 2 + FieldLen THEN None
  ELSE Some([type |-> "W", count |-> Field(d, 2)], 2 + FieldLen)

try_decode_ack(d) ==
  IF pending(d) < 2 + FieldLen THEN None
  ELSE Some([type |-> "A", seq |-> Field(d, 2)], 2 + FieldLen)

\* The cap is looked at as soon as the length is known.
try_decode_json(d) ==
  LET h == 2 + 2 * FieldLen  len == Field(d, 2 + FieldLen) IN
  IF pending(d) < h THEN None
  ELSE IF len > max_frame_payload THEN Err
  ELSE IF pending(d) < h + len THEN None
  ELSE Some([type |-> "J", seq |-> Field(d, 2), payload |-> Bytes(d, h, len), size |-> len],
            h + len)

decompress_capped(bytes) ==
  IF ~Inflates(bytes) \/ Len(Inflate(bytes)) > max_frame_payload THEN Err
  ELSE Some([type |-> "C", bytes |-> Inflate(bytes)], 0)

try_decode_compressed(d) ==
  LET h == 2 + FieldLen  len == Field(d, 2) IN
  IF pending(d) < h THEN None
  ELSE IF len > max_frame_payload THEN Err
  ELSE IF pending(d) < h + len THEN None
  ELSE LET z == decompress_capped(Bytes(d, h, len)) IN
       IF z = Err THEN Err ELSE Some(z.frame, h + len)

\* A legacy frame has no total length: its keys and values are skipped one by
\* one, and any of them may still be missing.
try_decode_unknown_with_seq_count(d) ==
  LET h == 2 + 2 * FieldLen
      skip(r, i) ==
        IF r.kind # "some" THEN r
        ELSE IF pending(d) < r.len + FieldLen THEN None
        ELSE IF Field(d, r.len) > max_frame_payload THEN Err
        ELSE [r EXCEPT !.len = @ + FieldLen + Field(d, r.len)]
      r == FoldLeft(skip, Some([type |-> "D"], h),
                    [i \in 1..(2 * Field(d, 2 + FieldLen)) |-> i])
  IN  IF pending(d) < h THEN None
      ELSE IF r.kind = "some" /\ pending(d) < r.len THEN None
      ELSE r

next_frame(d) ==
  LET version == d.buf[d.pos + 1]  type == d.buf[d.pos + 2] IN
  IF pending(d) < 2 THEN None
  ELSE IF version # PROTOCOL_VERSION THEN Err
  ELSE CASE type = TypeByte.W -> try_decode_window(d)
         [] type = TypeByte.A -> try_decode_ack(d)
         [] type = TypeByte.J -> try_decode_json(d)
         [] type = TypeByte.C -> try_decode_compressed(d)
         [] type = TypeByte.D -> try_decode_unknown_with_seq_count(d)
         [] OTHER -> Err

\* The inner decoder of a compressed frame: it is fed once, and what is left of an
\* incomplete frame at the end is dropped with it.
RECURSIVE InnerFrames(_)
InnerFrames(d) ==
  LET r == next_frame(d) IN
  CASE r.kind = "none" -> <<>>
    [] r.kind = "err" -> <<[type |-> "bad"]>>
    [] r.kind = "some" -> <<r.frame>> \o InnerFrames([d EXCEPT !.pos = @ + r.len])

Decoded(frame) ==
  IF frame.type = "C"
  THEN [type |-> "C", inner |-> InnerFrames([buf |-> frame.bytes, pos |-> 0])]
  ELSE frame

-----------------------------------------------------------------------------
(* server.rs: read_window, called again for as long as windows come *)

Init ==
  /\ script \in Scripts
  /\ input = LET last == Encode(script.part)
             IN  FlattenSeq([i \in DOMAIN script.whole |-> Encode(script.whole[i])])
                 \o SubSeq(last, 1, Len(last) - script.cut)
  /\ buf = <<>>
  /\ read_pos = 0
  /\ window = FreshWindow
  /\ windows = <<>>
  /\ status = "open"

Decoder == [buf |-> buf, pos |-> read_pos]

\* The position is not reset with the buffer.
Mut_feed(bytes) ==
  IF read_pos > 0 /\ read_pos >= Len(buf) \div 2
  THEN /\ buf' = SubSeq(buf, read_pos + 1, Len(buf)) \o bytes
       /\ UNCHANGED read_pos
  ELSE /\ buf' = buf \o bytes
       /\ UNCHANGED read_pos

\* Consumed bytes are dropped once they are half of the buffer.
feed(bytes) ==
  IF read_pos > 0 /\ read_pos >= Len(buf) \div 2
  THEN /\ buf' = SubSeq(buf, read_pos + 1, Len(buf)) \o bytes
       /\ read_pos' = 0
  ELSE /\ buf' = buf \o bytes
       /\ UNCHANGED read_pos

Returned(w) == [events |-> w.events, last_seq |-> w.last_seq]

\* A decoded frame; the decoder stands behind it, also when the frame is refused.
TakeFrame ==
  LET r == next_frame(Decoder)  w == OnFrame(window, Decoded(r.frame)) IN
  /\ status = "open"
  /\ r.kind = "some"
  /\ read_pos' = read_pos + r.len
  /\ \/ /\ w.status = "reading"
        /\ window' = w
        /\ UNCHANGED <<windows, status>>
     \/ /\ w.status = "window"
        /\ windows' = Append(windows, Returned(w))
        /\ window' = FreshWindow
        /\ UNCHANGED status
     \/ /\ w.status = "error"
        /\ status' = "error"
        /\ UNCHANGED <<window, windows>>
  /\ UNCHANGED <<script, input, buf>>

\* A malformed frame: the decoder stays where it is.
Malformed ==
  /\ status = "open"
  /\ next_frame(Decoder) = Err
  /\ status' = "error"
  /\ UNCHANGED <<script, input, buf, read_pos, window, windows>>

\* Everything decodable is decoded: read more.
Read ==
  /\ status = "open"
  /\ next_frame(Decoder) = None
  /\ \E n \in ReadSizes :
       /\ n <= Len(input)
       /\ feed(SubSeq(input, 1, n))
       /\ input' = SubSeq(input, n + 1, Len(input))
  /\ UNCHANGED <<script, window, windows, status>>

ReadEof ==
  /\ status = "open"
  /\ next_frame(Decoder) = None
  /\ input = <<>>
  /\ status' = IF CleanEof(window) THEN "closed" ELSE "eof"
  /\ UNCHANGED <<script, input, buf, read_pos, window, windows>>

Next == TakeFrame \/ Malformed \/ Read \/ ReadEof

Spec == Init /\ [][Next]_vars

-----------------------------------------------------------------------------
(* Properties *)

\* What the frames of a script amount to, taken one by one and not as bytes.
Meaning ==
  LET step(acc, f) ==
        LET w == OnFrame(acc.window, f) IN
        IF acc.status # "open" THEN acc
        ELSE CASE f.type = "bad" \/ w.status = "error" -> [acc EXCEPT !.status = "error"]
               [] w.status = "window" -> [acc EXCEPT !.windows = Append(@, Returned(w)),
                                                     !.window = FreshWindow]
               [] w.status = "reading" -> [acc EXCEPT !.window = w]
      whole == script.whole \o (IF script.cut = 0 THEN <<script.part>> ELSE <<>>)
      end == FoldLeft(step, [window |-> FreshWindow, windows |-> <<>>, status |-> "open"], whole)
  IN  IF end.status # "open" THEN end
      ELSE [end EXCEPT !.status = IF CleanEof(end.window) THEN "closed" ELSE "eof"]

\* However the stream is cut into reads, the server returns the windows that the
\* peer's frames make up, in order, none early, none twice, and ends the same
\* way; compressed and plain frames of the same content are the same
\* (FrameDecoder::next_frame and feed under read_window).
WindowsAsSent ==
  /\ IsPrefix(windows, Meaning.windows)
  /\ status # "open" => windows = Meaning.windows /\ status = Meaning.status

\* Neither a compressed batch nor a window spread over many reads gets past the
\* caps on the events and bytes of a window (record_event, check_declared_window).
WindowWithinCaps ==
  \A events \in {window.events} \cup {windows[i].events : i \in DOMAIN windows} :
    /\ Len(events) <= max_window_events
    /\ FoldLeft(LAMBDA n, e : n + Len(e.payload), 0, events) <= max_window_bytes

=============================================================================
