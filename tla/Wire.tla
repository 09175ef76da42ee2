-------------------------------- MODULE Wire --------------------------------
(***************************************************************************)
(* Protocol v1 on the byte stream between the Python SDK                   *)
(* (clients/python/tay/protocol.py) and a connection of the server         *)
(* (lib/tay/executor/connection.ex, lib/tay/executor/protocol.ex): JSON    *)
(* bounds on both sides, length-prefixed frames, a stream that is cut into *)
(* chunks wherever the transport likes, and a server that may die.         *)
(*                                                                         *)
(* A JSON value is a tree: a record with its kind and its items.  Kind     *)
(* "list" and "map" have items, "scalar" and "object" none; "object" is a  *)
(* value outside the JSON vocabulary, "wide" a map with a key of more than *)
(* 4096 bytes.  Every node takes one byte.  A byte on the stream says      *)
(* which frame it belongs to and where; a byte of a header also knows the  *)
(* length the header encodes.                                              *)
(***************************************************************************)
EXTENDS Integers, Sequences, SequencesExt, FiniteSets

CONSTANTS
  Scripts,          \* [values, crash]: what the client sends, whether the server may die
  HeaderBytes,      \* length of a frame's prefix (4)
  EnvelopeFields,   \* scalar fields of an envelope (version, type, request_id)
  MaxFrame,         \* max_frame_bytes, the same on both sides
  MaxChunk,         \* the most bytes one read of the socket returns
  MaxDepth,         \* nesting limit of both sides (32), counted differently
  MaxItems,         \* client: items of one collection (10000)
  MaxNodes          \* server: nodes of one value (10000)

ASSUME WireAssumption ==
  /\ {HeaderBytes, EnvelopeFields, MaxFrame, MaxDepth, MaxItems, MaxNodes} \subseteq Nat \ {0}
  /\ MaxChunk \in 1..(MaxFrame + HeaderBytes + 1)

VARIABLES
  script,    \* the script of this behaviour
  todo,      \* values the client has not sent yet
  refused,   \* values it would not send
  sent,      \* envelopes it sent
  up,        \* bytes on the way to the server
  buffer,    \* the server connection's buffer
  served,    \* frames the server decoded
  pending,   \* frames it has not answered
  stop,      \* why the server's connection ended, or "open"
  down,      \* bytes on the way to the client
  inbox,     \* bytes in the client's StreamReader
  want,      \* payload bytes read_frame is waiting for, 0 for a header
  got,       \* frames whose replies the client read
  lost       \* why the client's connection ended, or "open"

server == <<buffer, served, pending, stop>>
client == <<todo, refused, sent>>
reader == <<inbox, want, got, lost>>
vars == <<script, client, up, server, down, reader>>

-----------------------------------------------------------------------------
(* normalize_json, as far as it can refuse a value.                        *)
RECURSIVE normalize_json(_, _)
normalize_json(value, depth) ==
  /\ depth <= MaxDepth
  /\ value.kind # "object"
  /\ Len(value.items) <= MaxItems
  /\ \A i \in DOMAIN value.items : normalize_json(value.items[i], depth + 1)

(* validate_value: the nodes left after a value, or -1 when it is refused. *)
RECURSIVE validate_value(_, _, _)
validate_value(value, depth, nodes) ==
  IF nodes <= 0 \/ depth = 0 \/ value.kind \in {"object", "wide"} THEN -1
  ELSE FoldLeft(LAMBDA left, item : IF left < 0 THEN -1 ELSE validate_value(item, depth - 1, left),
                nodes - 1, value.items)

json_value_deeper(value) == validate_value(value, MaxDepth + 1, MaxNodes) >= 0

json_value(value) == validate_value(value, MaxDepth, MaxNodes) >= 0

RECURSIVE Nodes(_)
Nodes(value) == 1 + FoldLeft(LAMBDA n, item : n + Nodes(item), 0, value.items)

Scalar == [kind |-> "scalar", items |-> <<>>]
Envelope(value) == [kind |-> "map", items |-> [i \in 1..EnvelopeFields |-> Scalar] \o <<value>>]

(* The bytes of frame number id with a payload of so many bytes; 0 is the  *)
(* error frame a connection sends before it stops, a reply to frame n has  *)
(* the number n.                                                           *)
Cells(id, size) ==
  [k \in 1..(HeaderBytes + size) |->
     [frame |-> id, at |-> k, length |-> IF k <= HeaderBytes THEN size ELSE 0]]

ReplyBytes == EnvelopeFields + 1

(* The frame a payload is, or -1 when its bytes are not one whole payload. *)
PayloadOf(payload) ==
  IF \E id \in {payload[1].frame} : \A k \in DOMAIN payload :
       payload[k].frame = id /\ payload[k].at = HeaderBytes + k
    THEN payload[1].frame ELSE -1

-----------------------------------------------------------------------------
Init ==
  /\ script \in Scripts
  /\ todo = script.values /\ refused = {} /\ sent = <<>>
  /\ up = <<>> /\ down = <<>>
  /\ buffer = <<>> /\ served = <<>> /\ pending = {} /\ stop = "open"
  /\ inbox = <<>> /\ want = 0 /\ got = <<>> /\ lost = "open"

(* encode_frame and the write: all of a frame or nothing.                  *)
Send ==
  LET value == Head(todo)  envelope == Envelope(value)  size == Nodes(envelope) IN
  /\ todo # <<>> /\ lost = "open"
  /\ todo' = Tail(todo)
  /\ IF normalize_json(value, 0) /\ normalize_json(envelope, 0) /\ size <= MaxFrame
       THEN /\ sent' = Append(sent, envelope)
            /\ up' = up \o Cells(Len(sent) + 1, size)
            /\ UNCHANGED refused
       ELSE refused' = refused \cup {value} /\ UNCHANGED <<sent, up>>
  /\ UNCHANGED <<script, server, down, reader>>

(* decode_frames with decode_message: every whole frame, and the rest.     *)
RECURSIVE decode_frames(_, _)
decode_frames(bytes, acc) ==
  LET size == bytes[1].length
      frame == PayloadOf(SubSeq(bytes, HeaderBytes + 1, HeaderBytes + size)) IN
  CASE Len(bytes) < HeaderBytes -> [why |-> "open", messages |-> acc, rest |-> bytes]
    [] Len(bytes) >= HeaderBytes /\ size = 0 -> [why |-> "empty_frame", messages |-> <<>>, rest |-> <<>>]
    [] Len(bytes) >= HeaderBytes /\ size > MaxFrame ->
         [why |-> "frame_too_large", messages |-> <<>>, rest |-> <<>>]
    [] Len(bytes) >= HeaderBytes /\ size \in 1..MaxFrame /\ Len(bytes) - HeaderBytes < size ->
         [why |-> "open", messages |-> acc, rest |-> bytes]
    [] OTHER ->
         CASE frame = -1 -> [why |-> "malformed_json", messages |-> <<>>, rest |-> <<>>]
           [] frame # -1 /\ ~json_value(sent[frame]) ->
                [why |-> "invalid_json_value", messages |-> <<>>, rest |-> <<>>]
           [] OTHER -> decode_frames(SubSeq(bytes, HeaderBytes + size + 1, Len(bytes)), Append(acc, frame))

(* A handler that keeps no tail.                                           *)
ReceiveForgetful(n) ==
  LET decoded == decode_frames(buffer \o SubSeq(up, 1, n), <<>>) IN
  /\ stop = "open" /\ n <= Len(up)
  /\ up' = SubSeq(up, n + 1, Len(up))
  /\ buffer' = <<>>
  /\ served' = served \o decoded.messages
  /\ pending' = pending \cup ToSet(decoded.messages)
  /\ stop' = decoded.why
  /\ down' = IF decoded.why = "open" THEN down ELSE down \o Cells(0, ReplyBytes)
  /\ UNCHANGED <<script, client, reader>>

(* The connection's tcp handler, for a chunk of n bytes: whole frames are  *)
(* handed on; an error is reported without a request_id and ends it.  The  *)
(* frames decoded before a bad one in the same chunk are dropped.          *)
Receive(n) ==
  LET bytes == buffer \o SubSeq(up, 1, n)
      decoded == IF Len(bytes) > 2 * MaxFrame + 2 * HeaderBytes
                   THEN [why |-> "buffer_limit", messages |-> <<>>, rest |-> <<>>]
                   ELSE decode_frames(bytes, <<>>) IN
  /\ stop = "open" /\ n <= Len(up)
  /\ up' = SubSeq(up, n + 1, Len(up))
  /\ buffer' = decoded.rest
  /\ served' = served \o decoded.messages
  /\ pending' = pending \cup ToSet(decoded.messages)
  /\ stop' = decoded.why
  /\ down' = IF decoded.why = "open" THEN down ELSE down \o Cells(0, ReplyBytes)
  /\ UNCHANGED <<script, client, reader>>

(* A request's own task answers it, in any order.                          *)
Reply(id) ==
  /\ stop = "open" /\ id \in pending
  /\ pending' = pending \ {id}
  /\ down' = down \o Cells(id, ReplyBytes)
  /\ UNCHANGED <<script, client, up, buffer, served, stop, reader>>

(* The server dies: of what it sent, some prefix arrives.                  *)
Crash ==
  /\ script.crash /\ stop = "open"
  /\ stop' = "crash"
  /\ \E n \in 0..Len(down) : down' = SubSeq(down, 1, n)
  /\ UNCHANGED <<script, client, up, buffer, served, pending, reader>>

(* Bytes reach the client's StreamReader.                                  *)
Feed(n) ==
  /\ lost = "open" /\ n <= Len(down)
  /\ inbox' = inbox \o SubSeq(down, 1, n)
  /\ down' = SubSeq(down, n + 1, Len(down))
  /\ UNCHANGED <<script, client, up, server, want, got, lost>>

(* read_frame: readexactly of the header, then of the payload.             *)
ReadHeader ==
  /\ lost = "open" /\ want = 0 /\ Len(inbox) >= HeaderBytes
  /\ inbox' = SubSeq(inbox, HeaderBytes + 1, Len(inbox))
  /\ IF inbox[1].length \in 1..MaxFrame
       THEN want' = inbox[1].length /\ UNCHANGED lost
       ELSE lost' = "frame length" /\ UNCHANGED want
  /\ UNCHANGED <<script, client, up, server, down, got>>

(* decode_payload: an envelope without a request_id is a protocol error.   *)
ReadPayload ==
  LET frame == PayloadOf(SubSeq(inbox, 1, want)) IN
  /\ lost = "open" /\ want > 0 /\ Len(inbox) >= want
  /\ inbox' = SubSeq(inbox, want + 1, Len(inbox))
  /\ want' = 0
  /\ CASE frame = -1 -> lost' = "malformed" /\ UNCHANGED got
       [] frame = 0 -> lost' = "no request_id" /\ UNCHANGED got
       [] OTHER -> got' = Append(got, frame) /\ UNCHANGED lost
  /\ UNCHANGED <<script, client, up, server, down>>

(* A reader that sees the end of the stream between frames only.           *)
ReadEndBetween ==
  /\ lost = "open" /\ stop # "open" /\ down = <<>> /\ want = 0 /\ inbox = <<>>
  /\ lost' = "connection"
  /\ UNCHANGED <<script, client, up, server, down, inbox, want, got>>

(* The end of the stream in the middle of a header or a payload.           *)
ReadEnd ==
  /\ lost = "open" /\ stop # "open" /\ down = <<>>
  /\ Len(inbox) < IF want = 0 THEN HeaderBytes ELSE want
  /\ lost' = "connection"
  /\ UNCHANGED <<script, client, up, server, down, inbox, want, got>>

Finished == lost # "open" \/ (todo = <<>> /\ Len(got) = Len(sent))

Next ==
  \/ Send
  \/ \E n \in 1..MaxChunk : Receive(n) \/ Feed(n)
  \/ \E id \in 1..Len(sent) : Reply(id)
  \/ Crash
  \/ ReadHeader \/ ReadPayload \/ ReadEnd

Spec == Init /\ [][Next]_vars

(* Bytes move, tasks and processes run; nothing is assumed of Crash.       *)
FairSpec ==
  /\ Spec
  /\ WF_vars(Send) /\ WF_vars(\E n \in 1..MaxChunk : Receive(n))
  /\ WF_vars(\E id \in 1..Len(sent) : Reply(id))
  /\ WF_vars(\E n \in 1..MaxChunk : Feed(n))
  /\ WF_vars(ReadHeader) /\ WF_vars(ReadPayload) /\ WF_vars(ReadEnd)

-----------------------------------------------------------------------------
(* Properties. *)

(* Whatever the chunks, frames stay whole and in order: the server decodes *)
(* what was sent, frame by frame, the client reads each reply once, and    *)
(* neither ever finds a length, a payload or a buffer it has to refuse     *)
(* (decode_frames, the connection's buffer limit, read_frame).             *)
FramesWhole ==
  /\ served = [i \in 1..Len(served) |-> i]
  /\ ToSet(got) \subseteq ToSet(served)
  /\ Cardinality(ToSet(got)) = Len(got)
  /\ stop \in {"open", "invalid_json_value", "crash"}
  /\ lost \in {"open", "no request_id", "connection"}

RECURSIVE Height(_)
Height(value) ==
  IF value.items = <<>> THEN 0
  ELSE 1 + (CHOOSE h \in 0..10 :
              /\ \E i \in DOMAIN value.items : Height(value.items[i]) = h
              /\ \A i \in DOMAIN value.items : Height(value.items[i]) <= h)

RECURSIVE Subvalues(_)
Subvalues(value) == {value} \cup UNION {Subvalues(value.items[i]) : i \in DOMAIN value.items}

(* The envelopes the client lets through and the server does not take: one *)
(* level deeper, more nodes in all, or a long key.                         *)
Gap(envelope) ==
  \/ Height(envelope) >= MaxDepth
  \/ Nodes(envelope) > MaxNodes
  \/ \E v \in Subvalues(envelope) : v.kind = "wide"

(* The bounds of the two sides differ exactly by Gap: a connection ends    *)
(* for a value only when the first frame not served is in the gap, no      *)
(* frame in the gap is served, and what the client keeps back the server   *)
(* would have refused too, or is too large, or has one wide collection.    *)
BoundsDiffer ==
  /\ stop = "invalid_json_value" => \E i \in (Len(served) + 1)..Len(sent) : Gap(sent[i])
  /\ \A i \in 1..Len(served) : ~Gap(sent[i])
  /\ \A v \in refused :
       \/ ~json_value(Envelope(v))
       \/ Nodes(Envelope(v)) > MaxFrame
       \/ \E u \in Subvalues(Envelope(v)) : Len(u.items) > MaxItems

(* What crosses the socket is what both sides take: frames stay whole, and *)
(* a value is refused exactly where the two sets of bounds say so          *)
(* (protocol.py, executor/protocol.ex, executor/connection.ex).            *)
FramesAgree == FramesWhole /\ BoundsDiffer

(* Every frame sent is answered or the client learns that the connection   *)
(* is lost; it never waits for ever on half a frame.                       *)
Answered == []<>Finished
=============================================================================
