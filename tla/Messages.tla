------------------------------ MODULE Messages ------------------------------
(***************************************************************************)
(* The messages on the wire: Serializer and Deserializer, what every type  *)
(* of message puts and gets back, and how a datagram is recognised.  A     *)
(* message is a sequence of values, one for each field of its layout: a    *)
(* number (its digits to the base 256, the first one the highest), a       *)
(* string of bytes, or a list of rows.  Put and Get of a type name the     *)
(* same fields in the same order, so one layout stands for both.           *)
(***************************************************************************)
EXTENDS Integers, Sequences, TLC

LOCAL SeqExt == INSTANCE SequencesExt

CONSTANTS
    MaxUint8, \* 255
    Lens,     \* bound: the lengths of byte strings
    MaxRows,  \* bound: the rows of a list
    MaxCut    \* bound: the length of the datagrams that are also cut

(* The fields: an integer of w bytes, a length byte with as many bytes     *)
(* (PutBytes, PutStr), a length byte with as many rows.                    *)
UInt(w) == [kind |-> "uint", width |-> w]

Blob == [kind |-> "blob"]

List(row) == [kind |-> "list", row |-> row]

Token == UInt(4)
Sequence == UInt(4)
Duration == UInt(8)
Entries == List(<<Sequence, Duration, Blob>>)
Ranges == List(<<Sequence, Sequence>>)

HeaderServer == <<Token>>                \* of lobby and story
LobbyClient == <<Token, Token, UInt(4)>> \* lobby.HeaderClient
StoryClient == <<Token, UInt(4)>>        \* story.HeaderClient

StoryServerLayout ==
    [TestServer |-> HeaderServer \o <<Blob>>,
     ActionConfirm |-> HeaderServer \o <<Token, Sequence, Ranges>>,
     StoryPack |-> HeaderServer \o <<Token, Entries>>,
     LatencyReport |-> HeaderServer \o <<List(<<Blob, UInt(1), Duration>>)>>]

StoryClientLayout ==
    [TestClient |-> StoryClient \o <<Blob>>,
     ActionPack |-> StoryClient \o <<Token, Entries>>,
     StoryConfirm |-> StoryClient \o <<Token, Sequence, Ranges>>]

LobbyServerLayout ==
    [Setup |-> HeaderServer \o <<Blob, Blob, List(<<Token, Token, UInt(1), Blob, Duration>>), UInt(1)>>]

LobbyClientLayout ==
    [Join |-> LobbyClient \o <<Token, UInt(1), Blob, Blob>>,
     Leave |-> LobbyClient \o <<Token>>,
     Request |-> LobbyClient]

PongLayout == [Pong |-> <<UInt(4), UInt(8)>>]

PingLayout == [Ping |-> <<UInt(4), UInt(8)>>]

ServerLayout == StoryServerLayout @@ LobbyServerLayout @@ PongLayout

Layout == ServerLayout @@ StoryClientLayout @@ LobbyClientLayout @@ PingLayout

Types == DOMAIN Layout

ServerTypes == DOMAIN ServerLayout

Prefix == <<60, 117, 42, 62>> \* "<u*>"

(* The category, and the type or command after it. *)
Tag ==
    [TestServer |-> <<3, 0>>, ActionConfirm |-> <<3, 1>>, StoryPack |-> <<3, 2>>,
     LatencyReport |-> <<3, 3>>, Setup |-> <<2>>, Pong |-> <<1>>,
     TestClient |-> <<3, 0>>, ActionPack |-> <<3, 1>>, StoryConfirm |-> <<3, 2>>,
     Join |-> <<2, 1>>, Leave |-> <<2, 2>>, Request |-> <<2, 3>>, Ping |-> <<1>>]

VARIABLES
    type,  \* the type of the message that is sent
    msg,   \* its fields, as far as they are filled in
    phase, \* where the message is
    wire,  \* the datagram
    cut,   \* it has lost its end
    got    \* what the receiver makes of it

vars == <<type, msg, phase, wire, cut, got>>
-----------------------------------------------------------------------------
(* Put8 to Put64, and what they are read with: little endian. *)
PutUint(v) == SeqExt!Reverse(v)

GetUint(bytes) == SeqExt!Reverse(bytes)

PutScalar(f, v) == IF f.kind = "uint" THEN PutUint(v) ELSE <<Len(v)>> \o v

PutRow(row, vs) == SeqExt!FlattenSeq([i \in DOMAIN row |-> PutScalar(row[i], vs[i])])

(* PutEntries and PutRanges, and the lists of LatencyReport and Setup,     *)
(* which take their length modulo 256.                                     *)
PutField(f, v) ==
    IF f.kind # "list" THEN PutScalar(f, v)
    ELSE <<Len(v) % (MaxUint8 + 1)>> \o SeqExt!FlattenSeq([i \in DOMAIN v |-> PutRow(f.row, v[i])])

Put(t, m) ==
    Prefix \o Tag[t] \o SeqExt!FlattenSeq([i \in DOMAIN m |-> PutField(Layout[t][i], m[i])])

(* The byte strings of a field. *)
Blobs(f, v) ==
    CASE f.kind = "uint" -> {}
      [] f.kind = "blob" -> {v}
      [] f.kind = "list" -> {v[i][j] : i \in DOMAIN v, j \in {j \in DOMAIN f.row : f.row[j] = Blob}}

(* PutBytes, PutStr, PutEntries and PutRanges panic on what does not fit a *)
(* length byte.                                                            *)
PutPanics(t, m) ==
    \E i \in DOMAIN m :
      \/ \E b \in Blobs(Layout[t][i], m[i]) : Len(b) > MaxUint8
      \/ Layout[t][i] \in {Entries, Ranges} /\ Len(m[i]) > MaxUint8
-----------------------------------------------------------------------------
(* A Deserializer: the bytes left, an error, and the values read so far.   *)
Failed(d) == [d EXCEPT !.err = TRUE]

Read(d, v, n) == [d EXCEPT !.vals = Append(@, v), !.buf = SubSeq(@, n + 1, Len(@))]

(* mutant: a version that takes what is there when a string is short. *)
GetBlobLenient(d) ==
    IF d.buf = << >> THEN Failed(d)
    ELSE LET n == d.buf[1]
         IN Read(d, SubSeq(d.buf, 2, IF n < Len(d.buf) THEN n + 1 ELSE Len(d.buf)), (n + 1) % (MaxUint8 + 1))

(* GetBytes and GetStr: n is a byte, and so is the n+1 of s.buf[n+1:]. *)
GetBlob(d) ==
    IF d.buf = << >> \/ Len(d.buf) < d.buf[1] + 1 THEN Failed(d)
    ELSE Read(d, SubSeq(d.buf, 2, d.buf[1] + 1), (d.buf[1] + 1) % (MaxUint8 + 1))

GetScalar(d, f) ==
    CASE d.err -> d
      [] ~d.err /\ f.kind = "uint" /\ Len(d.buf) < f.width -> Failed(d)
      [] ~d.err /\ f.kind = "uint" /\ Len(d.buf) >= f.width ->
           Read(d, GetUint(SubSeq(d.buf, 1, f.width)), f.width)
      [] ~d.err /\ f.kind = "blob" -> GetBlob(d)

GetRow(d, row) ==
    LET in == SeqExt!FoldLeft(GetScalar, [d EXCEPT !.vals = << >>], row)
    IN [in EXCEPT !.vals = Append(d.vals, in.vals)]

(* GetEntries, GetRanges and the loops of LatencyReport and Setup. *)
GetList(d, row) ==
    LET count == GetScalar([d EXCEPT !.vals = << >>], UInt(1))
        in == SeqExt!FoldLeft(LAMBDA acc, i : GetRow(acc, row), [count EXCEPT !.vals = << >>],
                              [i \in 1..count.vals[1][1] |-> i])
    IN IF count.err THEN Failed(d) ELSE [in EXCEPT !.vals = Append(d.vals, in.vals)]

GetField(d, f) == IF f.kind = "list" THEN GetList(d, f.row) ELSE GetScalar(d, f)

Refused == [type |-> "none", vals |-> << >>, rest |-> << >>]

(* The receiver knows which end it is; the Parse functions look for the    *)
(* category and the type, and any error means that it is no message.       *)
Parse(ofServer, buf) ==
    LET fits == {t \in Types : (t \in ServerTypes) = ofServer /\ SeqExt!IsPrefix(Prefix \o Tag[t], buf)}
        t == CHOOSE t \in fits : TRUE
        d == SeqExt!FoldLeft(GetField,
               [buf |-> SubSeq(buf, Len(Prefix \o Tag[t]) + 1, Len(buf)), err |-> FALSE, vals |-> << >>],
               Layout[t])
    IN IF fits = {} THEN Refused
       ELSE IF d.err THEN Refused
       ELSE [type |-> t, vals |-> d.vals, rest |-> d.buf]
-----------------------------------------------------------------------------
SumLens(rows, j) == SeqExt!FoldLeft(LAMBDA n, row : n + Len(row[j]), 0, rows)

(* The bodies of the Size methods: what follows prefix, tag and header. *)
BodySize(t, m) ==
    LET last == m[Len(m)]
    IN CASE t \in {"TestServer", "TestClient"} -> 1 + Len(last)
         [] t \in {"ActionConfirm", "StoryConfirm"} -> 4 + 4 + 1 + Len(last) * 8
         [] t \in {"StoryPack", "ActionPack"} -> 4 + 1 + Len(last) * (1 + 4 + 8) + SumLens(last, 3)
         [] t = "LatencyReport" -> 1 + Len(last) * (1 + 1 + 8) + SumLens(last, 1)
         [] t = "Setup" -> 1 + Len(m[2]) + 1 + Len(m[3]) + 1 + 1
                             + Len(m[4]) * (4 + 4 + 1 + 1 + 8) + SumLens(m[4], 4)
         [] t = "Join" -> 4 + 1 + 1 + Len(m[6]) + 1 + Len(m[7])
         [] t = "Leave" -> 4
         [] t = "Request" -> 0
         [] t \in {"Ping", "Pong"} -> 4 + 8

Size(t, m) ==
    BodySize(t, m) +
      (CASE t \in {"TestServer", "ActionConfirm", "StoryPack", "LatencyReport"} -> 4 + 1 + 1 + 4
         [] t \in {"TestClient", "ActionPack", "StoryConfirm"} -> 4 + 1 + 1 + 8
         [] t = "Setup" -> 4 + 1 + 4
         [] t \in {"Join", "Leave", "Request"} -> 4 + 1 + 1 + 12
         [] t \in {"Ping", "Pong"} -> 4 + 1)
-----------------------------------------------------------------------------
Init ==
    /\ type \in Types
    /\ msg = << >>
    /\ phase = "filling"
    /\ wire = << >>
    /\ cut = FALSE
    /\ got = Refused

(* A number with different digits; strings of n bytes. *)
Scalars(f) ==
    IF f.kind = "uint" THEN {[i \in 1..f.width |-> i]} ELSE {[i \in 1..n |-> 2] : n \in Lens}

Rows(row) ==
    LET blobs == {j \in DOMAIN row : row[j] = Blob}
    IN {[j \in DOMAIN row |-> IF j \in blobs THEN b ELSE CHOOSE v \in Scalars(row[j]) : TRUE] :
          b \in Scalars(Blob)}

Values(f) ==
    IF f.kind # "list" THEN Scalars(f) ELSE UNION {[1..n -> Rows(f.row)] : n \in 0..MaxRows}

(* The sender fills in the next field. *)
Fill(v) ==
    /\ phase = "filling"
    /\ msg' = Append(msg, v)
    /\ UNCHANGED <<type, phase, wire, cut, got>>

Send ==
    /\ phase = "filling"
    /\ Len(msg) = Len(Layout[type])
    /\ IF PutPanics(type, msg) THEN phase' = "panic" /\ UNCHANGED wire
       ELSE phase' = "sent" /\ wire' = Put(type, msg)
    /\ UNCHANGED <<type, msg, cut, got>>

(* A datagram larger than the receiver's buffer arrives without its end. *)
Cut(n) ==
    /\ phase = "sent"
    /\ ~cut
    /\ Len(wire) <= MaxCut
    /\ wire' = SubSeq(wire, 1, n)
    /\ cut' = TRUE
    /\ UNCHANGED <<type, msg, phase, got>>

Receive ==
    /\ phase = "sent"
    /\ phase' = "received"
    /\ got' = Parse(type \in ServerTypes, wire)
    /\ UNCHANGED <<type, msg, wire, cut>>

Next ==
    \/ Len(msg) < Len(Layout[type]) /\ \E v \in Values(Layout[type][Len(msg) + 1]) : Fill(v)
    \/ Send
    \/ \E n \in 0..(Len(wire) - 1) : Cut(n)
    \/ Receive

Spec == Init /\ [][Next]_vars
-----------------------------------------------------------------------------
(* PutBytes, PutStr, PutEntries and PutRanges panic with "max len of array *)
(* is 255" and the like on anything longer, and take what is not: whatever *)
(* message is put and received whole is read as what was sent.             *)
ReadBack ==
    phase = "received" /\ ~cut => got.type = type /\ got.vals = msg

(* A byte string of the greatest length: Get goes on at its length byte.   *)
HasLongest == \E i \in DOMAIN msg : \E b \in Blobs(Layout[type][i], msg[i]) : Len(b) = MaxUint8

(* Without such a string every message is read back, of the right type and *)
(* with every field, Size says how long it is, and one that lost its end   *)
(* is refused, wherever it was cut.                                        *)
WireSound ==
    /\ phase = "sent" /\ ~cut => Len(wire) = Size(type, msg)
    /\ ~HasLongest => ReadBack /\ got.rest = << >>
    /\ ~HasLongest /\ cut /\ phase = "received" => got = Refused
=============================================================================
