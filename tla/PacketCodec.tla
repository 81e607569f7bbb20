----------------------------- MODULE PacketCodec -----------------------------
(***************************************************************************)
(* A datagram of a viewer's circuit and the packet in it: appended         *)
(* acknowledgements, the extra header and runs of zeros                    *)
(* (region/src/viewer_protocol.cpp), and the packed texture identifiers of *)
(* an avatar's faces.                                                      *)
(*                                                                         *)
(* A datagram is its flags and the bytes from the sixth on; the sequence   *)
(* number in between is left out.  An acknowledgement takes four bytes, of *)
(* which the last tells numbers apart.                                     *)
(***************************************************************************)
EXTENDS Integers, Sequences, FiniteSets, SequencesExt

CONSTANTS
    Bytes,       \* values of a byte of a payload, 0 among them
    MaxBytes,    \* length of a payload
    MaxRun,      \* 255 in the code: the longest run of zeros in a pair of bytes
    Acks,        \* numbers acknowledged
    MaxRest,     \* bytes after the header of an arbitrary datagram
    Faces,       \* 32 in the code: faces of an avatar, from 0
    GroupBits,   \* 7 in the code: face bits in a byte of a face bitmap
    TextureIds   \* identifiers of textures

ASSUME CodecAssumption ==
    /\ 0 \in Bytes /\ Bytes \subseteq Nat /\ MaxRun \in Nat \ {0} /\ Acks \subseteq Nat
    /\ MaxBytes \in Nat /\ MaxRest \in Nat /\ Faces \in Nat \ {0} /\ GroupBits \in Nat \ {0}

Undecodable == [ok |-> FALSE, acks |-> << >>, extra |-> << >>, payload |-> << >>, from |-> 0, to |-> 0]

-----------------------------------------------------------------------------
(* Zero coding.                                                            *)

\* The zeros at i, up to the longest run.
RunAt(s, i) == CHOOSE n \in 0..MaxRun :
    /\ i + n - 1 <= Len(s) /\ \A k \in i..(i + n - 1) : s[k] = 0
    /\ n = MaxRun \/ i + n > Len(s) \/ s[i + n] # 0

RECURSIVE ZeroEncodeFrom(_, _), ZeroDecodeFrom(_, _, _)
ZeroEncodeFrom(s, i) ==
    IF i > Len(s) THEN << >>
    ELSE IF s[i] # 0 THEN <<s[i]>> \o ZeroEncodeFrom(s, i + 1)
    ELSE <<0, RunAt(s, i)>> \o ZeroEncodeFrom(s, i + RunAt(s, i))
ZeroEncode(s) == ZeroEncodeFrom(s, 1)

Zeros(n) == [i \in 1..n |-> 0]

\* A zero without its count, or with the count zero, is an error.  (So is a
\* payload of more than 65535 bytes.)
ZeroDecodeFrom(s, i, done) ==
    IF i > Len(s) THEN [ok |-> TRUE, bytes |-> done]
    ELSE IF s[i] # 0 THEN ZeroDecodeFrom(s, i + 1, Append(done, s[i]))
    ELSE IF i = Len(s) \/ s[i + 1] = 0 THEN [ok |-> FALSE, bytes |-> << >>]
    ELSE ZeroDecodeFrom(s, i + 2, done \o Zeros(s[i + 1]))
ZeroDecode(s) == ZeroDecodeFrom(s, 1, << >>)

-----------------------------------------------------------------------------
(* Packets.                                                                *)
\* Mutant: the flag that announces the acknowledgements is left as it was.
EncodeUnflagged(p) ==
    [flags |-> p.flags,
     rest  |-> <<Len(p.extra)>> \o p.extra
               \o (IF "zero" \in p.flags THEN ZeroEncode(p.payload) ELSE p.payload)
               \o FlattenSeq([i \in 1..Len(p.acks) |-> <<0, 0, 0, p.acks[i]>>])
               \o (IF p.acks # << >> THEN <<Len(p.acks)>> ELSE << >>)]

EncodePacket(p) ==
    [flags |-> p.flags \cup (IF p.acks # << >> THEN {"acks"} ELSE {}),
     rest  |-> <<Len(p.extra)>> \o p.extra
               \o (IF "zero" \in p.flags THEN ZeroEncode(p.payload) ELSE p.payload)
               \o FlattenSeq([i \in 1..Len(p.acks) |-> <<0, 0, 0, p.acks[i]>>])
               \o (IF p.acks # << >> THEN <<Len(p.acks)>> ELSE << >>)]

\* size, payload_end and ack_start count from the start of the datagram,
\* whose first five bytes are not in rest.
DecodePacket(d) ==
    LET size   == 5 + Len(d.rest)
        At(i)  == d.rest[i - 4]
        Cut(from, to) == SubSeq(d.rest, from - 4, to - 5)
        extra  == At(5)
        acks   == "acks" \in d.flags
        count  == At(size - 1)
        start  == size - 1 - count * 4
        from   == 6 + extra
        to     == IF acks THEN start ELSE size
        encoded == Cut(from, to)
        zero   == ZeroDecode(encoded) IN
    IF size < 6 THEN Undecodable
    ELSE IF from > size THEN Undecodable
    ELSE IF acks /\ (size < 7 \/ count = 0 \/ count > (size - 7) \div 4) THEN Undecodable
    ELSE IF from > to
    THEN [Undecodable EXCEPT !.ok = TRUE, !.from = from, !.to = to]   \* subspan beyond the end
    ELSE IF "zero" \in d.flags /\ ~zero.ok THEN Undecodable
    ELSE [ok |-> TRUE, extra |-> Cut(6, from), from |-> from, to |-> to,
          acks |-> IF acks THEN [i \in 1..count |-> At(start + i * 4 - 1)] ELSE << >>,
          payload |-> IF "zero" \in d.flags THEN zero.bytes ELSE encoded]

-----------------------------------------------------------------------------
(* The texture of each face: a default, then a bitmap of faces and an      *)
(* identifier for each other one, then an empty bitmap.  An identifier is  *)
(* one element here.                                                       *)
FaceSet == 0..(Faces - 1)
Pow2(n) == 2 ^ n

\* append_face_bitmap: groups of bits, the highest first, TRUE where more follow.
Groups(bits) == CHOOSE n \in 1..(Faces + 1) : bits < Pow2(GroupBits * n) /\ (n = 1 \/ bits >= Pow2(GroupBits * (n - 1)))
FaceBitmap(bits) ==
    [k \in 1..Groups(bits) |->
        [more |-> k < Groups(bits),
         bits |-> (bits \div Pow2(GroupBits * (Groups(bits) - k))) % Pow2(GroupBits), id |-> 0]]

Identifier(id) == <<[more |-> FALSE, bits |-> 0, id |-> id]>>
RECURSIVE BitsOf(_)
BitsOf(S) == IF S = {} THEN 0 ELSE LET f == CHOOSE f \in S : TRUE IN Pow2(f) + BitsOf(S \ {f})

RECURSIVE EncodeFacesFrom(_, _, _)
EncodeFacesFrom(faces, default, f) ==
    IF f = Faces THEN FaceBitmap(0)
    ELSE IF faces[f] = default \/ \E g \in 0..(f - 1) : faces[g] = faces[f]
    THEN EncodeFacesFrom(faces, default, f + 1)
    ELSE FaceBitmap(BitsOf({g \in f..(Faces - 1) : faces[g] = faces[f]}))
         \o Identifier(faces[f]) \o EncodeFacesFrom(faces, default, f + 1)
EncodeAvatarTextureEntry(faces, default) == Identifier(default) \o EncodeFacesFrom(faces, default, 0)

\* unpack_texture_entry_faces, from position i with the bits read so far; an
\* entry that goes on after 32 bits is not of the encoder's making.
HasBit(bits, f) == (bits \div Pow2(f)) % 2 = 1
RECURSIVE UnpackFaces(_, _, _, _)
UnpackFaces(entry, i, faces, bits) ==
    IF i > Len(entry) THEN [ok |-> bits = 0, faces |-> faces]
    ELSE LET now == (bits * Pow2(GroupBits) + entry[i].bits) % Pow2(Faces) IN
         IF entry[i].more THEN UnpackFaces(entry, i + 1, faces, now)
         ELSE IF now = 0 THEN [ok |-> TRUE, faces |-> faces]
         ELSE IF i = Len(entry) THEN [ok |-> FALSE, faces |-> faces]
         ELSE UnpackFaces(entry, i + 2,
                          [f \in FaceSet |-> IF HasBit(now, f) THEN entry[i + 1].id ELSE faces[f]], 0)
UnpackTextureEntryFaces(entry) == UnpackFaces(entry, 2, [f \in FaceSet |-> entry[1].id], 0)

-----------------------------------------------------------------------------
VARIABLES
    packet,    \* a packet to send
    datagram,  \* a datagram, of this or of anyone else's making
    received,  \* what is made of it
    faces      \* the textures of an avatar

codecVars == <<packet, datagram, received, faces>>

NoPacket == [flags |-> {}, acks |-> << >>, extra |-> << >>, payload |-> << >>]
NoDatagram == [flags |-> {}, rest |-> << >>]

CodecInit ==
    /\ \/ /\ packet \in [flags : SUBSET {"zero"}, acks : BoundedSeq(Acks, 2), extra : BoundedSeq(Bytes, 1),
                         payload : BoundedSeq(Bytes, MaxBytes)]
          /\ datagram = NoDatagram
       \/ /\ packet = NoPacket
          /\ datagram \in [flags : SUBSET {"zero", "acks"}, rest : BoundedSeq(Bytes, MaxRest)]
    /\ received = Undecodable
    /\ faces \in {[f \in FaceSet |-> CHOOSE id \in TextureIds : TRUE]}

SendPacket ==
    /\ datagram = NoDatagram
    /\ datagram' = EncodePacket(packet)
    /\ UNCHANGED <<packet, received, faces>>

ReceiveDatagram ==
    /\ datagram # NoDatagram /\ received = Undecodable
    /\ received' = DecodePacket(datagram)
    /\ UNCHANGED <<packet, datagram, faces>>

\* Another avatar appearance, of one more face at a time.
ChangeFace ==
    /\ packet = NoPacket /\ datagram = NoDatagram
    /\ \E f \in FaceSet, id \in TextureIds : faces' = [faces EXCEPT ![f] = id]
    /\ UNCHANGED <<packet, datagram, received>>

CodecNext == SendPacket \/ ReceiveDatagram \/ ChangeFace

CodecSpec == CodecInit /\ [][CodecNext]_codecVars

-----------------------------------------------------------------------------
CodecTypeOK == received.ok \in BOOLEAN /\ faces \in [FaceSet -> TextureIds]

\* What is sent is received: payload, acknowledgements and extra header,
\* zero-coded or not.
PacketsSurvive ==
    packet # NoPacket /\ datagram # NoDatagram =>
        LET back == DecodePacket(datagram) IN
        /\ back.ok
        /\ back.payload = packet.payload /\ back.acks = packet.acks /\ back.extra = packet.extra

\* The textures of an avatar's faces come back as they were, whatever the
\* default, and wherever in the bitmap the faces are.
FacesSurvive ==
    \A default \in TextureIds :
        UnpackTextureEntryFaces(EncodeAvatarTextureEntry(faces, default)) = [ok |-> TRUE, faces |-> faces]
=============================================================================
