---------------------------- MODULE ViewerReplies ----------------------------
(***************************************************************************)
(* The lists and the long contents the region sends a viewer               *)
(* (region/src/viewer_protocol.cpp): how many blocks a message announces   *)
(* and carries, how a texture, a parcel overlay or a selection is cut into *)
(* packets, and how changed terrain is packed (region/src/main.cpp).       *)
(*                                                                         *)
(* A list is its length; a message is the pairs of a number it announces   *)
(* in so many bytes and of what follows, or nothing when the encoder gives *)
(* up.  Contents are the positions 1..size of their bytes.                 *)
(***************************************************************************)
EXTENDS Integers, Sequences, FiniteSets, FiniteSetsExt, SequencesExt

CONSTANTS
    ListSizes,     \* lengths of lists and texts
    ContentSizes,  \* sizes of images, overlays, selections
    PatchSizes,    \* encoded sizes a terrain patch may have; 0: will not encode
    MaxPatches     \* patches that wait to be sent

ASSUME RepliesAssumption ==
    ListSizes \cup ContentSizes \cup PatchSizes \cup {MaxPatches} \subseteq Nat

Announced(n, bytes, follows) == <<n % (IF bytes = 1 THEN 256 ELSE 65536), follows>>
SmallerSize(a, b) == IF a < b THEN a ELSE b
GivesUp == {}

-----------------------------------------------------------------------------
(* Lists.  The first argument is the length, the second that of a text.    *)

\* append_variable1, append_variable2: the text and a terminating zero.
Variable1Text(n) == IF n > 254 THEN GivesUp ELSE {Announced(n + 1, 1, n + 1)}
Variable2Text(n) == IF n > 65534 THEN GivesUp ELSE {Announced(n + 1, 2, n + 1)}
\* append_binary
Binary(n, bytes) == IF (bytes = 1 /\ n > 255) \/ n > 65535 THEN GivesUp ELSE {Announced(n, bytes, n)}

\* Mutant: the count wraps round in its byte.
CountedAll(n) == IF n = 0 THEN GivesUp ELSE {Announced(n, 1, n)}

Counted(n) == IF n \in 1..255 THEN {Announced(n, 1, n)} ELSE GivesUp
Capped(n) == {Announced(SmallerSize(n, 255), 1, SmallerSize(n, 255))}
Both(a, b) == IF a = GivesUp \/ b = GivesUp THEN GivesUp ELSE a \cup b

KillObject(n, s) == Counted(n)
ObjectProperties(n, s) == Both(Counted(n), Variable1Text(s))
UuidNameReply(n, s) == Both(Counted(n), Variable1Text(s))
\* Sizes follow the regions, of all of them if one is large.
MapBlockReply(n, s) ==
    Both(Both(Counted(n), Variable1Text(s)), {Announced(IF s > 1 THEN n ELSE 0, 1, IF s > 1 THEN n ELSE 0)})
AgentCachedTextureResponse(n, s) == Counted(n)
AvatarAnimation(n, s) == Counted(n)
AvatarAppearance(n, s) ==
    IF s \in 1..65535 /\ n \in 1..255 THEN {Announced(s, 2, s), Announced(n, 1, n)} ELSE GivesUp
PacketAckReply(n, s) == Counted(n)
ReplyTaskInventory(n, s) == IF s > 255 THEN GivesUp ELSE {Announced(s, 1, s)}
SendXferPacketReply(n, s) == IF s > 65535 THEN GivesUp ELSE {Announced(s, 2, s)}
TransferPacket(n, s) == SendXferPacketReply(n, s)
\* An empty access list is sent as one entry.
ParcelAccessListReply(n, s) == IF n = 0 THEN {Announced(1, 1, 1)} ELSE Capped(n)
ParcelObjectOwnersReply(n, s) == Capped(n)
EstateOwnerReply(n, s) == Both(Capped(n), Variable1Text(s))
ChatFromSimulator(n, s) == Both(Variable1Text(n), Variable2Text(s))
\* The transform, the texture entry, and the one parameter of a mesh or sculpt.
StaticObjectUpdate(n, s) == Both(Both(Binary(60, 1), Binary(s, 2)), Binary(IF n = 0 THEN 1 ELSE 24, 1))

Lists(n, s) ==
    [KillObject |-> KillObject(n, s), ObjectProperties |-> ObjectProperties(n, s),
     UuidNameReply |-> UuidNameReply(n, s), MapBlockReply |-> MapBlockReply(n, s),
     AgentCachedTextureResponse |-> AgentCachedTextureResponse(n, s),
     AvatarAnimation |-> AvatarAnimation(n, s), AvatarAppearance |-> AvatarAppearance(n, s),
     PacketAckReply |-> PacketAckReply(n, s), ReplyTaskInventory |-> ReplyTaskInventory(n, s),
     SendXferPacketReply |-> SendXferPacketReply(n, s), TransferPacket |-> TransferPacket(n, s),
     ParcelAccessListReply |-> ParcelAccessListReply(n, s),
     ParcelObjectOwnersReply |-> ParcelObjectOwnersReply(n, s),
     EstateOwnerReply |-> EstateOwnerReply(n, s), ChatFromSimulator |-> ChatFromSimulator(n, s),
     StaticObjectUpdate |-> StaticObjectUpdate(n, s)]

-----------------------------------------------------------------------------
(* Contents in packets: a packet is an interval of positions.              *)
Interval(begin, size) == [from |-> begin + 1, to |-> begin + size]
Ceiling(a, b) == (a + b - 1) \div b

\* 600 bytes, then 1000 in each packet; from packet start on.
ImagePackets(size) == 1 + Ceiling(IF size > 600 THEN size - 600 ELSE 0, 1000)
ImageTransfer(size, start) ==
    IF size = 0 \/ ImagePackets(size) > 65535 \/ start >= ImagePackets(size) THEN << >>
    ELSE [k \in 1..(ImagePackets(size) - start) |->
            LET packet == start + k - 1
                offset == 600 + (packet - 1) * 1000 IN
            IF packet = 0 THEN Interval(0, SmallerSize(600, size))
            ELSE Interval(offset, SmallerSize(1000, size - offset))]

ParcelOverlay(size) ==
    [k \in 1..Ceiling(size, 1024) |-> Interval((k - 1) * 1024, SmallerSize(1024, size - (k - 1) * 1024))]

\* At least one packet, which may be empty: it resets the selection.
ForceObjectSelect(size) ==
    [k \in 1..(IF size = 0 THEN 1 ELSE Ceiling(size, 251)) |->
        Interval((k - 1) * 251, SmallerSize(251, size - (k - 1) * 251))]

-----------------------------------------------------------------------------
VARIABLES
    listed,   \* a list that is encoded: its length and that of its text
    cutting,  \* contents that are sent: their size, and the packet to start at
    patches,  \* terrain: encoded sizes of the patches that wait
    offset,   \* how many of them are done
    packed    \* the payloads, as the numbers of the patches in each

replyVars == <<listed, cutting, patches, offset, packed>>

RepliesInit ==
    /\ \/ listed \in ListSizes \X ListSizes /\ cutting = <<0, 0>> /\ patches = << >>
       \/ listed = <<0, 0>> /\ cutting \in ContentSizes \X (0..3) /\ patches = << >>
       \/ listed = <<0, 0>> /\ cutting = <<0, 0>> /\ patches \in BoundedSeq(PatchSizes, MaxPatches)
    /\ offset = 0
    /\ packed = << >>

\* encode_terrain: the payload's size, or 0 if it refuses.
Encoded(from, count) ==
    IF \E i \in (from + 1)..(from + count) : patches[i] = 0 THEN 0
    ELSE MapThenSumSet(LAMBDA i : patches[i], (from + 1)..(from + count))

\* Four patches to a payload, or one when four will not go into 1000 bytes.
PackTerrain ==
    LET four  == SmallerSize(4, Len(patches) - offset)
        count == IF Encoded(offset, four) \in 1..1000 THEN four ELSE 1 IN
    /\ offset < Len(patches)
    /\ offset' = offset + count
    /\ packed' = IF Encoded(offset, count) = 0 THEN packed
                 ELSE Append(packed, (offset + 1)..(offset + count))
    /\ UNCHANGED <<listed, cutting, patches>>

RepliesNext == PackTerrain

RepliesSpec == RepliesInit /\ [][RepliesNext]_replyVars

-----------------------------------------------------------------------------
RepliesTypeOK == offset \in 0..Len(patches) /\ Len(packed) <= offset

\* A message carries as many blocks as it announces: no count wraps round in
\* its byte or two, and the texts are as long as they say.
CountsTell ==
    \A e \in DOMAIN Lists(listed[1], listed[2]) :
        \A pair \in Lists(listed[1], listed[2])[e] : pair[1] = pair[2]

Covers(packets, size, from) ==
    /\ packets = << >> => from > size
    /\ packets # << >> => packets[1].from = from /\ packets[Len(packets)].to = size
    /\ \A k \in 1..(Len(packets) - 1) : packets[k + 1].from = packets[k].to + 1

\* The packets of an image, an overlay or a selection are its bytes in order,
\* none twice and none left out, also when an image is taken up again in the
\* middle; and none is longer than its limit.
ContentsArriveWhole ==
    LET size == cutting[1]
        start == cutting[2] IN
    /\ start < ImagePackets(size) =>
         Covers(ImageTransfer(size, start), size, IF start = 0 THEN 1 ELSE 600 + (start - 1) * 1000 + 1)
    /\ start = 0 => \A k \in DOMAIN ImageTransfer(size, 0) :
         ImageTransfer(size, 0)[k].to - ImageTransfer(size, 0)[k].from < 1000
    /\ Covers(ParcelOverlay(size), size, 1)
    /\ Covers(ForceObjectSelect(size), size, 1)

\* Every patch that can be encoded goes out, in one payload and in order, and
\* a payload is over the limit only if it is a single patch.
TerrainGoesOut ==
    offset = Len(patches) =>
        /\ \A i \in DOMAIN patches : patches[i] # 0 <=> (\E k \in DOMAIN packed : i \in packed[k])
        /\ \A k \in DOMAIN packed :
             Cardinality(packed[k]) > 1 => Encoded(Min(packed[k]) - 1, Cardinality(packed[k])) <= 1000
        /\ \A j, k \in DOMAIN packed : j < k => Max(packed[j]) < Min(packed[k])
=============================================================================
