--------------------------- MODULE ViewerMessages ---------------------------
(***************************************************************************)
(* The viewer's messages as region/src/viewer_protocol.cpp takes them      *)
(* apart: for each message the checks of its size and the bytes read, in   *)
(* the order of the code.                                                  *)
(*                                                                         *)
(* A payload is known by what the checks have found out about it: how many *)
(* bytes it has at least after the place reached, and whether that is all  *)
(* there are.  So one behaviour stands for payloads of every size.  What a *)
(* field holds is left out, but for the lengths and counts that say how    *)
(* much follows; a check of contents may refuse the message or not.  The   *)
(* message number is checked with the first size.                          *)
(***************************************************************************)
EXTENDS Naturals, Sequences, FiniteSets

CONSTANTS
    LengthValues,  \* what a length byte may be found to hold
    MaxBlocks      \* blocks of varying size in one message

ASSUME MessagesAssumption == LengthValues \subseteq 0..255 /\ MaxBlocks \in Nat

\* A step of a decoder.  An amount is per * (the last length) + plus.
DecoderStep(op, per, plus) == [op |-> op, per |-> per, plus |-> plus]
AtLeast(n)       == DecoderStep("at least", 0, n)
AtLeastOf(w, n)  == DecoderStep("at least", w, n)
Exactly(n)       == DecoderStep("exactly", 0, n)
ExactlyOf(w, n)  == DecoderStep("exactly", w, n)
Take(n)          == DecoderStep("take", 0, n)
TakeOf(w)        == DecoderStep("take", w, 0)
LengthByte           == DecoderStep("length", 0, 1)    \* one byte
LongLength       == DecoderStep("length", 0, 2)    \* two bytes
NotZero          == DecoderStep("within", 1, 255)  \* of the last length
Within(lo, hi)   == DecoderStep("within", lo, hi)
Contents         == DecoderStep("contents", 0, 0)
\* As many blocks as the byte here says.
Blocks(body)     == [op |-> "blocks", per |-> 0, plus |-> 1, body |-> body]
SomeBlocks(body) == [op |-> "blocks", per |-> 1, plus |-> 1, body |-> body]  \* and at least one

\* A message of one size; one whose end is not looked at.
Sized(n) == <<Exactly(n), Take(n)>>
Opening(n) == <<AtLeast(n), Take(n)>>
\* Fixed part with a count at its end, and that many blocks of w bytes.
CountedList(n, w) == <<AtLeast(n), Take(n - 1), LengthByte, NotZero, ExactlyOf(w, 0), TakeOf(w)>>

\* Mutant: the length is believed.
Variable1Unchecked == <<AtLeast(1), LengthByte, TakeOf(1), Contents>>

Variable1 == <<AtLeast(1), LengthByte, AtLeastOf(1, 0), TakeOf(1), Contents>>
Variable2 == <<AtLeast(2), LongLength, NotZero, AtLeastOf(1, 0), TakeOf(1), Contents>>
UuidList  == <<AtLeast(1), LengthByte, AtLeastOf(16, 0), TakeOf(16)>>

-----------------------------------------------------------------------------
(* Sessions, movement, teleports, gestures.                                *)
UseCircuitCode == Sized(40)
TeleportLocationRequest == Sized(68) \o <<Contents>>
TeleportLandmarkRequest == Sized(52)
SetStartLocationRequest == <<AtLeast(37), Take(36), LengthByte, AtLeastOf(1, 28), TakeOf(1), Take(28), Contents>>
ActivateGestures   == <<AtLeast(41), Take(40), LengthByte, AtLeastOf(36, 0), TakeOf(36)>>
DeactivateGestures == <<AtLeast(41), Take(40), LengthByte, AtLeastOf(20, 0), TakeOf(20)>>
RegionHandshakeReply == Sized(40)
CompleteAgentMovement == Sized(40)
StartPingCheck == Sized(6)
CompletePingCheck == Sized(2)
EconomyDataRequest == Sized(4)
LogoutRequest == Sized(36)
AgentUpdate == Sized(115)
ChatFromViewer == <<AtLeast(43), Take(36)>> \o Variable2 \o <<Exactly(5), Take(5)>>
PacketAck == <<AtLeast(9), Take(4), LengthByte, NotZero, ExactlyOf(4, 0), TakeOf(4)>>

(* Inventory.                                                              *)
CreateInventoryFolder ==
    <<AtLeast(70), Take(69), LengthByte, NotZero, ExactlyOf(1, 0), TakeOf(1), Contents>>
CreateInventoryItemBody ==
    <<AtLeast(81), Take(79), LengthByte, AtLeastOf(1, 1), TakeOf(1), LengthByte, ExactlyOf(1, 0), TakeOf(1), Contents>>
CopyInventoryItem == <<AtLeast(90), Contents, Take(89), LengthByte, ExactlyOf(1, 0), TakeOf(1), Contents>>
MoveInventoryFolder == CountedList(38, 32)
MoveInventoryItem ==
    <<AtLeast(38), Take(37),
      SomeBlocks(<<AtLeast(33), Take(32), LengthByte, AtLeastOf(1, 0), TakeOf(1), Contents>>), Exactly(0)>>
UpdateInventoryAsset ==
    LET String == <<AtLeast(1), LengthByte, NotZero, AtLeastOf(1, 0), Contents, TakeOf(1)>> IN
    <<AtLeast(195), Contents, Take(185)>> \o String \o String \o <<Exactly(8), Take(8)>>

(* Task inventory and scripts.                                             *)
RequestTaskInventoryBody == Sized(40)
NamedItem(n) ==
    <<AtLeast(n), Take(n - 1), LengthByte, AtLeastOf(1, 1), TakeOf(1),
      LengthByte, ExactlyOf(1, 8), TakeOf(1), Take(8)>>
UpdateTaskInventory == NamedItem(170)
RezScriptBody == NamedItem(186)
RemoveTaskInventory == Sized(56)
MoveTaskInventory == Sized(72)

(* Assets, transfers, images.                                              *)
RequestXferBody == <<AtLeast(34), Take(12), LengthByte, ExactlyOf(1, 21), TakeOf(1), Take(21), Contents>>
TransferRequestBody == <<AtLeast(34), Take(32), LongLength, AtLeastOf(1, 0), TakeOf(1), Contents>>
AssetUploadRequestBody == <<AtLeast(25), Take(23), LongLength, ExactlyOf(1, 0), TakeOf(1)>>
SendXferPacketBody == <<AtLeast(15), Take(13), LongLength, ExactlyOf(1, 0), TakeOf(1)>>
ConfirmXferPacketBody == Sized(13)
RequestImage == CountedList(34, 26)

(* Objects.                                                                *)
ObjectAddBody == Sized(146) \o <<Contents>>
DeRezObjectBody == CountedList(88, 4)
RezObjectBody == Opening(144) \o <<Contents>>
ObjectSelectBody == CountedList(37, 4)
ObjectDeselectBody == CountedList(37, 4)
ObjectLinkOrDelink == CountedList(37, 4)
ObjectGrab == <<AtLeast(53), Take(52), LengthByte, ExactlyOf(64, 0), TakeOf(64), Contents>>
ObjectGrabUpdate == <<AtLeast(81), Take(80), LengthByte, ExactlyOf(64, 0), TakeOf(64), Contents>>
MultipleObjectUpdateBody ==   \* a size of one, two or three vectors, as the type says
    <<AtLeast(35), Take(34),
      SomeBlocks(<<AtLeast(6), Take(5), LengthByte, Within(12, 36), AtLeastOf(1, 0), Contents, TakeOf(1)>>),
      Exactly(0)>>
ObjectText(lo, hi) ==
    <<AtLeast(37), Take(36),
      SomeBlocks(<<AtLeast(5), Take(4), LengthByte, Within(lo, hi), AtLeastOf(1, 0), Contents, TakeOf(1)>>),
      Exactly(0)>>
ObjectNameBody == ObjectText(2, 64)
ObjectDescription == ObjectText(1, 128)
ObjectPermissions == <<AtLeast(38), Contents, Take(37), LengthByte, NotZero, ExactlyOf(10, 0), TakeOf(10), Contents>>
ObjectDuplicateBody == CountedList(69, 4)
ObjectMaterialBody == CountedList(37, 5)
ObjectShapeBody == CountedList(37, 27)
ObjectImageBody ==
    <<AtLeast(37), Take(36),
      SomeBlocks(<<AtLeast(7), Take(4), LengthByte, AtLeastOf(1, 2), TakeOf(1), LongLength, AtLeastOf(1, 0), TakeOf(1)>>),
      Exactly(0)>>
ObjectFlagUpdateBody == <<AtLeast(45), Take(44), LengthByte, ExactlyOf(17, 0), TakeOf(17), Contents>>
RequestObjectPropertiesFamily == Sized(54)

(* Names and the map.                                                      *)
UuidNameRequest == CountedList(5, 16)
MapBlockRequest == Sized(53) \o <<Contents>>
MapNameRequest == <<AtLeast(46), Take(45), LengthByte, NotZero, ExactlyOf(1, 0), TakeOf(1), Contents>>

(* Appearance.                                                             *)
AgentCachedTexture == CountedList(41, 17)
AgentSetAppearance ==
    <<AtLeast(53), Take(52), LengthByte, AtLeastOf(17, 2), TakeOf(17),
      LongLength, AtLeastOf(1, 1), TakeOf(1), LengthByte, ExactlyOf(1, 0), TakeOf(1), Contents>>
AgentAnimation ==
    <<AtLeast(34), Take(33), LengthByte, AtLeastOf(17, 1), TakeOf(17),
      Blocks(<<AtLeast(1), LengthByte, AtLeastOf(1, 0), TakeOf(1)>>), Exactly(0)>>

(* Land.                                                                   *)
ModifyLandBody ==
    <<AtLeast(48), Contents, Take(46), LengthByte, Within(1, 64), AtLeastOf(20, 1), TakeOf(20),
      LengthByte, Within(0, 64), ExactlyOf(4, 0), TakeOf(4), Contents>>
ParcelPropertiesRequest == Opening(55) \o <<Contents>>
ParcelPropertiesRequestById == Opening(44)
ParcelPropertiesUpdate ==
    <<AtLeast(48), Take(52)>> \o Variable1 \o Variable1 \o Variable1 \o Variable1 \o Opening(99)
ParcelDivideOrJoin == Opening(52) \o <<Contents>>
ParcelAccessListRequest == Opening(48)
ParcelAccessListUpdate == <<AtLeast(69), Take(68), LengthByte, AtLeastOf(24, 0), TakeOf(24)>>
ParcelObjectOwnersRequest == Opening(40)
ParcelSelectObjects == <<AtLeast(45), Take(44)>> \o UuidList
ParcelReturnObjects == <<AtLeast(46), Take(44)>> \o UuidList \o UuidList

(* Region and estate.                                                      *)
RequestRegionInfo == Opening(36)
EstateCovenantRequest == Opening(36)
EstateOwnerMessage ==
    <<AtLeast(53), Take(52)>> \o Variable1 \o <<AtLeast(17), Take(16), Blocks(Variable1)>>

Decoders ==
    [UseCircuitCode |-> UseCircuitCode, TeleportLocationRequest |-> TeleportLocationRequest,
     TeleportLandmarkRequest |-> TeleportLandmarkRequest,
     SetStartLocationRequest |-> SetStartLocationRequest, ActivateGestures |-> ActivateGestures,
     DeactivateGestures |-> DeactivateGestures, RegionHandshakeReply |-> RegionHandshakeReply,
     CompleteAgentMovement |-> CompleteAgentMovement, StartPingCheck |-> StartPingCheck,
     CompletePingCheck |-> CompletePingCheck, EconomyDataRequest |-> EconomyDataRequest,
     LogoutRequest |-> LogoutRequest, AgentUpdate |-> AgentUpdate, ChatFromViewer |-> ChatFromViewer,
     PacketAck |-> PacketAck, CreateInventoryFolder |-> CreateInventoryFolder,
     CreateInventoryItemBody |-> CreateInventoryItemBody, CopyInventoryItem |-> CopyInventoryItem,
     MoveInventoryFolder |-> MoveInventoryFolder, MoveInventoryItem |-> MoveInventoryItem,
     UpdateInventoryAsset |-> UpdateInventoryAsset, RequestTaskInventoryBody |-> RequestTaskInventoryBody,
     UpdateTaskInventory |-> UpdateTaskInventory, RezScriptBody |-> RezScriptBody,
     RemoveTaskInventory |-> RemoveTaskInventory, MoveTaskInventory |-> MoveTaskInventory,
     RequestXferBody |-> RequestXferBody, TransferRequestBody |-> TransferRequestBody,
     AssetUploadRequestBody |-> AssetUploadRequestBody, SendXferPacketBody |-> SendXferPacketBody,
     ConfirmXferPacketBody |-> ConfirmXferPacketBody, RequestImage |-> RequestImage, ObjectAddBody |-> ObjectAddBody,
     DeRezObjectBody |-> DeRezObjectBody, RezObjectBody |-> RezObjectBody, ObjectSelectBody |-> ObjectSelectBody,
     ObjectDeselectBody |-> ObjectDeselectBody, ObjectLinkOrDelink |-> ObjectLinkOrDelink,
     ObjectGrab |-> ObjectGrab, ObjectGrabUpdate |-> ObjectGrabUpdate,
     MultipleObjectUpdateBody |-> MultipleObjectUpdateBody, ObjectNameBody |-> ObjectNameBody,
     ObjectDescription |-> ObjectDescription, ObjectPermissions |-> ObjectPermissions,
     ObjectDuplicateBody |-> ObjectDuplicateBody, ObjectMaterialBody |-> ObjectMaterialBody, ObjectShapeBody |-> ObjectShapeBody,
     ObjectImageBody |-> ObjectImageBody, ObjectFlagUpdateBody |-> ObjectFlagUpdateBody,
     RequestObjectPropertiesFamily |-> RequestObjectPropertiesFamily,
     UuidNameRequest |-> UuidNameRequest, MapBlockRequest |-> MapBlockRequest,
     MapNameRequest |-> MapNameRequest, AgentCachedTexture |-> AgentCachedTexture,
     AgentSetAppearance |-> AgentSetAppearance, AgentAnimation |-> AgentAnimation,
     ModifyLandBody |-> ModifyLandBody, ParcelPropertiesRequest |-> ParcelPropertiesRequest,
     ParcelPropertiesRequestById |-> ParcelPropertiesRequestById,
     ParcelPropertiesUpdate |-> ParcelPropertiesUpdate, ParcelDivideOrJoin |-> ParcelDivideOrJoin,
     ParcelAccessListRequest |-> ParcelAccessListRequest,
     ParcelAccessListUpdate |-> ParcelAccessListUpdate,
     ParcelObjectOwnersRequest |-> ParcelObjectOwnersRequest,
     ParcelSelectObjects |-> ParcelSelectObjects, ParcelReturnObjects |-> ParcelReturnObjects,
     RequestRegionInfo |-> RequestRegionInfo, EstateCovenantRequest |-> EstateCovenantRequest,
     EstateOwnerMessage |-> EstateOwnerMessage]

-----------------------------------------------------------------------------
VARIABLES
    decoding,   \* the message
    steps,      \* what is left to do
    known,      \* bytes that are certain to follow
    ended,      \* whether it is certain that no more do
    length,     \* the last length read
    verdict     \* "open", "accepted" or "refused"

decoderVars == <<decoding, steps, known, ended, length, verdict>>

DecoderInit ==
    /\ decoding \in DOMAIN Decoders
    /\ steps = Decoders[decoding]
    /\ known = 0 /\ ended = FALSE /\ length = 0
    /\ verdict = "open"

Doing(op) == verdict = "open" /\ steps # << >> /\ Head(steps).op = op
Amount == Head(steps).per * length + Head(steps).plus
Proceed == steps' = Tail(steps) /\ UNCHANGED <<decoding, verdict>>
Refuse == verdict' = "refused" /\ UNCHANGED <<decoding, steps, known, ended, length>>

\* payload.size() < offset + n
CheckAtLeast ==
    /\ Doing("at least")
    /\ \/ /\ ended => Amount <= known
          /\ known' = IF Amount > known THEN Amount ELSE known
          /\ Proceed /\ UNCHANGED <<ended, length>>
       \/ Amount > known /\ Refuse

\* payload.size() != offset + n
CheckExactly ==
    /\ Doing("exactly")
    /\ \/ /\ IF ended THEN Amount = known ELSE Amount >= known
          /\ known' = Amount /\ ended' = TRUE
          /\ Proceed /\ UNCHANGED length
       \/ ~(ended /\ Amount = known) /\ Refuse

CheckLength ==
    /\ Doing("within")
    /\ IF length \in Head(steps).per..Head(steps).plus
       THEN Proceed /\ UNCHANGED <<known, ended, length>> ELSE Refuse

CheckContents == Doing("contents") /\ (Refuse \/ (Proceed /\ UNCHANGED <<known, ended, length>>))

Consumed(n) == known' = IF n <= known THEN known - n ELSE 0

TakeBytes == Doing("take") /\ Consumed(Amount) /\ Proceed /\ UNCHANGED <<ended, length>>

TakeLength ==
    /\ Doing("length")
    /\ length' \in LengthValues
    /\ Consumed(Head(steps).plus)
    /\ Proceed /\ UNCHANGED ended

\* The loop over blocks of varying size.
TakeCount ==
    /\ Doing("blocks")
    /\ \/ \E n \in 0..MaxBlocks :
             /\ n >= Head(steps).per
             /\ steps' = [i \in 1..(n * Len(Head(steps).body)) |->
                            Head(steps).body[((i - 1) % Len(Head(steps).body)) + 1]] \o Tail(steps)
             /\ length' = n
             /\ Consumed(1)
             /\ UNCHANGED <<decoding, ended, verdict>>
       \/ Head(steps).per > 0 /\ Refuse

AcceptMessage ==
    /\ verdict = "open" /\ steps = << >>
    /\ verdict' = "accepted"
    /\ UNCHANGED <<decoding, steps, known, ended, length>>

DecoderNext ==
    \/ CheckAtLeast \/ CheckExactly \/ CheckLength \/ CheckContents
    \/ TakeBytes \/ TakeLength \/ TakeCount \/ AcceptMessage

DecoderSpec == DecoderInit /\ [][DecoderNext]_decoderVars

-----------------------------------------------------------------------------
DecoderTypeOK ==
    /\ decoding \in DOMAIN Decoders
    /\ known \in Nat /\ length \in Nat /\ ended \in BOOLEAN
    /\ verdict \in {"open", "accepted", "refused"}

Reading == verdict = "open" /\ steps # << >> /\ Head(steps).op \in {"take", "length", "blocks"}
Wanted == IF Head(steps).op = "take" THEN Amount ELSE Head(steps).plus

\* No byte is read that a size check has not shown to be there: a message cut
\* short anywhere is refused, not half read.  (ParcelPropertiesUpdate is left
\* to EveryReadIsChecked.)
ReadsAreChecked == Reading /\ decoding # "ParcelPropertiesUpdate" => Wanted <= known

\* A decoder that looks for the end of a message has taken it apart to the
\* last byte when it accepts it.
NothingLeftOver == verdict = "accepted" /\ ended => known = 0

\* Does not hold: every read of every message lies within what was checked.
EveryReadIsChecked == Reading => Wanted <= known
=============================================================================
