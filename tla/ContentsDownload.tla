---------------------------- MODULE ContentsDownload ----------------------------
(***************************************************************************)
(* How a viewer reads what is in an object, and the body of an asset.  The *)
(* contents listing is a file made when it is asked for, named in the      *)
(* reply, and fetched by the Xfer of the old protocol: a packet, its       *)
(* confirmation, the next packet.  An asset's body comes by TransferInfo   *)
(* and all its packets at once.                                            *)
(*                                                                         *)
(* A circuit over its rate refuses to send (Circuit::send).  The packets   *)
(* it does send are delivered, in any order; the viewer takes the pieces   *)
(* of an Xfer only in theirs.  The n-th listing of the object has          *)
(* ListingLength[n] pieces, and its serial is n.                           *)
(***************************************************************************)
EXTENDS Naturals, FiniteSets, Functions

CONSTANTS
    Download,       \* listings and bodies the viewer asks for, each once
    Body,           \* those that are an asset's body
    ListingLength,  \* how many packets a listing takes, by the object's serial
    BodyLength,     \* how many packets the asset's body takes
    MaxSerial,      \* edits of the object's contents
    MaxRefusals     \* packets a circuit over its rate refused

ASSUME BodiesAreDownloads == Body \subseteq Download
ASSUME LengthsArePositive == ListingLength \in [0 .. MaxSerial -> Nat \ {0}] /\ BodyLength \in Nat \ {0}
ASSUME DownloadBounds == MaxSerial \in Nat /\ MaxRefusals \in Nat

VARIABLES
    serial,        \* task_inventory_serial: 0 until the object has had contents
    files,         \* pending_task_inventory_files: the listing each is of
    transfers,     \* pending_task_inventory_xfers: listing, offset, awaiting
    wire,          \* packets on their way to the viewer
    confirms,      \* ConfirmXferPacket messages on their way
    toldSerial,    \* what the viewer knows of a download: its serial
    gotPieces,     \* the pieces the viewer has of each download
    lost,          \* pieces the circuit refused
    refusals

downloadVars == <<serial, files, transfers, wire, confirms, toldSerial, gotPieces, lost, refusals>>

Unasked == MaxSerial + 1
Listing == Download \ Body
PiecesFor(d) == IF d \in Body THEN 0 .. BodyLength - 1
             ELSE IF toldSerial[d] = Unasked THEN {} ELSE 0 .. ListingLength[toldSerial[d]] - 1
AnyPiece == UNION {0 .. ListingLength[s] - 1 : s \in 0 .. MaxSerial}
Packet == [download : Download, piece : Nat, of : 0 .. MaxSerial]

DownloadTypeOK ==
    /\ serial \in 0 .. MaxSerial /\ refusals \in 0 .. MaxRefusals
    /\ DOMAIN files \cup DOMAIN transfers \subseteq Listing
    /\ Range(files) \subseteq 0 .. MaxSerial
    /\ \A d \in DOMAIN transfers :
         transfers[d] \in [of : 0 .. MaxSerial, offset : Nat, awaiting : Nat]
    /\ wire \subseteq Packet /\ confirms \subseteq Listing \X Nat
    /\ toldSerial \in [Download -> 0 .. Unasked]
    /\ \A d \in Download : gotPieces[d] \subseteq PiecesFor(d)
    /\ lost \subseteq Download \X Nat

DownloadInit ==
    /\ serial = 0 /\ files = <<>> /\ transfers = <<>> /\ wire = {} /\ confirms = {}
    /\ toldSerial = [d \in Download |-> Unasked] /\ gotPieces = [d \in Download |-> {}]
    /\ lost = {} /\ refusals = 0

Dropping(map, d) == Restrict(map, DOMAIN map \ {d})
Setting(map, d, value) == [e \in DOMAIN map \cup {d} |-> IF e = d THEN value ELSE map[e]]
\* Mutant: off by one.
FinalBeyond(of, n) == n = ListingLength[of]

Final(of, n) == n = ListingLength[of] - 1

\* A packet the circuit sends, or refuses because its rate is used up.
SendPiece(d, n, of, sent) ==
    \/ sent /\ wire' = wire \cup {[download |-> d, piece |-> n, of |-> of]}
       /\ UNCHANGED <<lost, refusals>>
    \/ ~sent /\ refusals < MaxRefusals /\ refusals' = refusals + 1
       /\ lost' = lost \cup {<<d, n>>} /\ UNCHANGED wire

-----------------------------------------------------------------------------
\* An edit of the object's contents gives them a new serial.
EditContents ==
    /\ serial < MaxSerial /\ serial' = serial + 1
    /\ UNCHANGED <<files, transfers, wire, confirms, toldSerial, gotPieces, lost, refusals>>

\* RequestTaskInventory: the listing is made now, and the viewer, told its
\* name and serial, asks for it.  Contents never edited have no file.
RequestTaskInventory(d) ==
    /\ d \in Listing /\ toldSerial[d] = Unasked /\ serial > 0
    /\ files' = Setting(files, d, serial) /\ toldSerial' = [toldSerial EXCEPT ![d] = serial]
    /\ UNCHANGED <<serial, transfers, wire, confirms, gotPieces, lost, refusals>>

\* RequestXfer: the first packet; a file of one packet is done with, and the
\* others wait for their confirmations.  A refused send leaves the file.
RequestXfer(d) ==
    /\ d \in DOMAIN files /\ <<d, 0>> \notin lost
    /\ \E sent \in BOOLEAN :
         /\ SendPiece(d, 0, files[d], sent)
         /\ files' = IF sent THEN Dropping(files, d) ELSE files
         /\ transfers' = IF sent /\ ~Final(files[d], 0)
                         THEN Setting(transfers, d, [of |-> files[d], offset |-> 1, awaiting |-> 0])
                         ELSE transfers
    /\ UNCHANGED <<serial, confirms, toldSerial, gotPieces>>

\* ConfirmXferPacket: only the packet awaited moves the transfer on.  A refused
\* send leaves it where it was, and the confirmation is spent.
ConfirmXferPacket(d, n) ==
    /\ <<d, n>> \in confirms /\ confirms' = confirms \ {<<d, n>>}
    /\ IF d \in DOMAIN transfers /\ n = transfers[d].awaiting
       THEN LET next == transfers[d].offset
            IN \E sent \in BOOLEAN :
                 /\ SendPiece(d, next, transfers[d].of, sent)
                 /\ transfers' =
                      IF ~sent THEN transfers
                      ELSE IF Final(transfers[d].of, next) THEN Dropping(transfers, d)
                      ELSE Setting(transfers, d, [transfers[d] EXCEPT !.offset = next + 1,
                                                                   !.awaiting = next])
       ELSE UNCHANGED <<transfers, wire, lost, refusals>>
    /\ UNCHANGED <<serial, files, toldSerial, gotPieces>>

\* TransferRequest: TransferInfo and every packet, sent or refused one by one.
TransferRequest(d) ==
    /\ d \in Body /\ toldSerial[d] = Unasked /\ toldSerial' = [toldSerial EXCEPT ![d] = 0]
    /\ \E refused \in SUBSET PiecesFor(d) :
         /\ refusals + Cardinality(refused) <= MaxRefusals
         /\ refusals' = refusals + Cardinality(refused)
         /\ lost' = lost \cup ({d} \X refused)
         /\ wire' = wire \cup {[download |-> d, piece |-> n, of |-> 0] : n \in PiecesFor(d) \ refused}
    /\ UNCHANGED <<serial, files, transfers, confirms, gotPieces>>

\* The viewer: the pieces of a body in any order, those of a listing in
\* theirs, each confirmed; a piece that is not the next one is dropped.
Arrive(p) ==
    /\ p \in wire /\ wire' = wire \ {p}
    /\ LET d == p.download
           taken == d \in Body \/ p.piece = Cardinality(gotPieces[d])
       IN /\ gotPieces' = IF taken THEN [gotPieces EXCEPT ![d] = @ \cup {p.piece}] ELSE gotPieces
          /\ confirms' = IF d \in Listing /\ taken THEN confirms \cup {<<d, p.piece>>} ELSE confirms
    /\ UNCHANGED <<serial, files, transfers, toldSerial, lost, refusals>>

\* The viewer confirms a piece once more.
ConfirmAgain(d) ==
    /\ d \in Listing /\ gotPieces[d] # {}
    /\ \E n \in gotPieces[d] : confirms' = confirms \cup {<<d, n>>}
    /\ UNCHANGED <<serial, files, transfers, wire, toldSerial, gotPieces, lost, refusals>>

\* clear_viewer_endpoint.
ReaderLeaves ==
    /\ files' = <<>> /\ transfers' = <<>> /\ wire' = {} /\ confirms' = {}
    /\ toldSerial' = [d \in Download |-> Unasked] /\ gotPieces' = [d \in Download |-> {}] /\ lost' = {}
    /\ UNCHANGED <<serial, refusals>>

DownloadNext ==
    \/ EditContents \/ ReaderLeaves
    \/ \E d \in Download : RequestTaskInventory(d) \/ RequestXfer(d) \/ TransferRequest(d)
                           \/ ConfirmAgain(d)
    \/ \E c \in confirms : ConfirmXferPacket(c[1], c[2])
    \/ \E p \in wire : Arrive(p)

DownloadSpec == DownloadInit /\ [][DownloadNext]_downloadVars

\* The network delivers and the loop turns.
DownloadFairness ==
    /\ \A d \in Download : WF_downloadVars(RequestXfer(d))
    /\ \A d \in Download, n \in AnyPiece : WF_downloadVars(ConfirmXferPacket(d, n))
    /\ WF_downloadVars(\E p \in wire : Arrive(p))

DownloadFairSpec == DownloadSpec /\ DownloadFairness

-----------------------------------------------------------------------------
\* The pieces on their way and those still to be sent are of the listing whose
\* serial the viewer was told, however often the contents were edited since:
\* what the viewer puts together was never a mixture of two listings.
ListingIsOne ==
    /\ \A p \in wire : p.download \in Listing => p.of = toldSerial[p.download]
    /\ \A d \in DOMAIN files : files[d] = toldSerial[d]
    /\ \A d \in DOMAIN transfers : transfers[d].of = toldSerial[d]

\* A transfer has at most one packet that the viewer has not confirmed, so the
\* viewer, which drops a piece out of its turn, never has to.
OnePieceAtATime ==
    \A d \in Listing :
      /\ Cardinality({p \in wire : p.download = d}) <= 1
      /\ \A p \in wire : p.download = d => p.piece = Cardinality(gotPieces[d])

\* What was asked for arrives whole, or a piece of it was refused.
DownloadsComplete ==
    \A d \in Download :
      toldSerial[d] # Unasked ~> (toldSerial[d] = Unasked \/ gotPieces[d] = PiecesFor(d) \/ \E l \in lost : l[1] = d)
=============================================================================
