--------------------------- MODULE FrameDecoding ---------------------------
(***************************************************************************)
(* The codecs of os/networking/aios_network.py on the way of a DNS message *)
(* to the wire and back: which lengths each layer writes, checks and cuts  *)
(* off again, and DNSCodec.decode_name, which follows the compression      *)
(* pointers of a message that anybody may have sent.                       *)
(*                                                                         *)
(* A frame is its lengths: addresses, ports and checksums are fields that  *)
(* are copied.  A message is a sequence of octets that matter: 0 ends a    *)
(* name, 1 and 2 start labels, Reserved is a label type that is refused,   *)
(* and Pointer is followed by the offset it points to.                     *)
(***************************************************************************)
EXTENDS Integers, Sequences

CONSTANTS Size,     \* octets of a message
          MaxJumps, \* max_jumps: 20 in the code
          Lengths   \* of DNS messages that are sent

ASSUME DecodingAssumption == Size \in Nat /\ MaxJumps \in Nat /\ Lengths \subseteq Nat

UdpHeader == 8
IpHeader == 20
MinPayload == 46
MaxPayload == 1500
Malformed == -1     \* a ValueError

Reserved == 3
Pointer == 4
Octets == 0..Pointer

VARIABLES
    message,    \* data, offsets from 0
    offset,     \* where decode_name reads
    jumped,     \* has it followed a pointer
    jumps,      \* how many
    after,      \* orig_offset, its second result
    labels,     \* how many labels it has read
    decoding    \* "reads", "done" or "refused"

decodingVars == <<message, offset, jumped, jumps, after, labels, decoding>>

DecodingInit ==
    /\ message \in [0..Size - 1 -> Octets]
    /\ offset = 0 /\ after = 0 /\ labels = 0
    /\ jumped = FALSE /\ jumps = 0
    /\ decoding = "reads"

-----------------------------------------------------------------------------
(* decode_name: one action per turn of its loop *)

Reading == decoding = "reads" /\ offset < Size

RootLabel ==
    /\ Reading /\ message[offset] = 0
    /\ after' = IF jumped THEN after ELSE offset + 1
    /\ decoding' = "done"
    /\ UNCHANGED <<message, offset, jumped, jumps, labels>>

\* A fault: the jumps are not counted.
FollowsUncounted ==
    /\ offset' = message[offset + 1]
    /\ decoding' = "reads"
    /\ UNCHANGED jumps

\* The target may lie anywhere, also ahead; one jump too many is a loop.
Follows ==
    /\ offset' = message[offset + 1]
    /\ jumps' = jumps + 1
    /\ decoding' = IF jumps' > MaxJumps THEN "refused" ELSE "reads"

CompressionPointer ==
    /\ Reading /\ message[offset] = Pointer
    /\ IF offset + 1 < Size
       THEN /\ after' = IF jumped THEN after ELSE offset + 2
            /\ jumped' = TRUE
            /\ Follows
       ELSE decoding' = "refused" /\ UNCHANGED <<offset, jumped, jumps, after>>
    /\ UNCHANGED <<message, labels>>

ReservedLabel ==
    /\ Reading /\ message[offset] = Reserved
    /\ decoding' = "refused"
    /\ UNCHANGED <<message, offset, jumped, jumps, after, labels>>

OrdinaryLabel ==
    LET end == offset + 1 + message[offset] IN
    /\ Reading /\ message[offset] \in {1, 2}
    /\ IF end > Size THEN decoding' = "refused" /\ UNCHANGED <<offset, labels>>
       ELSE offset' = end /\ labels' = labels + 1 /\ UNCHANGED decoding
    /\ UNCHANGED <<message, jumped, jumps, after>>

\* The loop ends at the end of the data: the labels so far are the name, where the docstring
\* has a ValueError.
RunsOut ==
    /\ decoding = "reads" /\ offset >= Size
    /\ after' = IF jumped THEN after ELSE offset + 1
    /\ decoding' = "done"
    /\ UNCHANGED <<message, offset, jumped, jumps, labels>>

DecodingNext ==
    \/ RootLabel \/ CompressionPointer \/ ReservedLabel \/ OrdinaryLabel \/ RunsOut
    \/ decoding # "reads" /\ UNCHANGED decodingVars

DecodingSpec == DecodingInit /\ [][DecodingNext]_decodingVars

-----------------------------------------------------------------------------
(* Lengths, layer by layer.  An encoder returns how many octets it hands down;    *)
(* a decoder gets the octets it is given and the length field of its header, and  *)
(* returns how many it hands up.                                                  *)

UdpEncode(dns) == UdpHeader + dns
UdpDecode(given, field) ==
    IF given < UdpHeader \/ field < UdpHeader \/ field > given THEN Malformed
    ELSE field - UdpHeader

IpEncode(udp) == IpHeader + udp

IpDecode(given, ihl, field) ==
    IF given < IpHeader \/ ihl < IpHeader \/ ihl > given \/ field > given THEN Malformed
    ELSE IF field > ihl THEN field - ihl ELSE 0

EtherEncode(ip) == IF ip > MaxPayload THEN Malformed
                   ELSE IF ip < MinPayload THEN MinPayload ELSE ip

\* What the DNS stub is handed when it receives a frame that carries dns octets.
Received(dns) ==
    LET udp == UdpEncode(dns)
        ip == IpEncode(udp)
        frame == EtherEncode(ip)
        handedUp == IpDecode(frame, IpHeader, ip)
    IN IF frame = Malformed THEN Malformed
       ELSE IF handedUp = Malformed THEN Malformed
       ELSE UdpDecode(handedUp, udp)

-----------------------------------------------------------------------------
\* "Raises ValueError on truncation or compression loop" and "next_offset_after_name is the
\* byte immediately following the name in the non-compressed path (the first pointer, if
\* compression was used)": decode_name ends, reads each stretch between two jumps at most once,
\* and returns an offset right behind the first pointer or the root label.  A name that runs off
\* the data has neither, and the offset lies one octet behind the data.
NameDecoded ==
    /\ labels <= (MaxJumps + 1) * Size
    /\ decoding = "done" =>
          /\ jumps <= MaxJumps
          /\ jumped => after \in 2..Size /\ message[after - 2] = Pointer
          /\ ~jumped /\ offset < Size => after \in 1..Size /\ message[after - 1] = 0
          /\ ~jumped /\ offset >= Size => after = Size + 1

\* The first of these promises for the end of the data: a name that has no end is refused.
\* decode_name leaves its loop and returns the labels so far: TLC refutes this with a message
\* without a root label, and with a pointer behind the data.
TruncationIsRefused == decoding = "done" => offset < Size

\* Padding that Ethernet adds is cut off again, and nothing else: a message that fits
\* a frame arrives with its length, one that does not is refused when it is sent.
LengthsSurvive ==
    \A dns \in Lengths :
        Received(dns) = IF dns <= MaxPayload - IpHeader - UdpHeader THEN dns ELSE Malformed

\* Both directions of what the codecs promise.
FramesDecode == NameDecoded /\ LengthsSurvive
=============================================================================
