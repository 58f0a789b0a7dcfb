---------------------------- MODULE AndroidPush ----------------------------
(***************************************************************************)
(* A push on its way from a provider to an Android device, and how the     *)
(* streams it takes are cut into packets: the provider's TLS connection    *)
(* (SslSvrSession, TCPSslRequestStream, ProviderPacket) and the device's   *)
(* TCP connection (MqttServer, MqttPacket).                                *)
(*                                                                         *)
(* Both sessions read into a buffer that they start anew for every read,   *)
(* and take packets from its front as long as bytes are left. A packet     *)
(* whose end is missing is not kept for the next read. What the provider   *)
(* sends with one SSL_write of at most MaxRecord bytes is one TLS record:  *)
(* it arrives as a whole, and a read returns as much of it as fits. The    *)
(* bytes of the device arrive in any pieces.                               *)
(* TLS, the sockets and the JSON parser are external, as is the stream     *)
(* that MqttServer reads from: it is taken to work like its TLS twin.      *)
(*                                                                         *)
(* One provider, one device, one connection each; every packet of the      *)
(* provider has a payload in JSON for this device. Which session a token   *)
(* finds, and sessions that are replaced, are the subject of MqttRegistry. *)
(***************************************************************************)
EXTENDS Integers, SequencesExt

CONSTANTS
  Lengths,        \* payload lengths of the provider's packets
  Appid,          \* bytes by which "appid" makes the payload of a PUBLISH longer
  RequestBuffer,  \* bytes that a read may return: 2047
  SendBuffer,     \* bytes of the buffer that a PUBLISH is put together in: 2048
  UIntMod,        \* nLen wraps here: 2^32 in the code
  MaxRecord,      \* bound: bytes of an SSL_write, which TLS puts into one record
  MaxBatch,       \* bound: packets in one SSL_write
  MaxPackets,     \* bound: packets of the provider
  MaxCommands,    \* bound: commands of the device
  MaxBlocks       \* bound: sends to the device that meet a full socket

ASSUME AndroidAssumption ==
  /\ Lengths \subseteq Nat
  /\ {Appid, MaxBatch, MaxPackets, MaxCommands, MaxBlocks} \subseteq Nat
  /\ RequestBuffer \in Nat \ {0}
  /\ UIntMod \in Nat /\ UIntMod > 2 * RequestBuffer

\* What CleanupRequest and mqtt_send_publish are modelled for: TLS makes one record
\* of each SSL_write, and the payload of any packet that was read fits in the
\* PUBLISH, behind its header of four bytes.
ASSUME OneRecordAssumption == MaxRecord \in 0 .. 16384
ASSUME PublishFitsAssumption ==
  SendBuffer \in Nat /\ 4 + (RequestBuffer - 37) + Appid <= SendBuffer

VARIABLES
  sent,           \* provider: packets sent, numbered in this order
  records,        \* provider: TLS records not yet read, the first one perhaps in part
  torn,           \* auxiliary: the next byte to read is inside a packet
  oversized,      \* auxiliary: a record larger than the buffer was sent
  fState,         \* SslSvrSession: its state, or "dead" with the whole server
  packets,        \* SslSvrSession: the packets at the front of the buffer
  nLen,           \* SslSvrSession: bytes in the buffer
  handled,        \* SslSvrSession: packets that PacketHandle was given
  discarded,      \* auxiliary: CleanupRequest threw packets away
  commanded,      \* device: commands sent, numbered in this order
  farewell,       \* device: DISCONNECT was the last of them
  up,             \* device: its bytes that have not been read yet
  connectStatus,  \* MqttServer
  buffer,         \* MqttServer: bytes in its buffer
  cleaning,       \* MqttServer: ProcessRecvMsg has returned an error
  closing,        \* MqttServer: the timeout is set to one millisecond
  obeyed,         \* MqttServer: commands that were handled
  split,          \* auxiliary: some read of the device's bytes ended in a command
  flooded,        \* auxiliary: commands in a read that filled the buffer
  fMsgList,       \* MqttServer: packets that met a full socket
  down,           \* packets on their way to the device
  blocks,         \* bounded counter of sends that met a full socket
  published,      \* auxiliary: PUBLISH packets given to Send
  dropped,        \* auxiliary: PUBLISH packets removed from fMsgList
  inStep,         \* device: it has found the start of every packet
  got             \* device: PUBLISH packets it has taken

providerVars == <<sent, records, torn, oversized, fState, packets, nLen, handled,
                  discarded>>
commandVars == <<commanded, farewell, up, connectStatus, buffer, cleaning, closing, obeyed,
                 split, flooded>>
sendVars == <<fMsgList, down, blocks, published, dropped>>
deviceVars == <<inStep, got>>
vars == <<sent, records, torn, oversized, fState, packets, nLen, handled,
          discarded, commanded, farewell, up, connectStatus, buffer, cleaning,
          closing, obeyed, split, flooded, fMsgList, down, blocks, published,
          dropped, inStep, got>>

\* A packet of the provider, with the number of bytes that the TLS record it is
\* sent in has up to its end.
Packet == [nr : 1 .. MaxPackets, len : Lengths, end : Nat]
Record == Seq(Packet)

\* A command of the device is cut in two, however often it is cut: the command
\* byte with what follows it up to the cut, and the rest.
Half == [nr : 1 .. MaxCommands, cmd : {"CONNECT", "PINGREQ", "DISCONNECT"},
         part : 1 .. 2]

\* What the server writes: of a PUBLISH the packet it comes from.
Message == [cmd : {"CONNACK", "PINGRESP", "PUBLISH"}, nr : 0 .. MaxPackets,
            len : Nat, cut : BOOLEAN]

TypeOK ==
  /\ sent \in 0 .. MaxPackets
  /\ records \in Seq(Record)
  /\ torn \in BOOLEAN
  /\ oversized \in BOOLEAN
  /\ fState \in {"kReadingRequest", "kProcessingRequest", "kCleaningUp", "dead"}
  /\ packets \in Record
  /\ nLen \in 0 .. UIntMod - 1
  /\ handled \in Seq(1 .. MaxPackets)
  /\ discarded \in BOOLEAN
  /\ commanded \in 0 .. MaxCommands
  /\ farewell \in BOOLEAN
  /\ up \in Seq(Half)
  /\ connectStatus \in {"new", "connected", "disconnecting", "ended"}
  /\ buffer \in Seq(Half)
  /\ cleaning \in BOOLEAN
  /\ closing \in BOOLEAN
  /\ obeyed \in Seq(1 .. MaxCommands)
  /\ split \in BOOLEAN
  /\ flooded \subseteq 1 .. MaxCommands
  /\ fMsgList \in Seq(Message)
  /\ down \in Seq(Message)
  /\ blocks \in 0 .. MaxBlocks
  /\ published \subseteq Packet
  /\ dropped \subseteq 1 .. MaxPackets
  /\ inStep \in BOOLEAN
  /\ got \subseteq 1 .. MaxPackets

Init ==
  /\ sent = 0
  /\ records = <<>>
  /\ torn = FALSE
  /\ oversized = FALSE
  /\ fState = "kReadingRequest"
  /\ packets = <<>>
  /\ nLen = 0
  /\ handled = <<>>
  /\ discarded = FALSE
  /\ commanded = 0
  /\ farewell = FALSE
  /\ up = <<>>
  /\ connectStatus = "new"
  /\ buffer = <<>>
  /\ cleaning = FALSE
  /\ closing = FALSE
  /\ obeyed = <<>>
  /\ split = FALSE
  /\ flooded = {}
  /\ fMsgList = <<>>
  /\ down = <<>>
  /\ blocks = 0
  /\ published = {}
  /\ dropped = {}
  /\ inStep = TRUE
  /\ got = {}

Alive == fState # "dead"

-----------------------------------------------------------------------------
(* Sending to the device, by the tasks of both sessions.                   *)

\* A socket that is full takes nothing, and the message is listed; or it takes
\* a part, which nobody looks at.
Send(m) ==
  \/ down' = Append(down, m) /\ UNCHANGED <<fMsgList, blocks>>
  \/ /\ blocks < MaxBlocks
     /\ blocks' = blocks + 1
     /\ \/ fMsgList' = Append(fMsgList, m) /\ UNCHANGED down
        \/ down' = Append(down, [m EXCEPT !.cut = TRUE]) /\ UNCHANGED fMsgList

\* Send has returned an error.
Blocked == fMsgList' # fMsgList

mqtt_send_publish(p) ==
  /\ Send([cmd |-> "PUBLISH", nr |-> p.nr, len |-> p.len + Appid, cut |-> FALSE])
  /\ published' = published \cup {p}
  /\ UNCHANGED dropped

Reply(cmd) ==
  /\ Send([cmd |-> cmd, nr |-> 0, len |-> 0, cut |-> FALSE])
  /\ UNCHANGED <<published, dropped>>

PushesIn(msgs) == {m.nr : m \in ToSet(msgs)} \ {0}

\* The socket is writable again: the message at the head is removed, and not
\* written.
WriteEvent ==
  /\ Alive
  /\ connectStatus # "ended"
  /\ fMsgList # <<>>
  /\ fMsgList' = Tail(fMsgList)
  /\ dropped' = dropped \cup PushesIn(<<Head(fMsgList)>>)
  /\ UNCHANGED <<down, blocks, published>>
  /\ UNCHANGED providerVars
  /\ UNCHANGED commandVars
  /\ UNCHANGED deviceVars

-----------------------------------------------------------------------------
(* The provider.                                                           *)

\* Command, token length, a token of 32 bytes, payload length, payload.
Size(p) == 37 + p.len

\* Where the packet begins in its record.
Start(p) == p.end - Size(p)

\* A packet is sent in a record of its own, or with those before it as long as
\* nothing of their record has been read: one SSL_write of several packets.
ProviderSends ==
  /\ Alive
  /\ sent < MaxPackets
  /\ sent' = sent + 1
  /\ \E len \in Lengths :
       \/ /\ 37 + len <= MaxRecord
          /\ records' = Append(records, <<[nr |-> sent + 1, len |-> len, end |-> 37 + len]>>)
          /\ oversized' = (oversized \/ 37 + len > RequestBuffer)
       \/ LET r == Last(records) IN
          /\ records # <<>>
          /\ Len(r) \in 1 .. MaxBatch - 1
          /\ Start(Head(r)) = 0
          /\ LET end == Last(r).end + 37 + len IN
               /\ end <= MaxRecord
               /\ records' = [records EXCEPT ![Len(records)] =
                    Append(r, [nr |-> sent + 1, len |-> len, end |-> end])]
               /\ oversized' = (oversized \/ end > RequestBuffer)
  /\ UNCHANGED <<torn, fState, packets, nLen, handled, discarded>>
  /\ UNCHANGED commandVars
  /\ UNCHANGED sendVars
  /\ UNCHANGED deviceVars

\* ReadRequest: as much of the first record as fits. A buffer that is full is
\* reported as E2BIG, and falls through to kProcessingRequest all the same.
ReadRequest ==
  /\ fState = "kReadingRequest"
  /\ records # <<>>
  /\ LET r == Head(records)
         arrived == Last(r).end - Start(Head(r))
         n == IF arrived <= RequestBuffer THEN arrived ELSE RequestBuffer
     IN \E last \in DOMAIN r :
          LET missing == r[last].end - (Start(Head(r)) + n) IN
          /\ missing \in 0 .. Size(r[last]) - 1
          /\ nLen' = n
          /\ packets' = SubSeq(r, 1, last)
          /\ torn' = (missing > 0)
          /\ records' = IF last = Len(r) /\ missing = 0 THEN Tail(records)
                        ELSE [records EXCEPT ![1] = SubSeq(r, last + 1, Len(r))]
  /\ fState' = "kProcessingRequest"
  /\ UNCHANGED <<sent, oversized, handled, discarded>>
  /\ UNCHANGED commandVars
  /\ UNCHANGED sendVars
  /\ UNCHANGED deviceVars

\* The payload length that is read: of a packet with 36 bytes the second byte of
\* the length is whatever the buffer held before. From 2 on it makes the packet
\* too long, so 2 stands for all of these.
PayloadLengths(p) ==
  IF nLen # 36 THEN {p.len}
  ELSE {(p.len \div 256) * 256 + residue : residue \in 0 .. 2}

\* Mutant of LongEnough: a packet that fills the buffer exactly is refused.
Longer(len) == nLen > len + 37

\* The check counts 35 bytes besides the payload, not 37.
LongEnough(len) == nLen > 35 /\ nLen >= len + 35

\* Mutant of Left: what is missing is taken for nothing.
LeftOrNothing(len) == IF nLen < len + 37 THEN 0 ELSE nLen - (len + 37)

\* The bytes after the packet, counted in an unsigned integer.
Left(len) ==
  IF nLen >= len + 37 THEN nLen - (len + 37) ELSE nLen + UIntMod - (len + 37)

\* PacketHandle finds the device's session if it is registered; otherwise the
\* push is dropped. A payload without its end is not JSON.
PacketHandle(p) ==
  /\ handled' = Append(handled, p.nr)
  /\ IF connectStatus = "connected" THEN mqtt_send_publish(p) ELSE UNCHANGED sendVars

\* A packet is taken from the front of the buffer. Too many bytes left is the
\* end of the server: memmove runs out of its memory.
ProcessRecvMsg ==
  /\ fState = "kProcessingRequest"
  /\ nLen > 0
  /\ \E len \in PayloadLengths(Head(packets)) :
       /\ LongEnough(len)
       /\ nLen' = Left(len)
       /\ fState' = IF nLen' > RequestBuffer THEN "dead" ELSE fState
       /\ IF nLen >= len + 37 THEN PacketHandle(Head(packets))
          ELSE UNCHANGED <<handled, sendVars>>
  /\ packets' = Tail(packets)
  /\ UNCHANGED <<sent, records, torn, oversized, discarded>>
  /\ UNCHANGED commandVars
  /\ UNCHANGED deviceVars

\* MQTT_ERR_PROTOCOL.
ParamError ==
  /\ fState = "kProcessingRequest"
  /\ nLen > 0
  /\ \E len \in PayloadLengths(Head(packets)) : ~ LongEnough(len)
  /\ fState' = "kCleaningUp"
  /\ UNCHANGED <<sent, records, torn, oversized, packets, nLen, handled, discarded>>
  /\ UNCHANGED commandVars
  /\ UNCHANGED sendVars
  /\ UNCHANGED deviceVars

\* Run returns, and does not request the next read event: that it comes all the
\* same is up to the base class.
EndOfBuffer ==
  /\ fState = "kProcessingRequest"
  /\ nLen = 0
  /\ fState' = "kReadingRequest"
  /\ UNCHANGED <<sent, records, torn, oversized, packets, nLen, handled, discarded>>
  /\ UNCHANGED commandVars
  /\ UNCHANGED sendVars
  /\ UNCHANGED deviceVars

\* CleanupRequest reads until a read returns nothing. TLS hands out a record only
\* when all of it has arrived, so that the rest of one that was read in part is
\* there (SSL_pending); of the other records any number may have arrived.
CleanupRequest ==
  /\ fState = "kCleaningUp"
  /\ \E k \in (IF torn THEN 1 ELSE 0) .. Len(records) :
       records' = SubSeq(records, k + 1, Len(records))
  /\ discarded' = TRUE
  /\ torn' = FALSE
  /\ packets' = <<>>
  /\ nLen' = 0
  /\ fState' = "kReadingRequest"
  /\ UNCHANGED <<sent, oversized, handled>>
  /\ UNCHANGED commandVars
  /\ UNCHANGED sendVars
  /\ UNCHANGED deviceVars

-----------------------------------------------------------------------------
(* The device's commands.                                                  *)

Halves(n, cmd) == [i \in 1 .. 2 |-> [nr |-> n, cmd |-> cmd, part |-> i]]

\* The device connects first and once, and says nothing after DISCONNECT.
DeviceSends(cmd) ==
  /\ Alive
  /\ connectStatus # "ended"
  /\ commanded < MaxCommands
  /\ ~ farewell
  /\ (cmd = "CONNECT") = (commanded = 0)
  /\ commanded' = commanded + 1
  /\ farewell' = (cmd = "DISCONNECT")
  /\ up' = up \o Halves(commanded + 1, cmd)
  /\ UNCHANGED <<connectStatus, buffer, cleaning, closing, obeyed, split, flooded>>
  /\ UNCHANGED providerVars
  /\ UNCHANGED sendVars
  /\ UNCHANGED deviceVars

Rest(s, n) == SubSeq(s, n + 1, Len(s))

\* The first n bytes end inside a command.
EndsInside(n) == Rest(up, n) # <<>> /\ Head(Rest(up, n)).part # 1

\* MqttServer reads some of the bytes that were sent into an empty buffer.
DeviceBytesArrive ==
  /\ Alive
  /\ connectStatus # "ended"
  /\ buffer = <<>>
  /\ ~ cleaning
  /\ \E n \in 1 .. Len(up) :
       /\ buffer' = SubSeq(up, 1, n)
       /\ up' = Rest(up, n)
       /\ split' = (split \/ EndsInside(n))
  /\ UNCHANGED <<commanded, farewell, connectStatus, cleaning, closing, obeyed, flooded>>
  /\ UNCHANGED providerVars
  /\ UNCHANGED sendVars
  /\ UNCHANGED deviceVars

NumbersIn(halves) == {h.nr : h \in ToSet(halves)}

\* E2BIG: a read that fills the buffer is neither processed nor followed by
\* CleanupRequest, and the next read starts the buffer anew. How long a command
\* is stays open, so that the bytes of any read may be the ones that fill it.
BufferOverfilled ==
  /\ Alive
  /\ connectStatus # "ended"
  /\ buffer = <<>>
  /\ ~ cleaning
  /\ \E n \in 1 .. Len(up) :
       /\ up' = Rest(up, n)
       /\ split' = (split \/ EndsInside(n))
       /\ flooded' = flooded \cup NumbersIn(SubSeq(up, 1, n))
  /\ UNCHANGED <<commanded, farewell, connectStatus, buffer, cleaning, closing, obeyed>>
  /\ UNCHANGED providerVars
  /\ UNCHANGED sendVars
  /\ UNCHANGED deviceVars

\* MqttServer::ProcessRecvMsg finds the command byte of cmd at the front, and is
\* not still waiting for a CONNECT.
Finds(cmd) ==
  /\ Alive
  /\ ~ cleaning
  /\ buffer # <<>>
  /\ Head(buffer).part = 1
  /\ Head(buffer).cmd = cmd
  /\ connectStatus = "new" => cmd = "CONNECT"

\* The payload is taken over only if all of it is in the buffer.
Complete == Len(buffer) >= 2

\* Without a payload there is no protocol name to read.
ReadStringFails == ~ Complete

\* Mutant of Consumed: the remaining length is not counted.
CommandOnly == 1

\* remaining_length + remaining_count + 1
Consumed == 2

\* Success takes the command from the buffer, and what is missing of it counts
\* as taken; an error leaves everything to CleanupRequest.
Concludes(error) ==
  /\ cleaning' = error
  /\ buffer' = IF error THEN buffer ELSE Rest(buffer, Consumed)
  /\ UNCHANGED <<commanded, farewell, up, split, flooded>>
  /\ UNCHANGED providerVars
  /\ UNCHANGED deviceVars

Obeys == obeyed' = Append(obeyed, Head(buffer).nr)

\* The session is registered, and answers; if it cannot, that is an error.
mqtt_handle_connect ==
  /\ Finds("CONNECT")
  /\ ~ ReadStringFails
  /\ connectStatus' = "connected"
  /\ Obeys
  /\ Reply("CONNACK")
  /\ Concludes(Blocked)
  /\ UNCHANGED closing

\* The protocol name is missing: the CONNECT is refused and the session will end.
ConnectRefused ==
  /\ Finds("CONNECT")
  /\ ReadStringFails
  /\ closing' = TRUE
  /\ Reply("CONNACK")
  /\ Concludes(TRUE)
  /\ UNCHANGED <<connectStatus, obeyed>>

\* The remaining length of a PINGREQ or DISCONNECT does not matter.
mqtt_handle_pingreq ==
  /\ Finds("PINGREQ")
  /\ Obeys
  /\ Reply("PINGRESP")
  /\ Concludes(Blocked)
  /\ UNCHANGED <<connectStatus, closing>>

mqtt_handle_disconnect ==
  /\ Finds("DISCONNECT")
  /\ Obeys
  /\ connectStatus' = "disconnecting"
  /\ closing' = TRUE
  /\ Concludes(FALSE)
  /\ UNCHANGED sendVars

\* No command, or not the CONNECT that has to come first. The rest of a command
\* is taken not to look like one: its bytes are zero, or text.
ProtocolError ==
  /\ Alive
  /\ ~ cleaning
  /\ buffer # <<>>
  /\ Head(buffer).part # 1 \/ (connectStatus = "new" /\ Head(buffer).cmd # "CONNECT")
  /\ Concludes(TRUE)
  /\ UNCHANGED <<connectStatus, closing, obeyed>>
  /\ UNCHANGED sendVars

\* MqttServer::CleanupRequest reads and forgets what has arrived.
DeviceBytesForgotten ==
  /\ Alive
  /\ cleaning
  /\ \E n \in 0 .. Len(up) :
       /\ up' = Rest(up, n)
       /\ split' = (split \/ EndsInside(n))
  /\ buffer' = <<>>
  /\ cleaning' = FALSE
  /\ UNCHANGED <<commanded, farewell, connectStatus, closing, obeyed, flooded>>
  /\ UNCHANGED providerVars
  /\ UNCHANGED sendVars
  /\ UNCHANGED deviceVars

\* The timeout of one millisecond that mqtt_server_disconnect has set.
SessionEnds ==
  /\ Alive
  /\ closing
  /\ connectStatus # "ended"
  /\ buffer = <<>>
  /\ ~ cleaning
  /\ connectStatus' = "ended"
  /\ up' = <<>>
  /\ fMsgList' = <<>>
  /\ dropped' = dropped \cup PushesIn(fMsgList)
  /\ UNCHANGED <<commanded, farewell, buffer, cleaning, closing, obeyed, split,
                 flooded>>
  /\ UNCHANGED <<down, blocks, published>>
  /\ UNCHANGED providerVars
  /\ UNCHANGED deviceVars

-----------------------------------------------------------------------------
(* The device reads.                                                       *)

\* Mutant of LengthByte: the message id is forgotten.
PayloadByte(m) == m.len % 256

\* The remaining length of a PUBLISH is written into one byte.
LengthByte(m) == (m.len + 2) % 256

\* How many bytes a reader of MQTT takes for the message: from 128 on the byte
\* says that the length goes on in the next one, the zero of the message id.
FramedLength(m) ==
  IF LengthByte(m) < 128 THEN 2 + LengthByte(m) ELSE 3 + (LengthByte(m) - 128)

\* The device finds the end of the message where it is.
Readable(m) == ~ m.cut /\ (m.cmd = "PUBLISH" => FramedLength(m) = 4 + m.len)

DeviceTakes ==
  /\ down # <<>>
  /\ down' = Tail(down)
  /\ inStep' = (inStep /\ Readable(Head(down)))
  /\ got' = IF inStep' /\ Head(down).cmd = "PUBLISH" THEN got \cup {Head(down).nr} ELSE got
  /\ UNCHANGED <<fMsgList, blocks, published, dropped>>
  /\ UNCHANGED providerVars
  /\ UNCHANGED commandVars

-----------------------------------------------------------------------------
SslSvrSession ==
  \/ ReadRequest
  \/ ProcessRecvMsg
  \/ ParamError
  \/ EndOfBuffer
  \/ CleanupRequest

MqttServer ==
  \/ DeviceBytesArrive
  \/ BufferOverfilled
  \/ mqtt_handle_connect
  \/ ConnectRefused
  \/ mqtt_handle_pingreq
  \/ mqtt_handle_disconnect
  \/ ProtocolError
  \/ DeviceBytesForgotten
  \/ WriteEvent
  \/ SessionEnds

Next ==
  \/ ProviderSends
  \/ SslSvrSession
  \/ \E cmd \in {"CONNECT", "PINGREQ", "DISCONNECT"} : DeviceSends(cmd)
  \/ MqttServer
  \/ DeviceTakes

Spec == Init /\ [][Next]_vars

-----------------------------------------------------------------------------
(* Properties.                                                             *)

Increasing(s) == \A i, j \in DOMAIN s : i < j => s[i] < s[j]

\* The provider's packets are handled in their order and each at most once, and
\* no read ever begins inside a packet, however batches are cut at the end of
\* the buffer: whatever is cut ends in an error, and CleanupRequest removes its
\* rest (Run, with the fall-through of E2BIG; ProcessRecvMsg).
ProviderInStep ==
  /\ Increasing(handled)
  /\ fState = "kReadingRequest" => ~ torn

\* No packet is thrown away and nLen never wraps as long as every batch fits in
\* the buffer, although the check of a packet's length misses two bytes.
SmallBatchesAreSafe ==
  discarded \/ ~ Alive => oversized

\* The device's commands are obeyed in their order, each at most once. As long as
\* no read ended inside a command, no answer met a full socket and the CONNECT
\* was not in a read that filled the buffer, those that are lost are the ones in
\* such a read: whatever is dropped, the next read begins with a command
\* (Run with E2BIG, ProcessRecvMsg, CleanupRequest).
CommandsObeyed ==
  /\ Increasing(obeyed)
  /\ ~ split /\ blocks = 0 /\ 1 \notin flooded =>
       \A n \in 1 .. commanded :
         \/ n \in ToSet(obeyed)
         \/ n \in flooded
         \/ \E b \in ToSet(buffer \o up) : b.nr = n
         \/ connectStatus = "ended"

\* Every PUBLISH reaches the device as long as it is in step, but for those that
\* met a full socket; and it gets out of step only by a payload of more than 125
\* bytes or a message that was written in part (mqtt_send_publish, Run).
PushesArrive ==
  /\ inStep => {p.nr : p \in published} =
       got \cup PushesIn(down \o fMsgList) \cup dropped
  /\ ~ inStep => blocks > 0 \/ \E p \in published : p.len + Appid > 125
  /\ dropped # {} => blocks > 0
=============================================================================
