--------------------------- MODULE StructExchange ---------------------------
(***************************************************************************)
(* One struct goes from a program to another: serialize on the one's       *)
(* platform, deserialize on the other's, with the settings and versions of *)
(* the full cycle tests and the differences between platforms that those   *)
(* settings allow.  The end of the message may get lost between the two.   *)
(*                                                                         *)
(* A cycle of the tests is a record of                                     *)
(*    sent, received     the struct of the writer and that of the reader   *)
(*    given, expected    the value that goes in, and the one to come out   *)
(*    fits               whether the reader's struct has room for it       *)
(*    version            what the writer's context is set to               *)
(*    flagSets, bits     the data flags, and whether sizes take 32 bits    *)
(***************************************************************************)
EXTENDS WireReading

CONSTANTS
    Cycles,             \* those there are
    Alignments,         \* pairs of those of a writer and a reader
    InterfaceVersion    \* of the interface of both programs

VARIABLES
    exchange,   \* the cycle and its settings, the common flags among them, and the platforms
    written,    \* the status of serialize
    message,    \* the version and the bytes on the way
    lost,       \* whether some of them got lost
    read        \* what deserialize returned, and the place where it stopped

vars == <<exchange, written, message, lost, read>>

NotYet == "NotYet"
NotRead == [status |-> NotYet, value |-> <<>>, at |-> 0]

AsEnd(ctx, platform) ==
  [ctx |-> ctx, bigEndianFormat |-> exchange.bigEndianFormat, bitness32 |-> exchange.bitness32,
   platform |-> platform]

(* The orders of bytes of the writer, of the message and of the reader. *)
Orders == [writer : BOOLEAN, message : BOOLEAN, reader : BOOLEAN]
Alike(order) == order.writer = order.message /\ order.message = order.reader

(***************************************************************************)
(* Platforms differ in what the settings say that they may differ in.  A   *)
(* difference of the order of bytes is told by a common flag, that of      *)
(* alignments by a data flag.                                              *)
(***************************************************************************)
Init ==
  /\ \E c \in Cycles, order \in Orders :
     \E flags \in c.flagSets, bitness32 \in c.bits, align \in Alignments :
       /\ align[1] # align[2] <=> "alignmentMayBeNotEqual" \in flags
       /\ exchange = [cycle |-> c, flags |-> flags, bitness32 |-> bitness32,
                      difference |-> ~Alike(order), bigEndianFormat |-> order.message,
                      writer |-> [big |-> order.writer, align |-> align[1]],
                      reader |-> [big |-> order.reader, align |-> align[2]]]
  /\ written = NotYet
  /\ message = [version |-> Undefined, bytes |-> <<>>]
  /\ lost = FALSE
  /\ read = NotRead

GivenContext ==
  [NewContext EXCEPT !.version = exchange.cycle.version, !.flags = exchange.flags,
                     !.endiannessDifference = exchange.difference]

(* ISerializable::serialize *)
Serialize ==
  /\ written = NotYet
  /\ \E start \in {SerializeContext(BuildFor(InterfaceVersion), exchange.cycle.sent, GivenContext)} :
     \E r \in {IF start.accepted
               THEN WriteStruct(exchange.cycle.sent, Value(Of(exchange.cycle.sent), exchange.cycle.given),
                                AsEnd(start.ctx, exchange.writer))
               ELSE WriteFails("ErrorNotSupportedInterfaceVersion")} :
       /\ written' = r.status
       /\ message' = [version |-> start.ctx.version, bytes |-> r.bytes]
  /\ UNCHANGED <<exchange, lost, read>>

(* The last byte, or the second half. *)
LoseTheEnd ==
  /\ written = "NoError" /\ read = NotRead /\ ~lost
  /\ message.bytes # <<>>
  /\ \E n \in {Len(message.bytes) - 1, Len(message.bytes) \div 2} :
       message' = [message EXCEPT !.bytes = SubSeq(@, 1, n)]
  /\ lost' = TRUE
  /\ UNCHANGED <<exchange, written, read>>

(* ISerializable::deserialize *)
Deserialize ==
  /\ written = "NoError" /\ read = NotRead
  /\ \E start \in {DeserializeContext(BuildFor(InterfaceVersion), exchange.cycle.received, NewContext,
                                      message.version, exchange.flags, exchange.difference, TRUE)} :
       read' = IF start.accepted
               THEN ReadStruct(exchange.cycle.received, message.bytes, 0, AsEnd(start.ctx, exchange.reader))
               ELSE ReadFails("ErrorNotSupportedInterfaceVersion")
  /\ UNCHANGED <<exchange, written, message, lost>>

Next == Serialize \/ LoseTheEnd \/ Deserialize

Spec == Init /\ [][Next]_vars

-----------------------------------------------------------------------------

Accepted == read.status = "NoError"

(***************************************************************************)
(* Two kinds of exchanges in which the writer and the reader do not agree  *)
(* at this commit, and which the properties leave out.                     *)
(***************************************************************************)

(* An array of bytes that is one of wider numbers to the other: with        *)
(* another order of bytes it is copied on the one side and read, number by  *)
(* number, on the other.                                                    *)
OneByteOnOneSide ==
  /\ exchange.difference
  /\ \E m1 \in Range(Struct[exchange.cycle.sent].members), m2 \in Range(Struct[exchange.cycle.received].members) :
       /\ m1[1] = m2[1] /\ m1[2].kind = "array" /\ m2[2].kind = "array"
       /\ IsNumber(m1[2].of) /\ IsNumber(m2[2].of)
       /\ (Numbers[m1[2].of.of].size = 1) # (Numbers[m2[2].of.of].size = 1)

(* A struct without functions, which nobody writes with another order of bytes. *)
LeftToNobody ==
  /\ exchange.difference
  /\ \E m \in Range(Struct[exchange.cycle.sent].members) :
       IsStruct(m[2]) /\ ~Struct[m[2].of].functions /\ SizeOf(m[2], exchange.writer) # 1

Agreed == ~OneByteOnOneSide /\ ~LeftToNobody

(* What deserialize accepts is what was sent: each struct as its fill() leaves it, whatever the     *)
(* orders of bytes, the alignments, the sizes of integers and the versions of the two, and however  *)
(* it was written: copied, member by member, or as a legacy struct.  (full_cycles/*.cpp, the        *)
(* comparison of the output with the input or with a reference.)                                    *)
ReceivedAsSent ==
  Accepted /\ Agreed => read.value = Value(Of(exchange.cycle.received), exchange.cycle.expected)

(* What is accepted is read to its last byte: nothing that was written is left for whatever comes   *)
(* next, as the tests of the full cycles ask of bin.tell().                                         *)
ReadToItsEnd == Accepted /\ Agreed => read.at = Len(message.bytes)

HasPointers == \E m \in Range(Struct[exchange.cycle.sent].members) : m[2].kind = "pointer"
HasWithoutFunctions ==
  \E m \in Range(Struct[exchange.cycle.sent].members) : IsStruct(m[2]) /\ ~Struct[m[2].of].functions
OlderThanOrigin == exchange.cycle.version < Last(Struct[exchange.cycle.sent].private)

(* serialize refuses pointers that the flags do not allow, versions that the struct never had, and  *)
(* structs without functions that may not be copied, and nothing else; deserialize refuses numbers  *)
(* that its struct has no room for, at their exact bounds, and nothing else of a whole message.     *)
RefusedForAReason ==
  Agreed =>
    /\ written # NotYet =>
         (written # "NoError" <=>
            \/ HasPointers /\ "allowUnmanagedPointers" \notin exchange.flags
            \/ OlderThanOrigin
            \/ HasWithoutFunctions /\ exchange.flags # {})
    /\ read # NotRead /\ ~lost =>
         read.status = IF exchange.cycle.fits THEN "NoError" ELSE "ErrorValueOverflow"

(* No message is accepted whose end got lost, wherever among the members and elements it breaks off. *)
PrefixRefused == lost /\ Agreed => ~Accepted
=============================================================================
