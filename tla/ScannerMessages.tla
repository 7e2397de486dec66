--------------------------- MODULE ScannerMessages ---------------------------
(***************************************************************************)
(* The JSON-lines protocol between a scanner and the control plane         *)
(* (scanner/messages.py).  A scanner writes numbered lines; lines may be   *)
(* written again, a scanner may die in the middle of one and its successor *)
(* counts from zero again; decode_stream takes the lines there are.  A     *)
(* message is its type, its number, what it is about (the idempotency key, *)
(* the batch or the stage) and an identity that the control plane cannot   *)
(* see.                                                                    *)
(***************************************************************************)
EXTENDS Integers, Sequences, FiniteSets, SequencesExt

CONSTANTS MessageKinds,     \* <<type, scope>> of the messages that are sent
          MaxEmitted,       \* bound: messages a scanner sends
          MaxStream         \* bound: lines on the stream

VARIABLES stream,           \* the lines: messages and TornLine
          nextNumber,       \* the number of the scanner's next message
          emitted,          \* messages sent so far
          decoding          \* what decode_stream returned last

messageVars == <<stream, nextNumber, emitted, decoding>>

TornLine == [type |-> "torn"]
NotDecoded == [status |-> "none", messages |-> <<>>]
Flaws == {"none", "field", "length"}

\* _validate_decoded_object with _validate_value, and the length of the line: the same
\* conditions are put on what is encoded and on what is decoded.
ValidObject(flaw) == flaw # "field"
ValidLength(flaw) == flaw # "length"

\* encode_message
Encodable(flaw) == ValidObject(flaw) /\ ValidLength(flaw)

\* decode_line: a line that ends early, is too long or does not hold a valid object.
Decodable(line) == line # TornLine /\ ValidObject(line.flaw) /\ ValidLength(line.flaw)

(* Mutant: a message is known by its type and what it is about. *)
ReplayKeyUnnumbered(line) == <<line.type, line.scope>>
\* ScannerMessage.replay_key
ReplayKey(line) == <<line.type, line.number, line.scope>>

\* decode_stream: the first of the messages with one key, in the order of the lines;
\* one bad line fails them all.
Firsts(lines) ==
    {i \in DOMAIN lines : \A j \in 1 .. i - 1 : ReplayKey(lines[j]) # ReplayKey(lines[i])}
Turn(lines, i) == Cardinality({j \in Firsts(lines) : j <= i})
DecodeStream(lines) ==
    IF \E i \in DOMAIN lines : ~Decodable(lines[i])
    THEN [status |-> "failed", messages |-> <<>>]
    ELSE [status |-> "decoded", messages |->
            [k \in 1 .. Cardinality(Firsts(lines)) |->
                lines[CHOOSE i \in Firsts(lines) : Turn(lines, i) = k]]]

-----------------------------------------------------------------------------
MessagesInit ==
    stream = <<>> /\ nextNumber = 0 /\ emitted = 0 /\ decoding = NotDecoded

\* A message with the scanner's next number, or with the number 0 that ack_message and
\* capabilities_message take by default.
SendMessage(kind, numbered, flaw) ==
    /\ emitted < MaxEmitted /\ Len(stream) < MaxStream
    /\ Encodable(flaw)
    /\ stream' = Append(stream, [type |-> kind[1], scope |-> kind[2], flaw |-> flaw,
                                 number |-> IF numbered THEN nextNumber ELSE 0,
                                 id |-> emitted + 1])
    /\ nextNumber' = IF numbered THEN nextNumber + 1 ELSE nextNumber
    /\ emitted' = emitted + 1
    /\ UNCHANGED decoding

\* A line is written once more.
Replay(i) ==
    /\ Len(stream) < MaxStream /\ stream[i] # TornLine
    /\ stream' = Append(stream, stream[i])
    /\ UNCHANGED <<nextNumber, emitted, decoding>>

\* The scanner dies, perhaps in mid-line, and another one goes on from number zero.
ScannerDies(torn) ==
    /\ nextNumber > 0 /\ (torn => Len(stream) < MaxStream)
    /\ stream' = IF torn THEN Append(stream, TornLine) ELSE stream
    /\ nextNumber' = 0
    /\ UNCHANGED <<emitted, decoding>>

Decode ==
    /\ decoding' = DecodeStream(stream)
    /\ UNCHANGED <<stream, nextNumber, emitted>>

MessagesNext ==
    \/ \E kind \in MessageKinds, numbered \in BOOLEAN, flaw \in Flaws :
          SendMessage(kind, numbered, flaw)
    \/ \E i \in DOMAIN stream : Replay(i)
    \/ \E torn \in BOOLEAN : ScannerDies(torn)
    \/ Decode

MessagesSpec == MessagesInit /\ [][MessagesNext]_messageVars

-----------------------------------------------------------------------------
\* scanner/messages.py:121: whatever lines are written again, the messages decoded
\* are those sent, once each and in the order sent; what is missing has the type,
\* the number and the scope of an earlier one (so nothing is missing while a scanner
\* numbers every message and does not start over); and only a line that was cut off
\* makes the stream unreadable, for what encode_message lets out decode_line accepts.
DecodedOnceInOrder ==
    LET kept == decoding.messages
        sent == {stream[i] : i \in DOMAIN stream} \ {TornLine}
    IN /\ \A i, j \in DOMAIN kept : i < j => kept[i].id < kept[j].id
       /\ decoding = DecodeStream(stream) /\ decoding.status = "decoded" =>
            \A s \in sent : \E i \in DOMAIN kept :
                /\ kept[i].id <= s.id
                /\ kept[i].id = s.id \/ <<kept[i].type, kept[i].number, kept[i].scope>>
                                          = <<s.type, s.number, s.scope>>
       /\ decoding.status = "failed" => TornLine \in ToSet(stream)

-----------------------------------------------------------------------------
(* What an induction over the steps needs beside the property. *)

Message ==
    [type : {k[1] : k \in MessageKinds}, scope : {k[2] : k \in MessageKinds},
     flaw : {"none"}, number : Nat, id : Nat]

MessagesTypeOK ==
    /\ stream \in Seq(Message \cup {TornLine})
    /\ nextNumber \in Nat /\ emitted \in Nat
    /\ \A i \in DOMAIN stream : stream[i] # TornLine => stream[i].id <= emitted

\* The line was new when it was written: those before it were sent earlier.
Fresh(i) == \A j \in 1 .. i - 1 : stream[j] # TornLine => stream[j].id < stream[i].id

\* Every line was written fresh, there or before.
LinesHaveOrigins ==
    \A i \in DOMAIN stream : stream[i] # TornLine =>
        \E k \in 1 .. i : stream[k] = stream[i] /\ Fresh(k)

KeptInOrder ==
    \A i, j \in DOMAIN decoding.messages :
        i < j => decoding.messages[i].id < decoding.messages[j].id

MessagesInv ==
    /\ MessagesTypeOK /\ LinesHaveOrigins /\ KeptInOrder
    /\ decoding.status = "failed" => \E i \in DOMAIN stream : stream[i] = TornLine

=============================================================================
