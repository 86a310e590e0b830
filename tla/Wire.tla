--------------------------------- MODULE Wire ---------------------------------
(***************************************************************************)
(* Commands as bytes on a connection (common/network): the values of a     *)
(* command in network order, a header, compression, encryption, byte       *)
(* stuffing and the delimiter, and Session::ReceiveTCP, which finds the    *)
(* commands again in whatever pieces TCP gives it.                         *)
(*                                                                         *)
(* One direction of one connection; Session has the queue before it, Login *)
(* the moment encryption begins.  LZ4 and AES are external: a code that    *)
(* leaves out a run at the end, and a cipher whose next byte depends on    *)
(* all before it.                                                          *)
(***************************************************************************)
EXTENDS Integers, Sequences, SequencesExt, FiniteSetsExt

CONSTANTS
    Commands,     \* commands that are sent: [header, values]
    Types,        \* of each header, the widths of its values; 0 is a string
    CompressMin,  \* COMPRESS_MIN_LENGTH
    Delimiter, Escape, \* 0x7e and 0x7d
    MaxCommands   \* bound on the commands of a behaviour

LZ4_COMPRESS_HEADER == 240
ENCRYPT_HEADER == 241

VARIABLES
    encryption,  \* encryption_ of both ends
    posted,      \* commands sent so far
    sealing, opening, \* bytes the cipher of each end has done
    stream,      \* bytes on their way
    buffer,      \* receive_buf_
    fetched      \* commands on_receive_ was given

wireVars == <<encryption, posted, sealing, opening, stream, buffer, fetched>>

-----------------------------------------------------------------------------
Byte == 0..255
\* What a byte of a number counts, the last one first; the widest has four.
Place == <<1, 256, 256 * 256, 256 * 256 * 256>>

\* GetSerializedValue of an integer of w bytes, the most significant one first.
Bytes(n, w) == [i \in 1..w |-> (n \div Place[w - i + 1]) % 256]
Digit(bytes, k) == IF k <= Len(bytes) THEN bytes[Len(bytes) - k + 1] ELSE 0
Number(bytes) ==
    Digit(bytes, 1) + 256 * (Digit(bytes, 2) + 256 * (Digit(bytes, 3) + 256 * Digit(bytes, 4)))

SerializedValue(value, w) == IF w = 0 THEN Bytes(Len(value), 4) \o value ELSE Bytes(value[1], w)
Serialize(values, widths) ==
    FlattenSeq([i \in DOMAIN values |-> SerializedValue(values[i], widths[i])])
Body(c) == Serialize(c.values, Types[c.header])

\* GetDeserializedValue: each value is taken off the front of the buffer.
Foremost(bytes, n) == SubSeq(bytes, 1, IF n <= Len(bytes) THEN n ELSE Len(bytes))
Take(read, w) ==
    LET left  == read.left
        bytes == Foremost(left, IF w = 0 THEN 4 + Number(Foremost(left, 4)) ELSE w)
    IN  [left |-> SubSeq(left, Len(bytes) + 1, Len(left)),
         values |-> Append(read.values, IF w = 0 THEN SubSeq(bytes, 5, Len(bytes))
                                                 ELSE <<Number(bytes)>>)]
Values(body, widths) ==
    LET read[i \in 0..Len(widths)] ==
          IF i = 0 THEN [left |-> body, values |-> <<>>] ELSE Take(read[i - 1], widths[i])
    IN  read[Len(widths)].values

\* LZ4_compress and LZ4_uncompress, external.
LZ4Compress(in) ==
    SubSeq(in, 1, Min({i \in DOMAIN in : \A j \in i..Len(in) : in[j] = Last(in)}))
LZ4Uncompress(in, size) == [i \in 1..size |-> IF i <= Len(in) THEN in[i] ELSE Last(in)]

\* Encrypter::Encrypt and Decrypt; the cipher, external, goes on from message to
\* message: a byte depends on how many went before it.
Key(n) == (37 * n + 89) % 256
Encrypt(in, done) == [i \in DOMAIN in |-> (in[i] + Key(done + i)) % 256]
Decrypt(in, done) == [i \in DOMAIN in |-> (in[i] - Key(done + i)) % 256]

\* c ^ 0x20
Flipped(b) == IF (b \div 32) % 2 = 1 THEN b - 32 ELSE b + 32

\* Mutant of Stuffed: the escape itself goes as it is.
StuffedDelimiter(b) == IF b = Delimiter THEN <<Escape, Flipped(b)>> ELSE <<b>>
Stuffed(b) == IF b \in {Delimiter, Escape} THEN <<Escape, Flipped(b)>> ELSE <<b>>

\* Utils::Encode and Decode
Encode(in) == Append(FlattenSeq([i \in DOMAIN in |-> Stuffed(in[i])]), Delimiter)
Unstuff(read, b) ==
    IF read.escape THEN [out |-> Append(read.out, Flipped(b)), escape |-> FALSE]
    ELSE IF b = Escape THEN [out |-> read.out, escape |-> TRUE]
    ELSE [out |-> Append(read.out, b), escape |-> FALSE]
Decode(in) ==
    LET read[i \in 0..Len(in)] ==
          IF i = 0 THEN [out |-> <<>>, escape |-> FALSE] ELSE Unstuff(read[i - 1], in[i])
    IN  read[Len(in)].out

-----------------------------------------------------------------------------
\* Session::Serialize, up to the cipher.  The size goes as a uint16_t.
Message(c) == <<c.header>> \o Body(c)
Shrinks(c) == /\ Len(Body(c)) >= CompressMin
              /\ Len(Message(c)) > Len(LZ4Compress(Message(c))) + 1
Packed(c) ==
    IF Shrinks(c)
    THEN <<LZ4_COMPRESS_HEADER>> \o Bytes(Len(Message(c)), 2) \o LZ4Compress(Message(c))
    ELSE Message(c)

\* A value is a sequence: one number, or the bytes of a string, whose length is
\* an int.  Of the sizes Session::Serialize asserts that of what it compresses.
Fits(value, w) ==
    IF w = 0 THEN value \in Seq(Byte) /\ Len(value) \div Place[4] < 128
    ELSE Len(value) = 1 /\ value[1] \div Place[w] < 256
ASSUME WireAssumption ==
    /\ {Delimiter, Escape} \subseteq Byte
    /\ Delimiter # Escape /\ Flipped(Escape) # Delimiter
    /\ CompressMin \in Nat /\ MaxCommands \in Nat
    /\ Commands \subseteq [header : DOMAIN Types \cap 0..(LZ4_COMPRESS_HEADER - 1),
                           values : Seq(Seq(Nat))]
    /\ \A c \in Commands :
         /\ Types[c.header] \in Seq({0, 1, 2, 4}) /\ Len(c.values) = Len(Types[c.header])
         /\ \A i \in DOMAIN c.values : Fits(c.values[i], Types[c.header][i])
         /\ Shrinks(c) => Len(Message(c)) < 65535

\* Session::Deserialize: the bytes without stuffing, and those the cipher has
\* to open; what they hold is known by its header.
Sealed(bytes) == bytes[1] = ENCRYPT_HEADER
Opened(bytes, last) == IF Sealed(bytes) THEN Decrypt(Tail(bytes), last) ELSE bytes
Unpacked(msg) ==
    IF msg[1] = LZ4_COMPRESS_HEADER
    THEN LZ4Uncompress(SubSeq(msg, 4, Len(msg)), Number(SubSeq(msg, 2, 3)))
    ELSE msg
Command(msg) == [header |-> msg[1], values |-> Values(Tail(msg), Types[msg[1]])]

WireInit ==
    /\ encryption \in BOOLEAN
    /\ posted = <<>> /\ sealing = 0 /\ opening = 0
    /\ stream = <<>> /\ buffer = <<>> /\ fetched = <<>>

\* Session::Send
Post(c) ==
    LET secret == Encrypt(Packed(c), sealing)
    IN  /\ Len(posted) < MaxCommands
        /\ posted' = Append(posted, c)
        /\ IF encryption
           THEN /\ stream' = stream \o Encode(<<ENCRYPT_HEADER>> \o secret)
                /\ sealing' = sealing + Len(secret)
           ELSE /\ stream' = stream \o Encode(Packed(c))
                /\ UNCHANGED sealing
        /\ UNCHANGED <<encryption, opening, buffer, fetched>>

\* TCP brings some of the bytes.
BytesCome(n) ==
    /\ n \in 1..Len(stream)
    /\ buffer' = buffer \o SubSeq(stream, 1, n)
    /\ stream' = SubSeq(stream, n + 1, Len(stream))
    /\ UNCHANGED <<encryption, posted, sealing, opening, fetched>>

\* FetchTCP: one message goes through Deserialize to the handler.
Handed(state, bytes) ==
    LET plain == Decode(bytes)
    IN  IF bytes = <<>> THEN state
        ELSE [state EXCEPT
                !.opening = IF Sealed(plain) THEN @ + Len(plain) - 1 ELSE @,
                !.fetched = Append(@, Command(Unpacked(Opened(plain, state.opening))))]

\* The loop of ReceiveTCP takes what is before the first delimiter, while there
\* is one.
Ends(bytes) == {i \in DOMAIN bytes : bytes[i] = Delimiter}
NextMessage(state) ==
    LET left == state.left
        end  == Min(Ends(left))
    IN  IF Ends(left) = {} THEN state
        ELSE Handed([state EXCEPT !.left = SubSeq(left, end + 1, Len(left))],
                    SubSeq(left, 1, end - 1))
Received(state) ==
    LET after[i \in 0..Len(state.left)] ==
          IF i = 0 THEN state ELSE NextMessage(after[i - 1])
    IN  after[Len(state.left)]

\* Session::ReceiveTCP
ReceiveTCP ==
    LET after == Received([left |-> buffer, opening |-> opening, fetched |-> fetched])
    IN  /\ Ends(buffer) # {}
        /\ buffer' = after.left /\ opening' = after.opening /\ fetched' = after.fetched
        /\ UNCHANGED <<encryption, posted, sealing, stream>>

WireNext ==
    \/ \E c \in Commands : Post(c)
    \/ \E n \in 1..Len(stream) : BytesCome(n)
    \/ ReceiveTCP

\* Bytes under way come, and ReceiveTCP runs once there is a delimiter: weak
\* fairness, with the guard in place of ENABLED.
Idle == stream = <<>> /\ Ends(buffer) = {}
WireFair == []<>Idle \/ []<><<(\E n \in 1..Len(stream) : BytesCome(n)) \/ ReceiveTCP>>_wireVars
WireSpec == WireInit /\ [][WireNext]_wireVars /\ WireFair

-----------------------------------------------------------------------------
(* Whatever bytes the commands hold and wherever TCP cuts the stream, the  *)
(* handler is given the commands that were sent, value by value and in     *)
(* their order (Session::Serialize, ReceiveTCP, Deserialize), ...          *)
CommandsInOrder == IsPrefix(fetched, posted)

(* ... and in the end all of them.                                         *)
CommandsArrive == [](IsPrefix(fetched, posted)) /\ <>[](fetched = posted)
===============================================================================
