-------------------------------- MODULE Netstring --------------------------------
(***************************************************************************)
(* Length-prefixed records "<decimal length>:<payload>," and their three   *)
(* readers and writers (shellsplit/src/shell_netstring.c): the writer, the *)
(* iterator over a slice in memory, and the reader of a stream.  A byte is *)
(* a one-character string and a size_t counts modulo SizeMax + 1.  Offsets *)
(* start at 1.                                                             *)
(***************************************************************************)
EXTENDS Integers, Sequences, SequencesExt

CONSTANTS
    SizeMax,    \* SIZE_MAX
    Bytes       \* what a char holds

ASSUME SizeAssumption == SizeMax \in Nat \ {0}

Digits == <<"0", "1", "2", "3", "4", "5", "6", "7", "8", "9">>

ASSUME BytesAssumption == ToSet(Digits) \cup {":", ","} \subseteq Bytes

IsDigit(byte) == byte \in ToSet(Digits)
Value(digit)  == CHOOSE v \in 0..9 : Digits[v + 1] = digit

Decimal[n \in Nat] ==
    (IF n < 10 THEN <<>> ELSE Decimal[n \div 10]) \o <<Digits[(n % 10) + 1]>>

(* shell_netstring_encoded_length and shell_netstring_write *)
EncodedLength(length) == Len(Decimal[length]) + 2 + length
Netstring(payload)    == Decimal[Len(payload)] \o <<":">> \o payload \o <<",">>

-------------------------------------------------------------------------------
(* Faulty variant: the size is accumulated without a look at its width. *)
SizeOfUnchecked(digits) ==
    FoldLeft(LAMBDA size, digit : (size * 10 + Value(digit)) % (SizeMax + 1),
             0, digits)

Overflow == -1

(* The length a run of digits spells, unless a digit takes it past SIZE_MAX. *)
SizeOf(digits) ==
    FoldLeft(LAMBDA size, digit :
                 IF size = Overflow \/ size > (SizeMax - Value(digit)) \div 10
                 THEN Overflow ELSE size * 10 + Value(digit),
             0, digits)

(* The digits found from an offset on. *)
DigitsAt(data, start) ==
    LET stop == CHOOSE i \in start..(Len(data) + 1) :
                    /\ i > Len(data) \/ ~IsDigit(data[i])
                    /\ \A j \in start..(i - 1) : IsDigit(data[j])
    IN SubSeq(data, start, stop - 1)

ByteAt(data, i) == IF i \in DOMAIN data THEN data[i] ELSE "EOF"

Stopped(status) == [status |-> status, payload |-> <<>>, next |-> 0]

Found(data, first, length) ==
    [status  |-> "ok",
     payload |-> SubSeq(data, first, first + length - 1),
     next    |-> first + length + 1]

(* A length has no leading zeros. *)
NonCanonical(digits) == digits = <<>> \/ (digits[1] = "0" /\ Len(digits) > 1)

(* shell_netstring_iter_next: the record must lie within the slice.  The    *)
(* length is compared with what is left, so no sum of the two is formed.   *)
SliceRecord(data, colon, size) ==
    IF size = Overflow THEN Stopped("overflow")
    ELSE IF \/ ByteAt(data, colon) # ":"
            \/ size >= Len(data) - colon
            \/ data[colon + size + 1] # ","
    THEN Stopped("format")
    ELSE Found(data, colon + 1, size)

NextRecord(data, start) ==
    LET digits == DigitsAt(data, start) IN
    IF start > Len(data) THEN Stopped("done")
    ELSE IF NonCanonical(digits) THEN Stopped("format")
    ELSE SliceRecord(data, start + Len(digits), SizeOf(digits))

(* shell_netstring_read_stream: the stream is consumed byte by byte, a read *)
(* past its end yields EOF, and the caller may cap the record (0: no cap). *)
StreamRecord(data, colon, size, cap) ==
    IF size = Overflow THEN Stopped("overflow")
    ELSE IF ByteAt(data, colon) # ":" THEN Stopped("format")
    ELSE IF \/ EncodedLength(size) >= SizeMax
            \/ cap # 0 /\ EncodedLength(size) > cap
    THEN Stopped("overflow")
    ELSE IF colon + size > Len(data) \/ ByteAt(data, colon + size + 1) # ","
    THEN Stopped("format")
    ELSE Found(data, colon + 1, size)

ReadStream(data, start, cap) ==
    LET digits == DigitsAt(data, start) IN
    IF start > Len(data) THEN Stopped("done")
    ELSE IF NonCanonical(digits) THEN Stopped("format")
    ELSE StreamRecord(data, start + Len(digits), SizeOf(digits), cap)

(* Every record of a slice in turn, up to the first that is malformed:     *)
(* status "done" says that there was none.                                 *)
Records(data) ==
    LET from[start \in 1..(Len(data) + 1)] ==
            LET record == NextRecord(data, start)
                rest   == from[record.next]
            IN IF record.status # "ok"
               THEN [status |-> record.status, payloads |-> <<>>]
               ELSE [status   |-> rest.status,
                     payloads |-> <<record.payload>> \o rest.payloads]
    IN from[1]
===============================================================================
