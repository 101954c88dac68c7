------------------------------ MODULE StunMessage ------------------------------
(* ice/stun: STUN messages as the server writes, reads and authenticates them.   *)
(* A message is its type, announced length, transaction id and attributes; an    *)
(* attribute is a type and the bytes of its value.                               *)
EXTENDS ByteOrder, FiniteSets

BindingRequest == 1
BindingResponse == 257         \* 0x0101
BindingErrorResponse == 273    \* 0x0111
Username == 6
MessageIntegrity == 8
ErrorCode == 9
XorMappedAddress == 32
Priority == 36
Fingerprint == 32808           \* 0x8028
MagicCookie == 554869826       \* 0x2112A442
HeaderSize == 20
IntegritySize == 20

(* HMAC-SHA1 and the CRC with its constant, external: n bytes that depend on the *)
(* key and on every byte of the data.                                            *)
Digest(n, key, data) ==
    LET h == FoldLeft(LAMBDA a, b : (31 * a + b) % 65521, key, data) IN
    [i \in 1 .. n |-> (i * h + h \div 256) % 256]

Attr(type, bytes) == [type |-> type, bytes |-> bytes]
Padding(n) == (4 - (n % 4)) % 4
NewStunMessage(type, tid) == [type |-> type, length |-> 0, tid |-> tid, attrs |-> <<>>]
AddAttribute(m, a) ==
    [m EXCEPT !.length = @ + Len(a.bytes) + Padding(Len(a.bytes)) + 4, !.attrs = Append(@, a)]

StunWrite(m) ==
    WriteBE(m.type, 2) \o WriteBE(m.length, 2) \o WriteBE(MagicCookie, 4) \o m.tid
        \o FlattenSeq([i \in DOMAIN m.attrs |->
               LET a == m.attrs[i] IN
               WriteBE(a.type, 2) \o WriteBE(Len(a.bytes), 2) \o a.bytes
                   \o [k \in 1 .. Padding(Len(a.bytes)) |-> 0]])

\* The value of an attribute covers what precedes it, the new length included.
Sealed(m, type, size, key) ==
    LET with(bytes) == AddAttribute(m, Attr(type, bytes))
        data == StunWrite(with([i \in 1 .. size |-> 48]))
    IN with(Digest(size, key, SubSeq(data, 1, Len(data) - 4 - size)))
AddMessageIntegrity(m, password) == Sealed(m, MessageIntegrity, IntegritySize, password)
AddFingerprint(m) == Sealed(m, Fingerprint, 4, 0)

\* StunErrorCodeAttribute
ErrorCodeBytes(code, reason) == <<0, 0, code \div 100, code % 100>> \o reason
\* StunXorAddressAttribute, which knows IPv4 only: port and address under the cookie.
XorByte(x, y) == Mask(8, {i \in 0 .. 7 : Bit(x, i) # Bit(y, i)})
UnderCookie(bytes) == [i \in DOMAIN bytes |-> XorByte(bytes[i], WriteBE(MagicCookie, 4)[i])]
XorAddressBytes(port, ip) == <<0, 1>> \o UnderCookie(WriteBE(port, 2)) \o UnderCookie(ip)

ValidateFingerprint(data) ==
    LET n == Len(data) IN
    /\ n % 4 = 0 /\ n >= HeaderSize + 8
    /\ ReadBE(data, 4, 4) = MagicCookie
    /\ ReadBE(data, n - 8, 2) = Fingerprint /\ ReadBE(data, n - 6, 2) = 4
    /\ SubSeq(data, n - 3, n) = Digest(4, 0, SubSeq(data, 1, n - 8))

(* get_attribute_value_type knows three types; the others, ERROR-CODE among them, *)
(* are skipped. PRIORITY is read as four bytes whatever length it announces.      *)
ByteStrings == {Username, MessageIntegrity}
RECURSIVE ReadAttributes(_, _, _)
ReadAttributes(data, at, attrs) ==
    LET left == Len(data) - at
        type == ReadBE(data, at, 2)
        length == ReadBE(data, at + 2, 2)
        size == IF type = Priority THEN 4 ELSE length
        padded == IF type = Priority THEN 4 ELSE (length + Padding(length)) % 65536
        skipped == type \notin ByteStrings \cup {Priority}
        read == Append(attrs, Attr(type, SubSeq(data, at + 5, at + 4 + size)))
    IN IF left = 0 THEN Parsed(attrs)
       ELSE IF left < 4 THEN Refused
       ELSE IF skipped
       THEN IF left < 4 + padded THEN Refused ELSE ReadAttributes(data, at + 4 + padded, attrs)
       ELSE IF left < 4 + size THEN Refused
       \* consume_padding ignores that there may be less left than it wants
       ELSE ReadAttributes(data, at + 4 + (IF left < 4 + padded THEN size ELSE padded), read)

\* A message without the magic cookie has a longer transaction id.
StunRead(data) ==
    LET type == ReadBE(data, 0, 2)
        length == ReadBE(data, 2, 2)
        attrs == ReadAttributes(data, HeaderSize, <<>>)
        from == IF ReadBE(data, 4, 4) = MagicCookie THEN 9 ELSE 5
    IN IF Len(data) < HeaderSize THEN Refused
       ELSE IF Bit(type, 11) = 1 \/ Len(data) # HeaderSize + length THEN Refused
       ELSE IF attrs = Refused THEN Refused
       ELSE Parsed([type |-> type, length |-> length, tid |-> SubSeq(data, from, HeaderSize),
                    attrs |-> attrs[1]])

GetAttribute(m, type) ==
    LET found == SelectSeq(m.attrs, LAMBDA a : a.type = type) IN
    IF found = <<>> THEN Refused ELSE Parsed(found[1].bytes)

\* The offset of the attribute in the raw message, or its end if it has none.
RECURSIVE Find(_, _, _)
Find(data, at, type) ==
    LET length == ReadBE(data, at + 2, 2) IN
    IF at + 4 > Len(data) THEN Len(data)
    ELSE IF ReadBE(data, at, 2) = type THEN at
    ELSE Find(data, at + 4 + length + Padding(length), type)

\* The digest is over what precedes the attribute, under a length that ends with it.
\* Mutant: the length of the whole message is left in place.
SignedPartWhole(data, at) == SubSeq(data, 1, at)
SignedPart(data, at) ==
    LET end == at + 4 + IntegritySize IN
    SubSeq(data, 1, 2)
        \o (IF Len(data) > end THEN WriteBE(end - HeaderSize, 2) ELSE SubSeq(data, 3, 4))
        \o SubSeq(data, 5, at)
ValidateIntegrity(m, data, password) ==
    LET at == Find(data, HeaderSize, MessageIntegrity) IN
    IF GetAttribute(m, MessageIntegrity) = Refused THEN "none"
    ELSE IF Len(data) % 4 = 0 /\ Len(data) = HeaderSize + ReadBE(data, 2, 2) /\ at < Len(data)
            /\ SubSeq(data, at + 5, at + 4 + IntegritySize) = Digest(IntegritySize, password, SignedPart(data, at))
    THEN "ok" ELSE "bad"

================================================================================
