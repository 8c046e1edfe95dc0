---------------------------- MODULE WechatMessage -----------------------------
(***************************************************************************)
(* How a WeChat message is packed (tools/wechat_utils.go): 16 random       *)
(* bytes, four bytes of length, the message, the AppID, and a padding that *)
(* says how long it is.  The cipher and the XML inside are left out: data  *)
(* is what AES-CBC decrypts.  What is refused is {}, what is read          *)
(* {message}.                                                              *)
(***************************************************************************)
EXTENDS Integers, Sequences

Byte == 0..255

BlockSize == 16

\* What WeChat packs, and pads to a multiple of 32 bytes.
High(n) == n \div 256
LengthField(n) ==
    <<High(High(High(n))), High(High(n)) % 256, High(n) % 256, n % 256>>
Padding(n)  == [i \in 1..n |-> n]
Padded(d)   == d \o Padding(32 - (Len(d) % 32))
Frame(random, message, appID) ==
    ((random \o LengthField(Len(message))) \o message) \o appID

\* The last byte says how many there are of it.
PKCS7Unpad(data) ==
    LET length    == Len(data)
        unpadding == data[length]
    IN  IF /\ length # 0
           /\ unpadding \in 1..length
           /\ \A i \in (length - unpadding + 1)..length : data[i] = unpadding
        THEN {SubSeq(data, 1, length - unpadding)}
        ELSE {}

\* binary.BigEndian.Uint32 of the four bytes after the random ones.
MessageLength(p) == ((p[17] * 256 + p[18]) * 256 + p[19]) * 256 + p[20]

\* 60 is "<": a length that starts with it is taken for XML.
Readable(p, expectedAppID) ==
    /\ Len(p) >= 20
    /\ p[17] # 60
    /\ MessageLength(p) \in 1..(Len(p) - 20)
    /\ SubSeq(p, 21 + MessageLength(p), Len(p)) = expectedAppID

Content(p) == SubSeq(p, 21, 20 + MessageLength(p))

DecryptWechatMessage(data, expectedAppID) ==
    IF Len(data) % BlockSize = 0
    THEN {Content(p) : p \in {q \in PKCS7Unpad(data) : Readable(q, expectedAppID)}}
    ELSE {}
=============================================================================
