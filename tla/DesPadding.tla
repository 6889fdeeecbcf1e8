----------------------------- MODULE DesPadding -----------------------------
(***************************************************************************)
(* lab/c/des3: the padding of the user name in des3_encrypt.c (blocks as   *)
(* many as it takes) and in des3_encrypt2.c (sixteen bytes, no more), and  *)
(* the layout of the message of des3_encrypt.c.  Cipher and digest are     *)
(* OpenSSL's and keep lengths; bytes are numbers.  A name is a C string:   *)
(* it holds no zero byte.                                                  *)
(***************************************************************************)
EXTENDS Naturals, Sequences

CONSTANT Names   (* names that are encrypted *)

VARIABLE username

Name == Seq(1..255)
ASSUME NamesAreStrings == Names \subseteq Name

Repeat(b, n) == [i \in 1..n |-> b]

\* The receiver's side, as PKCS7 has it.
Unpad(t) == SubSeq(t, 1, Len(t) - t[Len(t)])
-----------------------------------------------------------------------------
(* des3_encrypt.c *)

PadCount_zeroWhenFull(s) == (8 - (Len(s) % 8)) % 8
PadCount(s) == IF Len(s) = 0 THEN 0 ELSE 8 - (Len(s) % 8)

set_pkcs7_padding(s) == s \o Repeat(PadCount(s), PadCount(s))
EncryptCount(s) == Len(set_pkcs7_padding(s)) \div 8

\* Type, random, time stamp, onu_key, and encrypt_count blocks from offset 33.
HeaderLength == 1 + 8 + 8 + 16
EncryptMessageLength(s) == HeaderLength + EncryptCount(s) * 8

\* create_send_message; the serial number goes out when there is no name.
SendMessageLength(s, mode) ==
  CASE mode = 2 -> IF Len(s) # 0 THEN EncryptMessageLength(s) ELSE 35
    [] mode = 3 -> EncryptMessageLength(s)
    [] OTHER    -> 0
-----------------------------------------------------------------------------
(* des3_encrypt2.c *)

Kept(s) == IF Len(s) > 15 THEN SubSeq(s, 1, 15) ELSE s

set_pkcs7_padding_16(s) == Kept(s) \o Repeat(16 - Len(Kept(s)), 16 - Len(Kept(s)))

\* main of either program: one name, one message.
DesInit == username \in Names
DesSpec == DesInit /\ [][UNCHANGED username]_username
-----------------------------------------------------------------------------
\* What is sent of a name is whole blocks, and PKCS7 gives it back; the message
\* with a serial number has a length that none with a name has.
NameComesBack(s) ==
  /\ Len(set_pkcs7_padding(s)) % 8 = 0
  /\ Len(s) # 0 => Unpad(set_pkcs7_padding(s)) = s
  /\ SendMessageLength(s, 2) = 35 <=> Len(s) = 0

\* The fixed form fills its two blocks with any name, and gives back no more
\* than its first fifteen bytes.
FifteenComeBack(s) ==
  /\ Len(set_pkcs7_padding_16(s)) = 16
  /\ Unpad(set_pkcs7_padding_16(s)) = Kept(s) /\ Len(Kept(s)) <= 15
  /\ Len(s) <= 15 => Kept(s) = s

\* Both paddings give back what they can: the name, or its first fifteen bytes.
PaddingsUndone == NameComesBack(username) /\ FifteenComeBack(username)
=============================================================================
