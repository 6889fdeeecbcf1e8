----------------------------- MODULE LabProofs -----------------------------
(* What the programs of lab guarantee for any names, urls and writers.     *)
EXTENDS DesPadding, HttpRedirect, SequenceTheorems, TLAPS

-----------------------------------------------------------------------------
(* Both paddings of lab/c/des3, for every name of any length.              *)

\* What is appended can be cut off again.
LEMMA CutOff ==
  ASSUME NEW s \in Seq(Nat), NEW p \in Nat \ {0}
  PROVE  /\ s \o Repeat(p, p) \in Seq(Nat)
         /\ Len(s \o Repeat(p, p)) = Len(s) + p
         /\ Unpad(s \o Repeat(p, p)) = s
<1>1. Repeat(p, p) \in Seq(Nat) /\ Len(Repeat(p, p)) = p
  BY DEF Repeat
<1> DEFINE t == s \o Repeat(p, p)
<1>2. t \in Seq(Nat) /\ Len(t) = Len(s) + p
  BY <1>1
<1>3. t[Len(t)] = p
  <2>1. t[Len(s) + p] = Repeat(p, p)[p]
    BY <1>1
  <2> QED BY <2>1, <1>2 DEF Repeat
<1>4. SubSeq(t, 1, Len(s)) = s
  <2>1. SubSeq(t, 1, Len(s)) = [i \in 1..Len(s) |-> t[i]]
    BY <1>2
  <2>2. \A i \in 1..Len(s) : t[i] = s[i]
    BY <1>1
  <2> QED BY <2>1, <2>2
<1>5. Len(t) - t[Len(t)] = Len(s)
  BY <1>2, <1>3
<1> QED BY <1>2, <1>4, <1>5 DEF Unpad

LEMMA NamesAreNumbers ==
  ASSUME NEW s \in Name
  PROVE  s \in Seq(Nat) /\ Len(s) \in Nat
<1>1. 1..255 \subseteq Nat
  OBVIOUS
<1>2. s \in Seq(1..255)
  BY DEF Name
<1>3. s \in Seq(Nat)
  BY <1>1, <1>2, SeqMonotonic
<1> QED BY <1>3, LenProperties

LEMMA KeptIsANumberSequence ==
  ASSUME NEW s \in Seq(Nat)
  PROVE  /\ Kept(s) \in Seq(Nat) /\ Len(Kept(s)) \in Nat /\ Len(Kept(s)) <= 15
         /\ Len(s) <= 15 => Kept(s) = s
<1>1. Len(s) \in Nat
  BY LenProperties
<1>2. ASSUME Len(s) > 15
      PROVE  SubSeq(s, 1, 15) \in Seq(Nat) /\ Len(SubSeq(s, 1, 15)) = 15
  <2>1. \A i \in 1..15 : s[i] \in Nat
    BY <1>1, <1>2, ElementOfSeq
  <2> QED BY <2>1, SubSeqProperties
<1>3. CASE Len(s) > 15
  <2>1. Kept(s) = SubSeq(s, 1, 15)
    BY <1>3 DEF Kept
  <2> QED BY <2>1, <1>1, <1>2, <1>3
<1>4. CASE ~(Len(s) > 15)
  <2>1. Kept(s) = s
    BY <1>4 DEF Kept
  <2>2. Len(s) <= 15
    BY <1>1, <1>4
  <2> QED BY <2>1, <1>1, <2>2, Zenon
<1> QED BY <1>3, <1>4

LEMMA FillsTheBlock ==
  ASSUME NEW n \in Nat
  PROVE  8 - (n % 8) \in 1..8 /\ (n + (8 - (n % 8))) % 8 = 0
  OBVIOUS

\* des3_encrypt.c sends whole blocks, every name that is not empty can be read
\* back from them, and the length tells the two kinds of message apart
\* (set_pkcs7_padding, lines 68 to 86; create_send_message, lines 132 to 164).
LEMMA EveryNameComesBack ==
  ASSUME NEW s \in Names
  PROVE  NameComesBack(s)
<1> SUFFICES /\ Len(set_pkcs7_padding(s)) % 8 = 0
             /\ Len(s) # 0 => Unpad(set_pkcs7_padding(s)) = s
             /\ SendMessageLength(s, 2) = 35 <=> Len(s) = 0
  BY DEF NameComesBack
<1> DEFINE p == PadCount(s)
<1>1. s \in Seq(Nat) /\ Len(s) \in Nat
  BY NamesAreStrings, NamesAreNumbers
<1>2. CASE Len(s) = 0
  <2>1. p = 0
    BY <1>2 DEF PadCount
  <2>2. set_pkcs7_padding(s) = s \o Repeat(0, 0)
    BY <2>1 DEF set_pkcs7_padding
  <2>3. Repeat(0, 0) \in Seq(Nat) /\ Len(Repeat(0, 0)) = 0
    BY DEF Repeat
  <2>4. Len(set_pkcs7_padding(s)) = 0
    BY <2>2, <2>3, <1>1, <1>2
  <2>5. SendMessageLength(s, 2) = 35
    BY <1>2 DEF SendMessageLength
  <2> QED BY <2>4, <2>5, <1>2
<1>3. CASE Len(s) # 0
  <2>1. p \in 1..8 /\ (Len(s) + p) % 8 = 0
    BY <1>1, <1>3, FillsTheBlock DEF PadCount
  <2>2. set_pkcs7_padding(s) = s \o Repeat(p, p)
    BY DEF set_pkcs7_padding
  <2> HIDE DEF p
  <2>3. p \in Nat \ {0}
    BY <2>1
  <2>4. Len(s \o Repeat(p, p)) = Len(s) + p /\ Unpad(s \o Repeat(p, p)) = s
    BY <1>1, <2>3, CutOff
  <2>5. SendMessageLength(s, 2) # 35
    <3>1. SendMessageLength(s, 2) = 33 + ((Len(s) + p) \div 8) * 8
      BY <1>3, <2>2, <2>4 DEF SendMessageLength, EncryptMessageLength, HeaderLength, EncryptCount
    <3>2. (Len(s) + p) \div 8 \in Nat
      BY <1>1, <2>3
    <3> QED BY <3>1, <3>2
  <2> QED BY <1>3, <2>1, <2>2, <2>4, <2>5
<1> QED BY <1>2, <1>3

\* des3_encrypt2.c always fills sixteen bytes; what comes back is the name up to
\* its fifteenth byte (set_pkcs7_padding, lines 70 to 85).
LEMMA FifteenBytesComeBack ==
  ASSUME NEW s \in Names
  PROVE  FifteenComeBack(s)
<1> SUFFICES /\ Len(set_pkcs7_padding_16(s)) = 16
             /\ Unpad(set_pkcs7_padding_16(s)) = Kept(s) /\ Len(Kept(s)) <= 15
             /\ Len(s) <= 15 => Kept(s) = s
  BY DEF FifteenComeBack
<1> DEFINE k == Kept(s)
           p == 16 - Len(k)
<1>1. /\ k \in Seq(Nat) /\ Len(k) \in Nat /\ Len(k) <= 15
      /\ Len(s) <= 15 => k = s
  <2>1. s \in Seq(Nat) /\ Len(s) \in Nat
    BY NamesAreStrings, NamesAreNumbers
  <2> QED BY <2>1, KeptIsANumberSequence
<1>2. p \in Nat \ {0} /\ Len(k) + p = 16
  <2>1. \A n \in Nat : n <= 15 => 16 - n \in Nat \ {0} /\ n + (16 - n) = 16
    OBVIOUS
  <2>2. Len(k) \in Nat /\ Len(k) <= 15
    BY <1>1, Zenon
  <2> QED BY <2>1, <2>2, Zenon
<1>3. set_pkcs7_padding_16(s) = k \o Repeat(p, p)
  BY DEF set_pkcs7_padding_16
<1>4. Len(k \o Repeat(p, p)) = 16 /\ Unpad(k \o Repeat(p, p)) = k
  <2> HIDE DEF k, p
  <2> QED BY <1>1, <1>2, CutOff
<1> QED BY <1>1, <1>3, <1>4, Zenon

\* What is padded by either program comes back from the receiver's unpadding, for
\* names of any length and content (set_pkcs7_padding of both files).
THEOREM EveryPaddingUndone == DesSpec => []PaddingsUndone
<1>1. DesInit /\ [][UNCHANGED username]_username => [](username \in Names)
  <2>1. username \in Names /\ [UNCHANGED username]_username => (username \in Names)'
    OBVIOUS
  <2> QED BY <2>1, PTL DEF DesInit
<1>2. username \in Names => PaddingsUndone
  BY EveryNameComesBack, FifteenBytesComeBack DEF PaddingsUndone
<1> QED BY <1>1, <1>2, PTL DEF DesSpec

-----------------------------------------------------------------------------
(* HttpRedirect, for any number of writers and any urls that fit.          *)

HttpTypes ==
  /\ redirect_enable \in BOOLEAN /\ redirect_url \in [1..URL_SIZE -> Chars \cup {Nul}]
  /\ apc \in [Admins -> {"idle", "url"}] /\ arg \in [Admins -> Urls \cup {None}]
  /\ put \in [Admins -> Nat] /\ lone \subseteq Admins
  /\ hpc \in {"idle", "passed", "sent", "format"} /\ took \in Nat
  /\ location \in Seq(Chars) /\ asked \in Seq(Chars)
  /\ known \in BOOLEAN /\ crossed \in BOOLEAN
  /\ \A a \in Admins : Writing(a) => arg[a] \in Urls /\ put[a] \in 1..Len(arg[a]) + 1

\* The last character of the buffer is never overwritten, so a hook that has
\* not met the end of the string has a next character to read.
Ended ==
  /\ redirect_url[URL_SIZE] = Nul
  /\ hpc = "format" => took \in 1..URL_SIZE

\* The buffer holds the string u.
Holds(u) ==
  /\ Len(u) < URL_SIZE
  /\ \A n \in 1..Len(u) : redirect_url[n] = u[n] /\ u[n] # Nul
  /\ redirect_url[Len(u) + 1] = Nul

\* A write that no other came across has stored what it has read; once it is
\* over and until the next begins, the buffer holds its url.
WritesInv ==
  /\ \A a \in lone : Writing(a) =>
       /\ \A b \in Admins \ {a} : ~Writing(b)
       /\ \A n \in 1..Len(arg[a]) : n < put[a] => redirect_url[n] = arg[a][n]
  /\ known /\ (\A a \in Admins : ~Writing(a)) => Holds(asked)

\* A hook that met no write has taken the url character by character.
HookInv ==
  ~crossed /\ hpc \in {"format", "sent"} =>
    /\ \A a \in Admins : ~Writing(a)
    /\ known /\ hpc = "format" =>
         /\ took <= Len(asked) + 1 /\ Len(location) = took - 1
         /\ \A n \in 1..took - 1 : location[n] = asked[n]
    /\ known /\ hpc = "sent" => location = asked

HttpInv == HttpTypes /\ Ended /\ WritesInv /\ HookInv

LEMMA UrlsAre ==
  ASSUME NEW u \in Urls
  PROVE  /\ URL_SIZE \in Nat \ {0} /\ u \in Seq(Chars) /\ Len(u) \in Nat /\ Len(u) < URL_SIZE
         /\ u # None /\ \A n \in 1..Len(u) : u[n] \in Chars /\ u[n] # Nul
<1>1. u \in Seq(Chars) /\ Len(u) < URL_SIZE /\ URL_SIZE \in Nat \ {0} /\ u # None
      /\ Nul \notin Chars
  BY UrlsFit, NoUrl DEF UrlsFit, NoUrl, Nul
<1>2. Len(u) \in Nat /\ u \in [1..Len(u) -> Chars]
  BY <1>1, LenProperties
<1> QED BY <1>1, <1>2

LEMMA HttpWrites ==
  ASSUME HttpInv, NEW a \in Admins, NEW e \in BOOLEAN, NEW u \in Urls \cup {None}, FsWrite(a, e, u)
  PROVE  HttpInv'
<1> USE DEF HttpInv, HttpTypes, Writing, answer
<1>1. /\ apc[a] = "idle" /\ crossed' /\ crossed' \in BOOLEAN /\ redirect_enable' \in BOOLEAN
      /\ arg' = [arg EXCEPT ![a] = u] /\ put' = [put EXCEPT ![a] = 1]
      /\ apc' = [apc EXCEPT ![a] = IF u = None THEN "idle" ELSE "url"]
      /\ UNCHANGED <<redirect_url, hpc, took, location, asked, known>>
  BY DEF FsWrite
<1>2. lone' = IF u = None THEN lone ELSE IF \E b \in Admins : Writing(b) THEN {} ELSE {a}
  BY DEF FsWrite
<1>3. u # None => u \in Urls /\ Len(u) \in Nat /\ 1 \in 1..Len(u) + 1
  BY UrlsAre
<1>4. HttpTypes'
  <2>1. lone' \subseteq Admins
    BY <1>2
  <2>2. /\ apc' \in [Admins -> {"idle", "url"}] /\ arg' \in [Admins -> Urls \cup {None}]
        /\ put' \in [Admins -> Nat]
    BY <1>1
  <2>3. \A b \in Admins : Writing(b)' => arg'[b] \in Urls /\ put'[b] \in 1..Len(arg'[b]) + 1
    BY <1>1, <1>3
  <2> QED BY <1>1, <2>1, <2>2, <2>3
<1>5. Ended'
  BY <1>1 DEF Ended
<1>6. WritesInv'
  <2>1. CASE u = None
    <3>1. \A b \in Admins :
            (Writing(b)' <=> Writing(b)) /\ (Writing(b) => arg'[b] = arg[b] /\ put'[b] = put[b])
      BY <1>1, <2>1
    <3>2. lone' = lone /\ \A v : Holds(v)' <=> Holds(v)
      BY <1>1, <1>2, <2>1 DEF Holds
    <3> QED BY <1>1, <3>1, <3>2 DEF WritesInv
  <2>2. CASE u # None
    <3>1. Writing(a)' /\ \A b \in Admins \ {a} : Writing(b)' = Writing(b)
      BY <1>1, <2>2
    <3>2. \A b \in lone' : b = a /\ \A c \in Admins \ {a} : ~Writing(c)
      BY <1>2, <2>2
    <3>3. \A n \in 1..Len(arg'[a]) : ~(n < put'[a])
      BY <1>1, <1>3, <2>2
    <3> QED BY <3>1, <3>2, <3>3 DEF WritesInv
  <2> QED BY <2>1, <2>2
<1>7. HookInv'
  BY <1>1 DEF HookInv
<1> QED
  BY <1>4, <1>5, <1>6, <1>7

LEMMA HttpStores ==
  ASSUME HttpInv, NEW a \in Admins, StoreChar(a)
  PROVE  HttpInv'
<1> USE DEF HttpInv, HttpTypes, Writing, answer
<1>1. /\ apc[a] = "url" /\ put[a] \in 1..Len(arg[a]) /\ arg[a] \in Urls
      /\ redirect_url' = [redirect_url EXCEPT ![put[a]] = arg[a][put[a]]]
      /\ put' = [put EXCEPT ![a] = @ + 1]
      /\ UNCHANGED <<redirect_enable, apc, arg, lone, hpc, took, location, asked, known, crossed>>
  BY DEF StoreChar
<1>2. Len(arg[a]) \in Nat /\ Len(arg[a]) < URL_SIZE /\ URL_SIZE \in Nat /\ arg[a][put[a]] \in Chars
  BY <1>1, UrlsAre
<1>3. HttpTypes'
  BY <1>1, <1>2
<1>4. Ended'
  BY <1>1, <1>2 DEF Ended
<1>5. WritesInv'
  <2>1. ASSUME NEW b \in lone, Writing(b)
        PROVE  /\ b = a /\ \A c \in Admins \ {b} : ~Writing(c)
               /\ \A n \in 1..Len(arg[b]) : n < put'[b] => redirect_url'[n] = arg[b][n]
    <3>1. b = a /\ \A c \in Admins \ {b} : ~Writing(c)
      BY <1>1, <2>1 DEF WritesInv
    <3>2. \A n \in 1..Len(arg[a]) : n < put[a] + 1 => redirect_url'[n] = arg[a][n]
      <4> SUFFICES ASSUME NEW n \in 1..Len(arg[a]), n < put[a] + 1
                   PROVE  redirect_url'[n] = arg[a][n]
        OBVIOUS
      <4>1. n \in 1..URL_SIZE /\ put[a] \in 1..URL_SIZE
        BY <1>1, <1>2
      <4>2. CASE n = put[a]
        BY <1>1, <4>1, <4>2
      <4>3. CASE n # put[a]
        <5>1. n < put[a]
          BY <1>1, <1>2, <4>3
        <5>2. redirect_url[n] = arg[a][n]
          BY <2>1, <3>1, <5>1 DEF WritesInv
        <5> QED BY <1>1, <4>1, <4>3, <5>2
      <4> QED BY <4>2, <4>3
    <3> QED BY <1>1, <3>1, <3>2
  <2> QED BY <1>1, <2>1 DEF WritesInv
<1>6. HookInv'
  BY <1>1 DEF HookInv
<1> QED
  BY <1>3, <1>4, <1>5, <1>6

LEMMA HttpEnds ==
  ASSUME HttpInv, NEW a \in Admins, StoreEnd(a)
  PROVE  HttpInv'
<1> USE DEF HttpInv, HttpTypes, Writing, answer
<1>1. /\ apc[a] = "url" /\ put[a] = Len(arg[a]) + 1 /\ arg[a] \in Urls
      /\ redirect_url' = [redirect_url EXCEPT ![put[a]] = Nul]
      /\ apc' = [apc EXCEPT ![a] = "idle"] /\ asked' = arg[a]
      /\ UNCHANGED <<redirect_enable, arg, put, lone, hpc, took, location, crossed>>
  BY UrlsAre DEF StoreEnd, StoreEndAs
<1>2. known' = (a \in lone)
  BY DEF StoreEnd, StoreEndAs
<1>3. /\ Len(arg[a]) \in Nat /\ Len(arg[a]) < URL_SIZE /\ URL_SIZE \in Nat /\ arg[a] \in Seq(Chars)
      /\ \A n \in 1..Len(arg[a]) : arg[a][n] # Nul
  BY <1>1, UrlsAre
<1>4. HttpTypes'
  <2>1. known' \in BOOLEAN
    BY <1>2
  <2>2. redirect_url' \in [1..URL_SIZE -> Chars \cup {Nul}]
    BY <1>1
  <2>3. \A b \in Admins : Writing(b)' => Writing(b)
    BY <1>1
  <2> QED BY <1>1, <1>3, <2>1, <2>2, <2>3
<1>5. Ended'
  BY <1>1, <1>3 DEF Ended
<1>6. WritesInv'
  <2>1. \A b \in Admins : Writing(b)' => b # a /\ Writing(b)
    BY <1>1
  <2>2. \A b \in lone : ~Writing(b)'
    BY <1>1, <2>1 DEF WritesInv
  <2>3. known' => Holds(arg[a])'
    <3> SUFFICES ASSUME a \in lone PROVE Holds(arg[a])'
      BY <1>2
    <3>1. \A n \in 1..Len(arg[a]) : redirect_url[n] = arg[a][n]
      BY <1>1, <1>3 DEF WritesInv
    <3> QED BY <1>1, <1>3, <3>1 DEF Holds
  <2> QED BY <1>1, <2>2, <2>3 DEF WritesInv
<1>7. HookInv'
  BY <1>1 DEF HookInv
<1> QED
  BY <1>4, <1>5, <1>6, <1>7

LEMMA HttpHook ==
  ASSUME HttpInv, HookTests \/ HookFormats
  PROVE  HttpInv'
<1> USE DEF HttpInv, HttpTypes, Writing, config, admin
<1>1. UNCHANGED <<redirect_enable, redirect_url, apc, arg, put, lone, asked, known>>
  BY DEF HookTests, HookFormats
<1>2. URL_SIZE \in Nat \ {0}
  BY UrlsFit DEF UrlsFit
<1>3. WritesInv'
  BY <1>1 DEF WritesInv, Holds
<1>4. CASE HookTests
  <2>1. /\ took' = 1 /\ location' = <<>> /\ hpc' \in {"format", "passed"}
        /\ crossed' \in BOOLEAN /\ (~crossed' => \A a \in Admins : ~Writing(a))
    BY <1>4 DEF HookTests
  <2>2. <<>> \in Seq(Chars) /\ Len(<<>>) = 0 /\ Len(asked) \in Nat
    BY LenProperties
  <2>3. HttpTypes'
    BY <1>1, <2>1, <2>2
  <2>4. Ended'
    BY <1>1, <1>2, <2>1 DEF Ended
  <2>5. HookInv'
    BY <1>1, <2>1, <2>2 DEF HookInv
  <2> QED BY <1>3, <2>3, <2>4, <2>5
<1>5. CASE HookFormats
  <2>1. hpc = "format" /\ took \in 1..URL_SIZE /\ UNCHANGED crossed
        /\ redirect_url[took] \in Chars \cup {Nul}
    BY <1>5 DEF HookFormats, Ended
  <2>2. CASE redirect_url[took] = Nul
    <3>1. hpc' = "sent" /\ UNCHANGED <<took, location>>
      BY <1>5, <2>2 DEF HookFormats
    <3>2. HttpTypes' /\ Ended'
      BY <1>1, <2>1, <3>1 DEF Ended
    <3>3. ASSUME ~crossed, known PROVE location = asked
      <4>1. /\ Holds(asked) /\ took <= Len(asked) + 1 /\ Len(location) = took - 1
            /\ \A n \in 1..took - 1 : location[n] = asked[n]
        BY <2>1, <3>3 DEF HookInv, WritesInv
      <4>2. Len(asked) \in Nat /\ took \in Nat
        BY <2>1, LenProperties
      <4>3. took = Len(asked) + 1
        <5>1. took \notin 1..Len(asked)
          BY <2>2, <4>1 DEF Holds
        <5> QED BY <2>1, <4>1, <4>2, <5>1
      <4> QED BY <4>1, <4>2, <4>3, SeqEqual
    <3>4. HookInv'
      BY <1>1, <2>1, <3>1, <3>3 DEF HookInv
    <3> QED BY <1>3, <3>2, <3>4
  <2>3. CASE redirect_url[took] # Nul
    <3>1. /\ location' = Append(location, redirect_url[took]) /\ took' = took + 1 /\ hpc' = hpc
      BY <1>5, <2>3 DEF HookFormats
    <3>2. /\ location' \in Seq(Chars) /\ Len(location) \in Nat
          /\ Len(location') = Len(location) + 1
          /\ \A n \in 1..Len(location) : location'[n] = location[n]
          /\ location'[Len(location) + 1] = redirect_url[took]
      BY <2>1, <2>3, <3>1, AppendProperties, LenProperties
    <3>3. HttpTypes'
      BY <1>1, <2>1, <3>1, <3>2
    <3>4. Ended'
      BY <1>1, <1>2, <2>1, <2>3, <3>1 DEF Ended
    <3>5. ASSUME ~crossed, known
          PROVE  /\ took' <= Len(asked) + 1 /\ Len(location') = took' - 1
                 /\ \A n \in 1..took' - 1 : location'[n] = asked[n]
      <4>1. /\ Holds(asked) /\ took <= Len(asked) + 1 /\ Len(location) = took - 1
            /\ \A n \in 1..took - 1 : location[n] = asked[n]
        BY <2>1, <3>5 DEF HookInv, WritesInv
      <4>2. Len(asked) \in Nat /\ took \in Nat \ {0}
        BY <2>1, LenProperties
      <4>3. took <= Len(asked) /\ redirect_url[took] = asked[took]
        BY <2>1, <2>3, <4>1, <4>2 DEF Holds
      <4> QED BY <3>1, <3>2, <4>1, <4>2, <4>3
    <3>6. HookInv'
      BY <1>1, <2>1, <3>1, <3>5 DEF HookInv
    <3> QED BY <1>3, <3>3, <3>4, <3>6
  <2> QED BY <2>2, <2>3
<1> QED
  BY <1>4, <1>5

\* A packet that no write comes across is redirected to the whole url of the
\* last write, and none is ever formatted past the end of the buffer.
THEOREM RedirectsWhereAsked == HttpSpec => []LocationIsAsked
<1>1. HttpInit => HttpInv
  <2> SUFFICES ASSUME HttpInit PROVE HttpInv
    OBVIOUS
  <2>1. URL_SIZE \in Nat \ {0} /\ <<>> \in Seq(Chars) /\ Len(<<>>) = 0
    BY UrlsFit DEF UrlsFit
  <2>2. HttpTypes
    <3>1. location \in Seq(Chars) /\ asked \in Seq(Chars)
      BY <2>1 DEF HttpInit
    <3>4. redirect_url \in [1..URL_SIZE -> Chars \cup {Nul}]
      BY DEF HttpInit
    <3>2. /\ redirect_enable \in BOOLEAN /\ known \in BOOLEAN /\ crossed \in BOOLEAN
          /\ apc \in [Admins -> {"idle", "url"}] /\ arg \in [Admins -> Urls \cup {None}]
          /\ put \in [Admins -> Nat] /\ lone \subseteq Admins /\ \A a \in Admins : apc[a] = "idle"
      BY DEF HttpInit
    <3>3. hpc = "idle" /\ took = 1
      BY DEF HttpInit
    <3> QED BY <3>1, <3>2, <3>3, <3>4 DEF HttpTypes, Writing
  <2>3. Ended /\ WritesInv /\ HookInv
    BY <2>1 DEF HttpInit, Ended, WritesInv, HookInv, Holds
  <2> QED BY <2>2, <2>3 DEF HttpInv
<1>2. HttpInv /\ [HttpNext]_httpvars => HttpInv'
  <2> SUFFICES ASSUME HttpInv, [HttpNext]_httpvars PROVE HttpInv'
    OBVIOUS
  <2>1. CASE UNCHANGED httpvars
    BY <2>1 DEF httpvars, config, admin, answer, HttpInv, HttpTypes, Ended, WritesInv, HookInv,
       Holds, Writing
  <2> QED BY <2>1, HttpWrites, HttpStores, HttpEnds, HttpHook DEF HttpNext
<1>3. HttpInv => LocationIsAsked
  <2>1. HttpTypes => DOMAIN redirect_url = 1..URL_SIZE
    BY DEF HttpTypes
  <2> QED BY <2>1 DEF HttpInv, Ended, HookInv, LocationIsAsked
<1> QED
  BY <1>1, <1>2, <1>3, PTL DEF HttpSpec
=============================================================================
