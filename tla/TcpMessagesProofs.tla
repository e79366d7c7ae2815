-------------------------- MODULE TcpMessagesProofs --------------------------
(***************************************************************************)
(* Proofs about TcpMessages for any number of messages.  What arrives is a *)
(* stream: every part has a position in it, and a read is a stretch of it. *)
(***************************************************************************)
EXTENDS TcpMessages, SequenceTheorems, TLAPS

(* The position of a part in all that the server has sent, and how much of *)
(* that has been read or lost.                                             *)
Position(p) == Brace * (p.message - 1) + p.part
Cursor      == Brace * Len(sent) - Len(unread)

(* What is unread is the end of what was sent. *)
StreamInv ==
    /\ Len(unread) <= Brace * Len(sent)
    /\ \A i \in DOMAIN unread : Position(unread[i]) = Cursor + i

(* Where reads do not mix messages, cache holds no end of one, and what    *)
(* has been handled has been read.                                         *)
ApartInv ==
    apart => /\ \A i \in DOMAIN cache : cache[i].part \in {Start, Middle}
             /\ \A i \in DOMAIN handled, n \in Nat :
                    handled[i] = PartsOf(n) => Brace * n <= Cursor
             /\ \A i, j \in DOMAIN handled, n \in Nat :
                    handled[i] = PartsOf(n) /\ handled[j] = PartsOf(n) => i = j

(* Where they are tidy, a message that has been read in part has a type    *)
(* that is kept, and what has been read of it is in cache.                 *)
CacheInv ==
    unread # <<>> /\ unread[1].part # Start =>
        /\ unread[1].part # Brace /\ sent[unread[1].message]
        /\ Len(cache) = unread[1].part - 1
        /\ \A i \in DOMAIN cache :
              cache[i] = [message |-> unread[1].message, part |-> i]

TidyInv ==
    /\ tidy => apart /\ CacheInv
    /\ tidy => \A n \in received : Brace * n <= Cursor
    /\ TidyReadsLoseNothing

TcpInv == TcpTypeOK /\ StreamInv /\ ApartInv /\ TidyInv

----------------------------------------------------------------------------
LEMMA PartProperties ==
    ASSUME NEW p \in Part
    PROVE  /\ p.message \in Nat \ {0} /\ p.message <= MaxMessages
           /\ p.part \in {1, 2, 3, 4}
           /\ p = [message |-> p.message, part |-> p.part]
  BY TcpAssumption DEF Part, Start, Brace

(* The text of a message. *)
LEMMA PartsOfProperties ==
    ASSUME NEW n \in 1..MaxMessages
    PROVE  /\ PartsOf(n) \in Seq(Part) /\ Len(PartsOf(n)) = 4
           /\ \A i \in 1..4 : PartsOf(n)[i] = [message |-> n, part |-> i]
<1>1. PartsOf(n) \in [1..4 -> Part]
  BY DEF PartsOf, Part, Start, Brace
<1>2. PartsOf(n) \in Seq(Part)
  <2>1. PartsOf(n) \in UNION {[1..k -> Part] : k \in Nat}
    BY <1>1
  <2>2. QED
    BY <2>1, SeqDef, Zenon
<1>3. Len(PartsOf(n)) = 4
  BY <1>1, <1>2, LenProperties
<1>4. QED
  BY <1>2, <1>3 DEF PartsOf, Start, Brace

LEMMA MessageBraces ==
    ASSUME NEW n \in 1..MaxMessages
    PROVE  StartsWithBrace(PartsOf(n)) /\ EndsWithBrace(PartsOf(n))
<1>1. /\ PartsOf(n) \in Seq(Part) /\ Len(PartsOf(n)) = 4
      /\ \A i \in 1..4 : PartsOf(n)[i] = [message |-> n, part |-> i]
  BY PartsOfProperties
<1>2. PartsOf(n) # <<>>
  <2>1. PartsOf(n) = <<>> => Len(PartsOf(n)) = 0
    BY EmptySeq, Zenon
  <2>2. QED
    BY <1>1, <2>1
<1>3. PartsOf(n)[1].part = 1 /\ PartsOf(n)[4].part = 4
  BY <1>1
<1>4. QED
  BY <1>1, <1>2, <1>3 DEF StartsWithBrace, EndsWithBrace, Start, Brace

(* A text is a message when its four parts are. *)
LEMMA IsPartsOf ==
    ASSUME NEW n \in 1..MaxMessages, NEW t \in Seq(Part), Len(t) = 4,
           \A i \in 1..4 : t[i] = [message |-> n, part |-> i]
    PROVE  t = PartsOf(n)
<1>1. /\ PartsOf(n) \in Seq(Part) /\ Len(PartsOf(n)) = 4
      /\ \A i \in 1..4 : PartsOf(n)[i] = [message |-> n, part |-> i]
  BY PartsOfProperties
<1>2. Len(t) = Len(PartsOf(n)) /\ \A i \in 1..Len(t) : t[i] = PartsOf(n)[i]
  BY <1>1
<1>3. QED
  BY <1>1, <1>2, SeqEqual, Zenon

(* A read and what it leaves. *)
LEMMA ReadProperties ==
    ASSUME NEW s \in Seq(Part), NEW k \in DOMAIN s
    PROVE  /\ k \in Nat \ {0} /\ k <= Len(s) /\ Len(s) \in Nat /\ s # <<>>
           /\ SubSeq(s, 1, k) \in Seq(Part) /\ Len(SubSeq(s, 1, k)) = k
           /\ \A i \in 1..k : SubSeq(s, 1, k)[i] = s[i]
           /\ SubSeq(s, k + 1, Len(s)) \in Seq(Part)
           /\ Len(SubSeq(s, k + 1, Len(s))) = Len(s) - k
           /\ \A i \in 1..Len(s) - k : SubSeq(s, k + 1, Len(s))[i] = s[k + i]
<1>1. /\ k \in Nat \ {0} /\ k <= Len(s) /\ Len(s) \in Nat
      /\ \A i \in 1..Len(s) : s[i] \in Part
  BY LenProperties, ElementOfSeq
<1>2. s # <<>>
  BY <1>1, EmptySeq
<1>3. /\ SubSeq(s, 1, k) \in Seq(Part) /\ Len(SubSeq(s, 1, k)) = k
      /\ \A i \in 1..k : SubSeq(s, 1, k)[i] = s[i]
  <2>1. 1 \in Int /\ k \in Int /\ \A i \in 1..k : s[i] \in Part
    BY <1>1
  <2>2. /\ SubSeq(s, 1, k) \in Seq(Part)
        /\ Len(SubSeq(s, 1, k)) = IF 1 <= k THEN k - 1 + 1 ELSE 0
        /\ \A i \in 1..k - 1 + 1 : SubSeq(s, 1, k)[i] = s[1 + i - 1]
    BY <2>1, SubSeqProperties
  <2>3. k - 1 + 1 = k /\ \A i \in 1..k : 1 + i - 1 = i
    BY <1>1
  <2>4. QED
    BY <1>1, <2>2, <2>3
<1>4. /\ SubSeq(s, k + 1, Len(s)) \in Seq(Part)
      /\ Len(SubSeq(s, k + 1, Len(s))) = Len(s) - k
      /\ \A i \in 1..Len(s) - k : SubSeq(s, k + 1, Len(s))[i] = s[k + i]
  <2> DEFINE m == k + 1
             n == Len(s)
  <2>1. m \in Int /\ n \in Int /\ \A i \in m..n : s[i] \in Part
    BY <1>1
  <2>2. /\ SubSeq(s, m, n) \in Seq(Part)
        /\ Len(SubSeq(s, m, n)) = IF m <= n THEN n - m + 1 ELSE 0
        /\ \A i \in 1..n - m + 1 : SubSeq(s, m, n)[i] = s[m + i - 1]
    BY <2>1, SubSeqProperties
  <2>3. /\ n - m + 1 = n - k /\ (~(m <= n) => n - k = 0)
        /\ \A i \in 1..n - k : m + i - 1 = k + i
    BY <1>1
  <2>4. QED
    BY <2>2, <2>3
<1>5. QED
  BY <1>1, <1>2, <1>3, <1>4

----------------------------------------------------------------------------
(* What is parsed is handled up to the end of its first object, or not.    *)
LEMMA ParseHandles ==
    ASSUME NEW t \in Seq(Part), handled \in Seq(Seq(Part)), Parse(t)
    PROVE  /\ handled' \in Seq(Seq(Part))
           /\ \/ handled' = handled
              \/ \E k \in 1..Len(t), h \in Seq(Part) :
                    /\ Len(h) = k /\ \A i \in 1..k : h[i] = t[i]
                    /\ IsObject(h) /\ handled' = Append(handled, h)
<1>1. DOMAIN t = 1..Len(t)
  BY LenProperties
<1>2. CASE handled' = handled
  BY <1>2
<1>3. ASSUME NEW k \in DOMAIN t, IsObject(SubSeq(t, 1, k)),
             handled' = Append(handled, SubSeq(t, 1, k))
      PROVE  /\ handled' \in Seq(Seq(Part))
             /\ \E m \in 1..Len(t), h \in Seq(Part) :
                    /\ Len(h) = m /\ \A i \in 1..m : h[i] = t[i]
                    /\ IsObject(h) /\ handled' = Append(handled, h)
  <2> DEFINE h == SubSeq(t, 1, k)
  <2>1. h \in Seq(Part) /\ Len(h) = k /\ \A i \in 1..k : h[i] = t[i]
    BY ReadProperties
  <2>2. handled' \in Seq(Seq(Part))
    BY <1>3, <2>1, AppendProperties
  <2> HIDE DEF h
  <2>3. k \in 1..Len(t) /\ IsObject(h) /\ handled' = Append(handled, h)
    BY <1>1, <1>3 DEF h
  <2>4. QED
    BY <2>1, <2>2, <2>3
<1>4. QED
  BY <1>2, <1>3 DEF Parse

(* What a read may do to cache and to the messages that are handled.       *)
LEMMA ReadHandles ==
    ASSUME TcpTypeOK, NEW text \in Seq(Part), text # <<>>,
           onMessageResponseClient(text)
    PROVE  /\ \/ Keep(text)
              \/ Add(text)
              \/ Take(text) /\ StartsWithBrace(text) /\ Parse(text)
              \/ Take(text) /\ ~StartsWithBrace(text) /\ EndsWithBrace(text)
                            /\ cache \o text \in Seq(Part) /\ Parse(cache \o text)
           /\ cache' \in Seq(Part) /\ handled' \in Seq(Seq(Part))
<1>1. cache \in Seq(Part) /\ handled \in Seq(Seq(Part)) /\ cache \o text \in Seq(Part)
  BY ConcatProperties DEF TcpTypeOK
<1>2. CASE Keep(text)
  BY <1>1, <1>2 DEF Keep
<1>3. CASE Add(text)
  BY <1>1, <1>3 DEF Add
<1>4. CASE Take(text) /\ StartsWithBrace(text)
  <2>1. Parse(text) /\ cache' = cache
    BY <1>4 DEF Take, tcpResponse
  <2>2. QED
    BY <1>1, <1>4, <2>1, ParseHandles
<1>5. CASE Take(text) /\ ~StartsWithBrace(text)
  <2>1. EndsWithBrace(text) /\ Parse(cache \o text) /\ cache' = cache
    BY <1>5 DEF Take, tcpResponse
  <2>2. QED
    BY <1>1, <1>5, <2>1, ParseHandles
<1>6. QED
  BY <1>2, <1>3, <1>4, <1>5 DEF onMessageResponseClient

(* A read takes a text from the front of what is unread. *)
LEMMA ReadTakes ==
    ASSUME TcpTypeOK, Read
    PROVE  \E text \in Seq(Part) :
              /\ text # <<>> /\ Len(text) \in Nat \ {0} /\ Len(text) <= Len(unread)
              /\ \A i \in 1..Len(text) : text[i] = unread[i]
              /\ unread' \in Seq(Part) /\ Len(unread') = Len(unread) - Len(text)
              /\ \A i \in 1..Len(unread') : unread'[i] = unread[Len(text) + i]
              /\ onMessageResponseClient(text)
              /\ received' = received \cup EndedIn(text)
              /\ apart' = (apart /\ OfOneMessage(text))
              /\ tidy' = (tidy /\ Tidy(text))
              /\ sent' = sent
<1>1. PICK k \in DOMAIN unread :
        LET text == SubSeq(unread, 1, k)
        IN /\ onMessageResponseClient(text)
           /\ unread' = SubSeq(unread, k + 1, Len(unread))
           /\ received' = received \cup EndedIn(text)
           /\ apart' = (apart /\ OfOneMessage(text))
           /\ tidy' = (tidy /\ Tidy(text))
           /\ UNCHANGED sent
  BY DEF Read
<1> DEFINE text == SubSeq(unread, 1, k)
<1>2. /\ k \in Nat \ {0} /\ k <= Len(unread)
      /\ text \in Seq(Part) /\ Len(text) = k /\ \A i \in 1..k : text[i] = unread[i]
      /\ unread' \in Seq(Part) /\ Len(unread') = Len(unread) - k
      /\ \A i \in 1..Len(unread) - k : unread'[i] = unread[k + i]
  BY <1>1, ReadProperties DEF TcpTypeOK
<1>3. /\ onMessageResponseClient(text) /\ received' = received \cup EndedIn(text)
      /\ apart' = (apart /\ OfOneMessage(text)) /\ tidy' = (tidy /\ Tidy(text))
      /\ sent' = sent
  BY <1>1
<1> HIDE DEF text
<1>4. text # <<>>
  BY <1>2, EmptySeq
<1>5. QED
  BY <1>2, <1>3, <1>4

LEMMA InitTcpType == TcpInit => TcpTypeOK
<1> SUFFICES ASSUME TcpInit PROVE TcpTypeOK
  OBVIOUS
<1>1. \A S : <<>> \in Seq(S) /\ Len(<<>>) = 0
  BY EmptySeq
<1>2. sent \in Seq(BOOLEAN) /\ unread \in Seq(Part) /\ cache \in Seq(Part)
      /\ handled \in Seq(Seq(Part)) /\ Len(sent) = 0
  BY <1>1 DEF TcpInit
<1>3. QED
  BY <1>2, TcpAssumption DEF TcpInit, TcpTypeOK

LEMMA NextTcpType == TcpTypeOK /\ [TcpNext]_tcpVars => TcpTypeOK'
<1> SUFFICES ASSUME TcpTypeOK, [TcpNext]_tcpVars PROVE TcpTypeOK'
  OBVIOUS
<1>1. CASE UNCHANGED tcpVars
  BY <1>1 DEF TcpTypeOK, tcpVars
<1>2. ASSUME NEW kept \in BOOLEAN, Send(kept) PROVE TcpTypeOK'
  <2>1. Len(sent) \in Nat /\ Len(sent) < MaxMessages
    BY <1>2, LenProperties DEF Send, TcpTypeOK
  <2>2. sent' \in Seq(BOOLEAN) /\ Len(sent') = Len(sent) + 1
    BY <1>2, AppendProperties DEF Send, TcpTypeOK
  <2>3. Len(sent) + 1 \in 1..MaxMessages
    BY <2>1, TcpAssumption
  <2>4. PartsOf(Len(sent) + 1) \in Seq(Part)
    BY <2>3, PartsOfProperties
  <2>5. unread' \in Seq(Part)
    BY <1>2, <2>4, ConcatProperties DEF Send, TcpTypeOK
  <2>6. QED
    BY <1>2, <2>1, <2>2, <2>3, <2>5 DEF Send, TcpTypeOK
<1>3. CASE Read
  <2>1. PICK text \in Seq(Part) :
          /\ text # <<>> /\ unread' \in Seq(Part)
          /\ onMessageResponseClient(text)
          /\ received' = received \cup EndedIn(text)
          /\ apart' = (apart /\ OfOneMessage(text))
          /\ tidy' = (tidy /\ Tidy(text))
          /\ sent' = sent
    BY <1>3, ReadTakes
  <2>2. apart' \in BOOLEAN /\ tidy' \in BOOLEAN
    BY <2>1 DEF TcpTypeOK
  <2>3. cache' \in Seq(Part) /\ handled' \in Seq(Seq(Part))
    BY <2>1, ReadHandles
  <2>4. EndedIn(text) \subseteq 1..MaxMessages
    <3>1. \A i \in DOMAIN text : text[i] \in Part
      BY LenProperties
    <3>2. QED
      BY <3>1 DEF EndedIn, Part
  <2>5. QED
    BY <2>1, <2>2, <2>3, <2>4 DEF TcpTypeOK
<1>4. CASE Reconnect
  <2>1. unread' \in Seq(Part)
    BY <1>4, EmptySeq DEF Reconnect
  <2>2. QED
    BY <1>4, <2>1 DEF Reconnect, TcpTypeOK
<1>5. QED
  BY <1>1, <1>2, <1>3, <1>4 DEF TcpNext

(* What arrives, what is kept and what is handled are parts of messages of *)
(* the server, for any number of messages and however they are cut.        *)
THEOREM TcpTypeCorrect == TcpSpec => []TcpTypeOK
  BY InitTcpType, NextTcpType, PTL DEF TcpSpec

----------------------------------------------------------------------------
(* A text of four parts that begins with an object is that object, for an  *)
(* object ends with the last brace of a message, the fourth part.          *)
LEMMA WholeText ==
    ASSUME NEW n \in 1..MaxMessages, NEW t \in Seq(Part), t = PartsOf(n),
           n \in DOMAIN sent, handled \in Seq(Seq(Part)), Parse(t)
    PROVE  handled' = Append(handled, PartsOf(n))
<1>1. /\ Len(t) = 4 /\ DOMAIN t = 1..4
      /\ \A i \in 1..4 : t[i] = [message |-> n, part |-> i]
  BY PartsOfProperties, LenProperties
<1>2. StartsWithBrace(t) /\ EndsWithBrace(t)
  BY MessageBraces
<1>3. SubSeq(t, 1, 4) = t
  BY <1>1, SubSeqFull
<1>4. \E k \in DOMAIN t : IsMessage(SubSeq(t, 1, k))
  <2>1. IsMessage(t)
    BY DEF IsMessage
  <2>2. 4 \in DOMAIN t
    BY <1>1
  <2>3. QED
    BY <1>3, <2>1, <2>2
<1>5. PICK k \in DOMAIN t : /\ IsObject(SubSeq(t, 1, k))
                            /\ handled' = Append(handled, SubSeq(t, 1, k))
  BY <1>2, <1>4 DEF Parse
<1>6. Len(SubSeq(t, 1, k)) = k /\ k \in 1..4 /\ SubSeq(t, 1, k)[k] = t[k]
  <2>1. Len(SubSeq(t, 1, k)) = k /\ \A i \in 1..k : SubSeq(t, 1, k)[i] = t[i]
    BY ReadProperties
  <2>2. k \in 1..4 /\ k \in 1..k
    BY <1>1
  <2>3. QED
    BY <2>1, <2>2
<1>7. t[k].part = Brace
  BY <1>5, <1>6 DEF IsObject
<1>8. k = 4
  BY <1>1, <1>6, <1>7 DEF Brace
<1>9. QED
  BY <1>3, <1>5, <1>8

(* A message that comes in a read of its own is handled whatever has been  *)
(* read before, for any number of messages.                                *)
THEOREM OwnReadsAreHandled == TcpSpec => WholeMessagesAreHandled
<1>1. ASSUME TcpTypeOK, [TcpNext]_tcpVars, NEW n \in DOMAIN sent,
             unread = PartsOf(n) \o unread', received' # received
      PROVE  handled' = Append(handled, PartsOf(n))
  <2>1. Read
    BY <1>1 DEF TcpNext, tcpVars, Send, Reconnect
  <2>2. PICK text \in Seq(Part) :
          /\ text # <<>> /\ Len(text) \in Nat \ {0} /\ Len(text) <= Len(unread)
          /\ \A i \in 1..Len(text) : text[i] = unread[i]
          /\ unread' \in Seq(Part) /\ Len(unread') = Len(unread) - Len(text)
          /\ onMessageResponseClient(text)
    BY <1>1, <2>1, ReadTakes
  <2>3. n \in 1..MaxMessages
    <3>1. sent \in Seq(BOOLEAN) /\ Len(sent) <= MaxMessages
      BY <1>1 DEF TcpTypeOK
    <3>2. DOMAIN sent = 1..Len(sent) /\ Len(sent) \in Nat
      BY <3>1, LenProperties
    <3>3. QED
      BY <1>1, <3>1, <3>2, TcpAssumption
  <2>4. PartsOf(n) \in Seq(Part) /\ Len(PartsOf(n)) = 4
    BY <2>3, PartsOfProperties
  <2>5. /\ Len(unread) = 4 + Len(unread')
        /\ \A i \in 1..4 : unread[i] = PartsOf(n)[i]
    <3>1. /\ Len(unread) = Len(PartsOf(n)) + Len(unread')
          /\ \A i \in 1..Len(PartsOf(n)) + Len(unread') :
                unread[i] = IF i <= Len(PartsOf(n)) THEN PartsOf(n)[i]
                            ELSE unread'[i - Len(PartsOf(n))]
      <4>1. /\ Len(PartsOf(n) \o unread') = Len(PartsOf(n)) + Len(unread')
            /\ \A i \in 1..Len(PartsOf(n)) + Len(unread') :
                  (PartsOf(n) \o unread')[i]
                    = IF i <= Len(PartsOf(n)) THEN PartsOf(n)[i]
                      ELSE unread'[i - Len(PartsOf(n))]
        <5>1. unread' \in Seq(Part) /\ PartsOf(n) \in Seq(Part)
          BY <2>2, <2>4
        <5>2. QED
          BY <5>1, ConcatProperties
      <4>2. unread = PartsOf(n) \o unread'
        BY <1>1
      <4>3. QED
        BY <4>1, <4>2
    <3>2. Len(unread') \in Nat
      BY <2>2, LenProperties
    <3>3. QED
      BY <2>4, <3>1, <3>2
  <2>6. Len(text) = 4
    <3>1. Len(unread') \in Nat /\ Len(unread) \in Nat
      BY <1>1, <2>2, LenProperties DEF TcpTypeOK
    <3>2. /\ Len(text) \in Nat /\ Len(unread') = Len(unread) - Len(text)
          /\ Len(unread) = 4 + Len(unread')
      BY <2>2, <2>5
    <3>3. \A a, b, c \in Nat : a = b - c /\ b = 4 + a => c = 4
      OBVIOUS
    <3>4. QED
      BY <3>1, <3>2, <3>3
  <2>7. text = PartsOf(n)
    <3>1. \A i \in 1..Len(text) : text[i] = PartsOf(n)[i]
      BY <2>2, <2>5, <2>6
    <3>2. QED
      BY <2>4, <2>6, <3>1, SeqEqual, Zenon
  <2>8. StartsWithBrace(text) /\ EndsWithBrace(text)
    BY <2>3, <2>7, MessageBraces
  <2>9. Parse(text)
    BY <2>2, <2>8 DEF onMessageResponseClient, Keep, Add, Take, tcpResponse
  <2>10. QED
    BY <1>1, <2>3, <2>7, <2>9, WholeText DEF TcpTypeOK
<1>2. TcpTypeOK /\ [TcpNext]_tcpVars =>
        [\A n \in DOMAIN sent :
           unread = PartsOf(n) \o unread' /\ received' # received
           => handled' = Append(handled, PartsOf(n))]_tcpVars
  BY <1>1
<1>3. QED
  BY <1>2, TcpTypeCorrect, PTL DEF TcpSpec, WholeMessagesAreHandled

----------------------------------------------------------------------------
LEMMA CursorType ==
    ASSUME TcpTypeOK, StreamInv
    PROVE  /\ Len(sent) \in Nat /\ Len(unread) \in Nat /\ Cursor \in Nat
           /\ DOMAIN sent = 1..Len(sent) /\ DOMAIN unread = 1..Len(unread)
           /\ Cursor = 4 * Len(sent) - Len(unread)
<1>1. /\ Len(sent) \in Nat /\ Len(unread) \in Nat
      /\ DOMAIN sent = 1..Len(sent) /\ DOMAIN unread = 1..Len(unread)
  BY LenProperties DEF TcpTypeOK
<1>2. Len(unread) <= 4 * Len(sent) /\ Cursor = 4 * Len(sent) - Len(unread)
  BY DEF StreamInv, Cursor, Brace
<1>3. QED
  BY <1>1, <1>2

(* The positions in a read that holds parts of one message.                *)
LEMMA ReadOfOne ==
    ASSUME TcpTypeOK, StreamInv, NEW text \in Seq(Part), OfOneMessage(text),
           text # <<>>, Len(text) \in Nat \ {0}, Len(text) <= Len(unread),
           \A i \in 1..Len(text) : text[i] = unread[i]
    PROVE  \A i \in 1..Len(text) :
              /\ text[i] = [message |-> text[1].message,
                            part |-> text[1].part + i - 1]
              /\ Cursor + i = 4 * (text[1].message - 1) + text[1].part + i - 1
              /\ text[1].part + i - 1 <= 4
<1>1. /\ Len(unread) \in Nat /\ Cursor \in Nat /\ DOMAIN unread = 1..Len(unread)
      /\ DOMAIN text = 1..Len(text)
  BY CursorType, LenProperties
<1>2. ASSUME NEW i \in 1..Len(text)
      PROVE  /\ text[i] = [message |-> text[1].message,
                           part |-> text[1].part + i - 1]
             /\ Cursor + i = 4 * (text[1].message - 1) + text[1].part + i - 1
             /\ text[1].part + i - 1 <= 4
  <2>1. 1 \in 1..Len(text) /\ i \in DOMAIN unread /\ 1 \in DOMAIN unread /\ i \in Nat
    BY <1>1
  <2>2. Position(text[i]) = Cursor + i /\ Position(text[1]) = Cursor + 1
    BY <2>1 DEF StreamInv
  <2>3. text[i].message = text[1].message
    BY <1>1 DEF OfOneMessage
  <2>4. text[i] \in Part /\ text[1] \in Part
    BY <2>1, ElementOfSeq
  <2>5. /\ text[i].message \in Nat \ {0} /\ text[1].message \in Nat \ {0}
        /\ text[i].part \in {1, 2, 3, 4} /\ text[1].part \in {1, 2, 3, 4}
        /\ text[i] = [message |-> text[i].message, part |-> text[i].part]
    BY <2>4, PartProperties
  <2>6. /\ 4 * (text[1].message - 1) + text[i].part = Cursor + i
        /\ 4 * (text[1].message - 1) + text[1].part = Cursor + 1
    BY <2>2, <2>3 DEF Position, Brace
  <2>7. text[i].part = text[1].part + i - 1
    <3>1. /\ 4 * (text[1].message - 1) \in Int /\ Cursor \in Int /\ i \in Int
          /\ text[i].part \in Int /\ text[1].part \in Int
      BY <1>1, <2>1, <2>5
    <3>2. \A x, a, b, c, j \in Int :
              x + a = c + j /\ x + b = c + 1 => a = b + j - 1
      OBVIOUS
    <3>3. QED
      BY <2>6, <3>1, <3>2
  <2>8. Cursor + i = 4 * (text[1].message - 1) + text[1].part + i - 1
    BY <1>1, <2>1, <2>5, <2>6
  <2>9. QED
    BY <2>3, <2>5, <2>7, <2>8
<1>3. QED
  BY <1>2

(* A message that is sent is the end of the stream, and reading moves the  *)
(* cursor, as does a connection that breaks.                               *)
LEMMA SendAppends ==
    ASSUME TcpTypeOK, StreamInv, NEW kept \in BOOLEAN, Send(kept)
    PROVE  /\ StreamInv' /\ Cursor' = Cursor
           /\ Len(unread) \in Nat /\ Len(unread') = Len(unread) + 4
           /\ \A i \in 1..Len(unread) : unread'[i] = unread[i]
           /\ unread = <<>> => unread'[1].part = Start
           /\ \A n \in DOMAIN sent : sent'[n] = sent[n]
<1> DEFINE N == Len(sent) + 1
<1>1. /\ Len(sent) \in Nat /\ Len(unread) \in Nat /\ Cursor \in Nat
      /\ DOMAIN sent = 1..Len(sent) /\ DOMAIN unread = 1..Len(unread)
      /\ Cursor = 4 * Len(sent) - Len(unread)
  BY CursorType
<1>2. N \in 1..MaxMessages /\ N \in Nat
  BY <1>1, TcpAssumption DEF Send
<1>3. /\ Len(sent') = Len(sent) + 1
      /\ \A n \in 1..Len(sent) : sent'[n] = sent[n]
  BY AppendProperties DEF Send, TcpTypeOK
<1>4. /\ PartsOf(N) \in Seq(Part) /\ Len(PartsOf(N)) = 4
      /\ \A i \in 1..4 : PartsOf(N)[i] = [message |-> N, part |-> i]
  BY <1>2, PartsOfProperties
<1>5. unread' = unread \o PartsOf(N) /\ unread \in Seq(Part)
  BY DEF Send, TcpTypeOK
<1>6. /\ unread' \in Seq(Part) /\ Len(unread') = Len(unread) + Len(PartsOf(N))
      /\ \A i \in 1..Len(unread) + Len(PartsOf(N)) :
            unread'[i] = IF i <= Len(unread) THEN unread[i]
                         ELSE PartsOf(N)[i - Len(unread)]
  BY <1>4, <1>5, ConcatProperties
<1>7. Len(unread') = Len(unread) + 4 /\ DOMAIN unread' = 1..Len(unread) + 4
  BY <1>4, <1>6, LenProperties
<1>8. \A i \in 1..Len(unread) : unread'[i] = unread[i]
  BY <1>1, <1>4, <1>6
<1>9. \A i \in Len(unread) + 1..Len(unread) + 4 :
          unread'[i] = [message |-> N, part |-> i - Len(unread)]
  <2>1. ASSUME NEW i \in Len(unread) + 1..Len(unread) + 4
        PROVE  unread'[i] = [message |-> N, part |-> i - Len(unread)]
    <3>1. i - Len(unread) \in 1..4 /\ i \in 1..Len(unread) + 4 /\ ~(i <= Len(unread))
      BY <1>1
    <3>2. QED
      BY <1>4, <1>6, <3>1
  <2>2. QED
    BY <2>1
<1>10. Cursor' = Cursor
  BY <1>1, <1>3, <1>7 DEF Cursor, Brace
<1> HIDE DEF N
<1>11. ASSUME NEW i \in 1..Len(unread) + 4
       PROVE  Position(unread'[i]) = Cursor + i
  <2>1. CASE i \in 1..Len(unread)
    BY <1>1, <1>8, <2>1 DEF StreamInv
  <2>2. CASE i \in Len(unread) + 1..Len(unread) + 4
    <3>1. Position(unread'[i]) = 4 * (N - 1) + (i - Len(unread))
      <4>1. unread'[i] = [message |-> N, part |-> i - Len(unread)]
        BY <1>9, <2>2
      <4>2. unread'[i].message = N /\ unread'[i].part = i - Len(unread)
        BY <4>1
      <4>3. QED
        BY <4>2 DEF Position, Brace
    <3>2. N - 1 = Len(sent)
      BY <1>1 DEF N
    <3>3. 4 * Len(sent) + (i - Len(unread)) = Cursor + i
      BY <1>1, <2>2
    <3>4. QED
      BY <3>1, <3>2, <3>3
  <2>3. QED
    BY <1>1, <2>1, <2>2
<1>12. StreamInv'
  <2>1. Len(unread') <= 4 * Len(sent')
    BY <1>1, <1>3, <1>7 DEF StreamInv, Brace
  <2>2. QED
    BY <1>7, <1>10, <1>11, <2>1 DEF StreamInv, Position, Brace
<1>13. unread = <<>> => unread'[1].part = Start
  <2>1. unread = <<>> => Len(unread) = 0
    BY EmptySeq, Zenon
  <2>2. ASSUME Len(unread) = 0 PROVE unread'[1].part = 1
    <3>1. 1 \in Len(unread) + 1..Len(unread) + 4 /\ 1 - Len(unread) = 1
      BY <2>2
    <3>2. unread'[1] = [message |-> N, part |-> 1 - Len(unread)]
      BY <1>9, <3>1
    <3>3. QED
      BY <3>1, <3>2
  <2>3. QED
    BY <2>1, <2>2 DEF Start
<1>14. QED
  BY <1>1, <1>3, <1>7, <1>8, <1>10, <1>12, <1>13

LEMMA ReadMoves ==
    ASSUME TcpTypeOK, StreamInv, NEW text \in Seq(Part),
           Len(text) \in Nat \ {0}, Len(text) <= Len(unread),
           unread' \in Seq(Part), Len(unread') = Len(unread) - Len(text),
           \A i \in 1..Len(unread') : unread'[i] = unread[Len(text) + i],
           sent' = sent
    PROVE  StreamInv' /\ Cursor' = Cursor + Len(text)
<1>1. /\ Len(sent) \in Nat /\ Len(unread) \in Nat /\ Cursor \in Nat
      /\ DOMAIN unread = 1..Len(unread) /\ Cursor = 4 * Len(sent) - Len(unread)
      /\ DOMAIN unread' = 1..Len(unread')
  BY CursorType, LenProperties
<1>2. Cursor' = 4 * Len(sent) - Len(unread')
  BY DEF Cursor, Brace
<1>3. Cursor' = Cursor + Len(text)
  BY <1>1, <1>2
<1>4. Len(unread') <= 4 * Len(sent')
  BY <1>1 DEF StreamInv, Brace
<1>5. ASSUME NEW i \in 1..Len(unread')
      PROVE  Position(unread'[i]) = Cursor' + i
  <2>1. Len(text) + i \in DOMAIN unread
    BY <1>1
  <2>2. Position(unread[Len(text) + i]) = Cursor + (Len(text) + i)
    BY <2>1 DEF StreamInv
  <2>3. QED
    BY <1>1, <1>3, <2>2
<1>6. QED
  BY <1>1, <1>3, <1>4, <1>5 DEF StreamInv, Position, Brace

LEMMA BreakMoves ==
    ASSUME TcpTypeOK, StreamInv, Reconnect
    PROVE  StreamInv' /\ Cursor' >= Cursor
<1>1. /\ Len(sent) \in Nat /\ Len(unread) \in Nat /\ Cursor \in Nat
      /\ Cursor = 4 * Len(sent) - Len(unread)
  BY CursorType
<1>2. unread' = <<>> /\ Len(unread') = 0 /\ unread' \in Seq(Part) /\ sent' = sent
  BY EmptySeq DEF Reconnect
<1>3. DOMAIN unread' = {}
  BY <1>2, LenProperties
<1>4. QED
  BY <1>1, <1>2, <1>3 DEF StreamInv, Cursor, Brace

(* What is unread is what was sent last, without a gap.                    *)
LEMMA NextStream == TcpTypeOK /\ StreamInv /\ [TcpNext]_tcpVars => StreamInv'
<1> SUFFICES ASSUME TcpTypeOK, StreamInv, [TcpNext]_tcpVars PROVE StreamInv'
  OBVIOUS
<1>1. CASE UNCHANGED tcpVars
  BY <1>1 DEF tcpVars, StreamInv, Cursor
<1>2. CASE Read
  BY <1>2, ReadTakes, ReadMoves
<1>3. QED
  BY <1>1, <1>2, SendAppends, BreakMoves DEF TcpNext

----------------------------------------------------------------------------
(* A read of one message that does not end with a brace holds none.        *)
LEMMA ReadWithoutBrace ==
    ASSUME TcpTypeOK, StreamInv, NEW text \in Seq(Part), OfOneMessage(text),
           text # <<>>, Len(text) \in Nat \ {0}, Len(text) <= Len(unread),
           \A i \in 1..Len(text) : text[i] = unread[i], ~EndsWithBrace(text)
    PROVE  \A i \in 1..Len(text) : text[i].part \in {Start, Middle}
<1>1. \A i \in 1..Len(text) : text[i] = [message |-> text[1].message,
                                         part |-> text[1].part + i - 1]
  BY ReadOfOne
<1>2. \A i \in 1..Len(text) : text[i] \in Part
  BY ElementOfSeq
<1>3. \A i \in 1..Len(text) : text[i].part \in {1, 2, 3, 4}
  BY <1>2, PartProperties
<1>4. ASSUME NEW i \in 1..Len(text)
      PROVE  text[i].part = text[1].part + i - 1
  <2>1. text[i] = [message |-> text[1].message, part |-> text[1].part + i - 1]
    BY <1>1
  <2>2. QED
    BY <2>1
<1>5. text[Len(text)].part \notin {3, 4}
  BY DEF EndsWithBrace, End, Brace
<1>6. ASSUME NEW i \in 1..Len(text) PROVE text[i].part \in {1, 2}
  <2>1. Len(text) \in 1..Len(text) /\ 1 \in 1..Len(text) /\ i <= Len(text)
        /\ i \in Nat /\ Len(text) \in Nat
    BY <1>6
  <2>2. text[Len(text)].part \in {1, 2}
    BY <1>3, <1>5, <2>1
  <2>3. /\ text[i].part = text[1].part + i - 1
        /\ text[Len(text)].part = text[1].part + Len(text) - 1
        /\ text[i].part \in {1, 2, 3, 4} /\ text[1].part \in {1, 2, 3, 4}
    BY <1>3, <1>4, <2>1
  <2>4. \A x, p, q, j, k \in Nat :
            j <= k /\ p = x + j - 1 /\ q = x + k - 1 => p <= q
    OBVIOUS
  <2>5. text[i].part <= text[Len(text)].part
    <3>1. /\ text[1].part \in Nat /\ text[i].part \in Nat
          /\ text[Len(text)].part \in Nat
      <4>1. \A x : x \in {1, 2} \/ x \in {1, 2, 3, 4} => x \in Nat
        OBVIOUS
      <4>2. QED
        BY <2>2, <2>3, <4>1, Zenon
    <3>2. QED
      BY <2>1, <2>3, <2>4, <3>1
  <2>6. QED
    BY <2>2, <2>3, <2>5
<1>7. QED
  BY <1>6 DEF Start, Middle

(* The last brace of a message that is handled has just been read.         *)
LEMMA BraceIsRead ==
    ASSUME TcpTypeOK, StreamInv, NEW text \in Seq(Part), NEW t \in Seq(Part),
           Len(text) \in Nat \ {0}, Len(text) <= Len(unread),
           \A i \in 1..Len(text) : text[i] = unread[i],
           \A i \in DOMAIN cache : cache[i].part \in {Start, Middle},
           t = text \/ t = cache \o text,
           NEW k \in 1..Len(t), NEW h \in Seq(Part), Len(h) = k,
           \A i \in 1..k : h[i] = t[i],
           NEW n \in Nat, h = PartsOf(n)
    PROVE  4 * n > Cursor /\ 4 * n <= Cursor + Len(text)
<1>1. DOMAIN h = 1..4 /\ h[4] = [message |-> n, part |-> 4]
  BY DEF PartsOf, Start, Brace
<1>2. k \in Nat /\ Len(t) \in Nat /\ k <= Len(t) /\ 4 \in 1..k
  <2>1. Len(t) \in Nat /\ DOMAIN h = 1..k
    BY LenProperties
  <2>2. 4 \in 1..4
    OBVIOUS
  <2>3. 4 \in 1..k
    BY <1>1, <2>1, <2>2, Zenon
  <2>4. QED
    BY <2>1, <2>3
<1>3. t[4] = [message |-> n, part |-> 4] /\ 4 \in 1..Len(t)
  BY <1>1, <1>2
<1>4. \E j \in 1..Len(text) : text[j] = t[4]
  <2>1. CASE t = text
    BY <1>3, <2>1
  <2>2. CASE t = cache \o text
    <3>1. /\ cache \in Seq(Part) /\ Len(cache) \in Nat /\ DOMAIN cache = 1..Len(cache)
      BY LenProperties DEF TcpTypeOK
    <3>2. /\ Len(t) = Len(cache) + Len(text)
          /\ \A i \in 1..Len(cache) + Len(text) :
                t[i] = IF i <= Len(cache) THEN cache[i] ELSE text[i - Len(cache)]
      BY <2>2, <3>1, ConcatProperties
    <3>3. t[4] = IF 4 <= Len(cache) THEN cache[4] ELSE text[4 - Len(cache)]
      BY <1>3, <3>2
    <3>4. ~(4 <= Len(cache))
      <4>1. SUFFICES ASSUME 4 <= Len(cache) PROVE FALSE
        OBVIOUS
      <4>2. cache[4].part \in {1, 2}
        BY <3>1, <4>1 DEF Start, Middle
      <4>3. t[4] = cache[4] /\ t[4].part = 4
        BY <1>3, <3>3, <4>1
      <4>4. QED
        BY <4>2, <4>3
    <3>5. 4 - Len(cache) \in 1..Len(text)
      BY <1>3, <3>1, <3>2, <3>4
    <3>6. QED
      BY <3>3, <3>4, <3>5
  <2>3. QED
    BY <2>1, <2>2
<1>5. PICK j \in 1..Len(text) : text[j] = t[4]
  BY <1>4
<1>6. /\ Len(unread) \in Nat /\ Cursor \in Nat /\ DOMAIN unread = 1..Len(unread)
  BY CursorType
<1>7. j \in DOMAIN unread /\ j \in Nat /\ j >= 1 /\ j <= Len(text)
  BY <1>6
<1>8. Position(text[j]) = Cursor + j
  BY <1>7 DEF StreamInv
<1>9. text[j].message = n /\ text[j].part = 4
  BY <1>3, <1>5
<1>10. 4 * (n - 1) + 4 = Cursor + j
  BY <1>8, <1>9 DEF Position, Brace
<1>11. QED
  BY <1>6, <1>7, <1>10

(* What a read adds to what has been handled, where reads do not mix       *)
(* messages: nothing, or a text whose last brace it has just read.         *)
LEMMA ReadIsNew ==
    ASSUME TcpTypeOK, StreamInv, NEW text \in Seq(Part), text # <<>>,
           Len(text) \in Nat \ {0}, Len(text) <= Len(unread),
           \A i \in 1..Len(text) : text[i] = unread[i],
           \A i \in DOMAIN cache : cache[i].part \in {Start, Middle},
           onMessageResponseClient(text)
    PROVE  \/ handled' = handled
           \/ \E h \in Seq(Part) :
                /\ handled' = Append(handled, h)
                /\ \A n \in Nat : h = PartsOf(n) =>
                      4 * n > Cursor /\ 4 * n <= Cursor + Len(text)
<1>1. ASSUME NEW t \in Seq(Part), t = text \/ t = cache \o text, Parse(t)
      PROVE  \/ handled' = handled
             \/ \E h \in Seq(Part) :
                  /\ handled' = Append(handled, h)
                  /\ \A n \in Nat : h = PartsOf(n) =>
                        4 * n > Cursor /\ 4 * n <= Cursor + Len(text)
  <2>1. \/ handled' = handled
        \/ \E k \in 1..Len(t), h \in Seq(Part) :
              /\ Len(h) = k /\ \A i \in 1..k : h[i] = t[i]
              /\ IsObject(h) /\ handled' = Append(handled, h)
    BY <1>1, ParseHandles DEF TcpTypeOK
  <2>2. ASSUME NEW k \in 1..Len(t), NEW h \in Seq(Part), Len(h) = k,
               \A i \in 1..k : h[i] = t[i], handled' = Append(handled, h)
        PROVE  \E g \in Seq(Part) :
                  /\ handled' = Append(handled, g)
                  /\ \A n \in Nat : g = PartsOf(n) =>
                        4 * n > Cursor /\ 4 * n <= Cursor + Len(text)
    <3>1. \A n \in Nat : h = PartsOf(n) =>
              4 * n > Cursor /\ 4 * n <= Cursor + Len(text)
      BY <1>1, <2>2, BraceIsRead
    <3>2. QED
      BY <2>2, <3>1
  <2>3. QED
    BY <2>1, <2>2
<1>2. CASE Keep(text) \/ Add(text)
  BY <1>2 DEF Keep, Add
<1>3. CASE Parse(text)
  BY <1>1, <1>3
<1>4. CASE cache \o text \in Seq(Part) /\ Parse(cache \o text)
  BY <1>1, <1>4
<1>5. QED
  BY <1>2, <1>3, <1>4, ReadHandles

(* Cache holds no brace where reads do not mix messages.                   *)
LEMMA ReadKeepsNoBrace ==
    ASSUME TcpTypeOK, StreamInv, NEW text \in Seq(Part), OfOneMessage(text),
           text # <<>>, Len(text) \in Nat \ {0}, Len(text) <= Len(unread),
           \A i \in 1..Len(text) : text[i] = unread[i],
           \A i \in DOMAIN cache : cache[i].part \in {Start, Middle},
           onMessageResponseClient(text)
    PROVE  \A i \in DOMAIN cache' : cache'[i].part \in {Start, Middle}
<1>1. /\ cache \in Seq(Part) /\ Len(cache) \in Nat /\ DOMAIN cache = 1..Len(cache)
      /\ DOMAIN text = 1..Len(text)
  BY LenProperties DEF TcpTypeOK
<1>2. CASE Take(text)
  BY <1>2 DEF Take
<1>3. CASE Keep(text)
  <2>1. \A i \in 1..Len(text) : text[i].part \in {Start, Middle}
    BY <1>3, ReadWithoutBrace DEF Keep
  <2>2. QED
    BY <1>1, <1>3, <2>1 DEF Keep
<1>4. CASE Add(text)
  <2>1. \A i \in 1..Len(text) : text[i].part \in {Start, Middle}
    BY <1>4, ReadWithoutBrace DEF Add
  <2>2. cache' = cache \o text
    BY <1>4 DEF Add
  <2>3. /\ cache' \in Seq(Part) /\ Len(cache') = Len(cache) + Len(text)
        /\ \A i \in 1..Len(cache) + Len(text) :
              cache'[i] = IF i <= Len(cache) THEN cache[i] ELSE text[i - Len(cache)]
    BY <1>1, <2>2, ConcatProperties
  <2>4. DOMAIN cache' = 1..Len(cache) + Len(text)
    BY <2>3, LenProperties
  <2>5. ASSUME NEW i \in 1..Len(cache) + Len(text)
        PROVE  cache'[i].part \in {Start, Middle}
    <3>1. CASE i <= Len(cache)
      BY <1>1, <2>3, <3>1
    <3>2. CASE ~(i <= Len(cache))
      <4>1. i - Len(cache) \in 1..Len(text)
        BY <1>1, <3>2
      <4>2. QED
        BY <2>1, <2>3, <3>2, <4>1
    <3>3. QED
      BY <3>1, <3>2
  <2>6. QED
    BY <2>4, <2>5
<1>5. QED
  BY <1>2, <1>3, <1>4 DEF onMessageResponseClient

LEMMA NextApart ==
    TcpTypeOK /\ StreamInv /\ ApartInv /\ [TcpNext]_tcpVars => ApartInv'
<1> SUFFICES ASSUME TcpTypeOK, StreamInv, ApartInv, [TcpNext]_tcpVars, apart'
             PROVE  ApartInv'
  BY DEF ApartInv
<1>0. Cursor \in Nat
  BY CursorType
<1>1. ASSUME cache' = cache, handled' = handled, apart' = apart,
             Cursor' \in Int, Cursor' >= Cursor
      PROVE  ApartInv'
  <2>1. \A n \in Nat : 4 * n <= Cursor => 4 * n <= Cursor'
    BY <1>0, <1>1
  <2>2. QED
    BY <1>1, <2>1 DEF ApartInv, PartsOf, Start, Brace
<1>2. CASE UNCHANGED tcpVars
  <2>1. Cursor' = Cursor
    BY <1>2 DEF tcpVars, Cursor
  <2>2. Cursor' \in Int /\ Cursor' >= Cursor
    BY <1>0, <2>1
  <2>3. QED
    BY <1>1, <1>2, <2>2 DEF tcpVars
<1>3. ASSUME NEW kept \in BOOLEAN, Send(kept) PROVE ApartInv'
  <2>1. Cursor' = Cursor
    BY <1>3, SendAppends
  <2>2. Cursor' \in Int /\ Cursor' >= Cursor
    BY <1>0, <2>1
  <2>3. QED
    BY <1>1, <1>3, <2>2 DEF Send
<1>4. CASE Reconnect
  <2>1. Cursor' >= Cursor /\ Cursor' \in Int
    <3>1. Len(unread') \in Nat /\ Len(sent') \in Nat
      BY <1>4, NextTcpType, LenProperties DEF TcpTypeOK
    <3>2. Cursor' \in Int
      BY <3>1 DEF Cursor, Brace
    <3>3. QED
      BY <1>4, <3>2, BreakMoves
  <2>2. QED
    BY <1>1, <1>4, <2>1 DEF Reconnect
<1>5. CASE Read
  <2>1. PICK text \in Seq(Part) :
          /\ text # <<>> /\ Len(text) \in Nat \ {0} /\ Len(text) <= Len(unread)
          /\ \A i \in 1..Len(text) : text[i] = unread[i]
          /\ unread' \in Seq(Part) /\ Len(unread') = Len(unread) - Len(text)
          /\ \A i \in 1..Len(unread') : unread'[i] = unread[Len(text) + i]
          /\ onMessageResponseClient(text)
          /\ apart' = (apart /\ OfOneMessage(text))
          /\ sent' = sent
    BY <1>5, ReadTakes
  <2>2. apart /\ OfOneMessage(text)
    BY <2>1
  <2>3. /\ \A i \in DOMAIN cache : cache[i].part \in {Start, Middle}
        /\ \A i \in DOMAIN handled, n \in Nat :
              handled[i] = PartsOf(n) => 4 * n <= Cursor
        /\ \A i, j \in DOMAIN handled, n \in Nat :
              handled[i] = PartsOf(n) /\ handled[j] = PartsOf(n) => i = j
    BY <2>2 DEF ApartInv, Brace
  <2>4. Cursor' = Cursor + Len(text)
    BY <2>1, ReadMoves
  <2>5. \A i \in DOMAIN cache' : cache'[i].part \in {Start, Middle}
    BY <2>1, <2>2, <2>3, ReadKeepsNoBrace
  <2>6. CASE handled' = handled
    <3>1. \A n \in Nat : 4 * n <= Cursor => 4 * n <= Cursor'
      BY <1>0, <2>1, <2>4
    <3>2. QED
      BY <2>3, <2>5, <2>6, <3>1 DEF ApartInv, PartsOf, Start, Brace
  <2>7. ASSUME NEW h \in Seq(Part), handled' = Append(handled, h),
               \A n \in Nat : h = PartsOf(n) =>
                  4 * n > Cursor /\ 4 * n <= Cursor + Len(text)
        PROVE  ApartInv'
    <3> DEFINE L == Len(handled)
    <3>1. /\ handled \in Seq(Seq(Part)) /\ L \in Nat /\ DOMAIN handled = 1..L
      BY LenProperties DEF TcpTypeOK
    <3>2. /\ handled' \in Seq(Seq(Part)) /\ Len(handled') = L + 1
          /\ \A i \in 1..L : handled'[i] = handled[i]
          /\ handled'[L + 1] = h
      BY <2>7, <3>1, AppendProperties
    <3>3. DOMAIN handled' = 1..L + 1
      BY <3>2, LenProperties
    <3> HIDE DEF L
    <3>4. ASSUME NEW i \in 1..L + 1, NEW n \in Nat, handled'[i] = PartsOf(n)
          PROVE  /\ 4 * n <= Cursor + Len(text)
                 /\ i = L + 1 <=> 4 * n > Cursor
      <4>1. CASE i = L + 1
        BY <2>7, <3>2, <3>4, <4>1
      <4>2. CASE i # L + 1
        <5>1. i \in 1..L
          BY <3>1, <4>2
        <5>2. 4 * n <= Cursor
          BY <2>3, <3>1, <3>2, <3>4, <5>1
        <5>3. QED
          BY <1>0, <2>1, <4>2, <5>2
      <4>3. QED
        BY <4>1, <4>2
    <3>5. ASSUME NEW i \in 1..L + 1, NEW j \in 1..L + 1, NEW n \in Nat,
                 handled'[i] = PartsOf(n), handled'[j] = PartsOf(n)
          PROVE  i = j
      <4>1. CASE i = L + 1
        BY <3>4, <3>5, <4>1
      <4>2. CASE i # L + 1
        <5>1. j # L + 1
          BY <3>4, <3>5, <4>2
        <5>2. i \in 1..L /\ j \in 1..L
          BY <3>1, <4>2, <5>1
        <5>3. QED
          BY <2>3, <3>1, <3>2, <3>5, <5>2
      <4>3. QED
        BY <4>1, <4>2
    <3>6. \A i \in DOMAIN handled', n \in Nat :
              handled'[i] = PartsOf(n) => 4 * n <= Cursor'
      BY <2>4, <3>3, <3>4
    <3>7. \A i, j \in DOMAIN handled', n \in Nat :
              handled'[i] = PartsOf(n) /\ handled'[j] = PartsOf(n) => i = j
      BY <3>3, <3>5
    <3>8. QED
      BY <2>5, <3>6, <3>7 DEF ApartInv, PartsOf, Start, Brace
  <2>8. QED
    BY <2>1, <2>3, <2>6, <2>7, ReadIsNew
<1>6. QED
  BY <1>2, <1>3, <1>4, <1>5 DEF TcpNext

LEMMA InitStreamAndApart == TcpInit => StreamInv /\ ApartInv
<1> SUFFICES ASSUME TcpInit PROVE StreamInv /\ ApartInv
  OBVIOUS
<1>1. unread = <<>> /\ sent = <<>> /\ cache = <<>> /\ handled = <<>>
  BY DEF TcpInit
<1>2. /\ Len(unread) = 0 /\ Len(sent) = 0 /\ DOMAIN unread = {}
      /\ DOMAIN cache = {} /\ DOMAIN handled = {}
  BY <1>1
<1>3. StreamInv
  BY <1>2 DEF StreamInv, Brace
<1>4. QED
  BY <1>2, <1>3 DEF ApartInv

(* However messages are cut, lost and kept, none is handled twice, for any *)
(* number of messages: a message that is handled ends behind everything    *)
(* that has been read before.                                              *)
THEOREM NeverReplayed == TcpSpec => []NothingIsReplayed
<1>1. TcpInit => TcpTypeOK /\ StreamInv /\ ApartInv
  BY InitTcpType, InitStreamAndApart
<1>2. TcpTypeOK /\ StreamInv /\ ApartInv /\ [TcpNext]_tcpVars
      => (TcpTypeOK /\ StreamInv /\ ApartInv)'
  BY NextTcpType, NextStream, NextApart
<1>3. TcpTypeOK /\ StreamInv /\ ApartInv => NothingIsReplayed
  <2>1. ASSUME TcpTypeOK, StreamInv, ApartInv, apart,
               NEW i \in DOMAIN handled, NEW j \in DOMAIN handled,
               IsMessage(handled[i]), handled[i] = handled[j]
        PROVE  i = j
    <3>1. PICK n \in DOMAIN sent : handled[i] = PartsOf(n)
      BY <2>1 DEF IsMessage
    <3>2. n \in Nat
      BY <2>1, CursorType
    <3>3. QED
      BY <2>1, <3>1, <3>2 DEF ApartInv
  <2>2. QED
    BY <2>1 DEF NothingIsReplayed
<1>4. QED
  BY <1>1, <1>2, <1>3, PTL DEF TcpSpec

----------------------------------------------------------------------------
(* A position belongs to one part. *)
LEMMA PositionIsOne ==
    ASSUME NEW x \in Nat \ {0}, NEW y \in Nat \ {0},
           NEW a \in {1, 2, 3, 4}, NEW b \in {1, 2, 3, 4},
           4 * (x - 1) + a = 4 * (y - 1) + b
    PROVE  x = y /\ a = b
  OBVIOUS

(* The text holds the parts p to q of message m. *)
Stretch(text, m, p, q) ==
    /\ m \in DOMAIN sent /\ p \in {1, 2, 3, 4} /\ q \in {1, 2, 3, 4} /\ p <= q
    /\ text \in Seq(Part) /\ Len(text) = q - p + 1
    /\ \A i \in 1..q - p + 1 : text[i] = [message |-> m, part |-> p + i - 1]

LEMMA SentNumbers ==
    ASSUME TcpTypeOK, NEW m \in DOMAIN sent
    PROVE  m \in 1..MaxMessages /\ m \in Nat \ {0}
<1>1. /\ DOMAIN sent = 1..Len(sent) /\ Len(sent) \in Nat /\ Len(sent) <= MaxMessages
  BY LenProperties DEF TcpTypeOK
<1>2. QED
  BY <1>1, TcpAssumption

(* A read of one message, and where in the stream it ends. *)
LEMMA ReadIsStretch ==
    ASSUME TcpTypeOK, StreamInv, NEW text \in Seq(Part), OfOneMessage(text),
           text # <<>>, Len(text) \in Nat \ {0}, Len(text) <= Len(unread),
           \A i \in 1..Len(text) : text[i] = unread[i]
    PROVE  \E m \in DOMAIN sent, p, q \in {1, 2, 3, 4} :
              /\ Stretch(text, m, p, q)
              /\ unread[1] = [message |-> m, part |-> p] /\ unread # <<>>
              /\ Cursor + Len(text) = 4 * (m - 1) + q
<1> DEFINE m == text[1].message
           p == text[1].part
           q == p + Len(text) - 1
<1>1. /\ Len(sent) \in Nat /\ Len(unread) \in Nat /\ Cursor \in Nat
      /\ DOMAIN sent = 1..Len(sent) /\ Cursor = 4 * Len(sent) - Len(unread)
  BY CursorType
<1>2. \A i \in 1..Len(text) :
          /\ text[i] = [message |-> m, part |-> p + i - 1]
          /\ Cursor + i = 4 * (m - 1) + p + i - 1
          /\ p + i - 1 <= 4
  BY ReadOfOne
<1>3. text[1] \in Part /\ 1 \in 1..Len(text) /\ Len(text) \in 1..Len(text)
  <2>1. 1 \in 1..Len(text) /\ Len(text) \in 1..Len(text)
    OBVIOUS
  <2>2. QED
    BY <2>1, ElementOfSeq
<1>4. /\ m \in Nat \ {0} /\ p \in {1, 2, 3, 4} /\ text[1] = [message |-> m, part |-> p]
  BY <1>3, PartProperties
<1>5. text[1] = unread[1]
  BY <1>3
<1> HIDE DEF m, p
<1>6. /\ Cursor + Len(text) = 4 * (m - 1) + p + Len(text) - 1
      /\ p + Len(text) - 1 <= 4
  BY <1>2, <1>3
<1>7. q \in {1, 2, 3, 4} /\ p <= q /\ Len(text) = q - p + 1
  <2>1. \A a \in {1, 2, 3, 4}, b \in Nat \ {0} : a + b - 1 <= 4 =>
            /\ a + b - 1 \in {1, 2, 3, 4} /\ a <= a + b - 1
            /\ b = (a + b - 1) - a + 1
    OBVIOUS
  <2>2. QED
    BY <1>4, <1>6, <2>1
<1>8. Cursor + Len(text) = 4 * (m - 1) + q
  <2>1. \A c, d, a, b \in Int : c + b = d + a + b - 1 => c + b = d + (a + b - 1)
    OBVIOUS
  <2>2. 4 * (m - 1) \in Int /\ p \in Int /\ Len(text) \in Int /\ Cursor \in Int
    BY <1>1, <1>4
  <2>3. QED
    BY <1>6, <2>1, <2>2
<1>9. m \in DOMAIN sent
  <2>1. \A c, n, u, l, x \in Nat, b \in {1, 2, 3, 4} :
            /\ c = 4 * n - u /\ l <= u /\ c + l = 4 * (x - 1) + b /\ x >= 1
            => x \in 1..n
    OBVIOUS
  <2>2. m \in Nat /\ m >= 1 /\ Len(text) \in Nat
    BY <1>4
  <2>3. QED
    BY <1>1, <1>7, <1>8, <2>1, <2>2
<1>10. Stretch(text, m, p, q)
  <2>1. q - p + 1 = Len(text)
    BY <1>7
  <2>2. QED
    BY <1>2, <1>4, <1>7, <1>9, <2>1 DEF Stretch
<1> HIDE DEF q
<1>11. unread # <<>>
  <2>1. unread = <<>> => Len(unread) = 0
    BY EmptySeq, Zenon
  <2>2. Len(unread) # 0
    BY <1>1
  <2>3. QED
    BY <2>1, <2>2
<1>12. unread[1] = [message |-> m, part |-> p]
  BY <1>4, <1>5
<1>13. QED
  BY <1>4, <1>7, <1>8, <1>9, <1>10, <1>11, <1>12

(* Braces and ends of a stretch. *)
LEMMA StretchEnds ==
    ASSUME TcpTypeOK, NEW m, NEW p, NEW q, NEW text, Stretch(text, m, p, q)
    PROVE  /\ m \in 1..MaxMessages /\ m \in Nat \ {0}
           /\ Len(text) \in Nat \ {0} /\ DOMAIN text = 1..Len(text)
           /\ text[1].message = m /\ text[Len(text)].part = q
           /\ StartsWithBrace(text) <=> p = 1
           /\ EndsWithBrace(text) <=> q \in {3, 4}
<1>1. /\ m \in DOMAIN sent /\ p \in {1, 2, 3, 4} /\ q \in {1, 2, 3, 4} /\ p <= q
      /\ text \in Seq(Part) /\ Len(text) = q - p + 1
      /\ \A i \in 1..q - p + 1 : text[i] = [message |-> m, part |-> p + i - 1]
  BY DEF Stretch
<1>2. m \in 1..MaxMessages /\ m \in Nat \ {0}
  BY <1>1, SentNumbers
<1>3. Len(text) \in Nat \ {0} /\ DOMAIN text = 1..Len(text)
  <2>1. Len(text) \in Nat /\ DOMAIN text = 1..Len(text)
    BY <1>1, LenProperties
  <2>2. QED
    BY <1>1, <2>1
<1>4. text # <<>>
  <2>1. text = <<>> => Len(text) = 0
    BY EmptySeq, Zenon
  <2>2. QED
    BY <1>3, <2>1
<1>5. /\ 1 \in 1..q - p + 1 /\ p + 1 - 1 = p
      /\ q - p + 1 \in 1..q - p + 1 /\ p + (q - p + 1) - 1 = q
  BY <1>1
<1>6. text[1] = [message |-> m, part |-> p]
  BY <1>1, <1>5
<1>7. text[q - p + 1] = [message |-> m, part |-> p + (q - p + 1) - 1]
  BY <1>1, <1>5
<1>8. text[Len(text)] = [message |-> m, part |-> q]
  BY <1>1, <1>5, <1>7
<1>9. text[1].message = m /\ text[1].part = p /\ text[Len(text)].part = q
  BY <1>6, <1>8
<1>10. QED
  BY <1>2, <1>3, <1>4, <1>9
     DEF StartsWithBrace, EndsWithBrace, Start, End, Brace

(* What is in cache and a stretch that continues it are one stretch.       *)
LEMMA StretchJoins ==
    ASSUME TcpTypeOK, NEW m, NEW p, NEW q, NEW text, Stretch(text, m, p, q),
           Len(cache) = p - 1,
           \A i \in DOMAIN cache : cache[i] = [message |-> m, part |-> i]
    PROVE  Stretch(cache \o text, m, 1, q)
<1>1. /\ m \in DOMAIN sent /\ p \in {1, 2, 3, 4} /\ q \in {1, 2, 3, 4} /\ p <= q
      /\ text \in Seq(Part) /\ Len(text) = q - p + 1
      /\ \A i \in 1..q - p + 1 : text[i] = [message |-> m, part |-> p + i - 1]
  BY DEF Stretch
<1>2. cache \in Seq(Part) /\ DOMAIN cache = 1..p - 1
  BY LenProperties DEF TcpTypeOK
<1>3. /\ cache \o text \in Seq(Part)
      /\ Len(cache \o text) = Len(cache) + Len(text)
      /\ \A i \in 1..Len(cache) + Len(text) :
            (cache \o text)[i] = IF i <= Len(cache) THEN cache[i]
                                 ELSE text[i - Len(cache)]
  BY <1>1, <1>2, ConcatProperties
<1> DEFINE t == cache \o text
<1>4. /\ Len(cache) + Len(text) = q /\ Len(cache) = p - 1 /\ q = q - 1 + 1
      /\ 1 <= q /\ 1 \in {1, 2, 3, 4}
  BY <1>1
<1>5. /\ t \in Seq(Part) /\ Len(t) = q
      /\ \A i \in 1..q : t[i] = IF i <= p - 1 THEN cache[i] ELSE text[i - (p - 1)]
  BY <1>3, <1>4
<1> HIDE DEF t
<1>6. ASSUME NEW i \in 1..q
      PROVE  t[i] = [message |-> m, part |-> 1 + i - 1]
  <2>1. 1 + i - 1 = i /\ i \in Nat
    BY <1>1
  <2>2. CASE i <= p - 1
    <3>1. i \in DOMAIN cache
      BY <1>1, <1>2, <2>1, <2>2
    <3>2. cache[i] = [message |-> m, part |-> i]
      BY <3>1
    <3>3. QED
      BY <1>5, <2>1, <2>2, <3>2
  <2>3. CASE ~(i <= p - 1)
    <3>1. i - (p - 1) \in 1..q - p + 1 /\ p + (i - (p - 1)) - 1 = i
      BY <1>1, <2>1, <2>3
    <3>2. text[i - (p - 1)] = [message |-> m, part |-> p + (i - (p - 1)) - 1]
      BY <1>1, <3>1
    <3>3. text[i - (p - 1)] = [message |-> m, part |-> i]
      BY <3>1, <3>2
    <3>4. QED
      BY <1>5, <2>1, <2>3, <3>3
  <2>4. QED
    BY <2>2, <2>3
<1>7. Stretch(t, m, 1, q)
  BY <1>1, <1>4, <1>5, <1>6 DEF Stretch
<1>8. QED
  BY <1>7 DEF t

LEMMA WholeStretch ==
    ASSUME TcpTypeOK, NEW m, NEW text, Stretch(text, m, 1, 4)
    PROVE  text = PartsOf(m)
<1>1. /\ m \in DOMAIN sent /\ text \in Seq(Part) /\ Len(text) = 4 - 1 + 1
      /\ \A i \in 1..4 - 1 + 1 : text[i] = [message |-> m, part |-> 1 + i - 1]
  BY DEF Stretch
<1>2. 4 - 1 + 1 = 4 /\ \A i \in 1..4 : 1 + i - 1 = i
  OBVIOUS
<1>3. Len(text) = 4 /\ \A i \in 1..4 : text[i] = [message |-> m, part |-> i]
  BY <1>1, <1>2
<1>4. m \in 1..MaxMessages
  BY <1>1, SentNumbers
<1>5. QED
  BY <1>1, <1>3, <1>4, IsPartsOf

(* What CacheInv says of a read that starts with part p. *)
LEMMA CacheBefore ==
    ASSUME CacheInv, NEW m, NEW p, unread # <<>>, p # 1,
           unread[1] = [message |-> m, part |-> p]
    PROVE  /\ sent[m] /\ Len(cache) = p - 1
           /\ \A i \in DOMAIN cache : cache[i] = [message |-> m, part |-> i]
<1>1. unread[1].part = p /\ unread[1].message = m
  OBVIOUS
<1>2. QED
  BY <1>1 DEF CacheInv, Start

(* A tidy read that does not end its message is kept. *)
LEMMA MiddleIsKept ==
    ASSUME TcpTypeOK, CacheInv, NEW m, NEW p, NEW q, NEW text,
           Stretch(text, m, p, q), q \in {1, 2},
           unread # <<>>, unread[1] = [message |-> m, part |-> p],
           sent[m] \/ IsMessage(text), onMessageResponseClient(text)
    PROVE  /\ sent[m] /\ handled' = handled /\ EndedIn(text) = {}
           /\ Stretch(cache', m, 1, q)
<1>1. /\ m \in DOMAIN sent /\ p \in {1, 2, 3, 4} /\ p <= q
      /\ text \in Seq(Part) /\ Len(text) = q - p + 1
      /\ \A i \in 1..q - p + 1 : text[i] = [message |-> m, part |-> p + i - 1]
  BY DEF Stretch
<1>2. /\ DOMAIN text = 1..Len(text) /\ text[1].message = m
      /\ StartsWithBrace(text) <=> p = 1
      /\ ~EndsWithBrace(text)
  <2>1. ~(q \in {3, 4})
    OBVIOUS
  <2>2. /\ DOMAIN text = 1..Len(text) /\ text[1].message = m
        /\ StartsWithBrace(text) <=> p = 1
        /\ EndsWithBrace(text) <=> q \in {3, 4}
    BY StretchEnds
  <2>3. QED
    BY <2>1, <2>2
<1>3. sent[m]
  <2>1. ASSUME IsMessage(text) PROVE FALSE
    <3>1. PICK n \in DOMAIN sent : text = PartsOf(n)
      BY <2>1 DEF IsMessage
    <3>2. Len(text) = 4
      BY <3>1, SentNumbers, PartsOfProperties
    <3>3. \A a \in {1, 2}, b \in {1, 2, 3, 4} : a - b + 1 # 4
      OBVIOUS
    <3>4. q - p + 1 # 4
      BY <1>1, <3>3, Zenon
    <3>5. QED
      BY <1>1, <3>2, <3>4, Zenon
  <2>2. QED
    BY <2>1
<1>4. EndedIn(text) = {}
  <2>1. ASSUME NEW i \in DOMAIN text PROVE text[i].part # 4
    <3>1. i \in 1..q - p + 1
      BY <1>1, <1>2
    <3>2. text[i] = [message |-> m, part |-> p + i - 1]
      BY <1>1, <3>1
    <3>3. p + i - 1 <= q
      BY <1>1, <3>1
    <3>4. text[i].part = p + i - 1
      BY <3>2
    <3>5. p + i - 1 # 4
      BY <1>1, <3>1, <3>3
    <3>6. QED
      BY <3>4, <3>5
  <2>2. QED
    BY <2>1 DEF EndedIn, Brace
<1>5. CASE p = 1
  <2>1. StartsWithKeptType(text)
    BY <1>2, <1>3, <1>5 DEF StartsWithKeptType
  <2>2. cache' = text /\ handled' = handled
    BY <1>2, <1>5, <2>1 DEF onMessageResponseClient, Keep, Add, Take
  <2>3. Stretch(text, m, 1, q)
    BY <1>5
  <2>4. QED
    BY <1>3, <1>4, <2>2, <2>3
<1>6. CASE p # 1
  <2>1. cache' = cache \o text /\ handled' = handled
    BY <1>2, <1>6 DEF onMessageResponseClient, Keep, Add, Take, StartsWithKeptType
  <2>2. Stretch(cache \o text, m, 1, q)
    BY <1>6, CacheBefore, StretchJoins
  <2>3. QED
    BY <1>3, <1>4, <2>1, <2>2
<1>7. QED
  BY <1>5, <1>6

(* A tidy read that ends its message completes it. *)
LEMMA EndIsTaken ==
    ASSUME TcpTypeOK, CacheInv, NEW m, NEW p, NEW text,
           Stretch(text, m, p, 4), unread # <<>>,
           unread[1] = [message |-> m, part |-> p],
           onMessageResponseClient(text)
    PROVE  handled' = Append(handled, PartsOf(m)) /\ EndedIn(text) = {m}
<1>1. /\ m \in DOMAIN sent /\ p \in {1, 2, 3, 4}
      /\ text \in Seq(Part) /\ Len(text) = 4 - p + 1
      /\ \A i \in 1..4 - p + 1 : text[i] = [message |-> m, part |-> p + i - 1]
  BY DEF Stretch
<1>2. /\ m \in 1..MaxMessages
      /\ Len(text) \in Nat \ {0} /\ DOMAIN text = 1..Len(text)
      /\ text[Len(text)].part = 4
      /\ StartsWithBrace(text) <=> p = 1
      /\ EndsWithBrace(text)
  <2>1. 4 \in {3, 4}
    OBVIOUS
  <2>2. QED
    BY <2>1, StretchEnds
<1>3. EndedIn(text) = {m}
  <2>1. ASSUME NEW i \in DOMAIN text PROVE text[i].message = m
    <3>1. i \in 1..4 - p + 1
      BY <1>1, <1>2
    <3>2. QED
      BY <1>1, <3>1
  <2>2. Len(text) \in DOMAIN text /\ text[Len(text)].part = 4
    BY <1>2
  <2>3. QED
    BY <2>1, <2>2 DEF EndedIn, Brace
<1>4. Parse(tcpResponse(text))
  BY <1>2 DEF onMessageResponseClient, Keep, Add, Take
<1>5. tcpResponse(text) = PartsOf(m)
  <2>1. CASE p = 1
    <3>1. Stretch(text, m, 1, 4)
      BY <2>1
    <3>2. QED
      BY <1>2, <2>1, <3>1, WholeStretch DEF tcpResponse
  <2>2. CASE p # 1
    <3>1. Stretch(cache \o text, m, 1, 4)
      BY <2>2, CacheBefore, StretchJoins
    <3>2. QED
      BY <1>2, <2>2, <3>1, WholeStretch DEF tcpResponse
  <2>3. QED
    BY <2>1, <2>2
<1>6. PartsOf(m) \in Seq(Part) /\ Parse(PartsOf(m))
  BY <1>2, <1>4, <1>5, PartsOfProperties
<1>7. handled' = Append(handled, PartsOf(m))
  BY <1>1, <1>2, <1>6, WholeText DEF TcpTypeOK
<1>8. QED
  BY <1>3, <1>7

(* The three things that are said of what has been handled, when a message *)
(* behind all that has been read before is added.                          *)
LEMMA HandledGrows ==
    ASSUME TcpTypeOK, StreamInv, tidy, NEW m \in DOMAIN sent,
           TidyReadsLoseNothing, \A n \in received : 4 * n <= Cursor,
           Cursor < 4 * m, received' = received \cup {m},
           handled' = Append(handled, PartsOf(m))
    PROVE  TidyReadsLoseNothing'
<1> DEFINE N == Len(handled)
<1>1. handled \in Seq(Seq(Part)) /\ received \subseteq 1..MaxMessages
  BY DEF TcpTypeOK
<1>2. N \in Nat /\ DOMAIN handled = 1..N
  BY <1>1, LenProperties
<1>3. m \in 1..MaxMessages /\ m \in Nat /\ Cursor \in Nat
  BY SentNumbers, CursorType
<1>4. PartsOf(m) \in Seq(Part)
  BY <1>3, PartsOfProperties
<1>5. /\ handled' \in Seq(Seq(Part)) /\ Len(handled') = N + 1
      /\ \A i \in 1..N : handled'[i] = handled[i]
      /\ handled'[N + 1] = PartsOf(m)
  BY <1>1, <1>4, AppendProperties
<1>6. DOMAIN handled' = 1..N + 1
  BY <1>5, LenProperties
<1> HIDE DEF N
<1>7. /\ \A n \in received : \E i \in 1..N : handled[i] = PartsOf(n)
      /\ \A i \in 1..N : \E n \in received : handled[i] = PartsOf(n)
      /\ \A i, j \in 1..N : i < j => handled[i][1].message < handled[j][1].message
  BY <1>2 DEF TidyReadsLoseNothing
<1>8. \A n \in 1..MaxMessages : PartsOf(n)[1].message = n
  <2>1. ASSUME NEW n \in 1..MaxMessages PROVE PartsOf(n)[1].message = n
    <3>1. \A i \in 1..4 : PartsOf(n)[i] = [message |-> n, part |-> i]
      BY PartsOfProperties
    <3>2. PartsOf(n)[1] = [message |-> n, part |-> 1]
      BY <3>1
    <3>3. QED
      BY <3>2
  <2>2. QED
    BY <2>1
<1>9. \A n \in received' : \E i \in 1..N + 1 : handled'[i] = PartsOf(n)
  <2>1. ASSUME NEW n \in received PROVE \E i \in 1..N + 1 : handled'[i] = PartsOf(n)
    <3>1. PICK i \in 1..N : handled[i] = PartsOf(n)
      BY <1>7
    <3>2. i \in 1..N + 1 /\ handled'[i] = PartsOf(n)
      BY <1>2, <1>5, <3>1
    <3>3. QED
      BY <3>2
  <2>2. N + 1 \in 1..N + 1 /\ handled'[N + 1] = PartsOf(m)
    BY <1>2, <1>5
  <2>3. QED
    BY <2>1, <2>2
<1>10. \A i \in 1..N + 1 : \E n \in received' : handled'[i] = PartsOf(n)
  <2>1. ASSUME NEW i \in 1..N + 1 PROVE \E n \in received' : handled'[i] = PartsOf(n)
    <3>1. CASE i = N + 1
      BY <1>5, <3>1
    <3>2. CASE i # N + 1
      <4>1. i \in 1..N
        BY <1>2, <3>2
      <4>2. QED
        BY <1>5, <1>7, <4>1
    <3>3. QED
      BY <3>1, <3>2
  <2>2. QED
    BY <2>1
<1>11. \A i, j \in 1..N + 1 :
           i < j => handled'[i][1].message < handled'[j][1].message
  <2>1. ASSUME NEW i \in 1..N + 1, NEW j \in 1..N + 1, i < j
        PROVE  handled'[i][1].message < handled'[j][1].message
    <3>1. i \in 1..N
      BY <1>2, <2>1
    <3>2. CASE j = N + 1
      <4>1. PICK n \in received : handled[i] = PartsOf(n)
        BY <1>7, <3>1
      <4>2. n \in 1..MaxMessages /\ 4 * n <= Cursor
        BY <1>1
      <4>3. n < m
        BY <1>3, <4>2
      <4>4. handled'[i] = PartsOf(n) /\ handled'[j] = PartsOf(m)
        BY <1>5, <3>1, <3>2, <4>1
      <4>5. QED
        BY <1>3, <1>8, <4>2, <4>3, <4>4
    <3>3. CASE j # N + 1
      <4>1. j \in 1..N
        BY <1>2, <3>3
      <4>2. handled'[i] = handled[i] /\ handled'[j] = handled[j]
        BY <1>5, <3>1, <4>1
      <4>3. QED
        BY <1>7, <2>1, <3>1, <4>1, <4>2
    <3>4. QED
      BY <3>2, <3>3
  <2>2. QED
    BY <2>1
<1>12. QED
  BY <1>6, <1>9, <1>10, <1>11 DEF TidyReadsLoseNothing

(* What comes next after a read that ends with part q of message m. *)
LEMMA NextPart ==
    ASSUME TcpTypeOK', StreamInv', unread' # <<>>,
           NEW m \in Nat \ {0}, NEW q \in {1, 2, 4}, Cursor' = 4 * (m - 1) + q
    PROVE  IF q = 4 THEN unread'[1].part = 1
           ELSE unread'[1].message = m /\ unread'[1].part = q + 1
<1>1. unread' \in Seq(Part)
  BY DEF TcpTypeOK
<1>2. Len(unread') \in Nat /\ DOMAIN unread' = 1..Len(unread') /\ Len(unread') # 0
  <2>1. Len(unread') \in Nat /\ DOMAIN unread' = 1..Len(unread')
    BY <1>1, LenProperties
  <2>2. Len(unread') = 0 => unread' = <<>>
    BY <1>1, EmptySeq
  <2>3. QED
    BY <2>1, <2>2
<1>3. 1 \in DOMAIN unread' /\ 1 \in 1..Len(unread')
  BY <1>2
<1>4. unread'[1] \in Part
  BY <1>1, <1>3, ElementOfSeq
<1>5. unread'[1].message \in Nat \ {0} /\ unread'[1].part \in {1, 2, 3, 4}
  BY <1>4, PartProperties
<1>6. 4 * (unread'[1].message - 1) + unread'[1].part = Cursor' + 1
  BY <1>3 DEF StreamInv, Position, Brace
<1> DEFINE x == unread'[1].message
           a == unread'[1].part
<1>7. x \in Nat \ {0} /\ a \in {1, 2, 3, 4} /\ 4 * (x - 1) + a = 4 * (m - 1) + q + 1
  BY <1>5, <1>6
<1> HIDE DEF x, a
<1>8. CASE q = 4
  <2>1. 4 * (x - 1) + a = 4 * (m + 1 - 1) + 1
    BY <1>7, <1>8
  <2>2. m + 1 \in Nat \ {0} /\ 1 \in {1, 2, 3, 4}
    OBVIOUS
  <2>3. a = 1
    BY <1>7, <2>1, <2>2, PositionIsOne
  <2>4. QED
    BY <1>8, <2>3 DEF a
<1>9. CASE q # 4
  <2>1. q + 1 \in {1, 2, 3, 4} /\ 4 * (x - 1) + a = 4 * (m - 1) + (q + 1)
    BY <1>7, <1>9
  <2>2. x = m /\ a = q + 1
    BY <1>7, <2>1, PositionIsOne
  <2>3. QED
    BY <1>9, <2>2 DEF x, a
<1>10. QED
  BY <1>8, <1>9

(* Steps that handle nothing. *)
LEMMA NothingHandled ==
    ASSUME TcpTypeOK, StreamInv, TidyInv, handled' = handled,
           received' = received, apart' = apart, tidy' = tidy,
           Cursor' \in Int, Cursor' >= Cursor, tidy => CacheInv'
    PROVE  TidyInv'
<1>1. Cursor \in Nat /\ received \subseteq 1..MaxMessages
  BY CursorType DEF TcpTypeOK
<1>2. TidyReadsLoseNothing'
  BY DEF TidyInv, TidyReadsLoseNothing
<1>3. ASSUME tidy, NEW n \in received PROVE 4 * n <= Cursor'
  <2>1. 4 * n <= Cursor /\ n \in Nat
    BY <1>1, <1>3 DEF TidyInv, Brace
  <2>2. QED
    BY <1>1, <2>1
<1>4. (tidy => apart /\ CacheInv)'
  BY DEF TidyInv
<1>5. (tidy => \A n \in received : 4 * n <= Cursor)'
  BY <1>3
<1>6. QED
  BY <1>2, <1>4, <1>5 DEF TidyInv, Brace

(* A tidy read leaves what has been read of a message in cache, or handles *)
(* the message.                                                            *)
LEMMA ReadStaysTidy ==
    ASSUME TcpTypeOK, TcpTypeOK', StreamInv, TidyInv, tidy, apart',
           NEW text \in Seq(Part), text # <<>>, Len(text) \in Nat \ {0},
           Len(text) <= Len(unread), \A i \in 1..Len(text) : text[i] = unread[i],
           unread' \in Seq(Part), Len(unread') = Len(unread) - Len(text),
           \A i \in 1..Len(unread') : unread'[i] = unread[Len(text) + i],
           onMessageResponseClient(text), Tidy(text),
           received' = received \cup EndedIn(text), sent' = sent
    PROVE  TidyInv'
<1>1. /\ apart /\ CacheInv /\ \A n \in received : 4 * n <= Cursor
      /\ TidyReadsLoseNothing
  BY DEF TidyInv, Brace
<1>2. PICK m \in DOMAIN sent, p \in {1, 2, 3, 4}, q \in {1, 2, 3, 4} :
        /\ Stretch(text, m, p, q)
        /\ unread[1] = [message |-> m, part |-> p] /\ unread # <<>>
        /\ Cursor + Len(text) = 4 * (m - 1) + q
  BY ReadIsStretch DEF Tidy
<1>3. /\ m \in Nat \ {0} /\ text[1].message = m /\ text[Len(text)].part = q
      /\ Len(text) \in Nat \ {0}
  BY <1>2, StretchEnds
<1>4. q # 3 /\ (sent[m] \/ IsMessage(text))
  BY <1>3 DEF Tidy, End
<1>5. StreamInv' /\ Cursor' = Cursor + Len(text) /\ Cursor \in Nat
  BY ReadMoves, CursorType
<1>6. Cursor' = 4 * (m - 1) + q /\ Cursor' \in Nat /\ Cursor' > Cursor
  BY <1>2, <1>3, <1>5
<1>7. q \in {1, 2, 4}
  BY <1>4
<1>8. unread' # <<>> => IF q = 4 THEN unread'[1].part = 1
                        ELSE unread'[1].message = m /\ unread'[1].part = q + 1
  BY <1>3, <1>5, <1>6, <1>7, NextPart
<1>9. CASE q \in {1, 2}
  <2>1. /\ sent[m] /\ handled' = handled /\ EndedIn(text) = {}
        /\ Stretch(cache', m, 1, q)
    BY <1>1, <1>2, <1>4, <1>9, MiddleIsKept
  <2>2. received' = received
    BY <2>1
  <2>3. Len(cache') = q /\ \A i \in 1..q : cache'[i] = [message |-> m, part |-> i]
    <3>1. /\ Len(cache') = q - 1 + 1
          /\ \A i \in 1..q - 1 + 1 : cache'[i] = [message |-> m, part |-> 1 + i - 1]
      BY <2>1 DEF Stretch
    <3>2. q - 1 + 1 = q /\ \A i \in 1..q : 1 + i - 1 = i
      BY <1>9
    <3>3. QED
      BY <3>1, <3>2
  <2>4. DOMAIN cache' = 1..q
    BY <2>3, LenProperties DEF TcpTypeOK
  <2>5. CacheInv'
    <3>1. ASSUME unread' # <<>> PROVE /\ unread'[1].message = m
                                      /\ unread'[1].part = q + 1
      BY <1>8, <1>9, <3>1
    <3>2. q + 1 # 4 /\ (q + 1) - 1 = q
      BY <1>9
    <3>3. sent'[m]
      BY <2>1
    <3>4. QED
      BY <2>3, <2>4, <3>1, <3>2, <3>3 DEF CacheInv, Brace
  <2>6. \A n \in received' : 4 * n <= Cursor'
    <3>1. \A n \in received : n \in Nat
      BY DEF TcpTypeOK
    <3>2. \A c, d, n \in Nat : 4 * n <= c /\ d > c => 4 * n <= d
      OBVIOUS
    <3>3. QED
      BY <1>1, <1>5, <1>6, <2>2, <3>1, <3>2
  <2>7. TidyReadsLoseNothing'
    BY <1>1, <2>1, <2>2 DEF TidyReadsLoseNothing
  <2>8. QED
    BY <2>5, <2>6, <2>7 DEF TidyInv, Brace
<1>10. CASE q = 4
  <2>1. handled' = Append(handled, PartsOf(m)) /\ EndedIn(text) = {m}
    BY <1>1, <1>2, <1>10, EndIsTaken
  <2>2. received' = received \cup {m}
    BY <2>1
  <2>3. Cursor' = 4 * m
    BY <1>3, <1>6, <1>10
  <2>4. Cursor < 4 * m
    BY <1>3, <1>5, <1>6, <2>3
  <2>5. CacheInv'
    BY <1>8, <1>10 DEF CacheInv, Start
  <2>6. \A n \in received' : 4 * n <= Cursor'
    <3>1. \A n \in received : n \in Nat
      BY DEF TcpTypeOK
    <3>2. \A c, d, n \in Nat : 4 * n <= c /\ d > c => 4 * n <= d
      OBVIOUS
    <3>3. \A n \in received : 4 * n <= Cursor'
      BY <1>1, <1>5, <1>6, <3>1, <3>2
    <3>4. 4 * m <= Cursor'
      BY <1>6, <2>3
    <3>5. QED
      BY <2>2, <3>3, <3>4
  <2>7. TidyReadsLoseNothing'
    BY <1>1, <2>1, <2>2, <2>4, HandledGrows
  <2>8. QED
    BY <2>5, <2>6, <2>7 DEF TidyInv, Brace
<1>11. QED
  BY <1>7, <1>9, <1>10

LEMMA NextTidy ==
    TcpTypeOK /\ StreamInv /\ TidyInv /\ [TcpNext]_tcpVars => TidyInv'
<1> SUFFICES ASSUME TcpTypeOK, StreamInv, TidyInv, [TcpNext]_tcpVars
             PROVE  TidyInv'
  OBVIOUS
<1>0. Cursor \in Nat /\ TcpTypeOK'
  BY CursorType, NextTcpType
<1>1. CASE UNCHANGED tcpVars
  <2>1. Cursor' = Cursor
    BY <1>1 DEF tcpVars, Cursor
  <2>2. Cursor' \in Int /\ Cursor' >= Cursor
    BY <1>0, <2>1
  <2>3. tidy => CacheInv'
    BY <1>1 DEF tcpVars, TidyInv, CacheInv
  <2>4. QED
    BY <1>1, <2>2, <2>3, NothingHandled DEF tcpVars
<1>2. ASSUME NEW kept \in BOOLEAN, Send(kept) PROVE TidyInv'
  <2>1. /\ Cursor' = Cursor /\ Len(unread) \in Nat
        /\ \A i \in 1..Len(unread) : unread'[i] = unread[i]
        /\ unread = <<>> => unread'[1].part = Start
        /\ \A n \in DOMAIN sent : sent'[n] = sent[n]
    BY <1>2, SendAppends
  <2>2. Cursor' \in Int /\ Cursor' >= Cursor
    BY <1>0, <2>1
  <2>3. ASSUME tidy PROVE CacheInv'
    <3>1. CASE unread = <<>>
      BY <2>1, <3>1 DEF CacheInv
    <3>2. CASE unread # <<>>
      <4>1. Len(unread) # 0 /\ unread \in Seq(Part)
        BY <3>2, EmptySeq DEF TcpTypeOK
      <4>2. 1 \in 1..Len(unread) /\ DOMAIN unread = 1..Len(unread)
        BY <2>1, <4>1, LenProperties
      <4>3. unread'[1] = unread[1] /\ unread[1] \in Part
        BY <2>1, <4>1, <4>2, ElementOfSeq
      <4>4. unread[1].message \in DOMAIN sent
        <5>1. /\ Len(sent) \in Nat /\ DOMAIN sent = 1..Len(sent)
              /\ Cursor = 4 * Len(sent) - Len(unread)
          BY CursorType
        <5>2. Position(unread[1]) = Cursor + 1
          BY <4>2 DEF StreamInv
        <5>3. /\ unread[1].message \in Nat \ {0} /\ unread[1].part \in {1, 2, 3, 4}
              /\ 4 * (unread[1].message - 1) + unread[1].part = Cursor + 1
          BY <4>3, <5>2, PartProperties DEF Position, Brace
        <5>4. \A c, n, u, x \in Nat, b \in {1, 2, 3, 4} :
                  /\ c = 4 * n - u /\ u # 0 /\ 4 * (x - 1) + b = c + 1 /\ x # 0
                  => x \in 1..n
          OBVIOUS
        <5>5. unread[1].message \in Nat /\ unread[1].message # 0
          BY <5>3
        <5>6. QED
          BY <1>0, <2>1, <4>1, <5>1, <5>3, <5>4, <5>5
      <4>5. sent'[unread[1].message] = sent[unread[1].message] /\ cache' = cache
        BY <1>2, <2>1, <4>4 DEF Send
      <4>6. CacheInv
        BY <2>3 DEF TidyInv
      <4>7. QED
        BY <3>2, <4>3, <4>5, <4>6 DEF CacheInv
    <3>3. QED
      BY <3>1, <3>2
  <2>4. QED
    BY <1>2, <2>2, <2>3, NothingHandled DEF Send
<1>3. CASE Reconnect
  <2>1. Cursor' >= Cursor /\ Cursor' \in Int
    <3>1. Len(unread') \in Nat /\ Len(sent') \in Nat
      BY <1>0, LenProperties DEF TcpTypeOK
    <3>2. Cursor' \in Int
      BY <3>1 DEF Cursor, Brace
    <3>3. QED
      BY <1>3, <3>2, BreakMoves
  <2>2. CacheInv'
    BY <1>3 DEF Reconnect, CacheInv
  <2>3. QED
    BY <1>3, <2>1, <2>2, NothingHandled DEF Reconnect
<1>4. CASE Read
  <2>1. PICK text \in Seq(Part) :
          /\ text # <<>> /\ Len(text) \in Nat \ {0} /\ Len(text) <= Len(unread)
          /\ \A i \in 1..Len(text) : text[i] = unread[i]
          /\ unread' \in Seq(Part) /\ Len(unread') = Len(unread) - Len(text)
          /\ \A i \in 1..Len(unread') : unread'[i] = unread[Len(text) + i]
          /\ onMessageResponseClient(text)
          /\ received' = received \cup EndedIn(text)
          /\ apart' = (apart /\ OfOneMessage(text))
          /\ tidy' = (tidy /\ Tidy(text))
          /\ sent' = sent
    BY <1>4, ReadTakes
  <2>2. CASE ~tidy'
    BY <2>2 DEF TidyInv, TidyReadsLoseNothing
  <2>3. CASE tidy'
    <3>1. tidy /\ Tidy(text)
      BY <2>1, <2>3
    <3>2. apart'
      BY <2>1, <3>1 DEF TidyInv, Tidy
    <3>3. QED
      BY <1>0, <2>1, <3>1, <3>2, ReadStaysTidy
  <2>4. QED
    BY <2>2, <2>3
<1>5. QED
  BY <1>1, <1>2, <1>3, <1>4 DEF TcpNext

LEMMA InitTidy == TcpInit => TidyInv
<1> SUFFICES ASSUME TcpInit PROVE TidyInv
  OBVIOUS
<1>1. unread = <<>> /\ handled = <<>> /\ received = {} /\ apart
  BY DEF TcpInit
<1>2. DOMAIN handled = {}
  BY <1>1
<1>3. QED
  BY <1>1, <1>2 DEF TidyInv, CacheInv, TidyReadsLoseNothing

(* While reads are tidy, exactly the messages that have been read to the   *)
(* end are handled, in their order, for any number of messages and however *)
(* often the connection breaks: what has been read of a message is in      *)
(* cache until its end is read.                                            *)
THEOREM TidyLosesNothing == TcpSpec => []TidyReadsLoseNothing
<1>1. TcpInit => TcpInv
  BY InitTcpType, InitStreamAndApart, InitTidy DEF TcpInv
<1>2. TcpInv /\ [TcpNext]_tcpVars => TcpInv'
  BY NextTcpType, NextStream, NextApart, NextTidy DEF TcpInv
<1>3. TcpInv => TidyReadsLoseNothing
  BY DEF TcpInv, TidyInv
<1>4. QED
  BY <1>1, <1>2, <1>3, PTL DEF TcpSpec
=============================================================================
