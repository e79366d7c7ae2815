----------------------------- MODULE TcpMessages -----------------------------
(***************************************************************************)
(* How MainActivity puts messages of the server together again.  TCP hands *)
(* the text over in reads of any length; onMessageResponseClient takes a   *)
(* read as a message, as the beginning of one, which it keeps in cache, or *)
(* as the rest of what is there.  It looks at the first and the last       *)
(* characters only, and cache is never emptied.                            *)
(*                                                                         *)
(* The text of a message is cut here into four parts: its beginning with   *)
(* the type, its middle, the end of its data, which is a brace, and the    *)
(* brace that ends the message.  The first two end within a string.  What  *)
(* a message makes the app do is in the modules of the other components.   *)
(***************************************************************************)
EXTENDS Naturals, Sequences

CONSTANTS
    MaxMessages     \* bound: messages of the server

ASSUME TcpAssumption == MaxMessages \in Nat

VARIABLES
    sent,           \* for each message: is its type one of the three that are kept
    unread,         \* parts on their way
    cache,
    handled,        \* messages taken, as the parts they were read from
    received,       \* history: the messages that have been read to the end
    apart,          \* history: no read held parts of two messages
    tidy            \* history: every read was tidy, see Tidy

tcpVars == <<sent, unread, cache, handled, received, apart, tidy>>

Start == 1
Middle == 2
End == 3
Brace == 4

Part == [message : 1..MaxMessages, part : Start..Brace]

(* Variant of PartsOf: there is one part more. *)
PartsOfMore(n) == [k \in Start..(Brace + 1) |-> [message |-> n, part |-> k]]

PartsOf(n) == [k \in Start..Brace |-> [message |-> n, part |-> k]]

StartsWithBrace(text) == text # <<>> /\ text[1].part = Start
EndsWithBrace(text)   == text # <<>> /\ text[Len(text)].part \in {End, Brace}

(* QrReturn, GQrReturn or nearByFeatrueSend. *)
StartsWithKeptType(text) == StartsWithBrace(text) /\ sent[text[1].message]

(* The text may be read as one object: strings may go on in another part.  *)
IsObject(text) ==
    /\ Len(text) > 2
    /\ text[1].part = Start
    /\ \A i \in 2..(Len(text) - 2) : text[i].part = Middle
    /\ text[Len(text) - 1].part = End /\ text[Len(text)].part = Brace

IsMessage(text) == \E n \in DOMAIN sent : text = PartsOf(n)

OfOneMessage(text) == \A i \in DOMAIN text : text[i].message = text[1].message

(* A read that is part of one message, the whole of it or of a type that   *)
(* is kept, and does not end with the brace before the last.               *)
Tidy(text) ==
    /\ OfOneMessage(text)
    /\ text[Len(text)].part # End
    /\ sent[text[1].message] \/ IsMessage(text)

TcpInit ==
    /\ sent = <<>> /\ unread = <<>> /\ cache = <<>>
    /\ handled = <<>> /\ received = {}
    /\ apart = TRUE /\ tidy = TRUE

----------------------------------------------------------------------------
(* The server sends a message. *)
Send(kept) ==
    /\ Len(sent) < MaxMessages
    /\ sent' = Append(sent, kept)
    /\ unread' = unread \o PartsOf(Len(sent) + 1)
    /\ UNCHANGED <<cache, handled, received, apart, tidy>>

(* The connection breaks, or ResidentService reconnects it: what has not   *)
(* been read is lost, cache is not.                                        *)
Reconnect ==
    /\ unread # <<>>
    /\ unread' = <<>>
    /\ UNCHANGED <<sent, cache, handled, received, apart, tidy>>

(* Variant of Keep: the text is added to what is there. *)
KeepAdds(text) ==
    /\ StartsWithKeptType(text) /\ ~EndsWithBrace(text)
    /\ cache' = cache \o text
    /\ UNCHANGED handled

(* The beginning of a message. *)
Keep(text) ==
    /\ StartsWithKeptType(text) /\ ~EndsWithBrace(text)
    /\ cache' = text
    /\ UNCHANGED handled

(* A piece in between. *)
Add(text) ==
    /\ ~StartsWithBrace(text) /\ ~EndsWithBrace(text)
    /\ cache' = cache \o text
    /\ UNCHANGED handled

(* Variant of tcpResponse: what is in cache comes first, whatever was read. *)
tcpResponseCached(text) == cache \o text

(* The text that is parsed. *)
tcpResponse(text) == IF StartsWithBrace(text) THEN text ELSE cache \o text

(* The first object of the text is taken, what follows it is not seen.     *)
(* Parts of several messages may make an object or an exception.           *)
Parse(text) ==
    \/ /\ StartsWithBrace(text) /\ EndsWithBrace(text)
       /\ \E k \in DOMAIN text : /\ IsObject(SubSeq(text, 1, k))
                                 /\ handled' = Append(handled, SubSeq(text, 1, k))
    \/ /\ ~(/\ StartsWithBrace(text) /\ EndsWithBrace(text)
            /\ \E k \in DOMAIN text : IsMessage(SubSeq(text, 1, k)))
       /\ UNCHANGED handled

(* Variant of Take: the joined text stays in cache. *)
TakeKeeps(text) ==
    /\ IF StartsWithBrace(text) THEN EndsWithBrace(text) \/ ~StartsWithKeptType(text)
       ELSE EndsWithBrace(text)
    /\ Parse(tcpResponse(text))
    /\ cache' = IF StartsWithBrace(text) THEN cache ELSE tcpResponse(text)

(* The rest of a message, a whole one, or neither. *)
Take(text) ==
    /\ IF StartsWithBrace(text) THEN EndsWithBrace(text) \/ ~StartsWithKeptType(text)
       ELSE EndsWithBrace(text)
    /\ Parse(tcpResponse(text))
    /\ UNCHANGED cache

onMessageResponseClient(text) == Keep(text) \/ Add(text) \/ Take(text)

(* The messages whose last part is in the text. *)
EndedIn(text) ==
    {text[i].message : i \in {j \in DOMAIN text : text[j].part = Brace}}

(* A read of any length. *)
Read ==
    \E k \in DOMAIN unread :
        LET text == SubSeq(unread, 1, k)
        IN /\ onMessageResponseClient(text)
           /\ unread' = SubSeq(unread, k + 1, Len(unread))
           /\ received' = received \cup EndedIn(text)
           /\ apart' = (apart /\ OfOneMessage(text))
           /\ tidy' = (tidy /\ Tidy(text))
           /\ UNCHANGED sent

TcpNext == (\E kept \in BOOLEAN : Send(kept)) \/ Read \/ Reconnect

TcpSpec == TcpInit /\ [][TcpNext]_tcpVars

----------------------------------------------------------------------------
(* What each variable holds. *)
TcpTypeOK ==
    /\ sent \in Seq(BOOLEAN) /\ Len(sent) <= MaxMessages
    /\ unread \in Seq(Part) /\ cache \in Seq(Part)
    /\ handled \in Seq(Seq(Part))
    /\ received \subseteq 1..MaxMessages
    /\ apart \in BOOLEAN /\ tidy \in BOOLEAN

(* As long as only messages of the three types are cut, never before their *)
(* last brace, and no read holds parts of two, exactly the messages that   *)
(* have been read to the end have been handled, in their order: also after *)
(* connections that broke in the middle of a message.                      *)
TidyReadsLoseNothing ==
    tidy => /\ \A n \in received : \E i \in DOMAIN handled : handled[i] = PartsOf(n)
            /\ \A i \in DOMAIN handled : \E n \in received : handled[i] = PartsOf(n)
            /\ \A i, j \in DOMAIN handled :
                  i < j => handled[i][1].message < handled[j][1].message

(* A message that comes in a read of its own is handled then, whatever an  *)
(* earlier read has left in cache.                                         *)
WholeMessagesAreHandled ==
    [][\A n \in DOMAIN sent :
          unread = PartsOf(n) \o unread' /\ received' # received
          => handled' = Append(handled, PartsOf(n))]_tcpVars

(* Cache is never emptied, and still no message is handled a second time   *)
(* unless a read has held parts of two messages.                           *)
NothingIsReplayed ==
    apart => \A i, j \in DOMAIN handled :
                IsMessage(handled[i]) /\ handled[i] = handled[j] => i = j
=============================================================================
