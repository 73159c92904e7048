------------------------------ MODULE DnsServer ------------------------------
(***************************************************************************)
(* One of the DNS servers of internal/webfilter: the handlers of the       *)
(* queries it receives over UDP and TCP, which share the server's slots,   *)
(* and the decoder that finds the name asked for, one step per label or    *)
(* compression pointer.  A query whose name is blocked is refused          *)
(* (NXDOMAIN), everything else, malformed packets included, goes to the    *)
(* upstream resolver, which may be slow or silent, as clients may be.      *)
(*                                                                         *)
(* A packet is a sequence of octets: a header, of which the first octet    *)
(* stands for the number of questions, the name, and a trailer, the type   *)
(* and class.  Offsets count from 0, as in the code.                       *)
(***************************************************************************)
EXTENDS Integers, SequencesExt

CONSTANTS
  Clients,    \* each has at most one query under way
  Packets,    \* what clients may send
  Lower,      \* strings.ToLower, on octets
  Blocked,    \* the texts of the blocked names, in lower case
  HeaderSize, \* 12 in the code
  TrailerSize,\* 4 in the code
  MaxDepth,   \* pointers that are followed: 16 in the code
  Slots       \* handlers of a server: 128 in the code

Dot == 46

ASSUME PacketsAssumption == \A p \in Packets : p \in Seq(0..255)
ASSUME LowerAssumption == Lower \in [0..255 -> 0..255]
ASSUME NamesAssumption == \A name \in Blocked : name \in Seq(0..255)
ASSUME SizesAssumption == /\ HeaderSize \in Nat \ {0} /\ TrailerSize \in Nat
                          /\ MaxDepth \in Nat /\ Slots \in Nat \ {0}

VARIABLES
  serving,    \* the transports whose loops run
  buffer,     \* the buffer of serveUDP, used for every datagram
  handler     \* the goroutine that serves each client's query

vars == <<serving, buffer, handler>>

Idle == [stage |-> "none", over |-> "none", query |-> <<>>, offset |-> 0,
         text |-> <<>>, jumps |-> 0, next |-> 0]

Move(c, h) == handler' = [handler EXCEPT ![c] = h]
Go(c, stage) == Move(c, [handler[c] EXCEPT !.stage = stage])

Free == Cardinality({c \in Clients : handler[c].stage # "none"}) < Slots

-----------------------------------------------------------------------------
(* serveUDP, serveTCP, handleTCP *)

\* questionName: exactly one question, and the name follows the header.
Begin(c, over, p) ==
  Move(c, [Idle EXCEPT !.over = over, !.query = p, !.offset = HeaderSize, !.next = HeaderSize,
             !.stage = IF Len(p) >= HeaderSize /\ p[1] = 1 THEN "decode" ELSE "dial"])

\* A datagram is read into the buffer, copied, and dropped when no slot is free.
ReceiveUDP(c) ==
  /\ "udp" \in serving
  /\ \E p \in Packets :
       /\ buffer' = p
       /\ IF handler[c] = Idle /\ Free THEN Begin(c, "udp", p) ELSE UNCHANGED handler
  /\ UNCHANGED serving

\* A connection without a free slot is closed.
AcceptTCP(c) ==
  /\ "tcp" \in serving /\ handler[c] = Idle /\ Free
  /\ Move(c, [Idle EXCEPT !.stage = "read", !.over = "tcp"])
  /\ UNCHANGED <<serving, buffer>>

ReadTCP(c) ==
  /\ handler[c].stage = "read"
  /\ \E p \in Packets : Begin(c, "tcp", p)
  /\ UNCHANGED <<serving, buffer>>

\* Mistake: the client's connection has no deadline.
Expires_Upstream(c) == handler[c].stage \in {"refuse", "dial", "upstream"}

\* The stages of a handler that a deadline ends: reading from the client, the
\* dial, waiting for upstream.  An answer, of the filter or of upstream, ends it
\* as well; so does a write that fails because the server was closed.
Expires(c) == handler[c].stage \in {"read", "refuse", "dial", "upstream"}

Done(c) == Expires(c) /\ Move(c, Idle) /\ UNCHANGED <<serving, buffer>>

Dialled(c) ==
  /\ handler[c].stage = "dial"
  /\ Go(c, "upstream")
  /\ UNCHANGED <<serving, buffer>>

\* close, or an error of one loop, which ends that loop alone.
LoopEnds(over) ==
  /\ over \in serving
  /\ serving' = serving \ {over}
  /\ UNCHANGED <<buffer, handler>>

-----------------------------------------------------------------------------
(* questionName and decodeName *)

\* Mistake: the handler works on the buffer itself.
Query_Shared(h) == IF h.over = "udp" THEN buffer ELSE h.query

Query(h) == h.query

Inside(h, offset) == offset < Len(Query(h))
Octet(h) == Query(h)[h.offset + 1]
Pointer(h) == (Octet(h) - 192) * 256 + Query(h)[h.offset + 2]

\* Where the question goes on after the name: a pointer ends it.
After(h, width) == IF h.jumps = 0 THEN h.offset + width ELSE h.next

\* Mistake: one pointer too many is followed.
TooDeep_Late(h) == h.jumps > MaxDepth

TooDeep(h) == h.jumps >= MaxDepth

WellFormed(h) ==
  /\ Inside(h, h.offset)
  /\ Octet(h) \notin 64..191
  /\ Octet(h) \in 1..63 => Inside(h, h.offset + Octet(h))
  /\ Octet(h) >= 192 => Inside(h, h.offset + 1) /\ Inside(h, Pointer(h)) /\ ~TooDeep(h)
  /\ Octet(h) = 0 => After(h, 1) + TrailerSize <= Len(Query(h))

DecodeFails(c) ==
  /\ handler[c].stage = "decode" /\ ~WellFormed(handler[c])
  /\ Go(c, "dial")
  /\ UNCHANGED <<serving, buffer>>

\* Mistake: labels without a dot between them.
Join_NoDot(text, more) == text \o more

\* strings.Join, one text after the other, of which an empty one is left out.
Join(text, more) ==
  IF text = <<>> THEN more ELSE IF more = <<>> THEN text ELSE text \o <<Dot>> \o more

DecodeLabel(c) ==
  LET h == handler[c]
      n == Octet(h)
  IN  /\ h.stage = "decode" /\ WellFormed(h) /\ n \in 1..63
      /\ Move(c, [h EXCEPT !.offset = @ + 1 + n, !.next = After(h, 1 + n),
                   !.text = Join(@, SubSeq(Query(h), h.offset + 2, h.offset + 1 + n))])
      /\ UNCHANGED <<serving, buffer>>

DecodePointer(c) ==
  LET h == handler[c]
  IN  /\ h.stage = "decode" /\ WellFormed(h) /\ Octet(h) >= 192
      /\ Move(c, [h EXCEPT !.offset = Pointer(h), !.next = After(h, 2), !.jumps = @ + 1])
      /\ UNCHANGED <<serving, buffer>>

\* A dot at the end is dropped, and so is the case.
Trim(text) == IF text # <<>> /\ Last(text) = Dot THEN Front(text) ELSE text
LowerCase(text) == [i \in DOMAIN text |-> Lower[text[i]]]

\* Mistake: any suffix of the text will do.
Matches_Text(text) == \E name \in Blocked : IsSuffix(name, text)

\* matchesDomain cuts off the text up to one dot after the other.
Matches(text) ==
  \E cut \in {0} \cup {i \in DOMAIN text : text[i] = Dot} :
    SubSeq(text, cut + 1, Len(text)) \in Blocked

DecodeEnds(c) ==
  LET h == handler[c]
  IN  /\ h.stage = "decode" /\ WellFormed(h) /\ Octet(h) = 0
      /\ Go(c, IF Matches(LowerCase(Trim(h.text))) THEN "refuse" ELSE "dial")
      /\ UNCHANGED <<serving, buffer>>

-----------------------------------------------------------------------------
Init == serving = {"udp", "tcp"} /\ buffer = <<>> /\ handler = [c \in Clients |-> Idle]

Decode(c) == DecodeFails(c) \/ DecodeLabel(c) \/ DecodePointer(c) \/ DecodeEnds(c)

Next ==
  \/ \E c \in Clients : ReceiveUDP(c) \/ AcceptTCP(c) \/ ReadTCP(c) \/ Done(c) \/ Dialled(c) \/ Decode(c)
  \/ \E over \in serving : LoopEnds(over)

Spec == Init /\ [][Next]_vars

\* Handlers run, and time passes; nothing is assumed of clients and upstream.
FairSpec == Spec /\ \A c \in Clients : WF_vars(Decode(c)) /\ WF_vars(Done(c))

-----------------------------------------------------------------------------
(* What is promised *)

\* Every variable has its type; the decoder has read nothing past the packet.
TypeOK ==
  /\ serving \subseteq {"udp", "tcp"}
  /\ buffer \in Packets \cup {<<>>}
  /\ \A c \in Clients :
       /\ handler[c].stage \in {"none", "read", "decode", "refuse", "dial", "upstream"}
       /\ handler[c].over \in {"none", "udp", "tcp"}
       /\ handler[c].query \in Packets \cup {<<>>}
       /\ handler[c].jumps \in 0..MaxDepth
       /\ handler[c].stage = "decode" => {handler[c].offset, handler[c].next} \subseteq 0..Len(handler[c].query)

\* The format of a name (RFC 1035, 4.1.4), at an offset: an octet 0 ends it, a
\* label goes before the name after it, a pointer stands for the name it leads to.
Label(p, o) == SubSeq(p, o + 2, o + 1 + p[o + 1])
Target(p, o) == 256 * (p[o + 1] - 192) + p[o + 2]
IsEnd(p, o) == o < Len(p) /\ p[o + 1] = 0
IsLabel(p, o) == o < Len(p) /\ p[o + 1] \in 1..63 /\ o + p[o + 1] < Len(p)
IsPointer(p, o) == o + 1 < Len(p) /\ p[o + 1] >= 192 /\ Target(p, o) < Len(p)

Before(label, text) == IF text = <<>> THEN label ELSE label \o <<Dot>> \o text

\* The names, at most one, that stand at offset o when d pointers led there, each with
\* the offset it ends at, given those that stand elsewhere.
NamesAt(names, p, o, d) ==
  CASE IsEnd(p, o) -> {[text |-> <<>>, end |-> o + 1]}
    [] IsLabel(p, o) ->
         {[text |-> Before(Label(p, o), name.text), end |-> name.end] :
            name \in names[<<o + 1 + p[o + 1], d>>]}
    [] IsPointer(p, o) /\ d < MaxDepth ->
         {[text |-> name.text, end |-> o + 2] : name \in names[<<Target(p, o), d + 1>>]}
    [] OTHER -> {}

Names(p) ==
  LET names[x \in (0..Len(p)) \X (0..MaxDepth)] == NamesAt(names, p, x[1], x[2]) IN names

\* The texts a packet asks for: that of its only question, if the packet has all of it.
Asks(p) ==
  IF Len(p) >= HeaderSize /\ p[1] = 1
  THEN {name.text : name \in {n \in Names(p)[<<HeaderSize, 0>>] : n.end + TrailerSize <= Len(p)}}
  ELSE {}

\* A packet asks for a blocked domain or one below it, in whatever case.
AsksBlocked(p) ==
  \E text \in Asks(p), name \in Blocked :
    LET asked == LowerCase(Trim(text)) IN asked = name \/ IsSuffix(<<Dot>> \o name, asked)

\* A query for a blocked domain, or for one below it, however it is spelled and
\* whatever other datagrams arrive meanwhile, is refused and never reaches the
\* upstream resolver; nothing else is refused, not a name that merely ends alike,
\* nor a packet that asks for nothing (docs/MANUAL-TESTS.md, WEB-01 to WEB-03).
BlockedIsRefused ==
  \A c \in Clients :
    /\ handler[c].stage \in {"dial", "upstream"} => ~AsksBlocked(handler[c].query)
    /\ handler[c].stage = "refuse" => AsksBlocked(handler[c].query)

\* Every slot is given back, whatever clients and the upstream resolver do, and
\* wherever the pointers of a packet lead: silence does not end name resolution.
SlotsReturn == \A c \in Clients : handler[c].stage # "none" ~> handler[c].stage = "none"
=============================================================================
