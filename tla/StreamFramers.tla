---------------------------- MODULE StreamFramers ----------------------------
(***************************************************************************)
(* The framers of a stream connection (stream.go): sipFramer finds message *)
(* boundaries in SIP over a byte stream, wsFramer the frames of a          *)
(* WebSocket. Reads cut the stream anywhere; Feed is one read. Each runs   *)
(* beside a reader that looks at one byte at a time.                       *)
(*                                                                         *)
(* SIP bytes are "r", "n" and the symbols "1" and "2": a Content-Length    *)
(* header of that value when they are a whole line, other text elsewhere.  *)
(* WebSocket bytes are numbers; a length above WsMax is kept as WsMax + 1  *)
(* (in the code also one whose 64 bits turn negative, which closes alike). *)
(***************************************************************************)
EXTENDS Naturals, Sequences, FiniteSets

LOCAL INSTANCE SequencesExt

CONSTANTS MaxMessage, MaxRead,         \* maxMessage; the longest read
          WsBytes, WsMax, UpgradeMax

VARIABLES sip, sipRef, ws, wsRef

vars == <<sip, sipRef, ws, wsRef>>

Bytes == {"r", "n", "1", "2"}
Reads(S) == UNION {[1..k -> S] : k \in 1..MaxRead}
Least(a, b) == IF a < b THEN a ELSE b
From(p, k) == SubSeq(p, k + 1, Len(p))

----------------------------------------------------------------------------
(* sipFramer.                                                              *)

CRLF == <<"r", "n">>
Value(b) == IF b = "1" THEN 1 ELSE 2

\* The lines of a header block.
Lines(head) ==
    LET ends == {0} \cup {i \in 2..Len(head) : SubSeq(head, i - 1, i) = CRLF}
    IN {SubSeq(head, i + 1, j - 2) :
          <<i, j>> \in {x \in ends \X ends : /\ x[1] < x[2]
                                            /\ \A k \in ends : ~(x[1] < k /\ k < x[2])}}

\* contentLength: none is 0, values that disagree are malformed (MaxMessage + 1
\* stands for that).
ContentLength(head) ==
    LET values == {Value(l[1]) : l \in {l \in Lines(head) : l \in {<<"1">>, <<"2">>}}}
    IN CASE values = {} -> 0
         [] Cardinality(values) = 1 -> CHOOSE v \in values : TRUE
         [] OTHER -> MaxMessage + 1

SearchFromEnd(old) == old

\* Where the search for the empty line starts again: it may have begun in
\* an earlier read.
SearchFrom(old) == IF old > 3 THEN old - 3 ELSE 0

EndOfHead(head, from) ==
    {i \in (from + 4)..Len(head) : SubSeq(head, i - 3, i) = CRLF \o CRLF}

Skipped(p) == {i \in 1..Len(p) : p[i] \notin {"r", "n"}}

RECURSIVE SipLoop(_, _)
SipLoop(f, p) ==
    IF p = <<>> \/ f.bad # "none" THEN f
    ELSE CASE f.state = "idle" ->
                IF Skipped(p) = {} THEN f
                ELSE LET i == CHOOSE i \in Skipped(p) : \A j \in Skipped(p) : i <= j
                     IN SipLoop([f EXCEPT !.state = "head", !.head = <<>>, !.began = @ + 1],
                                From(p, i - 1))
           [] f.state = "head" ->
                LET old == Len(f.head)
                    take == Least(Len(p), MaxMessage - old)
                    head == f.head \o SubSeq(p, 1, take)
                    found == EndOfHead(head, SearchFrom(old))
                    end == CHOOSE i \in found : \A j \in found : i <= j
                    n == ContentLength(SubSeq(head, 1, end))
                IN IF found = {}
                   THEN IF take < Len(p) \/ Len(head) >= MaxMessage THEN [f EXCEPT !.bad = "oversize"]
                        ELSE [f EXCEPT !.head = head]
                   ELSE IF n > MaxMessage THEN [f EXCEPT !.bad = "malformed"]
                   ELSE IF end + n > MaxMessage THEN [f EXCEPT !.bad = "oversize"]
                   ELSE SipLoop([f EXCEPT !.state = IF n = 0 THEN "idle" ELSE "body",
                                          !.left = n, !.head = <<>>], From(p, end - old))
           [] OTHER ->
                LET take == Least(f.left, Len(p))
                IN SipLoop([f EXCEPT !.left = @ - take,
                                     !.state = IF f.left = take THEN "idle" ELSE "body"],
                           From(p, take))

\* feed: one charge per message begun, and one for a read of CRLFs only.
SipFeed(f, p) ==
    LET g == SipLoop([f EXCEPT !.began = 0], p)
    IN [g EXCEPT !.charges = IF f.state = "idle" /\ g.began = 0 THEN 1 ELSE g.began]

SipInit == [state |-> "idle", head |-> <<>>, left |-> 0, began |-> 0, charges |-> 0, bad |-> "none"]

----------------------------------------------------------------------------
(* wsFramer.                                                               *)

Cap(n) == IF n > WsMax THEN WsMax + 1 ELSE n
Opcode(b) == b % 16
Length7(b) == b % 128
HeaderSize(b) == 2 + (CASE Length7(b) = 126 -> 2 [] Length7(b) = 127 -> 8 [] OTHER -> 0)
                   + (IF b >= 128 THEN 4 ELSE 0)
Extended(h) == IF Length7(h[2]) = 126 THEN 3..4 ELSE IF Length7(h[2]) = 127 THEN 3..10 ELSE {}

\* The payload length of a complete header.
PayloadLength(h) ==
    IF Extended(h) = {} THEN Cap(Length7(h[2]))
    ELSE FoldLeft(LAMBDA n, b : Cap(256 * n + b), 0, SubSeq(h, 3, 2 + Cardinality(Extended(h))))

\* Progress through the CRLFCRLF that ends the upgrade request (13 10 13 10).
Match(m, b) == CASE b = 13 /\ m \in {0, 2} -> m + 1
                 [] b = 10 /\ m \in {1, 3} -> m + 1
                 [] b = 13 -> 1
                 [] OTHER -> 0

RECURSIVE WsLoop(_, _)
WsLoop(f, p) ==
    IF p = <<>> \/ f.bad # "none" THEN f
    ELSE CASE f.state = "http" ->
                LET k == Match(f.match, p[1])
                IN IF k = 4 THEN WsLoop([f EXCEPT !.state = "head", !.match = 0, !.read = 0, !.need = 2], Tail(p))
                   ELSE IF f.read + 1 > UpgradeMax THEN [f EXCEPT !.bad = "malformed"]
                   ELSE WsLoop([f EXCEPT !.match = k, !.read = @ + 1], Tail(p))
           [] f.state = "head" ->
                LET take == Least(f.need - Len(f.hdr), Len(p))
                    h == f.hdr \o SubSeq(p, 1, take)
                    need == IF f.need = 2 /\ Len(h) = 2 THEN HeaderSize(h[2]) ELSE f.need
                    n == PayloadLength(h)
                IN IF Len(h) < need
                   THEN WsLoop([f EXCEPT !.hdr = h, !.need = need], From(p, take))
                   ELSE IF n > WsMax THEN [f EXCEPT !.bad = "oversize"]
                   ELSE WsLoop([f EXCEPT !.hdr = <<>>, !.need = 2, !.left = n,
                                         !.state = IF n = 0 THEN "head" ELSE "payload",
                                         !.data = IF Opcode(h[1]) \in {1, 2} THEN @ + 1 ELSE @,
                                         !.charges = IF Opcode(h[1]) \in {1, 2} THEN @ ELSE @ + 1],
                               From(p, take))
           [] OTHER ->
                LET take == Least(f.left, Len(p))
                IN WsLoop([f EXCEPT !.left = @ - take,
                                    !.state = IF f.left = take THEN "head" ELSE "payload"],
                          From(p, take))

WsFeed(f, p) == WsLoop([f EXCEPT !.charges = 0, !.data = 0], p)

WsInit == [state |-> "http", match |-> 0, read |-> 0, hdr |-> <<>>, need |-> 2, left |-> 0,
           charges |-> 0, data |-> 0, bad |-> "none"]

----------------------------------------------------------------------------
(* The reference readers: RFC 3261 18.3 and RFC 6455 5.2, byte by byte.    *)

\* A SIP message: run is how much of CRLFCRLF has been read, line what the
\* line so far is, n the Content-Length.
SipByte(r, b) ==
    LET run == CASE b = "r" /\ r.run \in {0, 2} -> r.run + 1
                 [] b = "n" /\ r.run \in {1, 3} -> r.run + 1
                 [] b = "r" -> 1
                 [] OTHER -> 0
        named == r.line \in {"1", "2"} /\ run = 2
        n == IF ~named THEN r.n
             ELSE IF r.n \in {0, Value(r.line)} THEN Value(r.line) ELSE MaxMessage + 1
        line == CASE run = 2 \/ run = 4 -> "start"
                  [] run \in {1, 3} /\ r.run \in {0, 2} -> r.line
                  [] r.line = "start" /\ r.run \in {0, 2} -> b
                  [] OTHER -> "text"
    IN CASE r.bad # "none" -> r
         [] r.mode = "idle" /\ b \in {"r", "n"} -> r
         [] r.mode = "body" -> [r EXCEPT !.left = @ - 1, !.mode = IF r.left = 1 THEN "idle" ELSE "body"]
         [] run = 4 /\ n > MaxMessage -> [r EXCEPT !.bad = "malformed"]
         [] run = 4 /\ r.len + 1 + n > MaxMessage -> [r EXCEPT !.bad = "oversize"]
         [] run = 4 -> [r EXCEPT !.mode = IF n = 0 THEN "idle" ELSE "body", !.left = n,
                                 !.run = 0, !.line = "start", !.n = 0, !.len = 0]
         [] r.len + 1 >= MaxMessage -> [r EXCEPT !.bad = "oversize", !.began = IF r.mode = "idle" THEN @ + 1 ELSE @]
         [] OTHER -> [r EXCEPT !.mode = "head", !.run = run, !.line = line, !.n = n, !.len = @ + 1,
                               !.began = IF r.mode = "idle" THEN @ + 1 ELSE @]

SipRefInit == [mode |-> "idle", run |-> 0, line |-> "start", n |-> 0, len |-> 0, left |-> 0,
               began |-> 0, bad |-> "none"]

\* A WebSocket stream: tail is the end of the upgrade request, hdr the header
\* so far.
WsByte(r, b) ==
    LET tail == LET t == Append(r.tail, b) IN IF Len(t) > 4 THEN Tail(t) ELSE t
        h == Append(r.hdr, b)
        whole == Len(h) >= 2 /\ Len(h) = HeaderSize(h[2])
        n == PayloadLength(h)
        data == Opcode(h[1]) \in {1, 2}
    IN CASE r.bad # "none" -> r
         [] r.mode = "http" /\ tail = <<13, 10, 13, 10>> -> [r EXCEPT !.mode = "frames", !.tail = <<>>, !.read = 0]
         [] r.mode = "http" /\ r.read + 1 > UpgradeMax -> [r EXCEPT !.bad = "malformed"]
         [] r.mode = "http" -> [r EXCEPT !.tail = tail, !.read = @ + 1]
         [] r.left > 0 -> [r EXCEPT !.left = @ - 1]
         [] ~whole -> [r EXCEPT !.hdr = h]
         [] n > WsMax -> [r EXCEPT !.bad = "oversize"]
         [] OTHER -> [r EXCEPT !.hdr = <<>>, !.left = n,
                               !.data = IF data THEN @ + 1 ELSE @, !.other = IF data THEN @ ELSE @ + 1]

WsRefInit == [mode |-> "http", tail |-> <<>>, read |-> 0, hdr |-> <<>>, left |-> 0,
              data |-> 0, other |-> 0, bad |-> "none"]

----------------------------------------------------------------------------
Init == sip = SipInit /\ sipRef = SipRefInit /\ ws = WsInit /\ wsRef = WsRefInit

\* A connection is of one kind.
SipRead ==
    /\ sip.bad = "none" /\ ws = WsInit
    /\ \E p \in Reads(Bytes) :
          /\ sip' = SipFeed(sip, p)
          /\ sipRef' = FoldLeft(SipByte, [sipRef EXCEPT !.began = 0], p)
    /\ UNCHANGED <<ws, wsRef>>

WsRead ==
    /\ ws.bad = "none" /\ sip = SipInit
    /\ \E p \in Reads(WsBytes) :
          /\ ws' = WsFeed(ws, p)
          /\ wsRef' = FoldLeft(WsByte, [wsRef EXCEPT !.data = 0, !.other = 0], p)
    /\ UNCHANGED <<sip, sipRef>>

Next == SipRead \/ WsRead

Spec == Init /\ [][Next]_vars

----------------------------------------------------------------------------
\* However a stream is cut into reads, sipFramer follows the messages a
\* byte-by-byte reader sees: the same messages begin and are charged for,
\* the same one is partial, and the same byte closes the connection as
\* malformed or oversize (feed, contentLength).
SipFraming ==
    /\ sip.bad = sipRef.bad
    /\ sip.bad = "none" =>
         /\ sip.state = sipRef.mode /\ sip.left = sipRef.left /\ Len(sip.head) = sipRef.len
         /\ sip.began = sipRef.began

\* wsFramer likewise: the same frames are charged for or counted as the
\* read filter's, the same header or payload is pending, and what is too
\* long closes (feed).
WsFraming ==
    /\ ws.bad = wsRef.bad
    /\ ws.bad = "none" =>
         /\ (ws.state = "http") = (wsRef.mode = "http")
         /\ ws.hdr = wsRef.hdr /\ ws.left = wsRef.left
         /\ ws.charges = wsRef.other /\ ws.data = wsRef.data
=============================================================================
