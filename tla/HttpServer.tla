----------------------------- MODULE HttpServer -----------------------------
(***************************************************************************)
(* The HTTP server: a detached thread per connection reads one request,    *)
(* decides when it is complete, does what it asks, answers and closes.     *)
(*                                                                         *)
(* A request is a sequence of parts: the target up to the middle of its    *)
(* key, the rest of the key and the headers, the blank line, and the body, *)
(* by its length or in chunks.  A recv returns any number of them.  What   *)
(* an operation does to the registry is the subject of RegistryClients,    *)
(* and to a WebRTC session of WebRtcSessions: here it is a call.           *)
(***************************************************************************)
EXTENDS Naturals, Sequences

CONSTANTS
    Conn,     \* connections
    Requests, \* what clients ask, of the set Request below
    MaxBody   \* bound of the model: parts of a body

VARIABLES
    gateway,    \* should_use_gateway()
    listening,  \* running_ and listen_fd_
    asked,      \* per connection: what its client asks
    sent, hung, \* how many parts it has sent; it closed its side
    patient,    \* it still waits for the 100
    handlers,   \* none, reading, ready, playing, closed
    got,        \* what the handler received
    continued,  \* sent_continue
    outcome     \* what it did

clientVars == << asked, sent, hung, patient >>
handlerVars == << handlers, got, continued, outcome >>
httpVars == << gateway, listening, clientVars, handlerVars >>

-----------------------------------------------------------------------------
(* Requests *)

\* The calls that need a key, and the rest.
KeyedCalls == {"upsert", "remove", "viewers", "session", "endSession", "publish",
               "offer", "whip", "whep", "disconnect"}
SessionCalls == {"answer", "delete", "patch"}
OtherCalls == {"report", "cleanup", "unknown"}

\* What clients ask: names says whether the target has a key or session id,
\* expect how they spell the header, extra whether they send on after the body.
Request ==
    [call : KeyedCalls \union SessionCalls \union OtherCalls \union {"flv"},
     names : BOOLEAN, chunked : BOOLEAN, expect : {"none", "Expect", "expect"},
     size : 0..MaxBody, extra : BOOLEAN]
HttpBounds == MaxBody \in Nat \ {0} /\ Requests \subseteq Request

NoRequest == [call |-> "unknown", names |-> FALSE, chunked |-> FALSE, expect |-> "none",
              size |-> 0, extra |-> FALSE]

HeadParts == << "target", "headers", "blank" >>
BodyOf(r) == [i \in 1..r.size |-> "body"]

\* What a request looks like on the connection.
Whole(r) ==
    HeadParts \o IF r.chunked
            THEN [i \in 1..(2 * r.size) |-> IF i % 2 = 1 THEN "size" ELSE "body"] \o << "end" >>
            ELSE BodyOf(r)
Wire(r) == Whole(r) \o IF r.extra THEN << "next" >> ELSE << >>

\* total_needed; a chunked request has no Content-Length.
TotalNeeded(r) == Len(HeadParts) + IF r.chunked THEN 0 ELSE r.size

\* has_complete_chunked_body, or the length that Content-Length asks for.
Complete(r, text) ==
    /\ Len(text) >= Len(HeadParts)
    /\ IF r.chunked THEN (\E i \in DOMAIN text : text[i] = "end") ELSE Len(text) >= TotalNeeded(r)

\* decode_chunked_body, which drops a chunk it has only a part of: the data of
\* each chunk is behind its size.
Decoded(text) ==
    LET place(i) == Len(HeadParts) + 2 * i
    IN  [i \in {i \in DOMAIN text : place(i) \in DOMAIN text /\ text[place(i)] = "body"} |-> "body"]

\* extract_request_body
BodyIn(r, text) ==
    IF r.chunked THEN Decoded(text) ELSE SubSeq(text, Len(HeadParts) + 1, Len(text))

\* The key or session id in the target, of which a handler may have the beginning.
KeyIn(r, text) ==
    IF ~r.names THEN "" ELSE IF Len(text) >= 2 THEN "key" ELSE "part of the key"

-----------------------------------------------------------------------------
(* What a handler does *)

Did(status, call, key, body) ==
    [status |-> status, call |-> call, key |-> key, body |-> body]
Refused(status) == Did(status, "none", "", << >>)
Nothing == Refused("none")

\* Reports, the clean-up, the operations of the ingest and play helpers, and the
\* disconnecting of a stream.  A payload must be there and decode.
RegistryRoutes(r, key, body) ==
    CASE r.call \in {"report", "unknown"} ->
            {Refused(IF r.call = "report" THEN "200" ELSE "404")}
      [] r.call = "cleanup" -> {Did("200", "cleanup", "", << >>)}
      [] r.call = "disconnect" ->
            IF key = "" THEN {Refused("200")} ELSE {Did("200", r.call, key, << >>)}
      [] r.call \in KeyedCalls \ {"disconnect"} /\ key = "" -> {Refused("400")}
      [] r.call = "publish" /\ key # "" ->
            IF body = << >> THEN {Refused("400")}
            ELSE {Refused("400"), Did("200", r.call, key, body)}
      [] OTHER -> {Did("200", r.call, key, << >>)}

\* WHIP and WHEP by the native runtime: offers, answers and the end of a session.
\* An answer without a session id does not match its path.
NativeRoutes(r, key, body) ==
    CASE r.call = "patch" -> {Refused("200")}
      [] r.call = "answer" ->
            IF key = "" THEN {Refused("405")} ELSE {Did("200", "answer", key, body)}
      [] r.call = "delete" -> {Did("200", "delete", key, << >>)}
      [] r.call \in KeyedCalls /\ key = "" -> {Refused("400")}
      [] OTHER -> {Did(s, r.call, key, IF r.call = "offer" THEN << >> ELSE body) :
                      s \in {"200", "500"}}

\* The same by the gateway, whose answer is passed on as far as it came.
ProxyRoutes(r, key, body) ==
    IF r.call = "offer"
    THEN {Refused(IF key = "" THEN "400" ELSE "409")}
    ELSE {Refused("502"), Did("502", r.call, key, body), Did("passed", r.call, key, body)}

Routes(r, key, body) ==
    IF r.call \in {"offer", "whip", "whep"} \union SessionCalls
    THEN IF gateway THEN ProxyRoutes(r, key, body) ELSE NativeRoutes(r, key, body)
    ELSE RegistryRoutes(r, key, body)

-----------------------------------------------------------------------------
Init ==
    /\ gateway \in BOOLEAN /\ listening = FALSE
    /\ asked = [c \in Conn |-> NoRequest] /\ sent = [c \in Conn |-> 0]
    /\ hung = [c \in Conn |-> FALSE] /\ patient = [c \in Conn |-> TRUE]
    /\ handlers = [c \in Conn |-> "none"] /\ got = [c \in Conn |-> << >>]
    /\ continued = [c \in Conn |-> FALSE] /\ outcome = [c \in Conn |-> Nothing]

\* A socket, bind or listen that fails ends the program.
StartServer ==
    /\ ~listening /\ \A c \in Conn : handlers[c] = "none"
    /\ listening' = TRUE
    /\ UNCHANGED << gateway, clientVars, handlerVars >>

\* The threads of the connections are detached: they go on.
StopServer ==
    /\ listening
    /\ listening' = FALSE
    /\ UNCHANGED << gateway, clientVars, handlerVars >>

Accept(c, r) ==
    /\ listening /\ handlers[c] = "none"
    /\ asked' = [asked EXCEPT ![c] = r]
    /\ handlers' = [handlers EXCEPT ![c] = "reading"]
    /\ UNCHANGED << gateway, listening, sent, hung, patient, got, continued, outcome >>

\* The client of c announced its body and waits to be told to go on.
Waits(c) ==
    /\ asked[c].expect # "none" /\ asked[c].size > 0 /\ sent[c] = Len(HeadParts)
    /\ patient[c] /\ ~hung[c] /\ ~continued[c]

ClientSend(c) ==
    /\ handlers[c] \in {"reading", "ready"} /\ ~hung[c] /\ ~Waits(c)
    /\ sent[c] < Len(Wire(asked[c]))
    /\ sent' = [sent EXCEPT ![c] = @ + 1]
    /\ UNCHANGED << gateway, listening, asked, hung, patient, handlerVars >>

\* A client need not wait for ever, and may close at any time.
ClientGivesUp(c) ==
    /\ handlers[c] = "reading" /\ ~hung[c]
    /\ \/ Waits(c) /\ patient' = [patient EXCEPT ![c] = FALSE] /\ UNCHANGED hung
       \/ hung' = [hung EXCEPT ![c] = TRUE] /\ UNCHANGED patient
    /\ UNCHANGED << gateway, listening, asked, sent, handlerVars >>

\* Mutant: the client is not told to go on.
ExpectsNever(r) == FALSE

\* has_expect_100_continue compares the header's name as it is written, unlike
\* the other headers.
Expects(r) == r.expect = "Expect"

\* Mutant: what follows the request is not cut off.
KeptAll(r, text) == text

\* What is kept of a complete request.
Kept(r, text) == IF r.chunked THEN text ELSE SubSeq(text, 1, TotalNeeded(r))

\* A recv of n more parts, with the checks of the loop.  The 100 may not reach a
\* client that is gone.
Receive(c, n) ==
    LET r == asked[c]
        text == SubSeq(Wire(r), 1, Len(got[c]) + n)
        whole == Complete(r, text)
        goOn == ~continued[c] /\ Len(text) >= Len(HeadParts) /\ ~whole /\ Expects(r)
    IN  /\ handlers[c] = "reading" /\ Len(got[c]) + n <= sent[c]
        /\ got' = [got EXCEPT ![c] = IF whole THEN Kept(r, text) ELSE text]
        /\ \/ /\ handlers' = [handlers EXCEPT ![c] = IF whole THEN "ready" ELSE "reading"]
              /\ continued' = [continued EXCEPT ![c] = @ \/ goOn]
           \/ /\ goOn /\ hung[c]
              /\ handlers' = [handlers EXCEPT ![c] = "closed"]
              /\ UNCHANGED continued
        /\ UNCHANGED << gateway, listening, clientVars, outcome >>

\* recv says the client closed its side: what came is taken for the request.
ReceiveEnd(c) ==
    /\ handlers[c] = "reading" /\ hung[c] /\ Len(got[c]) = sent[c]
    /\ handlers' = [handlers EXCEPT ![c] = IF got[c] = << >> THEN "closed" ELSE "ready"]
    /\ UNCHANGED << gateway, listening, clientVars, got, continued, outcome >>

\* handle_request, or the beginning of handle_flv_request, after which the
\* connection is a player's and PlayQueue goes on.
Handle(c) ==
    LET r == asked[c]
        key == KeyIn(r, got[c])
    IN  /\ handlers[c] = "ready"
        /\ IF r.call = "flv" /\ Len(got[c]) >= 2
           THEN /\ handlers' = [handlers EXCEPT ![c] = IF key = "" THEN "closed" ELSE "playing"]
                /\ outcome' = [outcome EXCEPT ![c] =
                      IF key = "" THEN Refused("400") ELSE Did("200", "flv", key, << >>)]
           ELSE /\ handlers' = [handlers EXCEPT ![c] = "closed"]
                /\ \E done \in IF r.call = "flv" THEN {Refused("404")}
                               ELSE Routes(r, key, BodyIn(r, got[c])) :
                      outcome' = [outcome EXCEPT ![c] = done]
        /\ UNCHANGED << gateway, listening, clientVars, got, continued >>

Next ==
    \/ StartServer \/ StopServer
    \/ \E c \in Conn :
          \/ \E r \in Requests : Accept(c, r)
          \/ \E n \in 1..Len(Wire(asked[c])) : Receive(c, n)
          \/ ClientSend(c) \/ ClientGivesUp(c) \/ ReceiveEnd(c) \/ Handle(c)

HttpSpec == Init /\ [][Next]_httpVars

-----------------------------------------------------------------------------
TakesBody(r) == r.call \in {"publish", "whip", "whep", "answer"}

\* What a handler does is what its client asked, with the key and the whole body
\* of the request and nothing of what follows, however the request came in pieces.
\* Exception: a client that closes in the middle of its request has the part that
\* came taken for the request, so a stream whose key is a prefix, or half a
\* payload, is operated on (http_server.cpp:372-378).
DoesWhatIsAsked ==
    \A c \in Conn : outcome[c].call # "none" =>
        \/ hung[c] /\ sent[c] < Len(Whole(asked[c]))
        \/ /\ outcome[c].call = asked[c].call
           /\ outcome[c].key \in {"", IF asked[c].names THEN "key" ELSE ""}
           /\ outcome[c].body = BodyOf(asked[c]) \/ ~TakesBody(asked[c])
           /\ sent[c] >= Len(Whole(asked[c]))

\* A handler never waits for the body of a client that waits to be told to send
\* it.  Exception: a client that spells the header's name in another case
\* (http_server.cpp:132) has to lose its patience first.
NoMutualWait ==
    \A c \in Conn : Waits(c) /\ handlers[c] = "reading" /\ Len(got[c]) = sent[c] =>
        asked[c].expect = "expect"

=============================================================================
