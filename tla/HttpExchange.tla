----------------------------- MODULE HttpExchange -----------------------------
(***************************************************************************)
(* An http_client (include/ten/http/client.hh), the connections that it    *)
(* dials, and the tasks with which http_server                             *)
(* (include/ten/http/server.hh) serves them.                               *)
(*                                                                         *)
(* A message travels as a head and, if it has one, a body.  What has been  *)
(* sent may be received in several pieces, cut anywhere between these, or  *)
(* together with what follows.                                             *)
(***************************************************************************)
EXTENDS Naturals, Sequences, SequencesExt

CONSTANTS Requests,    \* the requests: [path, method, conn, version, expect, body]
          Routes,      \* a sequence of [paths, method, reply]
          None,
          MaxCalls,    \* how many times perform is called
          MaxConns,    \* how many times it may dial
          Interrupts,  \* does the client's task meet deadlines, or get cancelled
          Fails,       \* do calls to the network fail and time out
          MaxBody      \* max_content_length is at most a body

VARIABLES sock,    \* the client's connection, or None
          call,    \* the call of perform: its step, number, request, and the head of its response
          left,    \* what of _buf was not parsed when the last call had its response
          up, down,          \* what has been sent and not received, by connection
          upOpen, downOpen,  \* a side that has closed has no more to send
          server,  \* the task of a connection: its step, its buffer, the head of its request, and got_headers
          sent,    \* the responses that were sent, by connection
          logged,  \* the responses that log_func has seen, by connection
          dialled,
          answers  \* the responses that calls have returned

client == <<sock, call, left, answers>>
wires == <<up, down, upOpen, downOpen>>
vars == <<client, wires, server, sent, logged, dialled>>

Conns == 1..MaxConns
NoCall == [pc |-> "idle", n |-> 0, req |-> None, head |-> None]
NoServer == [pc |-> "none", buf |-> <<>>, head |-> None, cont |-> FALSE]

Init ==
    /\ sock = None /\ call = NoCall /\ left = <<>>
    /\ up = [c \in Conns |-> <<>>] /\ down = [c \in Conns |-> <<>>]
    /\ upOpen = [c \in Conns |-> TRUE] /\ downOpen = [c \in Conns |-> TRUE]
    /\ server = [c \in Conns |-> NoServer]
    /\ sent = [c \in Conns |-> <<>>] /\ logged = [c \in Conns |-> <<>>]
    /\ dialled = 0 /\ answers = <<>>

\* http_base::close_after
CloseAfter(msg) ==
    IF msg.version = 10 THEN msg.conn # "keep-alive" ELSE msg.conn = "close"

\* The pieces in which a message is sent.
Pieces(n, msg) ==
    <<[part |-> "head", n |-> n, msg |-> msg]>>
    \o IF msg.body THEN <<[part |-> "body", n |-> n, msg |-> msg]>> ELSE <<>>

\* http_parser on the pieces in a buffer, up to the end of a message, where it stops.  The
\* head of the message may have come before.  A response that says nothing of its length
\* ends with the connection, and one to HEAD with its head.  A body that was never sent is
\* made of what follows, and the rest of that cannot be parsed.
HeadIsAll(head, headOnly) == headOnly \/ (head.msg.length /\ ~head.msg.body)

Parse(pending, buf, headOnly) ==
    LET head == IF pending # None THEN pending ELSE buf[1]
        at == IF pending # None THEN 1 ELSE 2
        parsed == [state |-> "part", head |-> head, body |-> Len(buf) >= at, rest |-> <<>>]
        cut == IF at \in DOMAIN buf /\ buf[at].part = "head"
                  THEN <<[buf[at] EXCEPT !.part = "junk"]>> ELSE <<>>
    IN IF head.part # "head" THEN [parsed EXCEPT !.state = "error"]
       ELSE IF HeadIsAll(head, headOnly)
          THEN [parsed EXCEPT !.state = "complete", !.body = FALSE, !.rest = Tail(buf)]
       ELSE IF head.msg.length /\ Len(buf) >= at
          THEN [parsed EXCEPT !.state = "complete", !.rest = cut \o SubSeq(buf, at + 1, Len(buf))]
       ELSE parsed
-----------------------------------------------------------------------------
(* http_client::perform *)

Close(c) == upOpen' = [upOpen EXCEPT ![c] = FALSE] /\ sock' = None

Return(piece) ==
    answers' = Append(answers, [n |-> call.n, of |-> piece.n, code |-> piece.msg.code])

\* perform: ensure_connection dials unless there is a connection.
Perform(r) ==
    /\ call.pc = "idle" /\ call.n < MaxCalls
    /\ call' = [pc |-> IF sock = None THEN "dial" ELSE "send", n |-> call.n + 1,
                req |-> r, head |-> None]
    /\ left' = <<>>
    /\ UNCHANGED <<sock, wires, server, sent, logged, dialled, answers>>

\* The server accepts the connection and spawns a task for it.
Dial ==
    /\ call.pc = "dial" /\ dialled < MaxConns
    /\ dialled' = dialled + 1
    /\ sock' = dialled'
    /\ server' = [server EXCEPT ![dialled'].pc = "recv"]
    /\ call' = [call EXCEPT !.pc = "send"]
    /\ UNCHANGED <<left, wires, sent, logged, answers>>

DialFails ==
    /\ Fails \/ dialled = MaxConns
    /\ call.pc = "dial"
    /\ call' = [call EXCEPT !.pc = "idle"]
    /\ UNCHANGED <<sock, left, wires, server, sent, logged, dialled, answers>>

\* Sends the request; nothing reaches a server that has closed.
Send ==
    /\ call.pc = "send"
    /\ up' = IF downOpen[sock] THEN [up EXCEPT ![sock] = @ \o Pieces(call.n, call.req)] ELSE up
    /\ call' = [call EXCEPT !.pc = "recv"]
    /\ UNCHANGED <<sock, left, down, upOpen, downOpen, server, sent, logged, dialled, answers>>

\* An error, or a short write: a part of the request may have been sent.
SendFails ==
    /\ call.pc = "send"
    /\ Fails \/ ~downOpen[sock]
    /\ \E k \in 0..Len(Pieces(call.n, call.req)) - 1 :
          up' = [up EXCEPT ![sock] = @ \o SubSeq(Pieces(call.n, call.req), 1, k)]
    /\ Close(sock)
    /\ call' = [call EXCEPT !.pc = "idle"]
    /\ UNCHANGED <<left, down, downOpen, server, sent, logged, dialled, answers>>

\* Receives some of what was sent, and parses it.  The call returns with a complete
\* response, or one whose body has reached max_content_length.
Recv ==
    /\ call.pc = "recv"
    /\ \E k \in 1..Len(down[sock]) :
          LET p == Parse(call.head, SubSeq(down[sock], 1, k), call.req.method = "HEAD")
              full == MaxBody /\ p.body
              ends == full \/ p.state # "part"
          IN /\ down' = [down EXCEPT ![sock] = SubSeq(@, k + 1, Len(@))]
             /\ call' = [call EXCEPT !.pc = IF ends THEN "idle" ELSE @, !.head = p.head]
             /\ left' = IF full THEN <<>> ELSE p.rest
             /\ IF ends /\ p.state # "error" THEN Return(p.head) ELSE UNCHANGED answers
             /\ IF ends /\ (full \/ p.state = "error" \/ CloseAfter(p.head.msg))
                   THEN Close(sock) ELSE UNCHANGED <<sock, upOpen>>
    /\ UNCHANGED <<up, downOpen, server, sent, logged, dialled>>


\* The end of the connection, an error or a timeout.
RecvFails ==
    /\ call.pc = "recv"
    /\ Fails \/ (down[sock] = <<>> /\ ~downOpen[sock])
    /\ Close(sock)
    /\ call' = [call EXCEPT !.pc = "idle"]
    /\ UNCHANGED <<left, up, down, downOpen, server, sent, logged, dialled, answers>>

\* deadline_reached and task_interrupted are no errorx: perform does not catch them.  A
\* part of the request may have been sent.
Interrupted ==
    /\ Interrupts
    /\ call.pc \in {"dial", "send", "recv"}
    /\ \E k \in IF call.pc = "send" THEN 0..Len(Pieces(call.n, call.req)) - 1 ELSE {0} :
          up' = IF k = 0 THEN up
                ELSE [up EXCEPT ![sock] = @ \o SubSeq(Pieces(call.n, call.req), 1, k)]
    /\ call' = [call EXCEPT !.pc = "idle"]
    /\ UNCHANGED <<sock, left, down, upOpen, downOpen, server, sent, logged, dialled, answers>>
-----------------------------------------------------------------------------
(* http_server *)

Status(code) ==
    [code |-> code, conn |-> None, length |-> code \in 100..199, body |-> FALSE, version |-> 11]

\* handle_exchange: the first route whose pattern and method match makes the response; the
\* pattern may have matched routes of other methods before.
Matching(req) == {i \in DOMAIN Routes : req.path \in Routes[i].paths}
Fitting(req) == {i \in Matching(req) : Routes[i].method \in {None, req.method}}
Route(req) == CHOOSE i \in Fitting(req) : \A j \in Fitting(req) : i <= j
BadMethod(req) ==
    \E i \in Matching(req) \ Fitting(req) : Fitting(req) = {} \/ i < Route(req)

\* What a callback makes of the response: with set_body it has a length, it may ask to
\* close, or have no length, with or without a body; or the callback throws.
Reply(reply) ==
    CASE reply = "body" -> [Status(200) EXCEPT !.length = TRUE, !.body = TRUE]
      [] reply = "close" -> [Status(200) EXCEPT !.length = TRUE, !.body = TRUE, !.conn = "close"]
      [] reply = "bare" -> Status(200)
      [] reply = "stream" -> [Status(200) EXCEPT !.body = TRUE]
      [] reply = "throw" -> [Status(500) EXCEPT !.length = TRUE, !.body = TRUE, !.conn = "close"]

\* Mutant of Finished: the response to HEAD has a body.
FinishedWithBody(resp, req) ==
    [resp EXCEPT !.length = @ \/ (resp.code \in 400..599 /\ req.method # "HEAD"),
                 !.conn = IF @ # None THEN @
                          ELSE IF req.conn # None THEN req.conn
                          ELSE IF req.version = 10 THEN "close" ELSE None]

\* Mutant of Finished: an error without a body has no length.
FinishedUnframed(resp, req) ==
    [resp EXCEPT !.conn = IF @ # None THEN @
                          ELSE IF req.conn # None THEN req.conn
                          ELSE IF req.version = 10 THEN "close" ELSE None,
                 !.body = @ /\ req.method # "HEAD"]

\* send_response: the headers that it adds, and no body for HEAD.
Finished(resp, req) ==
    [resp EXCEPT !.length = @ \/ (resp.code \in 400..599 /\ req.method # "HEAD"),
                 !.conn = IF @ # None THEN @
                          ELSE IF req.conn # None THEN req.conn
                          ELSE IF req.version = 10 THEN "close" ELSE None,
                 !.body = @ /\ req.method # "HEAD"]

\* The response that a route has sent, if one fits, and the one that the exchange has at
\* its end: the one that a wrong method replaces it with, too.
Sent(req) == Finished(Reply(Routes[Route(req)].reply), req)

AtEnd(req) ==
    IF BadMethod(req) THEN Status(405)
    ELSE IF Fitting(req) # {} THEN Sent(req)
    ELSE Status(404)


\* Mutant of Exchange: the connection is never closed.
ExchangeKept(c, n, req) ==
    LET msg == IF Fitting(req) # {} THEN Sent(req) ELSE Finished(AtEnd(req), req)
    IN /\ sent' = [sent EXCEPT ![c] = Append(@, [n |-> n, msg |-> msg])]
       /\ logged' = [logged EXCEPT ![c] = Append(@, msg.code)]
       /\ down' = [down EXCEPT ![c] = @ \o Pieces(n, msg)]
       /\ UNCHANGED downOpen

\* Mutant of Exchange: the response is logged before the exchange is handled.
ExchangeLoggedFirst(c, n, req) ==
    LET msg == IF Fitting(req) # {} THEN Sent(req) ELSE Finished(AtEnd(req), req)
    IN /\ sent' = [sent EXCEPT ![c] = Append(@, [n |-> n, msg |-> msg])]
       /\ logged' = [logged EXCEPT ![c] = Append(@, 404)]
       /\ down' = [down EXCEPT ![c] = @ \o Pieces(n, msg)]
       /\ downOpen' = [downOpen EXCEPT ![c] = ~CloseAfter(msg)]

\* An exchange: handle_exchange, and the destructor, which logs the response, sends it if
\* that has not been done, and closes the connection if the response says so.
Exchange(c, n, req) ==
    LET msg == IF Fitting(req) # {} THEN Sent(req) ELSE Finished(AtEnd(req), req)
        end == IF Fitting(req) # {} THEN AtEnd(req) ELSE msg
    IN /\ sent' = [sent EXCEPT ![c] = Append(@, [n |-> n, msg |-> msg])]
       /\ logged' = [logged EXCEPT ![c] = Append(@, end.code)]
       /\ down' = [down EXCEPT ![c] = @ \o Pieces(n, msg)]
       /\ downOpen' = [downOpen EXCEPT ![c] = ~CloseAfter(end)]

\* on_connection receives some of what was sent, when its buffer is empty.
ServerRecv(c) ==
    /\ server[c].pc = "recv" /\ server[c].buf = <<>>
    /\ \E k \in 1..Len(up[c]) :
          /\ server' = [server EXCEPT ![c].buf = SubSeq(up[c], 1, k)]
          /\ up' = [up EXCEPT ![c] = SubSeq(@, k + 1, Len(@))]
    /\ UNCHANGED <<client, down, upOpen, downOpen, sent, logged, dialled>>

\* It parses the buffer.  A request that is complete is answered, and its connection may be
\* closed by that; one that is not may ask to be told to continue.  An error ends the task.
ServerParse(c) ==
    LET p == Parse(server[c].head, server[c].buf, FALSE)
        asks == ~server[c].cont /\ p.head.msg.expect
    IN
    /\ server[c].pc = "recv" /\ server[c].buf # <<>>
    /\ \/ /\ p.state = "complete"
          /\ Exchange(c, p.head.n, p.head.msg)
          /\ server' = [server EXCEPT ![c] =
                IF downOpen'[c] THEN [NoServer EXCEPT !.pc = "recv", !.buf = p.rest] ELSE NoServer]
       \/ /\ p.state = "part"
          /\ server' = [server EXCEPT ![c].buf = <<>>, ![c].head = p.head, ![c].cont = TRUE]
          /\ down' = [down EXCEPT ![c] = IF asks THEN @ \o Pieces(p.head.n, Status(100)) ELSE @]
          /\ UNCHANGED <<sent, logged, downOpen>>
       \/ /\ p.state = "error"
          /\ server' = [server EXCEPT ![c] = NoServer]
          /\ downOpen' = [downOpen EXCEPT ![c] = FALSE]
          /\ UNCHANGED <<sent, logged, down>>
    /\ UNCHANGED <<client, up, upOpen, dialled>>

\* The client has closed, or the server's timeout has passed.
ServerDone(c) ==
    /\ server[c].pc = "recv" /\ server[c].buf = <<>>
    /\ Fails \/ (up[c] = <<>> /\ ~upOpen[c])
    /\ server' = [server EXCEPT ![c] = NoServer]
    /\ downOpen' = [downOpen EXCEPT ![c] = FALSE]
    /\ UNCHANGED <<client, up, down, upOpen, sent, logged, dialled>>

Client ==
    \/ Dial \/ DialFails \/ Send \/ SendFails \/ Recv \/ RecvFails

Server(c) == ServerRecv(c) \/ ServerParse(c) \/ ServerDone(c)

Finish == call.pc = "idle" /\ call.n = MaxCalls /\ UNCHANGED vars

Next ==
    \/ \E r \in Requests : Perform(r)
    \/ Client
    \/ Interrupted
    \/ \E c \in Conns : Server(c)
    \/ Finish

Spec == Init /\ [][Next]_vars

\* Tasks run, and what is sent arrives.
FairSpec == Spec /\ WF_vars(Client) /\ \A c \in Conns : WF_vars(Server(c))
-----------------------------------------------------------------------------
(* Properties. *)

\* perform returns the response to its own request: not one that was meant for a call
\* before, and not a message that only announces it.
OwnResponse ==
    \A i \in DOMAIN answers : answers[i].of = answers[i].n /\ answers[i].code >= 200

\* When the response is complete nothing is left in _buf: perform checks that.
NothingLeft == left = <<>>

\* A connection carries the responses to its requests, one for each, in their order.
OneResponseEach ==
    \A c \in Conns : \A i, j \in DOMAIN sent[c] : i < j => sent[c][i].n < sent[c][j].n

\* A response that announces that the connection will be closed is the last one, and the
\* server does not go on waiting for requests.
ClosedAsSaid ==
    \A c \in Conns : \A i \in DOMAIN sent[c] :
        CloseAfter(sent[c][i].msg) => i = Len(sent[c]) /\ server[c].pc = "none"

\* The log has the responses that were sent.
LoggedAsSent ==
    \A c \in Conns : logged[c] = [i \in DOMAIN sent[c] |-> sent[c][i].msg.code]

\* Every call of perform returns.
PerformReturns == call.pc # "idle" ~> call.pc = "idle"
=============================================================================
