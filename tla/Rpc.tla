--------------------------------- MODULE Rpc ---------------------------------
(***************************************************************************)
(* An rpc_client (include/ten/rpc/client.hh), the connections that it      *)
(* dials, and the tasks with which rpc_server (include/ten/rpc/server.hh)  *)
(* serves them.  A packed message travels in two halves; a half for which  *)
(* the other never comes is completed by the next half, to a message that  *)
(* nobody sent.                                                            *)
(***************************************************************************)
EXTENDS Naturals, Sequences, SequencesExt

CONSTANTS Kinds,      \* what is called: "call" or "notify", and what the method does
          None,
          MaxCalls,   \* how many calls and notifications are made
          MaxConns,   \* how many times the client may dial
          Interrupts, \* does the client's task meet deadlines, or get cancelled
          Fails,      \* do connections fail
          Cuts        \* may a response be received in parts

VARIABLES sock,     \* the client's connection, or None
          pac,      \* the client's unpacker
          call,     \* the call under way: its step, number and kind
          up, down, \* the halves that have been sent and not received, by connection
          upOpen, downOpen,
          server,   \* the unpacker of a connection's task, or None
          handled,  \* the messages that the server has handled, by connection
          results,  \* what calls have returned
          dialled

client == <<sock, pac, call, results>>
wires == <<up, down, upOpen, downOpen>>
vars == <<client, wires, server, handled, dialled>>

Conns == 1..MaxConns

Init ==
    /\ sock = None /\ pac = <<>> /\ results = <<>>
    /\ call = [pc |-> "idle", n |-> 0, kind |-> None]
    /\ up = [c \in Conns |-> <<>>] /\ down = [c \in Conns |-> <<>>]
    /\ upOpen = [c \in Conns |-> TRUE] /\ downOpen = [c \in Conns |-> TRUE]
    /\ server = [c \in Conns |-> None] /\ handled = [c \in Conns |-> <<>>]
    /\ dialled = 0

Halves(n, kind) == <<[half |-> 1, n |-> n, kind |-> kind], [half |-> 2, n |-> n, kind |-> kind]>>

\* unpacker::next: two halves are a message, if they belong together.
Garbage == [half |-> 0, n |-> 0, kind |-> None]
Unpacked(buf) ==
    IF buf[1].half = 1 /\ buf[2].half = 2 /\ buf[1].n = buf[2].n THEN buf[1] ELSE Garbage
-----------------------------------------------------------------------------
(* rpc_client *)

Close(c) == upOpen' = [upOpen EXCEPT ![c] = FALSE] /\ sock' = None

\* call and notify: ensure_connection dials unless there is a connection.
Call(kind) ==
    /\ call.pc = "idle" /\ call.n < MaxCalls
    /\ call' = [pc |-> IF sock = None THEN "dial" ELSE "send", n |-> call.n + 1, kind |-> kind]
    /\ UNCHANGED <<sock, pac, results, wires, server, handled, dialled>>

Dial ==
    /\ call.pc = "dial" /\ dialled < MaxConns
    /\ dialled' = dialled + 1
    /\ sock' = dialled'
    /\ server' = [server EXCEPT ![dialled'] = <<>>]
    /\ call' = [call EXCEPT !.pc = "send"]
    /\ UNCHANGED <<pac, results, wires, handled>>

DialFails ==
    /\ call.pc = "dial"
    /\ Fails \/ dialled = MaxConns
    /\ call' = [call EXCEPT !.pc = "idle"]
    /\ UNCHANGED <<sock, pac, results, wires, server, handled, dialled>>

\* A notification returns when it is sent; nothing reaches a server that has closed.
Send ==
    /\ call.pc = "send"
    /\ up' = IF downOpen[sock] THEN [up EXCEPT ![sock] = @ \o Halves(call.n, call.kind)] ELSE up
    /\ call' = [call EXCEPT !.pc = IF call.kind = "notify" THEN "idle" ELSE "recv"]
    /\ UNCHANGED <<sock, pac, results, down, upOpen, downOpen, server, handled, dialled>>

SendFails ==
    /\ call.pc = "send"
    /\ Fails \/ ~downOpen[sock]
    /\ \E k \in {0, 1} : up' = [up EXCEPT ![sock] = @ \o SubSeq(Halves(call.n, call.kind), 1, k)]
    /\ Close(sock)
    /\ call' = [call EXCEPT !.pc = "idle"]
    /\ UNCHANGED <<pac, results, down, downOpen, server, handled, dialled>>

\* Receives, and takes the first message for the response.
Recv ==
    /\ call.pc = "recv"
    /\ \E k \in 1..Len(down[sock]) :
          LET buf == pac \o SubSeq(down[sock], 1, k) IN
          /\ Cuts \/ k = Len(down[sock])
          /\ down' = [down EXCEPT ![sock] = SubSeq(@, k + 1, Len(@))]
          /\ IF Len(buf) < 2 THEN pac' = buf /\ UNCHANGED <<call, results>>
             ELSE /\ pac' = SubSeq(buf, 3, Len(buf))
                  /\ results' = Append(results, [n |-> call.n, of |-> Unpacked(buf).n])
                  /\ call' = [call EXCEPT !.pc = "idle"]
    /\ UNCHANGED <<sock, up, upOpen, downOpen, server, handled, dialled>>

\* The connection ends or fails; what was unpacked in part stays in the unpacker.
RecvFails ==
    /\ call.pc = "recv"
    /\ Fails \/ (down[sock] = <<>> /\ ~downOpen[sock])
    /\ Close(sock)
    /\ call' = [call EXCEPT !.pc = "idle"]
    /\ UNCHANGED <<pac, results, up, down, downOpen, server, handled, dialled>>

\* task_interrupted leaves the connection open.
Interrupted ==
    /\ Interrupts
    /\ call.pc \in {"dial", "send", "recv"}
    /\ call' = [call EXCEPT !.pc = "idle"]
    /\ \E k \in IF call.pc = "send" THEN {0, 1} ELSE {0} :
          up' = IF k = 0 THEN up
                ELSE [up EXCEPT ![sock] = Append(@, Halves(call.n, call.kind)[1])]
    /\ UNCHANGED <<sock, pac, results, down, upOpen, downOpen, server, handled, dialled>>
-----------------------------------------------------------------------------
(* rpc_server::on_connection *)

ServerRecv(c) ==
    /\ server[c] # None /\ Len(server[c]) < 2
    /\ \E k \in 1..Len(up[c]) :
          /\ server' = [server EXCEPT ![c] = @ \o SubSeq(up[c], 1, k)]
          /\ up' = [up EXCEPT ![c] = SubSeq(@, k + 1, Len(@))]
    /\ UNCHANGED <<client, down, upOpen, downOpen, handled, dialled>>

\* Mutant of ServerNext: notifications are answered like calls.
ServerNextAnswers(c) ==
    /\ server[c] # None /\ Len(server[c]) >= 2
    /\ LET msg == Unpacked(server[c]) IN
        /\ server' = [server EXCEPT ![c] = IF msg = Garbage THEN None ELSE SubSeq(@, 3, Len(@))]
        /\ downOpen' = [downOpen EXCEPT ![c] = msg # Garbage]
        /\ handled' = IF msg = Garbage THEN handled ELSE [handled EXCEPT ![c] = Append(@, msg.n)]
        /\ down' = IF msg = Garbage THEN down ELSE [down EXCEPT ![c] = @ \o Halves(msg.n, "reply")]
    /\ UNCHANGED <<client, up, upOpen, dialled>>

\* Mutant of ServerNext: a method that throws has no response.
ServerNextSilent(c) ==
    /\ server[c] # None /\ Len(server[c]) >= 2
    /\ LET msg == Unpacked(server[c]) IN
        /\ server' = [server EXCEPT ![c] = SubSeq(@, 3, Len(@))]
        /\ handled' = [handled EXCEPT ![c] = Append(@, msg.n)]
        /\ down' = IF msg.kind # "call" THEN down
                   ELSE [down EXCEPT ![c] = @ \o Halves(msg.n, "reply")]
    /\ UNCHANGED <<client, up, upOpen, downOpen, dialled>>

\* Mutant of ServerNext: the message stays in the unpacker.
ServerNextStays(c) ==
    /\ server[c] # None /\ Len(server[c]) >= 2 /\ Len(handled[c]) < MaxCalls
    /\ LET msg == Unpacked(server[c]) IN
        /\ handled' = [handled EXCEPT ![c] = Append(@, msg.n)]
        /\ down' = IF msg.kind = "notify" THEN down
                   ELSE [down EXCEPT ![c] = @ \o Halves(msg.n, "reply")]
    /\ UNCHANGED <<client, server, up, upOpen, downOpen, dialled>>

\* Handles the next message.  A call is answered, with an error if the method throws or is
\* not found; a notification is not.  What cannot be converted ends the task.
ServerNext(c) ==
    /\ server[c] # None /\ Len(server[c]) >= 2
    /\ LET msg == Unpacked(server[c]) IN
        \/ /\ msg = Garbage
           /\ server' = [server EXCEPT ![c] = None]
           /\ downOpen' = [downOpen EXCEPT ![c] = FALSE]
           /\ UNCHANGED <<handled, down>>
        \/ /\ msg # Garbage
           /\ server' = [server EXCEPT ![c] = SubSeq(@, 3, Len(@))]
           /\ handled' = [handled EXCEPT ![c] = Append(@, msg.n)]
           /\ down' = IF msg.kind = "notify" THEN down
                      ELSE [down EXCEPT ![c] = @ \o Halves(msg.n, "reply")]
           /\ UNCHANGED downOpen
    /\ UNCHANGED <<client, up, upOpen, dialled>>

\* The connection ends or fails; a reply may have been sent in part.
ServerDone(c) ==
    /\ server[c] # None
    /\ \/ Len(server[c]) < 2 /\ up[c] = <<>> /\ ~upOpen[c] /\ UNCHANGED down
       \/ /\ Fails
          /\ down' = [down EXCEPT ![c] = IF @ = <<>> THEN @ ELSE SubSeq(@, 1, Len(@) - 1)]
    /\ server' = [server EXCEPT ![c] = None]
    /\ downOpen' = [downOpen EXCEPT ![c] = FALSE]
    /\ UNCHANGED <<client, up, upOpen, handled, dialled>>

Client == Dial \/ DialFails \/ Send \/ SendFails \/ Recv \/ RecvFails
Server(c) == ServerRecv(c) \/ ServerNext(c) \/ ServerDone(c)
Finish == call.pc = "idle" /\ call.n = MaxCalls /\ UNCHANGED vars

Next ==
    \/ \E k \in Kinds : Call(k)
    \/ Client
    \/ Interrupted
    \/ \E c \in Conns : Server(c)
    \/ Finish

Spec == Init /\ [][Next]_vars

\* Tasks run, and what is sent arrives.
FairSpec == Spec /\ WF_vars(Client) /\ \A c \in Conns : WF_vars(Server(c))
-----------------------------------------------------------------------------
(* Properties. *)

\* call waits for the result of its own call: the client compares no message numbers.
OwnResult == \A i \in DOMAIN results : results[i].of = results[i].n

\* The server handles the messages of a connection once, in the order in which they were
\* sent, whatever pieces they come in.
HandledInOrder ==
    \A c \in Conns : \A i, j \in DOMAIN handled[c] : i < j => handled[c][i] < handled[c][j]

\* Every call returns.
CallReturns == call.pc # "idle" ~> call.pc = "idle"
=============================================================================
