-------------------------------- MODULE MCNet -------------------------------
(***************************************************************************)
(* What talks to other tasks, to the kernel and to the network: channels,  *)
(* poll, the threads of an ioproc_pool, net_server, the HTTP client and    *)
(* server, the RPC client and server.  A behaviour runs one of them, with  *)
(* the constants of its part, the others keep their initial state, and the *)
(* state spaces add up.                                                    *)
(***************************************************************************)
EXTENDS Channel, TLC

CONSTANTS a, b, c, x, y, z, s1, s2, r1, r2, None, CallsInterrupted,
          Parts  \* Parts: what a run checks

VARIABLES part,  \* the component that this behaviour runs
          c_queue, c_closed, c_not_empty, c_not_full, c_call, c_at, c_token,
          c_canceled, c_sent, c_got,
          e_tasks, e_events, e_epoll, e_ready, e_call, e_token, e_revents,
          p_queue, p_closed, p_client, p_proc, p_ran,
          n_listening, n_connected, n_pending, n_thread, n_served, n_closed,
          n_fails,
          h_sock, h_call, h_left, h_up, h_down, h_upOpen, h_downOpen, h_server,
          h_sent, h_logged, h_dialled, h_answers,
          r_sock, r_pac, r_call, r_up, r_down, r_upOpen, r_downOpen, r_server,
          r_handled, r_results, r_dialled

(* The polls: each task with descriptors of its own, or shared ones.       *)
OwnFds == a :> {(x :> {"in"}), (x :> {"out"}), (x :> {"in", "out"})}
       @@ b :> {(y :> {"in"}), (y :> {"in", "out"})}
SharedFds == a :> {(x :> {"in"}), (x :> {"in"} @@ y :> {"out"})}
          @@ b :> {(x :> {"in"}), (x :> {"out"})}

(* The calls of the clients of an ioproc_pool: one iocall each, or two     *)
(* iocallasync and two iowait.                                             *)
OneEach == a :> 1 @@ b :> 1 @@ c :> 1
Batches == a :> 2 @@ b :> 2

(* HTTP requests and routes. *)
Request(path, method) ==
    [path |-> path, method |-> method, conn |-> None, version |-> 11, expect |-> FALSE,
     length |-> TRUE, body |-> FALSE]
Page == Request("/page", "GET")
Form == [Request("/form", "POST") EXCEPT !.body = TRUE]
Old == [Page EXCEPT !.version = 10]
Plain == {Page, Form, Old, Request("/page", "HEAD"), Request("/fault", "GET"),
          Request("/form", "GET"), Request("/none", "GET")}
Unframed == {Request("/bare", "GET"), Request("/stream", "GET"), Form}
Route1(paths, method, reply) == [paths |-> paths, method |-> method, reply |-> reply]
PlainRoutes == <<Route1({"/page"}, None, "body"), Route1({"/form"}, "POST", "close"),
                 Route1({"/fault", "/page"}, None, "throw")>>
BareRoutes == <<Route1({"/bare"}, None, "bare"), Route1({"/stream"}, None, "stream"),
                Route1({"/form"}, None, "body")>>

(* Channels with other constants: one with a buffer and a synchronous one  *)
(* that are closed and cleared.                                            *)
Buffered == INSTANCE Channel WITH
    Senders <- {s1, s2}, Receivers <- {r1, r2}, Cancelable <- {s1, r1},
    MaxSends <- 2, Capacity <- 2, Closes <- TRUE, Clears <- TRUE, queue <- c_queue,
    closed <- c_closed, not_empty <- c_not_empty, not_full <- c_not_full,
    call <- c_call, at <- c_at, token <- c_token, canceled <- c_canceled,
    sent <- c_sent, got <- c_got
Cleared == INSTANCE Channel WITH
    Senders <- {s1, s2}, Receivers <- {r1, r2}, Cancelable <- {s1, r1},
    MaxSends <- 2, Capacity <- 1, Closes <- TRUE, Clears <- TRUE, queue <- c_queue,
    closed <- c_closed, not_empty <- c_not_empty, not_full <- c_not_full,
    call <- c_call, at <- c_at, token <- c_token, canceled <- c_canceled,
    sent <- c_sent, got <- c_got
ChLive == INSTANCE Channel WITH
    Senders <- {s1, s2}, Receivers <- {r1}, Cancelable <- {s1}, MaxSends <- 2,
    Capacity <- 1, Closes <- TRUE, Clears <- TRUE, queue <- c_queue,
    closed <- c_closed, not_empty <- c_not_empty, not_full <- c_not_full,
    call <- c_call, at <- c_at, token <- c_token, canceled <- c_canceled,
    sent <- c_sent, got <- c_got

Own == INSTANCE Io WITH Tasks <- {a, b}, Fds <- {x, y}, Calls <- OwnFds,
                        tasks <- e_tasks, events <- e_events, epoll <- e_epoll,
                        ready <- e_ready, call <- e_call, token <- e_token,
                        revents <- e_revents
Shared == INSTANCE Io WITH Tasks <- {a, b}, Fds <- {x, y}, Calls <- SharedFds,
                           tasks <- e_tasks, events <- e_events, epoll <- e_epoll,
                           ready <- e_ready, call <- e_call, token <- e_token,
                           revents <- e_revents

IoPool == INSTANCE IoProc WITH
    Clients <- {a, b, c}, Procs <- {x, y}, Calls <- OneEach, Waits <- OneEach,
    Interrupted <- {"send", "wait"}, queue <- p_queue, closed <- p_closed,
    client <- p_client, proc <- p_proc, ran <- p_ran
Batch == INSTANCE IoProc WITH
    Clients <- {a, b}, Procs <- {x, y}, Calls <- Batches, Waits <- Batches,
    Interrupted <- {}, queue <- p_queue, closed <- p_closed, client <- p_client,
    proc <- p_proc, ran <- p_ran

Serve == INSTANCE NetServer WITH
    Threads <- {a, b}, Caller <- a, Conns <- {x, y, z}, MaxFails <- 2,
    Throws <- FALSE, listening <- n_listening, connected <- n_connected,
    pending <- n_pending, thread <- n_thread, served <- n_served,
    closed <- n_closed, fails <- n_fails
ServeThrows == INSTANCE NetServer WITH
    Threads <- {a, b}, Caller <- a, Conns <- {x, y, z}, MaxFails <- 1,
    Throws <- TRUE, listening <- n_listening, connected <- n_connected,
    pending <- n_pending, thread <- n_thread, served <- n_served,
    closed <- n_closed, fails <- n_fails

Http == INSTANCE HttpExchange WITH
    MaxConns <- 2, Requests <- Plain, Routes <- PlainRoutes, MaxCalls <- 3,
    Interrupts <- FALSE, Fails <- TRUE, MaxBody <- FALSE, sock <- h_sock,
    call <- h_call, left <- h_left, up <- h_up, down <- h_down, upOpen <- h_upOpen,
    downOpen <- h_downOpen, server <- h_server, sent <- h_sent, logged <- h_logged,
    dialled <- h_dialled, answers <- h_answers
HttpInts == INSTANCE HttpExchange WITH
    MaxConns <- 2, Requests <- {Page, Form}, Routes <- PlainRoutes, MaxCalls <- 4,
    Interrupts <- TRUE, Fails <- FALSE, MaxBody <- FALSE, sock <- h_sock,
    call <- h_call, left <- h_left, up <- h_up, down <- h_down, upOpen <- h_upOpen,
    downOpen <- h_downOpen, server <- h_server, sent <- h_sent, logged <- h_logged,
    dialled <- h_dialled, answers <- h_answers
HttpBare == INSTANCE HttpExchange WITH
    MaxConns <- 2, Requests <- Unframed, Routes <- BareRoutes, MaxCalls <- 3,
    Interrupts <- FALSE, Fails <- TRUE, MaxBody <- TRUE, sock <- h_sock,
    call <- h_call, left <- h_left, up <- h_up, down <- h_down, upOpen <- h_upOpen,
    downOpen <- h_downOpen, server <- h_server, sent <- h_sent, logged <- h_logged,
    dialled <- h_dialled, answers <- h_answers
HttpLive == INSTANCE HttpExchange WITH
    MaxConns <- 2, Requests <- Plain, Routes <- PlainRoutes, MaxCalls <- 3,
    Interrupts <- FALSE, Fails <- FALSE, MaxBody <- FALSE, sock <- h_sock,
    call <- h_call, left <- h_left, up <- h_up, down <- h_down, upOpen <- h_upOpen,
    downOpen <- h_downOpen, server <- h_server, sent <- h_sent, logged <- h_logged,
    dialled <- h_dialled, answers <- h_answers

RpcPlain == INSTANCE Rpc WITH
    Kinds <- {"call", "throw", "notify"}, MaxCalls <- 3, MaxConns <- 3,
    Interrupts <- FALSE, Fails <- TRUE, Cuts <- FALSE, sock <- r_sock,
    pac <- r_pac, call <- r_call, up <- r_up, down <- r_down, upOpen <- r_upOpen,
    downOpen <- r_downOpen, server <- r_server, handled <- r_handled,
    results <- r_results, dialled <- r_dialled
RpcInts == INSTANCE Rpc WITH Kinds <- {"call", "throw", "notify"}, MaxCalls <- 4,
                             MaxConns <- 1, Interrupts <- TRUE, Fails <- FALSE,
                             Cuts <- TRUE, sock <- r_sock, pac <- r_pac,
                             call <- r_call, up <- r_up, down <- r_down,
                             upOpen <- r_upOpen, downOpen <- r_downOpen,
                             server <- r_server, handled <- r_handled,
                             results <- r_results, dialled <- r_dialled
RpcLive == INSTANCE Rpc WITH Kinds <- {"call", "throw", "notify"}, MaxCalls <- 4,
                             MaxConns <- 1, Interrupts <- CallsInterrupted,
                             Fails <- FALSE, Cuts <- TRUE, sock <- r_sock,
                             pac <- r_pac, call <- r_call, up <- r_up,
                             down <- r_down, upOpen <- r_upOpen,
                             downOpen <- r_downOpen, server <- r_server,
                             handled <- r_handled, results <- r_results,
                             dialled <- r_dialled

channelVars == <<queue, closed, not_empty, not_full, call, at, token, canceled, sent,
                 got>>
copyVars == <<c_queue, c_closed, c_not_empty, c_not_full, c_call, c_at, c_token,
              c_canceled, c_sent, c_got>>
ioVars == <<e_tasks, e_events, e_epoll, e_ready, e_call, e_token, e_revents>>
procVars == <<p_queue, p_closed, p_client, p_proc, p_ran>>
netVars == <<n_listening, n_connected, n_pending, n_thread, n_served, n_closed,
             n_fails>>
httpVars == <<h_sock, h_call, h_left, h_up, h_down, h_upOpen, h_downOpen, h_server,
              h_sent, h_logged, h_dialled, h_answers>>
rpcVars == <<r_sock, r_pac, r_call, r_up, r_down, r_upOpen, r_downOpen, r_server,
             r_handled, r_results, r_dialled>>
NotChannel == <<part, copyVars, ioVars, procVars, netVars, httpVars, rpcVars>>
NotCopy == <<part, channelVars, ioVars, procVars, netVars, httpVars, rpcVars>>
NotIo == <<part, channelVars, copyVars, procVars, netVars, httpVars, rpcVars>>
NotProc == <<part, channelVars, copyVars, ioVars, netVars, httpVars, rpcVars>>
NotNet == <<part, channelVars, copyVars, ioVars, procVars, httpVars, rpcVars>>
NotHttp == <<part, channelVars, copyVars, ioVars, procVars, netVars, rpcVars>>
NotRpc == <<part, channelVars, copyVars, ioVars, procVars, netVars, httpVars>>
allVars == <<part, channelVars, copyVars, ioVars, procVars, netVars, httpVars, rpcVars>>

Start ==
    /\ part \in Parts
    /\ Init
    /\ IF part = "channel_live" THEN ChLive!Init
       ELSE Buffered!Init
    /\ Own!Init
    /\ IF part = "ioproc_batch" THEN Batch!Init
       ELSE IoPool!Init
    /\ Serve!Init
    /\ Http!Init
    /\ IF part = "rpc_interrupts" THEN RpcInts!Init
       ELSE IF part = "rpc_live" THEN RpcLive!Init
       ELSE RpcPlain!Init

Steps ==
    \/ part = "channel" /\ Next /\ UNCHANGED NotChannel
    \/ part = "channel_buffered" /\ Buffered!Next /\ UNCHANGED NotCopy
    \/ part = "channel_cleared" /\ Cleared!Next /\ UNCHANGED NotCopy
    \/ part = "channel_live" /\ ChLive!Next /\ UNCHANGED NotCopy
    \/ part = "io" /\ Own!Next /\ UNCHANGED NotIo
    \/ part = "io_shared" /\ Shared!Next /\ UNCHANGED NotIo
    \/ part = "ioproc" /\ IoPool!Next /\ UNCHANGED NotProc
    \/ part = "ioproc_batch" /\ Batch!Next /\ UNCHANGED NotProc
    \/ part = "server" /\ Serve!Next /\ UNCHANGED NotNet
    \/ part = "server_throws" /\ ServeThrows!Next /\ UNCHANGED NotNet
    \/ part = "http" /\ Http!Next /\ UNCHANGED NotHttp
    \/ part = "http_interrupts" /\ HttpInts!Next /\ UNCHANGED NotHttp
    \/ part = "http_unframed" /\ HttpBare!Next /\ UNCHANGED NotHttp
    \/ part = "http_live" /\ HttpLive!Next /\ UNCHANGED NotHttp
    \/ part = "rpc" /\ RpcPlain!Next /\ UNCHANGED NotRpc
    \/ part = "rpc_interrupts" /\ RpcInts!Next /\ UNCHANGED NotRpc
    \/ part = "rpc_live" /\ RpcLive!Next /\ UNCHANGED NotRpc

Safe == Start /\ [][Steps]_allVars


(* Tasks and threads that can go on do, epoll_wait reports what is there,  *)
(* and what is sent arrives.  The calls of the clients are finite in       *)
(* number, so nobody is overtaken for ever.                                *)
Fair ==
    /\ Safe
    /\ \A t \in {s1, s2, r1} : WF_copyVars(part = "channel_live" /\ ChLive!Step(t))
    /\ \A fd \in {x, y} : WF_ioVars(part = "io" /\ Own!Event(fd))
    /\ \A t \in {a, b} : WF_ioVars(part = "io" /\ Own!Return(t))
    /\ \A t \in {a, b, c} : WF_procVars(part = "ioproc" /\ IoPool!ClientStep(t))
    /\ \A t \in {a, b} : WF_procVars(part = "ioproc_batch" /\ Batch!ClientStep(t))
    /\ \A t \in {x, y} : /\ WF_procVars(part = "ioproc" /\ IoPool!ProcStep(t))
                         /\ WF_procVars(part = "ioproc_batch" /\ Batch!ProcStep(t))
    /\ WF_procVars(part = "ioproc" /\ IoPool!Destroy)
    /\ WF_procVars(part = "ioproc_batch" /\ Batch!Destroy)
    /\ WF_netVars(part = "server" /\ Serve!Join)
    /\ \A t \in {a, b} : WF_netVars(part = "server" /\ Serve!Step(t))
    /\ WF_httpVars(part = "http_live" /\ HttpLive!Client)
    /\ \A s \in {1, 2} : WF_httpVars(part = "http_live" /\ HttpLive!Server(s))
    /\ WF_rpcVars(part = "rpc_live" /\ RpcLive!Client)
    /\ WF_rpcVars(part = "rpc_live" /\ RpcLive!Server(1))
-----------------------------------------------------------------------------
(* Properties: those of the modules, of the component that runs.           *)


\* When all is quiet nobody waits for what is there: no receiver for an item, no sender
\* for room, nobody on a closed channel, also when the channel has a buffer and when it
\* is cleared while tasks wait.
ChannelsServe ==
    CASE part = "channel_buffered" -> Buffered!NobodyStuck
      [] part = "channel_cleared"  -> Cleared!NobodyStuck
      [] OTHER                     -> TRUE

\* The entries of a descriptor in io are the polls that wait for it, so that none points
\* to the stack of a poll that has returned; and when every task has descriptors of its
\* own a poll that waits is registered with epoll for every event it asks for, and epoll
\* reports no descriptor that nobody polls, so that wait() does not spin.
IoAgrees ==
    /\ part \in {"io", "io_shared"} => Own!EntriesAgree
    /\ part = "io" => Own!Registered /\ Own!NoSpin



\* A call of an ioproc is run once at most, iowait gets the result of a call of its own,
\* and a client that was not interrupted gets all its results.
IoProcRunOnce ==
    CASE part = "ioproc"       -> IoPool!RunOnce
      [] part = "ioproc_batch" -> Batch!RunOnce
      [] OTHER                 -> TRUE

\* An RPC call returns the result of its own call.
RpcOwnResult == part = "rpc_live" => RpcLive!OwnResult

=============================================================================
