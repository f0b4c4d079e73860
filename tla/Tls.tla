-------------------------------- MODULE Tls ---------------------------------
(***************************************************************************)
(* TLS connections (src/net/tls/tls_context.cpp): OpenSSL between two      *)
(* memory BIOs, which coroutines pump from and to the socket, and the      *)
(* accept loop of App::run(), which performs each handshake itself.        *)
(*                                                                         *)
(* A message stands for a flight of records; the socket may deliver        *)
(* several together.  Without false start a TLS 1.2 client sends requests  *)
(* only after the server's Finished; the others do as soon as they have    *)
(* sent their own.                                                         *)
(***************************************************************************)
EXTENDS Naturals, Sequences

CONSTANTS
    Clients,
    NoClient,
    MaxRequests   \* a bound: the requests of a client

TlsAssumption == NoClient \notin Clients /\ MaxRequests \in Nat

VARIABLES
    version,    \* per client: "1.2", "1.2 false start" or "1.3"
    client,     \* per client: where it is
    requests,   \* per client: the requests it has sent
    answered,   \* per client: the responses it has received
    toServer,   \* per client: what the socket holds for the server
    toClient,   \* per client: what it holds for the client
    rbio, wbio, \* per client: the messages in the BIOs
    ssl,        \* per client: OpenSSL's state: the message it waits for, or "up"
    backlog,    \* connections that have not been accepted
    serving,    \* the connection whose handshake the accept loop performs
    loop,       \* where the accept loop is
    handler     \* per client: where handle_connection() is

vars == <<version, client, requests, answered, toServer, toClient, rbio, wbio, ssl, backlog,
          serving, loop, handler>>
clientVars == <<version, client, requests, answered, backlog>>

ToServer == {"hello", "finished", "request", "close_notify"}
ToClient == {"server hello", "server finished", "response"}

TypeOK ==
    /\ version \in [Clients -> {"1.2", "1.2 false start", "1.3"}]
    /\ client \in [Clients -> {"off", "hello", "finished", "ready", "left"}]
    /\ requests \in [Clients -> 0..MaxRequests] /\ answered \in [Clients -> 0..MaxRequests]
    /\ toServer \in [Clients -> Seq(ToServer)] /\ rbio \in [Clients -> Seq(ToServer)]
    /\ toClient \in [Clients -> Seq(ToClient)] /\ wbio \in [Clients -> Seq(ToClient)]
    /\ ssl \in [Clients -> {"hello", "finished", "up"}]
    /\ backlog \in Seq(Clients)
    /\ serving \in Clients \cup {NoClient}
    /\ loop \in {"accept", "handshake", "flush", "fill"}
    /\ handler \in [Clients -> {"none", "read", "fill", "flush", "ended"}]

Init ==
    /\ version \in [Clients -> {"1.2", "1.2 false start", "1.3"}]
    /\ client = [c \in Clients |-> "off"]
    /\ requests = [c \in Clients |-> 0] /\ answered = [c \in Clients |-> 0]
    /\ toServer = [c \in Clients |-> <<>>] /\ rbio = [c \in Clients |-> <<>>]
    /\ toClient = [c \in Clients |-> <<>>] /\ wbio = [c \in Clients |-> <<>>]
    /\ ssl = [c \in Clients |-> "hello"]
    /\ backlog = <<>> /\ serving = NoClient /\ loop = "accept"
    /\ handler = [c \in Clients |-> "none"]

-----------------------------------------------------------------------------
(* The client.                                                             *)

Gone(c) == client[c] = "left"
Send(c, m) == toServer' = [toServer EXCEPT ![c] = Append(@, m)]
Become(c, s) == client' = [client EXCEPT ![c] = s]

Connect(c) ==
    /\ client[c] = "off"
    /\ Become(c, "hello") /\ Send(c, "hello")
    /\ backlog' = Append(backlog, c)
    /\ UNCHANGED <<version, requests, answered, toClient, rbio, wbio, ssl, serving, loop, handler>>

ClientReceives(c) ==
    /\ ~Gone(c) /\ toClient[c] # <<>>
    /\ toClient' = [toClient EXCEPT ![c] = Tail(@)]
    /\ CASE Head(toClient[c]) = "server hello" ->
              /\ Send(c, "finished") /\ UNCHANGED answered
              /\ Become(c, IF version[c] = "1.2" THEN "finished" ELSE "ready")
         [] Head(toClient[c]) = "server finished" ->
              Become(c, "ready") /\ UNCHANGED <<toServer, answered>>
         [] Head(toClient[c]) = "response" ->
              answered' = [answered EXCEPT ![c] = @ + 1] /\ UNCHANGED <<client, toServer>>
    /\ UNCHANGED <<version, requests, backlog, rbio, wbio, ssl, serving, loop, handler>>

Request(c) ==
    /\ client[c] = "ready" /\ requests[c] = answered[c] /\ requests[c] < MaxRequests
    /\ requests' = [requests EXCEPT ![c] = @ + 1]
    /\ Send(c, "request")
    /\ UNCHANGED <<version, client, answered, backlog, toClient, rbio, wbio, ssl, serving, loop, handler>>

(* It leaves at any time, with close_notify or without.                    *)
Leave(c) ==
    /\ client[c] \notin {"off", "left"}
    /\ Become(c, "left")
    /\ toClient' = [toClient EXCEPT ![c] = <<>>]
    /\ \/ UNCHANGED toServer
       \/ client[c] = "ready" /\ Send(c, "close_notify")
    /\ UNCHANGED <<version, requests, answered, backlog, rbio, wbio, ssl, serving, loop, handler>>

-----------------------------------------------------------------------------
(* The BIOs.                                                               *)

(* fill_read_bio(): async_read() of the socket returns some of what is     *)
(* there.                                                                  *)
Fill(c) ==
    \E n \in 1..Len(toServer[c]) :
        /\ rbio' = [rbio EXCEPT ![c] = @ \o SubSeq(toServer[c], 1, n)]
        /\ toServer' = [toServer EXCEPT ![c] = SubSeq(@, n + 1, Len(@))]
FillFails(c) == toServer[c] = <<>> /\ Gone(c)

(* One round of flush_write_bio(), until nothing is pending.               *)
FlushChunk(c) ==
    /\ wbio[c] # <<>>
    /\ toClient' = [toClient EXCEPT ![c] = IF Gone(c) THEN <<>> ELSE @ \o wbio[c]]
    /\ wbio' = [wbio EXCEPT ![c] = <<>>]

-----------------------------------------------------------------------------
(* The accept loop.                                                        *)

(* TlsListener::accept_no_handshake().                                     *)
Accept ==
    /\ loop = "accept" /\ backlog # <<>>
    /\ serving' = Head(backlog) /\ backlog' = Tail(backlog)
    /\ loop' = "handshake"
    /\ UNCHANGED <<version, client, requests, answered, toServer, toClient, rbio, wbio, ssl, handler>>

(* The next connection, after a handshake or its failure.                  *)
NextAccept == loop' = "accept" /\ serving' = NoClient

(* SSL_do_handshake(): consumes the message it waits for and writes its    *)
(* answer to wbio (in TLS 1.3 the last one is tickets, of no interest to   *)
(* the client); without a message it wants to read.                        *)
DoHandshake ==
    LET c == serving
        answer == IF ssl[c] = "hello" THEN <<"server hello">>
                  ELSE IF version[c] = "1.3" THEN <<>> ELSE <<"server finished">>
    IN  /\ loop = "handshake"
        /\ IF rbio[c] = <<>>
           THEN loop' = "flush" /\ UNCHANGED <<rbio, wbio, ssl>>
           ELSE /\ rbio' = [rbio EXCEPT ![c] = Tail(@)]
                /\ wbio' = [wbio EXCEPT ![c] = @ \o answer]
                /\ ssl' = [ssl EXCEPT ![c] = IF @ = "hello" THEN "finished" ELSE "up"]
                /\ UNCHANGED loop
        /\ ssl[c] # "up"
        /\ UNCHANGED <<clientVars, toServer, toClient, serving, handler>>

(* The handshake has succeeded: the connection gets its coroutine.         *)
HandshakeDone ==
    /\ loop = "handshake" /\ ssl[serving] = "up"
    /\ handler' = [handler EXCEPT ![serving] = "read"]
    /\ NextAccept
    /\ UNCHANGED <<clientVars, toServer, toClient, rbio, wbio, ssl>>

(* Mutant: what SSL_do_handshake() has written stays in wbio.              *)
HandshakeUnflushed ==
    /\ loop = "flush"
    /\ loop' = "fill"
    /\ UNCHANGED <<clientVars, toServer, toClient, rbio, wbio, ssl, serving, handler>>

HandshakeFlush ==
    /\ loop = "flush"
    /\ IF wbio[serving] = <<>> THEN loop' = "fill" /\ UNCHANGED <<toClient, wbio>>
       ELSE FlushChunk(serving) /\ UNCHANGED loop
    /\ UNCHANGED <<clientVars, toServer, rbio, ssl, serving, handler>>

HandshakeFill ==
    /\ loop = "fill" /\ Fill(serving)
    /\ loop' = "handshake"
    /\ UNCHANGED <<clientVars, toClient, wbio, ssl, serving, handler>>

(* The client has left: the error is printed and the loop goes on.         *)
HandshakeFails ==
    /\ \/ loop = "flush" /\ Gone(serving)
       \/ loop = "fill" /\ FillFails(serving)
    /\ handler' = [handler EXCEPT ![serving] = "ended"]
    /\ NextAccept
    /\ UNCHANGED <<clientVars, toServer, toClient, rbio, wbio, ssl>>

AcceptLoop ==
    Accept \/ DoHandshake \/ HandshakeDone \/ HandshakeFlush \/ HandshakeFill \/ HandshakeFails

-----------------------------------------------------------------------------
(* handle_connection(), over async_read() and async_write_all().           *)

Handler(c, l) == handler' = [handler EXCEPT ![c] = l]

(* SSL_read(): a request, which is answered with SSL_write(); the client's *)
(* close_notify ends the connection; otherwise it wants to read.           *)
SslRead(c) ==
    /\ handler[c] = "read"
    /\ IF rbio[c] = <<>> THEN Handler(c, "fill") /\ UNCHANGED <<rbio, wbio>>
       ELSE /\ rbio' = [rbio EXCEPT ![c] = Tail(@)]
            /\ IF Head(rbio[c]) = "request"
               THEN Handler(c, "flush") /\ wbio' = [wbio EXCEPT ![c] = Append(@, "response")]
               ELSE Handler(c, "ended") /\ UNCHANGED wbio
    /\ UNCHANGED <<clientVars, toServer, toClient, ssl, serving, loop>>

ReadFill(c) ==
    /\ handler[c] = "fill"
    /\ \/ Fill(c) /\ Handler(c, "read")
       \/ FillFails(c) /\ Handler(c, "ended") /\ UNCHANGED <<rbio, toServer>>
    /\ UNCHANGED <<clientVars, toClient, wbio, ssl, serving, loop>>

WriteFlush(c) ==
    /\ handler[c] = "flush"
    /\ \/ wbio[c] = <<>> /\ Handler(c, "read") /\ UNCHANGED <<toClient, wbio>>
       \/ FlushChunk(c) /\ UNCHANGED handler
       \/ wbio[c] # <<>> /\ Gone(c) /\ Handler(c, "ended") /\ UNCHANGED <<toClient, wbio>>
    /\ UNCHANGED <<clientVars, toServer, rbio, ssl, serving, loop>>

Handle(c) == SslRead(c) \/ ReadFill(c) \/ WriteFlush(c)

Client(c) == Connect(c) \/ ClientReceives(c) \/ Request(c) \/ Leave(c)

(* Every client waits for the server and the server for every client.      *)
Quiet ==
    /\ loop = "accept" \/ loop = "fill"
    /\ \A c \in Clients : handler[c] \in {"none", "fill", "ended"}

Next ==
    \/ AcceptLoop
    \/ \E c \in Clients : Handle(c) \/ Client(c)
    \/ Quiet /\ UNCHANGED vars

Spec == Init /\ [][Next]_vars

-----------------------------------------------------------------------------
(* Whatever the server could do, and the clients for what it has sent.     *)
Busy == AcceptLoop \/ \E c \in Clients : Handle(c) \/ ClientReceives(c)

(* Nothing of it is left: the accept loop waits for a connection or for a  *)
(* client that is still there, each handler has ended or waits for its     *)
(* client, and no client has anything to receive.                          *)
Idle ==
    /\ \/ loop = "accept" /\ backlog = <<>>
       \/ loop = "fill" /\ toServer[serving] = <<>> /\ ~Gone(serving)
    /\ \A c \in Clients :
          /\ \/ handler[c] \in {"none", "ended"}
             \/ handler[c] = "fill" /\ toServer[c] = <<>> /\ ~Gone(c)
          /\ Gone(c) \/ toClient[c] = <<>>

(* These are the states in which neither the server nor a client that was  *)
(* sent something can take a step.                                         *)
IdleIsStuck == Idle <=> ~ENABLED Busy

(* A request is answered, through both BIOs, unless its client leaves: no  *)
(* part of it stays in a BIO or a socket while everyone waits.             *)
TlsAnswered == Idle => \A c \in Clients : requests[c] = answered[c] \/ Gone(c)

(* A client whose handshake has not been begun waits only for the one that *)
(* the accept loop performs: none is forgotten after others have failed.   *)
HandshakeReached ==
    Idle => \A c \in Clients : client[c] # "off" /\ handler[c] = "none" => serving # NoClient

(* Nor does that one wait for an answer to its hello.                      *)
HelloAnswered == Idle => \A c \in Clients : client[c] = "hello" => serving # c

(* The handshake of a client that answers every flight of it completes.    *)
(* The code does not keep this: what SSL_do_handshake() writes last in TLS *)
(* 1.2 is not flushed, and a client without false start waits for it.      *)
HandshakeCompletes == Idle => \A c \in Clients : client[c] # "finished"
=============================================================================
