----------------------------- MODULE HttpExchange -----------------------------
(***************************************************************************)
(* One HttpRequest (libcurl) that submits requests, one after the other on *)
(* a kept connection, to an HttpServer (libmicrohttpd): the framing submit *)
(* chooses, the calls of dispatch for the pieces in which the body comes,  *)
(* the ResponseState that lives from the first call to mhdCallback, and    *)
(* the answer the client gets.                                             *)
(*                                                                         *)
(* The two libraries are external.  A body without a length is sent with   *)
(* chunked encoding; MHD_queue_response is refused while a body is coming  *)
(* in, and a dispatch that returns MHD_NO closes the connection.  Urls,    *)
(* headers other than Content-Length, the encryption itself and the text   *)
(* of answers are left out.                                                *)
(***************************************************************************)
EXTENDS Integers, Sequences, FiniteSets, FiniteSetsExt

CONSTANTS
    MaxBody,        \* bytes of a body
    MaxRequests     \* calls of submit

HttpMethods == {"GET", "POST", "PUT", "DELETE", "OPTIONS"}
WithBody == {"POST", "PUT"}
NoLength == -1
NoState == [phase |-> 0]

VARIABLES
    hxServer,    \* the HttpServer: down, failed, http, https, stopped
    hxReq,       \* the request: [method, len, declared, throws]
    hxClient,    \* submit: idle, setup, waiting, returned, threw
    hxCode,      \* mResponse's code
    hxMhd,       \* the server's side of the connection: none, headers, body, footers
    hxLeft,      \* bytes of the body still to come
    hxState,     \* *aPtr: [phase, offset, contentLength, dataLen, stored]
    hxQueued,    \* the code queued, 0 for none
    hxHandled,   \* for each call of the handler, the bytes of the body it can see
    hxCount

httpVars == <<hxServer, hxReq, hxClient, hxCode, hxMhd, hxLeft, hxState, hxQueued, hxHandled, hxCount>>

NoRequest == [method |-> "GET", len |-> 0, declared |-> NoLength, throws |-> FALSE]

HttpInit ==
    /\ hxServer = "down"
    /\ hxReq = NoRequest /\ hxClient = "idle" /\ hxCode = 200
    /\ hxMhd = "none" /\ hxLeft = 0 /\ hxState = NoState /\ hxQueued = 0
    /\ hxHandled = << >> /\ hxCount = 0

-----------------------------------------------------------------------------
(* The HttpServer's constructor and destructor. *)

Running == {"http", "https"}
Steps == {"socket", "bind", "listen", "getsockname"}

\* FALSE when one of the steps fails: the socket is closed and the constructor throws.
\* The port is only asked for when it was left open.
createListenSocket(failing, anyPort) == failing = "none" \/ (failing = "getsockname" /\ ~anyPort)

\* TLS needs both files; one that is not named or cannot be read turns it off.
ServesTls(named, readable) == named = {"cert", "key"} /\ named \subseteq readable

StartServer ==
    /\ hxServer = "down"
    /\ \E named, readable \in SUBSET {"cert", "key"}, failing \in Steps \cup {"none"}, anyPort, daemon \in BOOLEAN :
          hxServer' = IF ~createListenSocket(failing, anyPort) \/ ~daemon THEN "failed"
                      ELSE IF ServesTls(named, readable) THEN "https" ELSE "http"
    /\ UNCHANGED <<hxReq, hxClient, hxCode, hxMhd, hxLeft, hxState, hxQueued, hxHandled, hxCount>>

\* MHD_stop_daemon ends the connections, and mhdCallback their requests; an answer
\* that is queued may still have been sent.
StopServer ==
    /\ hxServer \in Running /\ hxServer' = "stopped"
    /\ hxState' = NoState
    /\ \/ hxQueued # 0 /\ UNCHANGED <<hxMhd, hxQueued>>
       \/ hxMhd' = (IF hxMhd = "none" THEN "none" ELSE "closed") /\ hxQueued' = 0
    /\ UNCHANGED <<hxReq, hxClient, hxCode, hxLeft, hxHandled, hxCount>>

-----------------------------------------------------------------------------
(* HttpRequest::submit. *)

\* POST announces its length; PUT is an upload of unknown size.
Declared(method, len) == IF method = "POST" THEN len ELSE NoLength

\* submit(string) sends the terminating zero with it, so a body is never empty.
SubmitTo(scheme, method, data, len, throws) ==
    /\ hxClient \in {"idle", "returned", "threw"} /\ hxCount < MaxRequests
    /\ hxCount' = hxCount + 1 /\ UNCHANGED hxServer
    /\ hxCode' = 200    \* mResponse.reset()
    /\ hxHandled' = << >> /\ hxState' = NoState /\ hxQueued' = 0
    /\ hxReq' = [method |-> method, len |-> len, declared |-> Declared(method, len), throws |-> throws]
    /\ IF (method \in WithBody /\ ~data) \/ scheme # hxServer
       THEN hxClient' = "threw" /\ hxMhd' = "none" /\ hxLeft' = 0    \* no data, or no such server
       ELSE hxClient' = "waiting" /\ hxMhd' = "headers" /\ hxLeft' = len

Submit ==
    \E scheme \in Running, method \in HttpMethods, data, throws \in BOOLEAN :
        \E len \in IF method \in WithBody /\ data THEN 1 .. MaxBody ELSE {0} :
            SubmitTo(scheme, method, data, len, throws)

\* curl_easy_perform is done: the code of the answer, or an exception.
Perform ==
    /\ hxClient = "waiting" /\ hxQueued # 0 /\ hxState = NoState
    /\ hxClient' = "returned" /\ hxCode' = hxQueued
    /\ UNCHANGED <<hxServer, hxReq, hxMhd, hxLeft, hxState, hxQueued, hxHandled, hxCount>>

PerformFails ==
    /\ hxClient = "waiting" /\ hxMhd = "closed" /\ hxState = NoState
    /\ hxClient' = "threw"
    /\ UNCHANGED <<hxServer, hxReq, hxCode, hxMhd, hxLeft, hxState, hxQueued, hxHandled, hxCount>>

-----------------------------------------------------------------------------
(* dispatch: the first call only makes the ResponseState. *)

NewResponseState == [phase |-> 1, offset |-> 0, contentLength |-> 0, dataLen |-> 0, stored |-> 0]

FirstCall ==
    /\ hxMhd = "headers" /\ hxState = NoState
    /\ hxState' = NewResponseState
    /\ hxMhd' = IF hxLeft > 0 THEN "body" ELSE "footers"
    /\ UNCHANGED <<hxServer, hxReq, hxClient, hxCode, hxLeft, hxQueued, hxHandled, hxCount>>

\* MHD_queue_response, and what handleError makes of its refusal: while the body
\* is coming in neither the answer nor an error answer can be queued.
QueueResponse(code) ==
    IF hxMhd = "footers" THEN hxQueued' = code /\ hxMhd' = "answering"
                         ELSE hxQueued' = hxQueued /\ hxMhd' = "closed"

\* The handler's answer, or a 500 with the text of its exception.
HandlerCode == IF hxReq.throws THEN 500 ELSE 201

\* The handler is called and the answer queued in one call.
HandleAndComplete ==
    /\ hxHandled' = Append(hxHandled, hxState.stored)
    /\ QueueResponse(HandlerCode)

DispatchWithoutBody ==
    /\ hxMhd = "footers" /\ hxReq.method \in {"GET", "DELETE"}
    /\ HandleAndComplete
    /\ UNCHANGED <<hxServer, hxReq, hxClient, hxCode, hxLeft, hxState, hxCount>>

DispatchUnsupported ==
    /\ hxMhd = "footers" /\ hxReq.method \notin {"GET", "DELETE"} \cup WithBody
    /\ QueueResponse(405)
    /\ UNCHANGED <<hxServer, hxReq, hxClient, hxCode, hxLeft, hxState, hxHandled, hxCount>>

\* _allocateData, once the length is known.
Allocated(st) ==
    IF st.contentLength = 0 /\ hxReq.declared # NoLength
    THEN [st EXCEPT !.contentLength = hxReq.declared, !.dataLen = hxReq.declared + 1]
    ELSE st

\* _appendData copies what there is room for.
Appended(st, n) ==
    [st EXCEPT !.stored = @ + Min({n, st.dataLen - st.offset}), !.offset = @ + n]

BodyStarted(st) == st.offset > 0    \* mutant: the first piece is taken for the whole
BodyComplete(st) == st.offset >= st.contentLength

\* A piece of a body in phase 1: stored, and handled when it is the last one.
ReceivePiece(n) ==
    /\ hxMhd = "body" /\ hxReq.method \in WithBody /\ hxState.phase = 1 /\ n \in 1 .. hxLeft
    /\ hxLeft' = hxLeft - n
    /\ \E st \in {Appended(Allocated(hxState), n)} :
          IF ~BodyComplete(st)
          THEN hxState' = st /\ UNCHANGED <<hxHandled, hxQueued, hxMhd>>
          ELSE /\ hxHandled' = Append(hxHandled, st.stored)
               /\ IF hxReq.throws
                  THEN hxState' = st /\ QueueResponse(500)
                  ELSE /\ hxState' = [st EXCEPT !.phase = 2]
                       /\ hxMhd' = (IF hxLeft = n THEN "footers" ELSE "body")
                       /\ hxQueued' = hxQueued
    /\ UNCHANGED <<hxServer, hxReq, hxClient, hxCode, hxCount>>

\* Phase 2: the answer, also when more of the body comes after all.
CompletePhase2 ==
    /\ hxMhd \in {"body", "footers"} /\ hxReq.method \in WithBody /\ hxState.phase = 2
    /\ QueueResponse(HandlerCode)
    /\ UNCHANGED <<hxServer, hxReq, hxClient, hxCode, hxLeft, hxState, hxHandled, hxCount>>

\* mhdCallback: the request is over, one way or the other.
Completed ==
    /\ hxMhd \in {"answering", "closed"} /\ hxState # NoState
    /\ hxState' = NoState
    /\ UNCHANGED <<hxServer, hxReq, hxClient, hxCode, hxMhd, hxLeft, hxQueued, hxHandled, hxCount>>

HttpServerStep ==
    \/ FirstCall \/ DispatchWithoutBody \/ DispatchUnsupported \/ CompletePhase2 \/ Completed
    \/ \E n \in 1 .. MaxBody : ReceivePiece(n)

HttpNext == StartServer \/ StopServer \/ Submit \/ Perform \/ PerformFails \/ HttpServerStep

HttpSpec == HttpInit /\ [][HttpNext]_httpVars

-----------------------------------------------------------------------------
(* Properties. *)

\* submit returns what the handler answered: the handler ran exactly once, a POST
\* body that came in any number of pieces was whole when it ran, an unsupported
\* method was refused without it, and the call threw only where the answer could
\* not be queued (a handler that threw during an upload, or more of an upload of
\* unknown size after its first piece) or the server was stopped first.
ExchangeFaithful ==
    /\ hxClient = "returned" =>
          IF hxReq.method \in WithBody \cup {"GET", "DELETE"}
          THEN /\ Len(hxHandled) = 1 /\ hxCode = HandlerCode
               /\ hxReq.method = "POST" => hxHandled[1] = hxReq.len
          ELSE hxHandled = << >> /\ hxCode = 405
    /\ hxClient = "threw" /\ hxHandled # << >> =>
          Len(hxHandled) = 1 /\ (hxReq.throws \/ hxReq.method = "PUT" \/ hxServer = "stopped")
=============================================================================
