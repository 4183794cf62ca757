--------------------------- MODULE HttpClientSession ---------------------------
(***************************************************************************)
(* SslSession and SimpleSession: a session holds one connection, to host_. *)
(* sendRequest connects when it has to and exchanges one request for one   *)
(* answer; downloadWithRedirect repeats that while the answer is a         *)
(* redirect.  Both classes have the same control; TLS adds a handshake,    *)
(* one more step that may fail.                                            *)
(*                                                                         *)
(* The peer is the environment: any host may answer anything, close the    *)
(* connection afterwards, or let an operation run into its timeout.  A     *)
(* session may be used for several operations, one after the other; the    *)
(* server itself makes a new one for each.                                 *)
(***************************************************************************)
EXTENDS Naturals, Sequences, SequencesExt

CONSTANTS Hosts,         \* values of a Host header: a name and a port
          MaxRedirect,   \* parameter of downloadWithRedirect
          MaxOperations, \* bound on the operations of a session
          None

ASSUME SessionAssumption ==
  /\ MaxRedirect \in Nat /\ MaxOperations \in Nat
  /\ None \notin Hosts /\ (Hosts \cup {None}) \cap {"missing", "invalid"} = {}

VARIABLES
  pc,            \* what the operation does next, or how it ended
  mode,          \* "send" for sendRequest, "download" for downloadWithRedirect
  req,           \* the Host header of the request to send
  host_,         \* the host the session believes to be connected to
  socket,        \* the host the open socket goes to, or None
  dropped,       \* whether that host has closed the connection
  redirectCount,
  operations,    \* operations begun
  first,         \* the host of the operation's first request
  asked,         \* the hosts that got a request of the operation, in order
  answers        \* what they answered, in order

connection == <<host_, socket, dropped>>
log == <<operations, first, asked, answers>>
vars == <<pc, mode, req, connection, redirectCount, log>>

\* found, moved permanently and temporary redirect are followed; Location may
\* name a host, only a path (None), be missing or be no URL.
Redirects == [redirect : {TRUE}, location : Hosts \cup {None} \cup {"missing", "invalid"}]
Plain == [redirect |-> FALSE, location |-> "missing"]
Answers == Redirects \cup {Plain}

Ends == {"answer", "too many", "failed"}

TypeOK ==
  /\ pc \in {"idle", "connect", "write", "read"} \cup Ends
  /\ mode \in {"send", "download"}
  /\ req \in Hosts \cup {None} /\ host_ \in Hosts \cup {None} /\ socket \in Hosts \cup {None}
  /\ dropped \in BOOLEAN
  /\ redirectCount \in 0 .. MaxRedirect
  /\ operations \in 0 .. MaxOperations /\ first \in Hosts \cup {None}
  /\ asked \in Seq(Hosts) /\ answers \in Seq(Answers)
  /\ socket # None => socket = host_
  /\ pc # "idle" => req \in Hosts /\ first \in Hosts

Init ==
  /\ pc = "idle" /\ mode = "send" /\ req = None
  /\ host_ = None /\ socket = None /\ dropped = FALSE
  /\ redirectCount = 0 /\ operations = 0 /\ first = None /\ asked = <<>> /\ answers = <<>>

-----------------------------------------------------------------------------
Begin(m, host) ==
  /\ pc \in {"idle"} \cup Ends
  /\ operations < MaxOperations
  /\ operations' = operations + 1
  /\ mode' = m /\ req' = host /\ first' = host
  /\ redirectCount' = 0 /\ asked' = <<>> /\ answers' = <<>>
  /\ pc' = IF m = "download" /\ MaxRedirect = 0 THEN "too many" ELSE "connect"
  /\ UNCHANGED connection

\* connectToSender: a connection to the same host is used again, whether or
\* not the host has closed it; one to another host is stopped first.  A
\* mutant of Reuse does not compare the hosts, one of stopConnectToSender
\* leaves the socket open.
ReuseAny ==
  /\ pc = "connect" /\ socket # None
  /\ pc' = "write"
  /\ UNCHANGED <<mode, req, connection, redirectCount, log>>
Reuse ==
  /\ pc = "connect" /\ socket # None /\ host_ = req
  /\ pc' = "write"
  /\ UNCHANGED <<mode, req, connection, redirectCount, log>>

StopNothing == UNCHANGED <<host_, socket, dropped>>
stopConnectToSender ==
  /\ socket' = None /\ dropped' = FALSE
  /\ UNCHANGED host_

StopOther ==
  /\ pc = "connect" /\ socket # None /\ host_ # req
  /\ stopConnectToSender
  /\ UNCHANGED <<pc, mode, req, redirectCount, log>>

\* async_resolve, async_connect and async_handshake.  Connecting or the
\* handshake may fail with the socket open, which is_connected takes for a
\* connection that can be used.
Connect ==
  /\ pc = "connect" /\ socket = None
  /\ host_' = req
  /\ \/ pc' = "write" /\ socket' = req
     \/ pc' = "failed" /\ socket' \in {None, req}
  /\ dropped' = (pc' = "failed" /\ socket' # None)
  /\ UNCHANGED <<mode, req, redirectCount, log>>

\* async_write, or its failure and its timeout, which closes the socket.
Fail ==
  /\ pc \in {"write", "read"}
  /\ pc' = "failed" /\ socket' \in {None, socket}
  /\ dropped' = (socket' # None)
  /\ UNCHANGED <<mode, req, host_, redirectCount, log>>

Write ==
  /\ pc = "write" /\ ~dropped
  /\ asked' = Append(asked, socket)
  /\ pc' = "read"
  /\ UNCHANGED <<mode, req, connection, redirectCount, operations, first, answers>>

\* async_read, and what downloadWithRedirect does with the answer.
\* The limit is off by one in a mutant.
AfterOneMore(count) == IF count <= MaxRedirect THEN "connect" ELSE "too many"
AfterRedirect(count) == IF count < MaxRedirect THEN "connect" ELSE "too many"
NewHost(answer) == IF answer.location = None THEN req ELSE answer.location
Follow(answer) ==
  IF answer.location \in {"missing", "invalid"}
  THEN pc' = "failed" /\ UNCHANGED <<req, host_, socket, redirectCount>>
  ELSE /\ req' = NewHost(answer)
       /\ IF NewHost(answer) # req THEN socket' = None ELSE UNCHANGED socket
       /\ redirectCount' = redirectCount + 1
       /\ pc' = AfterRedirect(redirectCount + 1)
       /\ UNCHANGED host_

Read(answer, closes) ==
  /\ pc = "read"
  /\ answers' = Append(answers, answer)
  /\ IF mode = "download" /\ answer.redirect THEN Follow(answer)
     ELSE pc' = "answer" /\ UNCHANGED <<req, host_, socket, redirectCount>>
  /\ dropped' = (closes /\ socket' # None)
  /\ UNCHANGED <<mode, operations, first, asked>>

Step ==
  \/ Reuse \/ StopOther \/ Connect \/ Write \/ Fail
  \/ \E answer \in Answers, closes \in BOOLEAN : Read(answer, closes)
Ended == pc \in Ends /\ operations = MaxOperations /\ UNCHANGED vars
Next == (\E m \in {"send", "download"}, host \in Hosts : Begin(m, host)) \/ Step \/ Ended

Spec == Init /\ [][Next]_vars

\* Every step of the network ends: the timers of the stream see to that.
FairSpec == Spec /\ WF_vars(Step)

-----------------------------------------------------------------------------
(***************************************************************************)
(* The first request of an operation goes to the host it was given, every  *)
(* other to the host the answer before it named, or to the same host again *)
(* when that answer named a path only: a connection that is left from an   *)
(* earlier request or operation is never used for another host.            *)
(***************************************************************************)
RequestsReachTheirHost ==
  \A k \in DOMAIN asked :
    asked[k] = IF k = 1 THEN first
               ELSE IF answers[k - 1].location = None THEN asked[k - 1] ELSE answers[k - 1].location

(***************************************************************************)
(* maxRedirect bounds the requests and not the redirects: the download is  *)
(* given up with "Too many redirects" when that many redirects came, no    *)
(* request more is sent, and no redirect is ever returned as the file.     *)
(***************************************************************************)
RedirectLimit ==
  mode = "download" =>
    /\ Len(asked) <= MaxRedirect
    /\ pc = "too many" <=> pc # "idle" /\ Len(answers) = MaxRedirect
                           /\ \A k \in DOMAIN answers : answers[k].redirect /\ answers[k].location \in Hosts \cup {None}
    /\ pc = "answer" => ~Last(answers).redirect

\* Why the two hold: an operation under way has followed every answer so
\* far, and its connection, once it is there, goes to the host it asks next.
UnderWay == pc \in {"connect", "write", "read"}
NextHost(n) == IF n = 0 THEN first ELSE IF answers[n].location = None THEN asked[n] ELSE answers[n].location
Followed(answer) == answer.redirect /\ answer.location \in Hosts \cup {None}
Exchanges ==
  /\ Len(asked) \in {Len(answers), Len(answers) + 1}
  /\ \A k \in 1 .. Len(asked) : asked[k] = NextHost(k - 1)
  /\ UnderWay => /\ Len(asked) = Len(answers) + (IF pc = "read" THEN 1 ELSE 0)
                 /\ req = NextHost(Len(answers))
                 /\ pc # "connect" => socket = req
RedirectsFollowed ==
  UnderWay => IF mode = "download"
              THEN Len(answers) = redirectCount /\ redirectCount < MaxRedirect /\ \A k \in 1 .. Len(answers) : Followed(answers[k])
              ELSE Len(answers) = 0
OperationInv == TypeOK /\ Exchanges /\ RedirectsFollowed /\ RedirectLimit

(***************************************************************************)
(* An operation ends, also when two hosts redirect to each other for ever. *)
(***************************************************************************)
OperationsEnd == pc # "idle" ~> pc \in Ends
=============================================================================
