------------------------------ MODULE HttpSession ------------------------------
(***************************************************************************)
(* The server's side of its connections: listen accepts them, doSession    *)
(* reads a request, has requestHandler answer it, writes the answer and    *)
(* reads again, until an answer whose end only the end of the connection   *)
(* marks (need_eof).                                                       *)
(*                                                                         *)
(* The client is the environment: it sends several requests without        *)
(* waiting for answers, it may stop reading them, so that no more of them  *)
(* fits between the two sides, and it may close the connection at any      *)
(* moment.                                                                 *)
(* Requests of a connection are numbered; bytes that have arrived but not  *)
(* been read are in inbox, the flat_buffer of the session included.        *)
(***************************************************************************)
EXTENDS Naturals, FiniteSets, Sequences

CONSTANTS Conns,       \* connections clients open
          MaxRequests, \* bound on the requests of a connection
          MaxOpen      \* sockets the process may have open

ASSUME ListenerAssumption == MaxRequests \in Nat /\ MaxOpen \in Nat

VARIABLES
  listener,  \* "accepting", or "ended" after an exception
  conn,      \* "new", "backlog", "open" or "closed"
  client,    \* "reads", "full" when it stopped and nothing more fits, "gone"
  sent,      \* requests the client has sent
  inbox,     \* the numbers of those the session has not read
  session,   \* [at, request, answer]: what doSession does next, about what
  answered,  \* for each answer written, the request it is for and its kind
  handled    \* the requests given to requestHandler

link == <<conn, client, sent, inbox>>
listenerVars == <<listener, link, session, answered, handled>>

\* What a handler may come to.  204 and an answer after prepare_payload say
\* how long they are; an answer without does not.  boost::json and the
\* database throw system_error, stoll and at() throw other exceptions.
Framed == {"whole", "204"}
Kinds == Framed \cup {"eof"}

Sessions == [at : {"none", "read", "handle", "write"}, request : 0 .. MaxRequests, answer : Kinds \cup {"none"}]
Idle == [at |-> "none", request |-> 0, answer |-> "none"]

ListenerTypeOK ==
  /\ listener \in {"accepting", "ended"}
  /\ conn \in [Conns -> {"new", "backlog", "open", "closed"}]
  /\ client \in [Conns -> {"reads", "full", "gone"}]
  /\ sent \in [Conns -> 0 .. MaxRequests]
  /\ inbox \in [Conns -> Seq(1 .. MaxRequests)]
  /\ session \in [Conns -> Sessions]
  /\ answered \in [Conns -> Seq([request : 1 .. MaxRequests, kind : Kinds])]
  /\ handled \in [Conns -> SUBSET (1 .. MaxRequests)]
  /\ \A c \in Conns : /\ session[c].at # "none" <=> conn[c] = "open"
                      /\ session[c].at = "write" <=> session[c].answer # "none"

ListenerInit ==
  /\ listener = "accepting"
  /\ conn = [c \in Conns |-> "new"] /\ client = [c \in Conns |-> "reads"]
  /\ sent = [c \in Conns |-> 0] /\ inbox = [c \in Conns |-> <<>>]
  /\ session = [c \in Conns |-> Idle]
  /\ answered = [c \in Conns |-> <<>>] /\ handled = [c \in Conns |-> {}]

-----------------------------------------------------------------------------
Open == {c \in Conns : conn[c] = "open"}

Dial(c) ==
  /\ conn[c] = "new"
  /\ conn' = [conn EXCEPT ![c] = "backlog"]
  /\ UNCHANGED <<listener, client, sent, inbox, session, answered, handled>>

\* listen: async_accept, then a coroutine for the connection.  Without a free
\* descriptor async_accept throws, and the catch is outside the loop.
Accept(c) ==
  /\ listener = "accepting" /\ conn[c] = "backlog"
  /\ IF Cardinality(Open) < MaxOpen
     THEN /\ conn' = [conn EXCEPT ![c] = "open"]
          /\ session' = [session EXCEPT ![c] = [at |-> "read", request |-> 0, answer |-> "none"]]
          /\ UNCHANGED listener
     ELSE listener' = "ended" /\ UNCHANGED <<conn, session>>
  /\ UNCHANGED <<client, sent, inbox, answered, handled>>

Send(c) ==
  /\ conn[c] \in {"backlog", "open"} /\ client[c] # "gone" /\ sent[c] < MaxRequests
  /\ sent' = [sent EXCEPT ![c] = @ + 1]
  /\ inbox' = [inbox EXCEPT ![c] = Append(@, sent[c] + 1)]
  /\ UNCHANGED <<listener, conn, client, session, answered, handled>>

Hangup(c) ==
  /\ conn[c] \in {"backlog", "open"} /\ client[c] # "gone"
  /\ client' = [client EXCEPT ![c] = "gone"]
  /\ UNCHANGED <<listener, conn, sent, inbox, session, answered, handled>>

StopReading(c) ==
  /\ conn[c] = "open" /\ client[c] = "reads"
  /\ client' = [client EXCEPT ![c] = "full"]
  /\ UNCHANGED <<listener, conn, sent, inbox, session, answered, handled>>

ReadOn(c) ==
  /\ conn[c] = "open" /\ client[c] = "full"
  /\ client' = [client EXCEPT ![c] = "reads"]
  /\ UNCHANGED <<listener, conn, sent, inbox, session, answered, handled>>

\* The stream is destroyed at the end of doSession: what is unread is lost.
Close(c) ==
  /\ conn' = [conn EXCEPT ![c] = "closed"]
  /\ inbox' = [inbox EXCEPT ![c] = <<>>]
  /\ session' = [session EXCEPT ![c] = Idle]
  /\ UNCHANGED <<client, sent>>

\* async_read with its timeout of 30 seconds; it fails when the client has
\* closed or says nothing, and when what has arrived is no request.  In a
\* mutant the buffer is forgotten between requests.
Forgotten(c) == <<>>
Unread(c) == Tail(inbox[c])
ReadRequest(c) ==
  /\ session[c].at = "read" /\ inbox[c] # <<>>
  /\ session' = [session EXCEPT ![c] = [at |-> "handle", request |-> Head(inbox[c]), answer |-> "none"]]
  /\ inbox' = [inbox EXCEPT ![c] = Unread(c)]
  /\ UNCHANGED <<listener, conn, client, sent, answered, handled>>

ReadFails(c) ==
  /\ session[c].at = "read"
  /\ Close(c)
  /\ UNCHANGED <<listener, answered, handled>>

\* requestHandler returns an answer, or an exception leaves it: doSession
\* catches a system_error, and detached drops any other.
Answer(c, kind) ==
  /\ session[c].at = "handle"
  /\ handled' = [handled EXCEPT ![c] = @ \cup {session[c].request}]
  /\ session' = [session EXCEPT ![c] = [at |-> "write", request |-> session[c].request, answer |-> kind]]
  /\ UNCHANGED <<listener, link, answered>>

\* A mutant lets the exception out of the thread pool.
HandlerEndsListener(c) ==
  /\ session[c].at = "handle"
  /\ handled' = [handled EXCEPT ![c] = @ \cup {session[c].request}]
  /\ listener' = "ended" /\ Close(c)
  /\ UNCHANGED answered
HandlerThrows(c) ==
  /\ session[c].at = "handle"
  /\ handled' = [handled EXCEPT ![c] = @ \cup {session[c].request}]
  /\ Close(c)
  /\ UNCHANGED <<listener, answered>>

\* A mutant keeps the connection whatever the answer was.
NeverEof(kind) == FALSE
NeedEof(kind) == kind \notin Framed

\* async_write of the answer, then the next request unless it needs the end.
WriteAnswer(c) ==
  /\ session[c].at = "write" /\ client[c] # "full"
  /\ answered' = [answered EXCEPT ![c] = Append(@, [request |-> session[c].request, kind |-> session[c].answer])]
  /\ IF NeedEof(session[c].answer) THEN Close(c)
     ELSE /\ session' = [session EXCEPT ![c] = [at |-> "read", request |-> 0, answer |-> "none"]]
          /\ UNCHANGED link
  /\ UNCHANGED <<listener, handled>>

\* The connection is broken, or the 10 seconds of the write are over, for a
\* client that stays and does not read or reads slowly.  A mutant has no limit.
WriteWithoutLimit(c) ==
  /\ session[c].at = "write" /\ client[c] = "gone"
  /\ Close(c)
  /\ UNCHANGED <<listener, answered, handled>>
WriteFails(c) ==
  /\ session[c].at = "write"
  /\ Close(c)
  /\ UNCHANGED <<listener, answered, handled>>

Serve(c) ==
  \/ ReadRequest(c) \/ ReadFails(c) \/ HandlerThrows(c) \/ WriteAnswer(c) \/ WriteFails(c)
  \/ \E kind \in Kinds : Answer(c, kind)

Quiet == (\A c \in Conns : conn[c] = "closed" \/ (conn[c] = "backlog" /\ listener = "ended")) /\ UNCHANGED listenerVars
ListenerNext ==
  \/ \E c \in Conns : Dial(c) \/ Accept(c) \/ Send(c) \/ Hangup(c) \/ StopReading(c) \/ ReadOn(c) \/ Serve(c)
  \/ Quiet

ListenerSpec == ListenerInit /\ [][ListenerNext]_listenerVars

\* Handlers end, and the stream's timers end reads and writes.
FairListenerSpec == ListenerSpec /\ \A c \in Conns : WF_listenerVars(Serve(c)) /\ WF_listenerVars(Accept(c))

-----------------------------------------------------------------------------
(***************************************************************************)
(* The client can tell its answers apart: they come in the order of its    *)
(* requests, none left out and none twice, although the requests arrive    *)
(* faster than they are answered, and only the last may be one that ends   *)
(* with the connection.                                                    *)
(***************************************************************************)
AnswersInOrder ==
  \A c \in Conns : \A k \in DOMAIN answered[c] :
    /\ answered[c][k].request = k
    /\ k < Len(answered[c]) => answered[c][k].kind \in Framed

(***************************************************************************)
(* A request that was read is handled once and answered, or the connection *)
(* is closed with at most that one request handled and not answered: what  *)
(* came after it was never handled and may be sent again.                  *)
(***************************************************************************)
AtMostOneUnanswered ==
  \A c \in Conns :
    /\ handled[c] = 1 .. Cardinality(handled[c])
    /\ Cardinality(handled[c]) \in {Len(answered[c]), Len(answered[c]) + 1}
    /\ conn[c] = "open" /\ session[c].at # "write" => Cardinality(handled[c]) = Len(answered[c])

\* Why the two hold: of the requests sent a connection has answered the
\* first ones, has at most the next one in hand, and the rest are waiting.
InHand(ses) == IF ses.at \in {"handle", "write"} THEN 1 ELSE 0
Handled(ses) == IF ses.at = "write" THEN 1 ELSE 0
Waiting(cn, ib, s, ses, ans) ==
  cn # "closed" =>
    /\ s = Len(ans) + InHand(ses) + Len(ib)
    /\ \A k \in 1 .. Len(ib) : ib[k] = Len(ans) + InHand(ses) + k
    /\ InHand(ses) = 1 => ses.request = Len(ans) + 1
Answered(cn, ans) ==
  /\ \A k \in 1 .. Len(ans) : ans[k].request = k
  /\ \A k \in 1 .. Len(ans) : k < Len(ans) \/ cn # "closed" => ans[k].kind \in Framed
HandledUpTo(cn, ses, ans, h) ==
  \/ h = 1 .. Len(ans) + Handled(ses)
  \/ cn = "closed" /\ h = 1 .. Len(ans) + 1
ConnectionInv ==
  \A c \in Conns :
    /\ Waiting(conn[c], inbox[c], sent[c], session[c], answered[c])
    /\ Answered(conn[c], answered[c])
    /\ HandledUpTo(conn[c], session[c], answered[c], handled[c])

\* Of each connection that is open, and of each that waits for accept.
SessionsEnd == \A c \in Conns : conn[c] = "open" ~> conn[c] = "closed"
ConnectionsAreAccepted ==
  /\ \A c \in Conns : conn[c] = "backlog" ~> conn[c] # "backlog" \/ listener = "ended"
  /\ [][listener' # listener => Cardinality(Open) = MaxOpen /\ \E c \in Conns : conn[c] = "backlog"]_listenerVars

(***************************************************************************)
(* The service goes on: no connection is kept for ever - a client that     *)
(* says nothing, reads nothing, closes, or gets an exception for an answer *)
(* gives its descriptor back - and every connection is accepted, whatever  *)
(* becomes of the others, unless async_accept throws. Neither an exception *)
(* of a handler nor a client that hangs up ends the listener, only a       *)
(* connection that comes while as many are open as the process may have;   *)
(* then nobody is accepted any more, however many connections close        *)
(* afterwards.                                                             *)
(***************************************************************************)
ServiceGoesOn == SessionsEnd /\ ConnectionsAreAccepted
=============================================================================
